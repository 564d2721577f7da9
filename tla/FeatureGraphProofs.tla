------------------------- MODULE FeatureGraphProofs -------------------------
(***************************************************************************)
(* Proofs about FeatureGraph for every registry, every `features` map and  *)
(* every content of the pulled features: type correctness, that a ref is   *)
(* pulled once, that the priority key is total, that exactly the closure   *)
(* of the listed refs is resolved, that the order follows the edges and is *)
(* stable, that the resolution implements InstallOrder, and the two facts  *)
(* its termination rests on: it never gets stuck, and each step leaves     *)
(* less to do.                                                             *)
(***************************************************************************)
EXTENDS FeatureGraph, SequenceTheorems, WellFoundedInduction, TLAPS

-----------------------------------------------------------------------------
(* Sequences and functions. *)

\* Appending adds one element to the elements of a sequence.
LEMMA RangeAppend ==
    ASSUME NEW S, NEW s \in Seq(S), NEW x \in S
    PROVE  /\ Append(s, x) \in Seq(S)
           /\ Len(Append(s, x)) = Len(s) + 1
           /\ \A i \in 1 .. Len(s) : Append(s, x)[i] = s[i]
           /\ Append(s, x)[Len(s) + 1] = x
           /\ Range(Append(s, x)) = Range(s) \cup {x}
<1>1. /\ Append(s, x) \in Seq(S)
      /\ Len(Append(s, x)) = Len(s) + 1
      /\ \A i \in 1 .. Len(s) : Append(s, x)[i] = s[i]
      /\ Append(s, x)[Len(s) + 1] = x
  OBVIOUS
<1>2. /\ DOMAIN s = 1 .. Len(s)
      /\ DOMAIN Append(s, x) = 1 .. Len(s) + 1
      /\ Len(s) \in Nat
  OBVIOUS
<1>3. ASSUME NEW y \in Range(Append(s, x))
      PROVE  y \in Range(s) \cup {x}
  <2>1. PICK i \in 1 .. Len(s) + 1 : y = Append(s, x)[i]
    BY <1>2 DEF Range
  <2>2. CASE i \in 1 .. Len(s)
    BY <1>1, <1>2, <2>1, <2>2 DEF Range
  <2>3. CASE i = Len(s) + 1
    BY <1>1, <2>1, <2>3
  <2>. QED
    BY <1>2, <2>2, <2>3
<1>4. Range(s) \subseteq Range(Append(s, x))
  <2>1. ASSUME NEW i \in 1 .. Len(s)
        PROVE  s[i] \in Range(Append(s, x))
    <3>1. i \in DOMAIN Append(s, x) /\ Append(s, x)[i] = s[i]
      BY <1>1, <1>2
    <3>. QED
      BY <3>1 DEF Range
  <2>. QED
    BY <1>2, <2>1 DEF Range
<1>5. x \in Range(Append(s, x))
  <2>1. Len(s) + 1 \in DOMAIN Append(s, x)
    BY <1>2
  <2>. QED
    BY <1>1, <2>1 DEF Range
<1>. QED
  BY <1>1, <1>3, <1>4, <1>5

\* The elements of a non-empty sequence are its head and those of its tail.
LEMMA RangeHeadTail ==
    ASSUME NEW S, NEW s \in Seq(S), s # <<>>
    PROVE  /\ Head(s) \in S
           /\ Tail(s) \in Seq(S)
           /\ Len(Tail(s)) = Len(s) - 1
           /\ \A i \in 1 .. Len(s) - 1 : Tail(s)[i] = s[i + 1]
           /\ Range(s) = {Head(s)} \cup Range(Tail(s))
<1>1. /\ Head(s) \in S
      /\ Head(s) = s[1]
      /\ Tail(s) \in Seq(S)
      /\ Len(Tail(s)) = Len(s) - 1
      /\ \A i \in 1 .. Len(s) - 1 : Tail(s)[i] = s[i + 1]
      /\ Len(s) \in Nat \ {0}
  OBVIOUS
<1>2. /\ DOMAIN s = 1 .. Len(s)
      /\ DOMAIN Tail(s) = 1 .. Len(s) - 1
  BY <1>1
<1>3. ASSUME NEW y \in Range(s)
      PROVE  y \in {Head(s)} \cup Range(Tail(s))
  <2>1. PICK i \in 1 .. Len(s) : y = s[i]
    BY <1>2 DEF Range
  <2>2. CASE i = 1
    BY <1>1, <2>1, <2>2
  <2>3. CASE i # 1
    <3>1. i - 1 \in 1 .. Len(s) - 1 /\ (i - 1) + 1 = i
      BY <1>1, <2>3
    <3>2. y = Tail(s)[i - 1]
      BY <1>1, <2>1, <3>1
    <3>. QED
      BY <1>2, <3>1, <3>2 DEF Range
  <2>. QED
    BY <2>2, <2>3
<1>4. Head(s) \in Range(s)
  <2>1. 1 \in DOMAIN s
    BY <1>1, <1>2
  <2>. QED
    BY <1>1, <2>1 DEF Range
<1>5. Range(Tail(s)) \subseteq Range(s)
  <2>1. ASSUME NEW i \in 1 .. Len(s) - 1
        PROVE  Tail(s)[i] \in Range(s)
    <3>1. i + 1 \in DOMAIN s
      BY <1>1, <1>2
    <3>. QED
      BY <1>1, <3>1 DEF Range
  <2>. QED
    BY <1>2, <2>1 DEF Range
<1>. QED
  BY <1>1, <1>3, <1>4, <1>5

\* A sequence without repetitions, in the form the worklist and the listing
\* order need it.
NoRepeat(s) == \A i, j \in DOMAIN s : s[i] = s[j] => i = j

LEMMA NoRepeatAppend ==
    ASSUME NEW S, NEW s \in Seq(S), NEW x \in S, NoRepeat(s), x \notin Range(s)
    PROVE  NoRepeat(Append(s, x))
<1>1. DOMAIN s = 1 .. Len(s) /\ Len(s) \in Nat
  OBVIOUS
<1>2. SUFFICES ASSUME NEW i \in 1 .. Len(s) + 1, NEW j \in 1 .. Len(s) + 1,
                      Append(s, x)[i] = Append(s, x)[j]
               PROVE  i = j
  BY RangeAppend DEF NoRepeat
<1>3. ASSUME NEW k \in 1 .. Len(s) + 1
      PROVE  \/ k \in 1 .. Len(s) /\ Append(s, x)[k] = s[k] /\ s[k] \in Range(s)
             \/ k = Len(s) + 1 /\ Append(s, x)[k] = x
  BY <1>1, RangeAppend DEF Range
<1>. QED
  BY <1>1, <1>2, <1>3 DEF NoRepeat

LEMMA NoRepeatTail ==
    ASSUME NEW S, NEW s \in Seq(S), s # <<>>, NoRepeat(s)
    PROVE  NoRepeat(Tail(s)) /\ Head(s) \notin Range(Tail(s))
<1>1. /\ DOMAIN s = 1 .. Len(s)
      /\ DOMAIN Tail(s) = 1 .. Len(s) - 1
      /\ Len(s) \in Nat \ {0}
      /\ Head(s) = s[1]
      /\ \A i \in 1 .. Len(s) - 1 : Tail(s)[i] = s[i + 1]
  OBVIOUS
<1>2. ASSUME NEW i \in DOMAIN Tail(s), NEW j \in DOMAIN Tail(s),
             Tail(s)[i] = Tail(s)[j]
      PROVE  i = j
  <2>1. s[i + 1] = s[j + 1] /\ i + 1 \in DOMAIN s /\ j + 1 \in DOMAIN s
    BY <1>1, <1>2
  <2>2. i + 1 = j + 1
    BY <2>1 DEF NoRepeat
  <2>. QED
    BY <1>1, <2>2
<1>3. ASSUME NEW i \in DOMAIN Tail(s), Tail(s)[i] = Head(s)
      PROVE  FALSE
  <2>1. s[i + 1] = s[1] /\ i + 1 \in DOMAIN s /\ 1 \in DOMAIN s
    BY <1>1, <1>3
  <2>2. i + 1 = 1
    BY <2>1 DEF NoRepeat
  <2>. QED
    BY <1>1, <2>2
<1>. QED
  BY <1>2, <1>3 DEF NoRepeat, Range

LEMMA PutProperties ==
    ASSUME NEW f, NEW x, NEW y
    PROVE  /\ DOMAIN Put(f, x, y) = DOMAIN f \cup {x}
           /\ Put(f, x, y)[x] = y
           /\ \A z \in DOMAIN f : z # x => Put(f, x, y)[z] = f[z]
BY DEF Put

-----------------------------------------------------------------------------
(* Type correctness. *)

\* What a pulled spec lists are refs.
LEMMA SpecTypes ==
    ASSUME NEW spec \in FeatureSpecs
    PROVE  spec.dependsOn \in Seq(Ref) /\ spec.installsAfter \subseteq Ref
BY SpecsAssumption

LEMMA TypeInit == Init => TypeOK
<1>. SUFFICES ASSUME Init PROVE TypeOK
  OBVIOUS
<1>1. listed \in Seq(Ref)
  BY ListingsAssumption DEF Init
<1>2. Pulled = {} /\ DOMAIN dependsonIndex = {}
  BY DEF Init, Pulled
<1>3. specs \in [Pulled -> FeatureSpecs]
  BY <1>2 DEF Init
<1>4. dependsonIndex \in [DOMAIN dependsonIndex -> 0 .. dependsonCounter - 1]
  BY <1>2 DEF Init
<1>. QED
  BY <1>1, <1>2, <1>3, <1>4 DEF Init, TypeOK

LEMMA TypeStep == TypeOK /\ [Next]_vars => TypeOK'
<1>. SUFFICES ASSUME TypeOK, [Next]_vars PROVE TypeOK'
  OBVIOUS
<1>. USE DEF TypeOK
<1>1. CASE Normalise
  <2>1. Head(listed) \in Ref /\ Tail(listed) \in Seq(Ref)
    BY <1>1, RangeHeadTail DEF Normalise
  <2>2. Append(explicitOrder, Head(listed)) \in Seq(Ref)
    BY <2>1, RangeAppend
  <2>. QED
    BY <1>1, <2>1, <2>2 DEF Normalise, Pulled
<1>2. CASE StartPulling
  BY <1>2 DEF StartPulling, Pulled
<1>3. CASE Pull
  <2>1. Head(queue) \in Ref /\ Tail(queue) \in Seq(Ref)
    BY <1>3, RangeHeadTail DEF Pull
  <2>2. PICK spec \in FeatureSpecs :
           specs' = Put(specs, Head(queue), spec) /\ todo' = spec.dependsOn
    BY <1>3 DEF Pull
  <2>3. todo' \in Seq(Ref)
    BY <2>2, SpecTypes
  <2>4. Pulled' = Pulled \cup {Head(queue)}
    BY <2>2, PutProperties DEF Pulled
  <2>5. specs' \in [Pulled' -> FeatureSpecs]
    BY <2>2, <2>4 DEF Put, Pulled
  <2>. QED
    BY <1>3, <2>1, <2>3, <2>4, <2>5 DEF Pull
<1>4. CASE PullFails
  BY <1>4 DEF PullFails, Pulled
<1>5. CASE VisitDependency
  <2>1. Head(todo) \in Ref /\ Tail(todo) \in Seq(Ref)
    BY <1>5, RangeHeadTail DEF VisitDependency, IsNew, NewNumber, Rest
  <2>2. queue' \in Seq(Ref)
    BY <1>5, <2>1, RangeAppend DEF VisitDependency, IsNew, NewNumber, Rest
  <2>3. /\ DOMAIN dependsonIndex' \subseteq Ref
        /\ dependsonCounter' \in Nat
        /\ dependsonIndex' \in
               [DOMAIN dependsonIndex' -> 0 .. dependsonCounter' - 1]
    <3>1. CASE /\ dependsonIndex' = Put(dependsonIndex, Head(todo),
                                        dependsonCounter)
               /\ dependsonCounter' = dependsonCounter + 1
      BY <2>1, <3>1 DEF Put
    <3>2. CASE /\ dependsonIndex' = dependsonIndex
               /\ dependsonCounter' = dependsonCounter
      BY <3>2
    <3>. QED
      BY <1>5, <3>1, <3>2 DEF VisitDependency, IsNew, NewNumber, Rest
  <2>. QED
    BY <1>5, <2>1, <2>2, <2>3 DEF VisitDependency, IsNew, NewNumber, Rest, Pulled
<1>6. CASE StartOrdering
  BY <1>6 DEF StartOrdering, Pulled
<1>7. CASE Place
  <2>1. PICK r \in Ready : ordered' = Append(ordered, r)
    BY <1>7 DEF Place, First
  <2>2. r \in Ref
    BY DEF Ready, Remaining
  <2>. QED
    BY <1>7, <2>1, <2>2, RangeAppend DEF Place, First, Pulled
<1>8. CASE Finish
  BY <1>8 DEF Finish, Pulled
<1>9. CASE Blocked
  <2>1. PICK start \in Remaining : path' = <<start>>
    BY <1>9 DEF Blocked
  <2>2. path' \in Seq(Ref)
    BY <2>1 DEF Remaining
  <2>. QED
    BY <1>9, <2>2 DEF Blocked, Pulled
<1>10. CASE Walk
  <2>1. PICK r \in Ref : path' = Append(path, r)
    BY <1>10 DEF Walk
  <2>. QED
    BY <1>10, <2>1, RangeAppend DEF Walk, Pulled
<1>11. CASE CycleFound
  <2>1. PICK i \in DOMAIN path :
           path' = Append(SubSeq(path, i, Len(path)), path[i])
    BY <1>11 DEF CycleFound
  <2>2. i \in 1 .. Len(path) /\ path[i] \in Ref
    BY <2>1
  <2>3. SubSeq(path, i, Len(path)) \in Seq(Ref)
    BY <2>2
  <2>4. path' \in Seq(Ref)
    BY <2>1, <2>2, <2>3, RangeAppend
  <2>. QED
    BY <1>11, <2>4 DEF CycleFound, Pulled
<1>12. CASE UNCHANGED vars
  BY <1>12 DEF vars, Pulled
<1>. QED
  BY <1>1, <1>2, <1>3, <1>4, <1>5, <1>6, <1>7, <1>8, <1>9, <1>10, <1>11,
     <1>12 DEF Next, Resolve, Returned

\* The resolution keeps its types, and the discovery numbers stay below the
\* counter, whatever the registry holds.
THEOREM TypeCorrect == Spec => []TypeOK
BY TypeInit, TypeStep, PTL DEF Spec

-----------------------------------------------------------------------------
(* The worklist. *)

\* What each phase leaves empty, and that neither list repeats a ref.
WorklistInv ==
    /\ NoRepeat(explicitOrder)
    /\ QueueIsFresh
    /\ pc = "normalise" =>
          /\ queue = <<>> /\ todo = <<>>
          /\ Pulled = {} /\ DOMAIN dependsonIndex = {}
    /\ Resolved => queue = <<>> /\ todo = <<>>
    /\ ~Resolved => ordered = <<>>

\* Discovery numbers: given to refs that are not listed, all different, and to
\* every such ref that was queued.
NumberingInv ==
    /\ DOMAIN dependsonIndex \cap Explicit = {}
    /\ \A r, s \in DOMAIN dependsonIndex :
          dependsonIndex[r] = dependsonIndex[s] => r = s
    /\ pc # "normalise" =>
          Pulled \cup Range(queue) \subseteq Explicit \cup DOMAIN dependsonIndex

\* The refs the worklist knows of are reached from the listed ones, and what a
\* pulled ref depends on is known.
Known == Pulled \cup Range(queue) \cup Range(todo)

ClosureInv ==
    pc # "normalise" =>
        /\ Explicit \subseteq Pulled \cup Range(queue)
        /\ \A r \in Pulled : Range(specs[r].dependsOn) \subseteq Known
        /\ \A S \in SUBSET Ref :
              /\ Explicit \subseteq S
              /\ \A r \in S \cap Pulled : Range(specs[r].dependsOn) \subseteq S
              => Known \subseteq S

LEMMA EmptyRange == Range(<<>>) = {} /\ DOMAIN <<>> = {}
BY DEF Range

LEMMA WorklistInit == Init => WorklistInv /\ NumberingInv /\ ClosureInv
BY EmptyRange
   DEF Init, WorklistInv, NumberingInv, ClosureInv, NoRepeat, QueueIsFresh,
       Resolved, Pulled, Explicit

LEMMA WorklistStep ==
    TypeOK /\ WorklistInv /\ [Next]_vars => WorklistInv'
<1>. SUFFICES ASSUME TypeOK, WorklistInv, [Next]_vars PROVE WorklistInv'
  OBVIOUS
<1>. USE DEF WorklistInv
<1>0. /\ listed \in Seq(Ref) /\ explicitOrder \in Seq(Ref)
      /\ queue \in Seq(Ref) /\ todo \in Seq(Ref)
  BY DEF TypeOK
<1>1. CASE Normalise
  <2>1. NoRepeat(explicitOrder')
    BY <1>0, <1>1, RangeHeadTail, NoRepeatAppend DEF Normalise, Explicit
  <2>. QED
    BY <1>1, <2>1 DEF Normalise, Pulled, QueueIsFresh, Resolved
<1>2. CASE StartPulling
  <2>1. QueueIsFresh'
    BY <1>2 DEF StartPulling, QueueIsFresh, NoRepeat, Pulled
  <2>. QED
    BY <1>2, <2>1 DEF StartPulling, Pulled, Resolved
<1>3. CASE Pull
  <2>1. queue # <<>> /\ queue' = Tail(queue)
    BY <1>3 DEF Pull
  <2>2. NoRepeat(queue') /\ Head(queue) \notin Range(queue')
    BY <1>0, <2>1, NoRepeatTail DEF QueueIsFresh, NoRepeat
  <2>3. Range(queue') \subseteq Range(queue)
    BY <1>0, <2>1, RangeHeadTail
  <2>4. Pulled' = Pulled \cup {Head(queue)}
    BY <1>3, PutProperties DEF Pull, Pulled
  <2>5. QueueIsFresh'
    BY <2>2, <2>3, <2>4 DEF QueueIsFresh, NoRepeat
  <2>. QED
    BY <1>3, <2>5 DEF Pull, Resolved
<1>4. CASE PullFails
  BY <1>4 DEF PullFails, QueueIsFresh, Pulled, Resolved
<1>5. CASE VisitDependency
  <2>1. Head(todo) \in Ref
    BY <1>0, <1>5, RangeHeadTail DEF VisitDependency, IsNew, NewNumber, Rest
  <2>2. CASE queue' = queue
    BY <1>5, <2>2 DEF VisitDependency, IsNew, NewNumber, Rest, QueueIsFresh, Pulled, Resolved
  <2>3. CASE /\ Head(todo) \notin Pulled \cup Range(queue)
             /\ queue' = Append(queue, Head(todo))
    <3>1. NoRepeat(queue')
      BY <1>0, <2>1, <2>3, NoRepeatAppend DEF QueueIsFresh, NoRepeat
    <3>2. Range(queue') = Range(queue) \cup {Head(todo)}
      BY <1>0, <2>1, <2>3, RangeAppend
    <3>3. Pulled' = Pulled
      BY <1>5 DEF VisitDependency, IsNew, NewNumber, Rest, Pulled
    <3>4. QueueIsFresh'
      BY <2>3, <3>1, <3>2, <3>3 DEF QueueIsFresh, NoRepeat
    <3>. QED
      BY <1>5, <3>4 DEF VisitDependency, IsNew, NewNumber, Rest, Resolved
  <2>. QED
    BY <1>5, <2>2, <2>3 DEF VisitDependency, IsNew, NewNumber, Rest
<1>6. CASE StartOrdering
  BY <1>6 DEF StartOrdering, QueueIsFresh, Pulled, Resolved
<1>7. CASE Place
  BY <1>7 DEF Place, First, QueueIsFresh, Pulled, Resolved
<1>8. CASE Finish
  BY <1>8 DEF Finish, QueueIsFresh, Pulled, Resolved
<1>9. CASE Blocked
  BY <1>9 DEF Blocked, QueueIsFresh, Pulled, Resolved
<1>10. CASE Walk
  BY <1>10 DEF Walk, QueueIsFresh, Pulled, Resolved
<1>11. CASE CycleFound
  BY <1>11 DEF CycleFound, QueueIsFresh, Pulled, Resolved
<1>12. CASE UNCHANGED vars
  BY <1>12 DEF vars, QueueIsFresh, Pulled, Resolved
<1>. QED
  BY <1>1, <1>2, <1>3, <1>4, <1>5, <1>6, <1>7, <1>8, <1>9, <1>10, <1>11,
     <1>12 DEF Next, Resolve, Returned

\* Steps after the worklist change neither the queue nor what it has found.
Kept ==
    UNCHANGED <<explicitOrder, queue, specs, todo, dependsonIndex>>

LEMMA NumberingStep ==
    TypeOK /\ WorklistInv /\ NumberingInv /\ [Next]_vars => NumberingInv'
<1>. SUFFICES ASSUME TypeOK, WorklistInv, NumberingInv, [Next]_vars
              PROVE  NumberingInv'
  OBVIOUS
<1>0. /\ listed \in Seq(Ref) /\ explicitOrder \in Seq(Ref)
      /\ queue \in Seq(Ref) /\ todo \in Seq(Ref)
  BY DEF TypeOK
<1>1. CASE Normalise
  BY <1>1 DEF Normalise, NumberingInv, WorklistInv
<1>2. CASE StartPulling
  <2>1. Pulled' = {} /\ Range(queue') = Explicit'
    BY <1>2 DEF StartPulling, WorklistInv, Pulled, Explicit
  <2>. QED
    BY <1>2, <2>1 DEF StartPulling, NumberingInv, Explicit
<1>3. CASE Pull
  <2>1. Range(queue) = {Head(queue)} \cup Range(queue')
    BY <1>0, <1>3, RangeHeadTail DEF Pull
  <2>2. Pulled' = Pulled \cup {Head(queue)}
    BY <1>3, PutProperties DEF Pull, Pulled
  <2>. QED
    BY <1>3, <2>1, <2>2 DEF Pull, NumberingInv, Explicit
<1>4. CASE VisitDependency
  <2> DEFINE dep == Head(todo)
             new == dep \notin Pulled \cup Range(queue)
             numbered == new /\ dep \notin Explicit \cup DOMAIN dependsonIndex
  <2>1. /\ dep \in Ref
        /\ pc # "normalise" /\ Pulled' = Pulled /\ Explicit' = Explicit
    BY <1>0, <1>4, RangeHeadTail DEF VisitDependency, IsNew, NewNumber, Rest, Pulled, Explicit
  <2>2. /\ queue' = IF new THEN Append(queue, dep) ELSE queue
        /\ dependsonIndex' = IF numbered
                             THEN Put(dependsonIndex, dep, dependsonCounter)
                             ELSE dependsonIndex
    BY <1>4 DEF VisitDependency, IsNew, NewNumber, Rest
  <2>3. Range(queue') = IF new THEN Range(queue) \cup {dep} ELSE Range(queue)
    <3>1. queue \in Seq(Ref) /\ dep \in Ref
      BY <1>0, <2>1
    <3>2. Range(Append(queue, dep)) = Range(queue) \cup {dep}
      BY <3>1, RangeAppend
    <3>. HIDE DEF dep, new
    <3>. QED
      BY <2>2, <3>2
  <2>. HIDE DEF dep, new
  <2>4. CASE ~numbered
    BY <2>1, <2>2, <2>3, <2>4 DEF NumberingInv
  <2>5. CASE numbered
    <3>1. /\ DOMAIN dependsonIndex' = DOMAIN dependsonIndex \cup {dep}
          /\ dependsonIndex'[dep] = dependsonCounter
          /\ \A r \in DOMAIN dependsonIndex : r # dep
          /\ \A r \in DOMAIN dependsonIndex :
                dependsonIndex'[r] = dependsonIndex[r]
      <4>1. dependsonIndex' = Put(dependsonIndex, dep, dependsonCounter)
        BY <2>2, <2>5
      <4>. QED
        BY <2>5, <4>1 DEF Put
    <3>2. \A r \in DOMAIN dependsonIndex : dependsonIndex[r] # dependsonCounter
      BY DEF TypeOK
    <3>3. DOMAIN dependsonIndex' \cap Explicit' = {}
      BY <2>1, <2>5, <3>1 DEF NumberingInv
    <3>4. \A r, s \in DOMAIN dependsonIndex' :
             dependsonIndex'[r] = dependsonIndex'[s] => r = s
      BY <3>1, <3>2 DEF NumberingInv
    <3>5. Pulled' \cup Range(queue') \subseteq Explicit' \cup DOMAIN dependsonIndex'
      BY <2>1, <2>3, <3>1 DEF NumberingInv
    <3>. QED
      BY <3>3, <3>4, <3>5 DEF NumberingInv
  <2>. QED
    BY <2>4, <2>5
<1>5. CASE Kept /\ (pc' = "normalise" <=> pc = "normalise")
  <2>1. Pulled' = Pulled /\ Explicit' = Explicit /\ Range(queue') = Range(queue)
    BY <1>5 DEF Kept, Pulled, Explicit
  <2>. QED
    BY <1>5, <2>1 DEF Kept, NumberingInv
<1>. QED
  BY <1>1, <1>2, <1>3, <1>4, <1>5
     DEF Next, Resolve, Returned, Kept, vars, PullFails, StartOrdering, Place, First,
         Finish, Blocked, Walk, CycleFound

LEMMA ClosureStep ==
    TypeOK /\ WorklistInv /\ ClosureInv /\ [Next]_vars => ClosureInv'
<1>. SUFFICES ASSUME TypeOK, WorklistInv, ClosureInv, [Next]_vars
              PROVE  ClosureInv'
  OBVIOUS
<1>0. /\ listed \in Seq(Ref) /\ explicitOrder \in Seq(Ref)
      /\ queue \in Seq(Ref) /\ todo \in Seq(Ref)
      /\ specs \in [Pulled -> FeatureSpecs]
  BY DEF TypeOK
<1>1. CASE Normalise
  BY <1>1 DEF Normalise, ClosureInv
<1>2. CASE StartPulling
  <2>1. /\ Pulled' = {} /\ Range(queue') = Explicit' /\ Range(todo') = {}
    BY <1>2, EmptyRange DEF StartPulling, WorklistInv, Pulled, Explicit
  <2>. QED
    BY <2>1 DEF ClosureInv, Known
<1>3. CASE Pull
  <2> DEFINE ref == Head(queue)
  <2>1. PICK spec \in FeatureSpecs :
           specs' = Put(specs, ref, spec) /\ todo' = spec.dependsOn
    BY <1>3 DEF Pull
  <2>2. Range(queue) = {ref} \cup Range(queue')
    BY <1>0, <1>3, RangeHeadTail DEF Pull
  <2>3. /\ Pulled' = Pulled \cup {ref}
        /\ ref \notin Pulled
        /\ specs'[ref] = spec
        /\ \A r \in Pulled : specs'[r] = specs[r]
    <3>1. ref \notin Pulled
      BY <1>3 DEF Pull
    <3>. QED
      BY <2>1, <3>1 DEF Pulled, Put
  <2>4. Range(todo) = {} /\ pc # "normalise" /\ Explicit' = Explicit
    BY <1>3, EmptyRange DEF Pull, Explicit
  <2>5. Known' = Known \cup Range(spec.dependsOn)
    BY <2>1, <2>2, <2>3, <2>4 DEF Known
  <2>6. Explicit' \subseteq Pulled' \cup Range(queue')
    BY <2>2, <2>3, <2>4 DEF ClosureInv
  <2>7. \A r \in Pulled' : Range(specs'[r].dependsOn) \subseteq Known'
    BY <2>3, <2>4, <2>5 DEF ClosureInv
  <2>8. ASSUME NEW S \in SUBSET Ref, Explicit' \subseteq S,
               \A r \in S \cap Pulled' : Range(specs'[r].dependsOn) \subseteq S
        PROVE  Known' \subseteq S
    <3>1. Known \subseteq S
      BY <2>3, <2>4, <2>8 DEF ClosureInv
    <3>2. ref \in S
      BY <2>2, <3>1 DEF Known
    <3>3. Range(spec.dependsOn) \subseteq S
      BY <2>3, <2>8, <3>2
    <3>. QED
      BY <2>5, <3>1, <3>3
  <2>. QED
    BY <2>6, <2>7, <2>8 DEF ClosureInv
<1>4. CASE VisitDependency
  <2>1. /\ Head(todo) \in Ref
        /\ Range(todo) = {Head(todo)} \cup Range(todo')
    BY <1>0, <1>4, RangeHeadTail DEF VisitDependency, IsNew, NewNumber, Rest
  <2>2. \/ Range(queue') = Range(queue) \cup {Head(todo)}
        \/ queue' = queue /\ Head(todo) \in Pulled \cup Range(queue)
    BY <1>0, <1>4, <2>1, RangeAppend DEF VisitDependency, IsNew, NewNumber, Rest
  <2>3. /\ pc # "normalise" /\ specs' = specs
        /\ Pulled' = Pulled /\ Explicit' = Explicit
    BY <1>4 DEF VisitDependency, IsNew, NewNumber, Rest, Pulled, Explicit
  <2>4. Known' = Known /\ Range(queue) \subseteq Range(queue')
    BY <2>1, <2>2, <2>3 DEF Known
  <2>. QED
    BY <2>3, <2>4 DEF ClosureInv
<1>5. CASE Kept /\ (pc' = "normalise" <=> pc = "normalise")
  BY <1>5 DEF Kept, ClosureInv, Pulled, Explicit, Known
<1>. QED
  BY <1>1, <1>2, <1>3, <1>4, <1>5
     DEF Next, Resolve, Returned, Kept, vars, PullFails, StartOrdering, Place, First,
         Finish, Blocked, Walk, CycleFound

-----------------------------------------------------------------------------
(* The order. *)

OrderInv == OrderFollowsEdges /\ OrderIsStable

\* What OrderInv says of position i.
PlacedWell(i) ==
    /\ ordered[i] \notin Placed(i)
    /\ After(ordered[i]) \subseteq Placed(i)
    /\ \A r \in Pulled \ Placed(i) :
          r = ordered[i] \/ Before(ordered[i], r) \/ ~(After(r) \subseteq Placed(i))

LEMMA OrderByPosition ==
    OrderInv <=> /\ Done \subseteq Pulled
                 /\ pc = "ok" => Done = Pulled
                 /\ \A i \in DOMAIN ordered : PlacedWell(i)
BY DEF OrderInv, OrderFollowsEdges, OrderIsStable, PlacedWell

\* The graph and the keys do not change any more once the sort has started, so
\* what is true of a position stays true.
LEMMA PlacedWellKept ==
    ASSUME UNCHANGED <<specs, explicitOrder, dependsonIndex>>,
           NEW i, ordered[i]' = ordered[i], Placed(i)' = Placed(i),
           PlacedWell(i)
    PROVE  PlacedWell(i)'
BY DEF PlacedWell, After, Before, Priority, Position, Explicit, Pulled

LEMMA OrderEmpty ==
    ASSUME ordered = <<>>, pc # "ok"
    PROVE  OrderInv
BY EmptyRange DEF OrderInv, OrderFollowsEdges, OrderIsStable, Done

\* Placing r, free and least among the free refs, keeps both parts.
LEMMA OrderPlace ==
    TypeOK /\ OrderInv /\ Place => OrderInv'
<1>. SUFFICES ASSUME TypeOK, OrderInv, Place PROVE OrderInv'
  OBVIOUS
<1>0. PICK n \in Nat : n = Len(ordered)
  <2>1. Len(ordered) \in Nat
    BY DEF TypeOK
  <2>. QED
    BY <2>1
<1>1. PICK r \in Ready : /\ \A s \in Ready : s = r \/ Before(r, s)
                         /\ ordered' = Append(ordered, r)
  BY DEF Place, First
<1>2. /\ r \in Pulled /\ r \notin Done /\ After(r) \subseteq Done /\ r \in Ref
      /\ ordered \in Seq(Ref) /\ n = Len(ordered)
  BY <1>0, <1>1 DEF Ready, Remaining, TypeOK
<1>3. UNCHANGED <<specs, explicitOrder, dependsonIndex>> /\ Pulled' = Pulled
  BY DEF Place, First, Pulled
<1>4. /\ Done' = Done \cup {r}
      /\ DOMAIN ordered = 1 .. n /\ DOMAIN ordered' = 1 .. n + 1
      /\ \A i \in 1 .. n : ordered'[i] = ordered[i]
      /\ ordered'[n + 1] = r
  BY <1>1, <1>2, RangeAppend DEF Done
<1>5. \A i \in 1 .. n + 1 : Placed(i)' = Placed(i)
  BY <1>2, <1>4 DEF Placed
<1>6. Placed(n + 1) = Done
  <2>1. Placed(n + 1) = {ordered[k] : k \in 1 .. n}
    BY <1>2 DEF Placed
  <2>. QED
    BY <1>4, <2>1 DEF Done, Range
<1>7. ASSUME NEW i \in 1 .. n
      PROVE  PlacedWell(i)'
  <2>1. ordered[i]' = ordered[i] /\ Placed(i)' = Placed(i) /\ PlacedWell(i)
    BY <1>2, <1>4, <1>5, OrderByPosition
  <2>. QED
    BY <1>3, <2>1, PlacedWellKept
<1>8. PlacedWell(n + 1)'
  <2>1. /\ r \notin Done
        /\ After(r) \subseteq Done
        /\ \A s \in Pulled \ Done :
              s = r \/ Before(r, s) \/ ~(After(s) \subseteq Done)
    BY <1>1, <1>2 DEF Ready, Remaining
  <2>2. Placed(n + 1)' = Done
    BY <1>2, <1>5, <1>6
  <2>. QED
    BY <1>3, <1>4, <2>1, <2>2
       DEF PlacedWell, After, Before, Priority, Position, Explicit, Pulled
<1>9. Done' \subseteq Pulled' /\ pc' # "ok"
  BY <1>2, <1>3, <1>4 DEF OrderInv, OrderFollowsEdges, Place, First
<1>10. \A i \in DOMAIN ordered' : PlacedWell(i)'
  BY <1>2, <1>4, <1>7, <1>8
<1>. QED
  BY <1>9, <1>10
     DEF OrderInv, OrderFollowsEdges, OrderIsStable, PlacedWell

LEMMA OrderStep ==
    TypeOK /\ WorklistInv /\ OrderInv /\ [Next]_vars => OrderInv'
<1>. SUFFICES ASSUME TypeOK, WorklistInv, OrderInv, [Next]_vars
              PROVE  OrderInv'
  OBVIOUS
<1>1. CASE Place
  BY <1>1, OrderPlace
<1>2. CASE Normalise \/ StartPulling \/ Pull \/ PullFails \/ VisitDependency
           \/ StartOrdering
  <2>1. ordered' = <<>> /\ pc' # "ok"
    BY <1>2 DEF Normalise, StartPulling, Pull, PullFails, VisitDependency, IsNew, NewNumber, Rest,
                StartOrdering, WorklistInv, Resolved
  <2>. QED
    BY <2>1, EmptyRange
       DEF OrderInv, OrderFollowsEdges, OrderIsStable, Done, Pulled
<1>3. CASE \/ Finish \/ Blocked \/ Walk \/ CycleFound \/ UNCHANGED vars
  <2>1. /\ UNCHANGED <<ordered, specs, explicitOrder, dependsonIndex>>
        /\ pc' = "ok" => pc = "ok" \/ Remaining = {}
    BY <1>3 DEF Finish, Blocked, Walk, CycleFound, vars
  <2>2. Pulled' = Pulled /\ Done' = Done /\ DOMAIN ordered' = DOMAIN ordered
    BY <2>1 DEF Pulled, Done
  <2>3. pc' = "ok" => Done = Pulled
    BY <2>1 DEF OrderInv, OrderFollowsEdges, Remaining
  <2>4. ASSUME NEW i \in DOMAIN ordered
        PROVE  PlacedWell(i)'
    <3>1. ordered[i]' = ordered[i] /\ Placed(i)' = Placed(i)
      BY <2>1 DEF Placed
    <3>. QED
      BY <2>1, <3>1, OrderByPosition, PlacedWellKept
  <2>. QED
    BY <2>2, <2>3, <2>4
       DEF OrderInv, OrderFollowsEdges, OrderIsStable, PlacedWell
<1>. QED
  BY <1>1, <1>2, <1>3 DEF Next, Resolve, Returned

-----------------------------------------------------------------------------
(* The walk that names a cycle. *)

\* While it lasts, and after it, no remaining ref is free; the walk stays
\* among the remaining refs and each of its steps is an edge.
WalkInv ==
    /\ pc \in {"trace", "cycle"} => Ready = {} /\ Remaining # {}
    /\ pc \in {"trace", "cycle"} =>
          \A i \in 1 .. Len(path) - 1 : path[i + 1] \in After(path[i])
    /\ pc = "trace" => path # <<>> /\ Range(path) \subseteq Remaining
    /\ CycleIsReal

\* A remaining ref that is not free has an edge to another remaining ref.
LEMMA BlockedHasEdge ==
    ASSUME NEW r \in Remaining, r \notin Ready
    PROVE  WalkEdges(r) # {}
BY DEF Ready, Remaining, WalkEdges, After

\* The edges of a walk, whatever they lead to.
EdgesHold == \A i \in 1 .. Len(path) - 1 : path[i + 1] \in After(path[i])

LEMMA WalkStep ==
    TypeOK /\ WalkInv /\ [Next]_vars => WalkInv'
<1>. SUFFICES ASSUME TypeOK, WalkInv, [Next]_vars PROVE WalkInv'
  OBVIOUS
<1>0. PICK n \in Nat : n = Len(path)
  <2>1. Len(path) \in Nat
    BY DEF TypeOK
  <2>. QED
    BY <2>1
<1>1. CASE Blocked
  <2>1. PICK start \in Remaining : path' = <<start>>
    BY <1>1 DEF Blocked
  <2>2. /\ Len(path') = 1 /\ path' # <<>> /\ Range(path') = {start}
    BY <2>1 DEF Range
  <2>3. /\ Ready' = Ready /\ Remaining' = Remaining /\ pc' = "trace"
        /\ Ready = {} /\ Remaining # {}
    BY <1>1 DEF Blocked, Ready, Remaining, Pulled, Done, After
  <2>. QED
    BY <2>1, <2>2, <2>3 DEF WalkInv, CycleIsReal
<1>2. CASE Walk
  <2>1. PICK r \in Ref \ Range(path) :
           NextOnWalk(r) /\ path' = Append(path, r)
    BY <1>2 DEF Walk
  <2>2. r \in After(path[n]) /\ r \in Remaining
    BY <1>0, <2>1 DEF NextOnWalk, WalkEdges
  <2>3. /\ Len(path') = n + 1 /\ path'[n + 1] = r
        /\ \A i \in 1 .. n : path'[i] = path[i]
        /\ Range(path') = Range(path) \cup {r}
    BY <1>0, <2>1, RangeAppend DEF TypeOK
  <2>4. /\ specs' = specs /\ Ready' = Ready /\ Remaining' = Remaining
        /\ pc = "trace" /\ pc' = "trace"
    BY <1>2 DEF Walk, Ready, Remaining, Pulled, Done, After
  <2>5. n # 0 /\ \A i \in 1 .. n - 1 : path[i + 1] \in After(path[i])
    BY <1>0, <2>4 DEF WalkInv, TypeOK
  <2>6. ASSUME NEW i \in 1 .. n
        PROVE  path'[i + 1] \in After(path[i])
    <3>1. CASE i = n
      BY <2>2, <2>3, <3>1
    <3>2. CASE i \in 1 .. n - 1
      BY <2>3, <2>5, <3>2
    <3>. QED
      BY <3>1, <3>2
  <2>7. EdgesHold'
    BY <2>3, <2>4, <2>6 DEF EdgesHold, After, Pulled
  <2>8. path' # <<>>
    BY <2>3
  <2>. QED
    BY <2>2, <2>3, <2>4, <2>7, <2>8 DEF WalkInv, CycleIsReal, EdgesHold
<1>3. CASE CycleFound
  <2>1. PICK m \in DOMAIN path :
           /\ NextOnWalk(path[m])
           /\ path' = Append(SubSeq(path, m, Len(path)), path[m])
    BY <1>3 DEF CycleFound
  <2>2. path[m] \in After(path[n])
    BY <1>0, <2>1 DEF NextOnWalk, WalkEdges
  <2>3. m \in 1 .. n /\ path[m] \in Ref
    BY <1>0, <2>1 DEF TypeOK
  <2>4. m < n
    <3>1. path[n] \notin After(path[n])
      BY DEF After
    <3>. QED
      BY <2>2, <2>3, <3>1
  <2>5. /\ SubSeq(path, m, n) \in Seq(Ref)
        /\ Len(SubSeq(path, m, n)) = n - m + 1
        /\ \A k \in 1 .. n - m + 1 : SubSeq(path, m, n)[k] = path[m + k - 1]
    <3>1. /\ path \in Seq(Ref) /\ m \in 1 .. Len(path) + 1
          /\ n \in m - 1 .. Len(path)
      BY <1>0, <2>3 DEF TypeOK
    <3>2. /\ SubSeq(path, m, n) \in Seq(Ref)
          /\ Len(SubSeq(path, m, n)) = IF m <= n THEN n - m + 1 ELSE 0
      BY <3>1, SubSeqProperties
    <3>3. \A k \in 1 .. n - m + 1 : SubSeq(path, m, n)[k] = path[m + k - 1]
      BY <3>1, SubSeqProperties
    <3>. QED
      BY <2>3, <3>2, <3>3
  <2>6. /\ Len(path') = n - m + 2
        /\ \A k \in 1 .. n - m + 1 : path'[k] = path[m + k - 1]
        /\ path'[n - m + 2] = path[m]
    BY <1>0, <2>1, <2>3, <2>5, RangeAppend
  <2>7. /\ specs' = specs /\ Ready' = Ready /\ Remaining' = Remaining
        /\ pc = "trace" /\ pc' = "cycle"
    BY <1>3 DEF CycleFound, Ready, Remaining, Pulled, Done, After
  <2>8. ASSUME NEW k \in 1 .. n - m + 1
        PROVE  path'[k + 1] \in After(path'[k])
    <3>1. CASE k = n - m + 1
      <4>1. k + 1 = n - m + 2 /\ m + k - 1 = n
        BY <2>3, <3>1
      <4>. QED
        BY <2>2, <2>6, <4>1
    <3>2. CASE k \in 1 .. n - m
      <4>1. /\ k + 1 \in 1 .. n - m + 1
            /\ m + (k + 1) - 1 = (m + k - 1) + 1
            /\ m + k - 1 \in 1 .. n - 1
        BY <2>3, <3>2
      <4>2. path[(m + k - 1) + 1] \in After(path[m + k - 1])
        BY <1>0, <2>7, <4>1 DEF WalkInv
      <4>. QED
        BY <2>6, <4>1, <4>2
    <3>. QED
      BY <2>3, <3>1, <3>2
  <2>9. EdgesHold'
    BY <2>3, <2>6, <2>7, <2>8 DEF EdgesHold, After, Pulled
  <2>10. Len(path') > 2 /\ path'[1] = path'[Len(path')]
    BY <2>3, <2>4, <2>6
  <2>. QED
    BY <2>7, <2>9, <2>10 DEF WalkInv, CycleIsReal, EdgesHold
<1>4. CASE UNCHANGED vars
  BY <1>4 DEF vars, WalkInv, CycleIsReal, Ready, Remaining, Pulled, Done, After
<1>5. CASE pc' \notin {"trace", "cycle"}
  BY <1>5 DEF WalkInv, CycleIsReal
<1>. QED
  <2>1. \/ Blocked \/ Walk \/ CycleFound \/ UNCHANGED vars
        \/ pc' \notin {"trace", "cycle"}
    BY DEF Next, Resolve, Returned, Normalise, StartPulling, Pull, PullFails,
           VisitDependency, IsNew, NewNumber, Rest, StartOrdering, Place, First, Finish
  <2>. QED
    BY <1>1, <1>2, <1>3, <1>4, <1>5, <2>1

-----------------------------------------------------------------------------
(* The inductive invariant and what follows from it. *)

Inv == TypeOK /\ WorklistInv /\ NumberingInv /\ ClosureInv /\ OrderInv /\ WalkInv

LEMMA InvInit == Init => Inv
<1>. SUFFICES ASSUME Init PROVE Inv
  OBVIOUS
<1>1. OrderInv
  BY OrderEmpty DEF Init
<1>2. WalkInv
  BY DEF Init, WalkInv, CycleIsReal
<1>. QED
  BY <1>1, <1>2, TypeInit, WorklistInit DEF Inv

LEMMA InvStep == Inv /\ [Next]_vars => Inv'
BY TypeStep, WorklistStep, NumberingStep, ClosureStep, OrderStep, WalkStep
   DEF Inv

LEMMA Invariance == Spec => []Inv
BY InvInit, InvStep, PTL DEF Spec

\* A ref is pulled at most once: none repeats in the queue, none of them has
\* been pulled.
THEOREM PulledOnce == Spec => []QueueIsFresh
<1>1. Inv => QueueIsFresh
  BY DEF Inv, WorklistInv
<1>. QED
  BY <1>1, Invariance, PTL

LEMMA PositionProperties ==
    ASSUME NEW r \in Explicit
    PROVE  Position(r) \in DOMAIN explicitOrder /\ explicitOrder[Position(r)] = r
BY DEF Explicit, Range, Position

\* No two resolved refs have the same priority key, so the order is the same
\* whatever order the dict of specs is iterated in.
THEOREM TotalPriority == Spec => []PriorityIsTotal
<1>1. Inv => PriorityIsTotal
  <2>. SUFFICES ASSUME Inv, Resolved PROVE PriorityIsTotal
    BY DEF PriorityIsTotal
  <2>1. Pulled \subseteq Explicit \cup DOMAIN dependsonIndex
    BY DEF Inv, NumberingInv, Resolved
  <2>2. ASSUME NEW r \in Pulled, NEW s \in Pulled, Priority(r) = Priority(s)
        PROVE  r = s
    <3>1. CASE r \in Explicit /\ s \in Explicit
      <4>1. Position(r) = Position(s)
        BY <2>2, <3>1 DEF Priority
      <4>. QED
        BY <3>1, <4>1, PositionProperties
    <3>2. CASE r \notin Explicit /\ s \notin Explicit
      <4>1. dependsonIndex[r] = dependsonIndex[s]
        BY <2>2, <3>2 DEF Priority
      <4>. QED
        BY <2>1, <3>2, <4>1 DEF Inv, NumberingInv
    <3>3. CASE r \in Explicit <=> s \notin Explicit
      BY <2>2, <3>3 DEF Priority
    <3>. QED
      BY <3>1, <3>2, <3>3
  <2>. QED
    BY <2>1, <2>2 DEF PriorityIsTotal
<1>. QED
  BY <1>1, Invariance, PTL

\* Exactly the listed refs and everything they depend on are resolved.
THEOREM ResolvesClosure == Spec => []PulledIsClosure
<1>1. Inv => PulledIsClosure
  <2>. SUFFICES ASSUME Inv, Resolved PROVE PulledIsClosure
    BY DEF PulledIsClosure
  <2>1. queue = <<>> /\ todo = <<>> /\ pc # "normalise"
    BY DEF Inv, WorklistInv, Resolved
  <2>2. Known = Pulled /\ Range(queue) = {}
    BY <2>1, EmptyRange DEF Known
  <2>3. Explicit \subseteq Pulled /\ DependencyClosed(Pulled)
    BY <2>1, <2>2 DEF Inv, ClosureInv, DependencyClosed
  <2>4. ASSUME NEW S \in SUBSET Pulled, Explicit \subseteq S, DependencyClosed(S)
        PROVE  S = Pulled
    <3>1. S \in SUBSET Ref /\ S \cap Pulled = S
      BY DEF Inv, TypeOK
    <3>2. \A r \in S \cap Pulled : Range(specs[r].dependsOn) \subseteq S
      BY <2>4, <3>1 DEF DependencyClosed
    <3>3. Known \subseteq S
      BY <2>1, <2>4, <3>1, <3>2 DEF Inv, ClosureInv
    <3>. QED
      BY <2>2, <3>3
  <2>. QED
    BY <2>3, <2>4 DEF PulledIsClosure
<1>. QED
  BY <1>1, Invariance, PTL

\* Every feature is placed once and after everything it must follow; a
\* finished order leaves none out.
THEOREM OrderIsSound == Spec => []OrderFollowsEdges
<1>1. Inv => OrderFollowsEdges
  BY DEF Inv, OrderInv
<1>. QED
  BY <1>1, Invariance, PTL

\* Wherever the edges leave a choice, the priority key decides it.
THEOREM StableOrder == Spec => []OrderIsStable
<1>1. Inv => OrderIsStable
  BY DEF Inv, OrderInv
<1>. QED
  BY <1>1, Invariance, PTL

\* The walk always has an edge to follow, so it needs no backing up.
THEOREM WalkNeverBacksUp == Spec => []WalkGoesOn
<1>1. Inv => WalkGoesOn
  <2>. SUFFICES ASSUME Inv, pc = "trace" PROVE WalkEdges(path[Len(path)]) # {}
    BY DEF WalkGoesOn
  <2>1. path # <<>> /\ Range(path) \subseteq Remaining /\ Ready = {}
    BY DEF Inv, WalkInv
  <2>2. path[Len(path)] \in Range(path)
    BY <2>1 DEF Inv, TypeOK, Range
  <2>. QED
    BY <2>1, <2>2, BlockedHasEdge
<1>. QED
  BY <1>1, Invariance, PTL

\* A reported cycle is a cycle of the graph.
THEOREM ReportedCycle == Spec => []CycleIsReal
<1>1. Inv => CycleIsReal
  BY DEF Inv, WalkInv
<1>. QED
  BY <1>1, Invariance, PTL

-----------------------------------------------------------------------------
(* The resolution implements InstallOrder. *)

LEMMA RefinesInit == Init => Order!Init
BY DEF Init, Order!Init, needsSeen, outcomeSeen, Resolved

\* Before the sort the abstract state does not move.
LEMMA UnresolvedStutters ==
    ASSUME ~Resolved, ~Resolved', ordered' = ordered,
           pc \in {"normalise", "pull"}, pc' \in {"normalise", "pull"}
    PROVE  UNCHANGED Order!orderVars
BY DEF Order!orderVars, needsSeen, outcomeSeen

\* The worklist is empty: the features and what each one must follow are fixed.
LEMMA RefinesFix == TypeOK /\ StartOrdering => Order!Fix
<1>. SUFFICES ASSUME TypeOK, StartOrdering PROVE Order!Fix
  OBVIOUS
<1>1. /\ pc = "pull" /\ pc' = "order" /\ ordered' = ordered /\ specs' = specs
      /\ Pulled' = Pulled /\ Pulled \subseteq Ref
  BY DEF StartOrdering, Pulled, TypeOK
<1>2. needsSeen' = [r \in Pulled |-> After(r)]
  BY <1>1 DEF needsSeen, Resolved, After, Pulled
<1>3. \A r \in Pulled : After(r) \in SUBSET Pulled /\ r \notin After(r)
  BY DEF After
<1>4. needsSeen' \in [Pulled -> SUBSET Pulled]
  BY <1>2, <1>3
<1>5. outcomeSeen = "open" /\ outcomeSeen' = "fixed"
  BY <1>1 DEF outcomeSeen
<1>. QED
  BY <1>1, <1>2, <1>3, <1>4, <1>5 DEF Order!Fix

\* Once resolved, the abstract needs are the edges of the graph.
LEMMA NeedsKept ==
    ASSUME Resolved, Resolved', specs' = specs
    PROVE  /\ needsSeen = [r \in Pulled |-> After(r)]
           /\ needsSeen' = needsSeen
BY DEF needsSeen, After, Pulled

LEMMA RefinesInstall == TypeOK /\ Place => \E f \in Ref : Order!Install(f)
<1>. SUFFICES ASSUME TypeOK, Place PROVE \E f \in Ref : Order!Install(f)
  OBVIOUS
<1>1. PICK r \in Ready : ordered' = Append(ordered, r)
  BY DEF Place, First
<1>2. r \in Pulled /\ r \in Ref /\ r \notin Done /\ After(r) \subseteq Done
  BY DEF Ready, Remaining, TypeOK
<1>3. /\ pc = "order" /\ pc' = "order" /\ specs' = specs
      /\ Resolved /\ Resolved'
  BY DEF Place, First, Resolved
<1>4. /\ needsSeen = [f \in Pulled |-> After(f)]
      /\ needsSeen' = needsSeen
      /\ outcomeSeen = "fixed" /\ outcomeSeen' = "fixed"
  BY <1>3, NeedsKept DEF outcomeSeen
<1>5. Order!Install(r)
  BY <1>1, <1>2, <1>4 DEF Order!Install, Done, Range, Order!Range
<1>. QED
  BY <1>2, <1>5

LEMMA RefinesComplete == Inv /\ Finish => Order!Complete
<1>. SUFFICES ASSUME Inv, Finish PROVE Order!Complete
  OBVIOUS
<1>1. /\ pc = "order" /\ pc' = "ok" /\ specs' = specs /\ ordered' = ordered
      /\ Resolved /\ Resolved' /\ Remaining = {}
  BY DEF Finish, Resolved
<1>2. Done = Pulled
  BY <1>1 DEF Inv, OrderInv, OrderFollowsEdges, Remaining
<1>3. /\ needsSeen = [f \in Pulled |-> After(f)]
      /\ needsSeen' = needsSeen
      /\ outcomeSeen = "fixed" /\ outcomeSeen' = "complete"
  BY <1>1, NeedsKept DEF outcomeSeen
<1>. QED
  BY <1>1, <1>2, <1>3 DEF Order!Complete, Done, Range, Order!Range

\* The features that remain when none is free wait for one another.
LEMMA RefinesRefuse == Inv /\ CycleFound => Order!Refuse
<1>. SUFFICES ASSUME Inv, CycleFound PROVE Order!Refuse
  OBVIOUS
<1>1. /\ pc = "trace" /\ pc' = "cycle" /\ specs' = specs /\ ordered' = ordered
      /\ Resolved /\ Resolved'
  BY DEF CycleFound, Resolved
<1>2. /\ needsSeen = [f \in Pulled |-> After(f)]
      /\ needsSeen' = needsSeen
      /\ outcomeSeen = "fixed" /\ outcomeSeen' = "refused"
  BY <1>1, NeedsKept DEF outcomeSeen
<1>3. Remaining # {} /\ Remaining \subseteq Pulled \ Done
  BY <1>1 DEF Inv, WalkInv, Remaining
<1>4. \A f \in Remaining : After(f) \cap Remaining # {}
  BY <1>1, BlockedHasEdge DEF Inv, WalkInv, WalkEdges
<1>5. /\ DOMAIN needsSeen = Pulled
      /\ \A f \in Remaining : needsSeen[f] \cap Remaining # {}
  BY <1>2, <1>3, <1>4
<1>. QED
  BY <1>1, <1>2, <1>3, <1>5 DEF Order!Refuse, Done, Range, Order!Range

LEMMA RefinesStep ==
    Inv /\ [Next]_vars => [Order!Next]_(Order!orderVars)
<1>. SUFFICES ASSUME Inv, [Next]_vars
              PROVE  Order!Next \/ UNCHANGED Order!orderVars
  OBVIOUS
<1>1. CASE Normalise \/ StartPulling \/ Pull \/ VisitDependency
  BY <1>1, UnresolvedStutters
     DEF Normalise, StartPulling, Pull, VisitDependency, IsNew, NewNumber, Rest, Resolved
<1>2. CASE PullFails
  BY <1>2 DEF PullFails, Order!Next, Order!Fail, needsSeen, outcomeSeen,
              Resolved
<1>3. CASE StartOrdering
  BY <1>3, RefinesFix DEF Inv, Order!Next
<1>4. CASE Place
  BY <1>4, RefinesInstall DEF Inv, Order!Next
<1>5. CASE Finish
  BY <1>5, RefinesComplete DEF Order!Next
<1>6. CASE Blocked \/ Walk
  <2>1. /\ specs' = specs /\ ordered' = ordered /\ Resolved /\ Resolved'
        /\ pc \in {"order", "trace"} /\ pc' \in {"order", "trace"}
    BY <1>6 DEF Blocked, Walk, Resolved
  <2>2. outcomeSeen' = outcomeSeen
    BY <2>1 DEF outcomeSeen
  <2>. QED
    BY <2>1, <2>2, NeedsKept DEF Order!orderVars
<1>7. CASE CycleFound
  BY <1>7, RefinesRefuse DEF Order!Next
<1>8. CASE UNCHANGED vars
  BY <1>8 DEF vars, Order!orderVars, needsSeen, outcomeSeen, Resolved, After,
              Pulled
<1>. QED
  BY <1>1, <1>2, <1>3, <1>4, <1>5, <1>6, <1>7, <1>8
     DEF Next, Resolve, Returned

\* resolve_feature_graph keeps the promise of InstallOrder, step by step.
THEOREM Refinement == Spec => ImplementsInstallOrder
BY RefinesInit, RefinesStep, Invariance, PTL
   DEF Spec, ImplementsInstallOrder, Order!Spec
-----------------------------------------------------------------------------
(* The resolution gets on.                                                   *)

\* Sets of naturals have a least member.
LEMMA Least ==
    ASSUME NEW T, T \subseteq Nat, T # {}
    PROVE  \E n \in T : \A m \in T : n <= m
<1>1. PICK n \in T : \A m \in T : <<m, n>> \notin OpToRel(<, Nat)
  BY NatLessThanWellFounded, WFMin
<1>2. \A m \in T : ~(m < n)
  BY <1>1 DEF OpToRel
<1>. QED
  BY <1>2

LEMMA FirstOfListed ==
    ASSUME TypeOK, Ready \cap Explicit # {}
    PROVE  \E r \in Ready : First(r)
<1>. DEFINE Positions == {Position(s) : s \in Ready \cap Explicit}
<1>1. \A s \in Ready \cap Explicit :
         Position(s) \in Nat /\ explicitOrder[Position(s)] = s
  BY PositionProperties DEF TypeOK
<1>2. PICK n \in Positions : \A m \in Positions : n <= m
  <2>1. Positions \subseteq Nat /\ Positions # {}
    BY <1>1
  <2>. HIDE DEF Positions
  <2>. QED
    BY <2>1, Least
<1>3. PICK r \in Ready \cap Explicit : n = Position(r)
  BY <1>2
<1>4. ASSUME NEW s \in Ready PROVE s = r \/ Before(r, s)
  <2>1. CASE s \in Explicit
    <3>1. Position(r) <= Position(s)
      BY <1>2, <1>3, <2>1
    <3>2. Position(r) = Position(s) => r = s
      BY <1>1, <1>3, <2>1
    <3>3. /\ Priority(r)[1] = Priority(s)[1]
          /\ Priority(r)[2] = Position(r) /\ Priority(s)[2] = Position(s)
      BY <1>3, <2>1 DEF Priority
    <3>4. Position(r) \in Nat /\ Position(s) \in Nat
      BY <1>1, <1>3, <2>1
    <3>. QED
      BY <3>1, <3>2, <3>3, <3>4 DEF Before
  <2>2. CASE s \notin Explicit
    <3>1. Priority(r)[1] = 0 /\ Priority(s)[1] = 1
      BY <1>3, <2>2 DEF Priority
    <3>. QED
      BY <3>1 DEF Before
  <2>. QED
    BY <2>1, <2>2
<1>. QED
  BY <1>3, <1>4 DEF First

LEMMA FirstOfDiscovered ==
    ASSUME TypeOK, NumberingInv, pc # "normalise", Ready # {}, Ready \cap Explicit = {}
    PROVE  \E r \in Ready : First(r)
<1>. DEFINE Numbers == {dependsonIndex[s] : s \in Ready}
<1>1. \A s \in Ready : s \in DOMAIN dependsonIndex /\ dependsonIndex[s] \in Nat
  <2>1. \A s \in Ready : s \in DOMAIN dependsonIndex
    BY DEF NumberingInv, Ready, Remaining
  <2>2. \A s \in DOMAIN dependsonIndex : dependsonIndex[s] \in 0 .. dependsonCounter - 1
    BY DEF TypeOK
  <2>. QED
    BY <2>1, <2>2
<1>2. PICK n \in Numbers : \A m \in Numbers : n <= m
  <2>1. Numbers \subseteq Nat /\ Numbers # {}
    BY <1>1
  <2>. HIDE DEF Numbers
  <2>. QED
    BY <2>1, Least
<1>3. PICK r \in Ready : n = dependsonIndex[r]
  BY <1>2
<1>4. ASSUME NEW s \in Ready PROVE s = r \/ Before(r, s)
  <2>1. dependsonIndex[r] <= dependsonIndex[s]
    BY <1>2, <1>3
  <2>2. dependsonIndex[r] = dependsonIndex[s] => r = s
    BY <1>1 DEF NumberingInv
  <2>3. /\ Priority(r)[1] = Priority(s)[1]
        /\ Priority(r)[2] = dependsonIndex[r] /\ Priority(s)[2] = dependsonIndex[s]
    BY DEF Priority
  <2>. QED
    BY <1>1, <2>1, <2>2, <2>3 DEF Before
<1>. QED
  BY <1>3, <1>4 DEF First

\* In every loop of the function there is a next step: the head of the worklist
\* is to be pulled, one of the free features is first, the walk has a least edge
\* to follow.  (The other steps' guards leave no case out.)
GoesOn ==
    /\ pc = "pull" /\ todo = <<>> /\ queue # <<>> => Head(queue) \notin Pulled
    /\ pc = "order" /\ Ready # {} => \E r \in Ready : First(r)
    /\ pc = "trace" => \E r \in Ref : NextOnWalk(r)

\* resolve_feature_graph never gets stuck, whatever the features declare: no loop
\* is left without a step and without a result.
THEOREM NeverStuck == Spec => []GoesOn
<1>1. Inv => GoesOn
  <2>. SUFFICES ASSUME Inv PROVE GoesOn
    OBVIOUS
  <2>1. ASSUME pc = "pull", queue # <<>> PROVE Head(queue) \notin Pulled
    <3>1. Head(queue) \in Range(queue)
      BY <2>1, RangeHeadTail DEF Inv, TypeOK
    <3>. QED
      BY <3>1 DEF Inv, WorklistInv, QueueIsFresh
  <2>2. ASSUME pc = "order", Ready # {} PROVE \E r \in Ready : First(r)
    BY <2>2, FirstOfListed, FirstOfDiscovered DEF Inv
  <2>3. ASSUME pc = "trace" PROVE \E r \in Ref : NextOnWalk(r)
    <3>. DEFINE edges == WalkEdges(path[Len(path)])
    <3>1. path # <<>> /\ Range(path) \subseteq Remaining /\ Ready = {}
      BY <2>3 DEF Inv, WalkInv
    <3>2. path[Len(path)] \in Range(path)
      BY <3>1 DEF Inv, TypeOK, Range
    <3>3. edges # {}
      BY <3>1, <3>2, BlockedHasEdge
    <3>4. edges \subseteq Ref /\ Ref \subseteq Nat
      BY RefAssumption DEF WalkEdges, Remaining, Inv, TypeOK
    <3>5. PICK r \in edges : \A t \in edges : r <= t
      <4>. HIDE DEF edges
      <4>. QED
        BY <3>3, <3>4, Least
    <3>. QED
      BY <3>4, <3>5 DEF NextOnWalk
  <2>. QED
    BY <2>1, <2>2, <2>3 DEF GoesOn
<1>. QED
  BY <1>1, Invariance, PTL

\* The loops in the order in which they run, and the results.
Stage ==
    CASE pc = "normalise" -> 1
      [] pc = "pull"      -> 2
      [] pc = "order"     -> 3
      [] pc = "trace"     -> 4
      [] OTHER            -> 5

\* A step ends its loop, or leaves it less to do: fewer entries of the listing;
\* fewer refs not pulled, or as many and fewer dependencies to visit; fewer refs
\* to place; fewer refs the walk has not met.
StepsAhead ==
    \/ Stage' > Stage
    \/ pc' = "normalise" /\ Len(listed') < Len(listed)
    \/ /\ pc = "pull" /\ pc' = "pull"
       /\ \/ Ref \ Pulled' \subseteq Ref \ Pulled /\ Ref \ Pulled' # Ref \ Pulled
          \/ Pulled' = Pulled /\ Len(todo') < Len(todo)
    \/ /\ pc = "order" /\ pc' = "order" /\ specs' = specs
       /\ Remaining' \subseteq Remaining /\ Remaining' # Remaining
    \/ /\ pc = "trace" /\ pc' = "trace"
       /\ Ref \ Range(path') \subseteq Ref \ Range(path)
       /\ Ref \ Range(path') # Ref \ Range(path)

\* Each step of resolve_feature_graph leaves less to do, in sets of refs and in
\* lists that are finite: rings of dependsOn, refs reached many times and
\* self-loops never make it go round.
THEOREM StepsLeaveLess == Spec => [][StepsAhead]_vars
<1>1. Inv /\ [Next]_vars => [StepsAhead]_vars
  <2>. SUFFICES ASSUME Inv, Next, vars' # vars PROVE StepsAhead
    BY DEF vars
  <2>. USE DEF Inv, TypeOK
  <2>1. CASE Normalise
    <3>1. Len(Tail(listed)) = Len(listed) - 1 /\ Len(listed) \in Nat
      BY <2>1, RangeHeadTail DEF Normalise
    <3>. QED
      BY <2>1, <3>1 DEF Normalise, StepsAhead
  <2>2. CASE StartPulling \/ PullFails \/ StartOrdering \/ Finish \/ Blocked \/ CycleFound
    BY <2>2 DEF StartPulling, PullFails, StartOrdering, Finish, Blocked, CycleFound,
                Stage, StepsAhead
  <2>3. CASE Pull
    <3>1. Head(queue) \in Ref \ Pulled /\ pc = "pull" /\ pc' = "pull"
      BY <2>3, RangeHeadTail DEF Pull
    <3>2. Pulled' = Pulled \cup {Head(queue)}
      BY <2>3, PutProperties DEF Pull, Pulled
    <3>3. Ref \ Pulled' \subseteq Ref \ Pulled /\ Head(queue) \notin Ref \ Pulled'
      BY <3>2
    <3>4. Ref \ Pulled' # Ref \ Pulled
      BY <3>1, <3>3
    <3>. QED
      BY <3>1, <3>3, <3>4 DEF StepsAhead
  <2>4. CASE VisitDependency
    <3>1. /\ pc = "pull" /\ pc' = "pull" /\ todo' = Tail(todo) /\ Pulled' = Pulled
          /\ todo # <<>>
      BY <2>4 DEF VisitDependency, Rest, Pulled
    <3>2. Len(Tail(todo)) = Len(todo) - 1 /\ Len(todo) \in Nat
      BY <3>1, RangeHeadTail
    <3>. QED
      BY <3>1, <3>2 DEF StepsAhead
  <2>5. CASE Place
    <3>1. PICK r \in Ready : ordered' = Append(ordered, r)
      BY <2>5 DEF Place
    <3>2. r \in Remaining /\ r \in Ref
      BY DEF Ready, Remaining
    <3>3. Remaining' = Remaining \ {r}
      BY <2>5, <3>1, <3>2, RangeAppend DEF Place, Remaining, Done, Pulled
    <3>. QED
      BY <2>5, <3>2, <3>3 DEF Place, StepsAhead
  <2>6. CASE Walk
    <3>1. PICK r \in Ref \ Range(path) : path' = Append(path, r)
      BY <2>6 DEF Walk
    <3>2. Range(path') = Range(path) \cup {r}
      BY <3>1, RangeAppend
    <3>. QED
      BY <2>6, <3>1, <3>2 DEF Walk, StepsAhead
  <2>. QED
    BY <2>1, <2>2, <2>3, <2>4, <2>5, <2>6 DEF Next, Resolve, Returned
<1>. QED
  BY <1>1, Invariance, PTL DEF Spec
=============================================================================

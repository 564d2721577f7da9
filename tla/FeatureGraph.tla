---------------------------- MODULE FeatureGraph ----------------------------
(***************************************************************************)
(* resolve_feature_graph (dvt/src/devtemplate/feature_graph.py): from the  *)
(* `features` map of a devcontainer.json to the ordered list of features   *)
(* to bake into the image.                                                 *)
(*                                                                         *)
(* The listed refs are normalised, then a worklist pulls every ref once    *)
(* and follows `dependsOn`; what a feature's devcontainer-feature.json     *)
(* says is known only when it is pulled, so Pull chooses it.  A stable     *)
(* topological sort then orders what was pulled; when nothing is free any  *)
(* more, _find_cycle walks the edges to name a cycle.                      *)
(*                                                                         *)
(* Refs are normalised refs (normalise_ref maps a tagless ref and its      *)
(* `:latest` form to one of them), written as naturals because dependsOn   *)
(* and the cycle walk visit refs in sorted order.  Options, environment    *)
(* and ids ride along with a ref and are left out: the id only breaks ties *)
(* of the priority key, and PriorityIsTotal says that there are none.      *)
(***************************************************************************)
EXTENDS Functions, Sequences

CONSTANTS
    Ref,          \* the normalised refs of the registry
    FeatureSpecs, \* what read_feature_spec may return for a ref
    Listings      \* the `features` maps: refs after normalisation, in order

ASSUME RefAssumption == Ref \subseteq Nat
ASSUME SpecsAssumption ==
    FeatureSpecs \subseteq [dependsOn : Seq(Ref), installsAfter : SUBSET Ref]
ASSUME ListingsAssumption == Listings \subseteq Seq(Ref)

VARIABLES
    pc,               \* which loop of the function is running, or its result
    listed,           \* entries of `explicit` not normalised yet
    explicitOrder,    \* explicit_order
    queue,            \* refs waiting to be pulled
    specs,            \* ref -> spec, for every ref pulled so far
    todo,             \* dependsOn entries of the last pulled ref still to visit
    dependsonIndex,   \* dependson_index
    dependsonCounter, \* dependson_counter
    ordered,          \* ordered (and done, the set of its elements)
    path              \* _find_cycle: the walk, then the cycle it reports

vars == <<pc, listed, explicitOrder, queue, specs, todo, dependsonIndex,
          dependsonCounter, ordered, path>>

-----------------------------------------------------------------------------
Explicit  == Range(explicitOrder)
Pulled    == DOMAIN specs
Done      == Range(ordered)
Remaining == Pulled \ Done

\* Faulty forms of definitions are kept beside them: the checks replace the one
\* by the other to see that a property notices.

\* The edges "r installs after": declared by r, and to another pulled feature.
AfterUnresolved(r) == (Range(specs[r].dependsOn) \cup specs[r].installsAfter) \ {r}
AfterItself(r) == (Range(specs[r].dependsOn) \cup specs[r].installsAfter) \cap Pulled

After(r) ==
    ((Range(specs[r].dependsOn) \cup specs[r].installsAfter) \cap Pulled) \ {r}

ReadyButForInstallsAfter ==
    {r \in Remaining : (Range(specs[r].dependsOn) \cap Pulled) \ {r} \subseteq Done}

Ready == {r \in Remaining : After(r) \subseteq Done}

\* The priority key: listed refs first, in listing order, then the discovered
\* ones in the order in which dependsOn reached them.
Position(r) == CHOOSE i \in DOMAIN explicitOrder : explicitOrder[i] = r

Priority(r) ==
    IF r \in Explicit THEN <<0, Position(r)>> ELSE <<1, dependsonIndex[r]>>

Before(r, s) ==
    \/ Priority(r)[1] < Priority(s)[1]
    \/ Priority(r)[1] = Priority(s)[1] /\ Priority(r)[2] < Priority(s)[2]

Put(f, x, y) == [z \in DOMAIN f \cup {x} |-> IF z = x THEN y ELSE f[z]]

-----------------------------------------------------------------------------
Init ==
    /\ pc = "normalise"
    /\ listed \in Listings
    /\ explicitOrder = <<>>
    /\ queue = <<>>
    /\ specs = [r \in {} |-> {}]
    /\ todo = <<>>
    /\ dependsonIndex = [r \in {} |-> 0]
    /\ dependsonCounter = 0
    /\ ordered = <<>>
    /\ path = <<>>

\* One entry of `explicit`: its ref is kept at its first position.
Normalise ==
    /\ pc = "normalise"
    /\ listed # <<>>
    /\ listed' = Tail(listed)
    /\ explicitOrder' = IF Head(listed) \in Explicit
                        THEN explicitOrder
                        ELSE Append(explicitOrder, Head(listed))
    /\ UNCHANGED <<pc, queue, specs, todo, dependsonIndex, dependsonCounter,
                   ordered, path>>

StartPulling ==
    /\ pc = "normalise"
    /\ listed = <<>>
    /\ pc' = "pull"
    /\ queue' = explicitOrder
    /\ UNCHANGED <<listed, explicitOrder, specs, todo, dependsonIndex,
                   dependsonCounter, ordered, path>>

\* The head of the queue is pulled and its spec read.  The code skips a head
\* that has its spec already; QueueIsFresh says this never happens.
Pull ==
    /\ pc = "pull"
    /\ todo = <<>>
    /\ queue # <<>>
    /\ Head(queue) \notin Pulled
    /\ queue' = Tail(queue)
    /\ \E spec \in FeatureSpecs :
          /\ specs' = Put(specs, Head(queue), spec)
          /\ todo' = spec.dependsOn
    /\ UNCHANGED <<pc, listed, explicitOrder, dependsonIndex,
                   dependsonCounter, ordered, path>>

\* pull or read_feature_spec raises; wrap_result turns it into an Err.
PullFails ==
    /\ pc = "pull"
    /\ todo = <<>>
    /\ queue # <<>>
    /\ pc' = "failed"
    /\ UNCHANGED <<listed, explicitOrder, queue, specs, todo, dependsonIndex,
                   dependsonCounter, ordered, path>>

\* A dependency not met before; the number a discovered one gets; what is left
\* of the `for dep in spec.depends_on` loop.
NotPulled(dep) == dep \notin Pulled
IsNew(dep) == dep \notin Pulled \cup Range(queue)

NumberWithinFeature == Len(todo)
NumberAfterCounting == dependsonCounter + 1
NewNumber == dependsonCounter

BreakOnSeen == IF IsNew(Head(todo)) THEN Tail(todo) ELSE <<>>
Rest == Tail(todo)

\* One turn of the loop.
VisitDependency ==
    /\ pc = "pull"
    /\ todo # <<>>
    /\ todo' = Rest
    /\ LET dep == Head(todo)
           new == IsNew(dep)
           numbered == new /\ dep \notin Explicit \cup DOMAIN dependsonIndex
       IN  /\ queue' = IF new THEN Append(queue, dep) ELSE queue
           /\ dependsonIndex' = IF numbered
                                THEN Put(dependsonIndex, dep, NewNumber)
                                ELSE dependsonIndex
           /\ dependsonCounter' = IF numbered THEN dependsonCounter + 1
                                              ELSE dependsonCounter
    /\ UNCHANGED <<pc, listed, explicitOrder, specs, ordered, path>>

StartOrdering ==
    /\ pc = "pull"
    /\ todo = <<>>
    /\ queue = <<>>
    /\ pc' = "order"
    /\ UNCHANGED <<listed, explicitOrder, queue, specs, todo, dependsonIndex,
                   dependsonCounter, ordered, path>>

\* The free ref with the least priority key comes next.
AnyOf(r) == TRUE
StrictlyFirst(r) == \A s \in Ready : Before(r, s)
First(r) == \A s \in Ready : s = r \/ Before(r, s)

Place ==
    /\ pc = "order"
    /\ \E r \in Ready : First(r) /\ ordered' = Append(ordered, r)
    /\ UNCHANGED <<pc, listed, explicitOrder, queue, specs, todo,
                   dependsonIndex, dependsonCounter, path>>

Finish ==
    /\ pc = "order"
    /\ Remaining = {}
    /\ pc' = "ok"
    /\ UNCHANGED <<listed, explicitOrder, queue, specs, todo, dependsonIndex,
                   dependsonCounter, ordered, path>>

\* Nothing is free: _find_cycle starts from a remaining ref (the first one in
\* pull order; any one here).
Blocked ==
    /\ pc = "order"
    /\ Remaining # {}
    /\ Ready = {}
    /\ pc' = "trace"
    /\ \E start \in Remaining : path' = <<start>>
    /\ UNCHANGED <<listed, explicitOrder, queue, specs, todo, dependsonIndex,
                   dependsonCounter, ordered>>

\* The edges the walk may follow from the ref it has reached, least one first.
\* The code backs up from a ref with no such edge; WalkGoesOn says that the
\* refs that remain always have one.
WalkEdges(r) == After(r) \cap Remaining

NextOnWalk(r) ==
    LET s == path[Len(path)]
    IN  r \in WalkEdges(s) /\ \A t \in WalkEdges(s) : r <= t

Walk ==
    /\ pc = "trace"
    /\ \E r \in Ref \ Range(path) :
          NextOnWalk(r) /\ path' = Append(path, r)
    /\ UNCHANGED <<pc, listed, explicitOrder, queue, specs, todo,
                   dependsonIndex, dependsonCounter, ordered>>

CycleFound ==
    /\ pc = "trace"
    /\ \E i \in DOMAIN path :
          /\ NextOnWalk(path[i])
          /\ path' = Append(SubSeq(path, i, Len(path)), path[i])
    /\ pc' = "cycle"
    /\ UNCHANGED <<listed, explicitOrder, queue, specs, todo, dependsonIndex,
                   dependsonCounter, ordered>>

Returned == pc \in {"ok", "cycle", "failed"} /\ UNCHANGED vars

Resolve ==
    \/ Normalise \/ StartPulling
    \/ Pull \/ PullFails \/ VisitDependency \/ StartOrdering
    \/ Place \/ Finish \/ Blocked
    \/ Walk \/ CycleFound

Next == Resolve \/ Returned

\* The function is called and runs to its end: one thread, no waiting.
Spec == Init /\ [][Next]_vars /\ WF_vars(Resolve)
-----------------------------------------------------------------------------
Resolved == pc \notin {"normalise", "pull", "failed"}

\* The types, and every discovery number is one the counter has passed.
TypeOK ==
    /\ pc \in {"normalise", "pull", "order", "trace", "ok", "cycle", "failed"}
    /\ listed \in Seq(Ref) /\ explicitOrder \in Seq(Ref)
    /\ queue \in Seq(Ref) /\ todo \in Seq(Ref)
    /\ Pulled \subseteq Ref /\ specs \in [Pulled -> FeatureSpecs]
    /\ DOMAIN dependsonIndex \subseteq Ref
    /\ dependsonCounter \in Nat
    /\ dependsonIndex \in [DOMAIN dependsonIndex -> 0 .. dependsonCounter - 1]
    /\ ordered \in Seq(Ref) /\ path \in Seq(Ref)

\* A ref waits in the queue at most once and is never pulled again: the
\* worklist calls `pull` once per distinct ref, and the test `ref in specs` at
\* its head is never true.
QueueIsFresh ==
    /\ \A i, j \in DOMAIN queue : queue[i] = queue[j] => i = j
    /\ Range(queue) \cap Pulled = {}

\* Every resolved ref has a priority key (dependson_index has no missing key)
\* and no two have the same, so the order does not depend on the order in
\* which the dict of specs is iterated, nor on two features with one id.
PriorityIsTotal ==
    Resolved =>
        /\ Pulled \ Explicit \subseteq DOMAIN dependsonIndex
        /\ \A r, s \in Pulled : Priority(r) = Priority(s) => r = s

\* What is resolved is the listed refs with everything they depend on,
\* transitively, and nothing else: installsAfter never adds a feature.
DependencyClosed(S) == \A r \in S : Range(specs[r].dependsOn) \subseteq S

PulledIsClosure ==
    Resolved =>
        /\ Explicit \subseteq Pulled
        /\ DependencyClosed(Pulled)
        /\ \A S \in SUBSET Pulled :
              Explicit \subseteq S /\ DependencyClosed(S) => S = Pulled

\* The features placed before position i.
Placed(i) == {ordered[k] : k \in 1 .. i - 1}

\* Each feature is placed once, after everything it depends on or declares in
\* installsAfter among the resolved features; a finished order has them all.
OrderFollowsEdges ==
    /\ Done \subseteq Pulled
    /\ \A i \in DOMAIN ordered :
          /\ ordered[i] \notin Placed(i)
          /\ After(ordered[i]) \subseteq Placed(i)
    /\ pc = "ok" => Done = Pulled

\* A feature is placed later than one with a greater priority key only if an
\* edge held it back at that point: the listing order decides whatever the
\* edges leave open.
OrderIsStable ==
    \A i \in DOMAIN ordered : \A r \in Pulled \ Placed(i) :
        r = ordered[i] \/ Before(ordered[i], r) \/ ~(After(r) \subseteq Placed(i))

\* The walk of _find_cycle never meets a ref without an edge to follow, so the
\* code that backs up, and the fallback message after the loop, are not needed.
WalkGoesOn == pc = "trace" => WalkEdges(path[Len(path)]) # {}

\* The cycle in the error message is one: it closes, each step of it is an
\* edge of the graph, and it is more than one feature waiting for itself.
CycleIsReal ==
    pc = "cycle" =>
        /\ Len(path) > 2
        /\ path[1] = path[Len(path)]
        /\ \A i \in 1 .. Len(path) - 1 : path[i + 1] \in After(path[i])

\* Resolution returns: an order, a cycle or the failure of a pull.
Terminates == <>(pc \in {"ok", "cycle", "failed"})

-----------------------------------------------------------------------------
\* What InstallOrder sees of a resolution.
needsSeen == IF Resolved THEN [r \in Pulled |-> After(r)] ELSE [r \in {} |-> {}]

outcomeSeen ==
    CASE pc \in {"normalise", "pull"} -> "open"
      [] pc \in {"order", "trace"}    -> "fixed"
      [] pc = "ok"                    -> "complete"
      [] pc = "cycle"                 -> "refused"
      [] pc = "failed"                -> "failed"

Order == INSTANCE InstallOrder WITH
            Feature <- Ref, needs <- needsSeen, installed <- ordered,
            outcome <- outcomeSeen

\* The worklist and the sort implement the abstract installation order.
ImplementsInstallOrder == Order!Spec
=============================================================================

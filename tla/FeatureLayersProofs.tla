------------------------ MODULE FeatureLayersProofs ------------------------
(***************************************************************************)
(* Proofs about FeatureLayers, for any fields, features, templates, files, *)
(* edits and kills.  Two things are shown.  One is about data: the merges  *)
(* of merge.py, done one layer after the other, come to what the           *)
(* definitions at the end of FeatureLayers say of all the layers at once.  *)
(* It is by induction over the layers, for which the least counterexample  *)
(* serves.  The other is about the commands: the file, whatever series of  *)
(* them has written it, is what the user wrote under the overlays the      *)
(* sidecar lists, but for overlays that a killed `remove` has taken out of *)
(* the file and not of the sidecar; and "init" agrees with the user.       *)
(***************************************************************************)
EXTENDS FeatureLayers, SequenceTheorems, FiniteSetTheorems,
        WellFoundedInduction, TLAPS

-----------------------------------------------------------------------------
(* Induction, and the folds of merge.py                                     *)

\* Induction, by the least counterexample: sets of naturals have a least member.
LEMMA Least ==
    ASSUME NEW T, T \subseteq Nat, T # {}
    PROVE  \E n \in T : \A m \in T : n <= m
<1>1. PICK n \in T : \A m \in T : <<m, n>> \notin OpToRel(<, Nat)
  BY NatLessThanWellFounded, WFMin
<1>2. \A m \in T : ~(m < n)
  BY <1>1 DEF OpToRel
<1>. QED
  BY <1>2

LEMMA Induct ==
    ASSUME NEW T, 0 \in T, \A n \in Nat : n \in T => n + 1 \in T
    PROVE  \A n \in Nat : n \in T
<1>. DEFINE Bad == {n \in Nat : n \notin T}
<1>1. ASSUME Bad # {} PROVE FALSE
  <2>1. PICK n \in Bad : \A m \in Bad : n <= m
    <3>. HIDE DEF Bad
    <3>1. Bad \subseteq Nat BY DEF Bad
    <3>. QED BY <1>1, <3>1, Least
  <2>2. n - 1 \in Nat /\ n - 1 \notin Bad
    BY <2>1
  <2>. QED
    BY <2>1, <2>2
<1>. QED
  BY <1>1

\* Max, which is a CHOOSE, is the greatest member where there is one.
LEMMA MaxIs ==
    ASSUME NEW T, T \subseteq Nat, NEW m \in T, \A i \in T : i <= m
    PROVE  Max(T) = m
<1>1. \A i \in T : m >= i
  OBVIOUS
<1>2. \E x \in T : \A i \in T : x >= i
  BY <1>1
<1>3. Max(T) \in T /\ \A i \in T : Max(T) >= i
  BY <1>2, Zenon DEF Max
<1>4. ASSUME NEW x \in T, \A i \in T : x >= i PROVE x = m
  <2>1. x \in Nat /\ m \in Nat /\ x >= m /\ m >= x
    BY <1>1, <1>4
  <2>. QED
    BY <2>1
<1>. QED
  BY <1>3, <1>4

LEMMA MaxAmong ==
    ASSUME NEW n \in Nat, NEW T, T \subseteq 1 .. n, T # {}
    PROVE  Max(T) \in T /\ \A i \in T : i <= Max(T)
<1>. DEFINE below == {n - i : i \in T}
<1>1. PICK d \in below : \A e \in below : d <= e
  <2>1. below \subseteq Nat /\ below # {}
    <3>1. \A i \in T : n - i \in Nat
      OBVIOUS
    <3>. QED
      BY <3>1
  <2>. HIDE DEF below
  <2>. QED
    BY <2>1, Least
<1>2. PICK m \in T : d = n - m
  BY <1>1
<1>3. ASSUME NEW i \in T PROVE i <= m
  <2>1. n - i \in below
    OBVIOUS
  <2>2. n - m <= n - i
    BY <1>1, <1>2, <2>1
  <2>. QED
    BY <2>2
<1>4. T \subseteq Nat
  OBVIOUS
<1>5. Max(T) = m
  BY <1>3, <1>4, MaxIs
<1>. QED
  BY <1>3, <1>5

\* The fold of AppendAllNew, as a function of how many items it has seen.
AppendsUpTo(f, items, more, m) ==
    f = [n \in 0 .. m |-> IF n = 0 THEN items ELSE AppendNew(f[n - 1], more[n])]

LEMMA AppendsUpToAny ==
    ASSUME NEW items, NEW more, NEW k \in Nat
    PROVE  \E f : AppendsUpTo(f, items, more, k)
<1>. DEFINE T == {m \in Nat : \E f : AppendsUpTo(f, items, more, m)}
<1>1. 0 \in T
  <2>. DEFINE f == [n \in 0 .. 0 |-> items]
  <2>1. AppendsUpTo(f, items, more, 0)
    BY DEF AppendsUpTo
  <2>. QED
    BY <2>1
<1>2. ASSUME NEW m \in Nat, m \in T
      PROVE  m + 1 \in T
  <2>1. PICK f : AppendsUpTo(f, items, more, m)
    BY <1>2
  <2>. DEFINE h == [n \in 0 .. m + 1 |->
                        IF n = m + 1 THEN AppendNew(f[m], more[n]) ELSE f[n]]
  <2>2. ASSUME NEW n \in 0 .. m + 1
        PROVE  h[n] = IF n = 0 THEN items ELSE AppendNew(h[n - 1], more[n])
    <3>1. CASE n = m + 1
      <4>1. h[n - 1] = f[m] /\ n # 0
        BY <3>1
      <4>. QED
        BY <3>1, <4>1
    <3>2. CASE n = 0
      BY <3>2, <2>1 DEF AppendsUpTo
    <3>3. CASE n # 0 /\ n # m + 1
      <4>1. h[n] = f[n] /\ h[n - 1] = f[n - 1] /\ n \in 0 .. m
        BY <3>3
      <4>2. f[n] = AppendNew(f[n - 1], more[n])
        BY <2>1, <4>1, <3>3 DEF AppendsUpTo
      <4>. QED
        BY <3>3, <4>1, <4>2
    <3>. QED
      BY <3>1, <3>2, <3>3
  <2>3. AppendsUpTo(h, items, more, m + 1)
    BY <2>2 DEF AppendsUpTo
  <2>. HIDE DEF h
  <2>. QED
    BY <2>3
<1>. HIDE DEF T
<1>3. k \in T
  BY <1>1, <1>2, Induct
<1>. QED
  BY <1>3 DEF T

\* merge.py appends array items one by one: AppendAllNew is where that ends.
LEMMA AppendAllNewIs ==
    ASSUME NEW items, NEW more, Len(more) \in Nat
    PROVE  \E f : /\ AppendsUpTo(f, items, more, Len(more))
                  /\ AppendAllNew(items, more) = f[Len(more)]
<1>1. \E f : AppendsUpTo(f, items, more, Len(more))
  BY AppendsUpToAny
<1>2. AppendsUpTo((CHOOSE f : AppendsUpTo(f, items, more, Len(more))),
                  items, more, Len(more))
  BY <1>1, Zenon
<1>3. AppendAllNew(items, more) =
          (CHOOSE f : AppendsUpTo(f, items, more, Len(more)))[Len(more)]
  BY DEF AppendAllNew, AppendsUpTo
<1>. QED
  BY <1>2, <1>3

\* The fold of MergeLayerKeys, as a function of how many layers it has seen.
MergesUpTo(f, layers, keys, m) ==
    f = [n \in 0 .. m |->
            IF n = 0 THEN NoFields
            ELSE MergeLayer(f[n - 1],
                            Restrict(layers[n], keys \cap DOMAIN layers[n]))]

LEMMA MergesUpToAny ==
    ASSUME NEW layers, NEW keys, NEW k \in Nat
    PROVE  \E f : MergesUpTo(f, layers, keys, k)
<1>. DEFINE T == {m \in Nat : \E f : MergesUpTo(f, layers, keys, m)}
            Part(n) == Restrict(layers[n], keys \cap DOMAIN layers[n])
<1>1. 0 \in T
  <2>. DEFINE f == [n \in 0 .. 0 |-> NoFields]
  <2>1. MergesUpTo(f, layers, keys, 0)
    BY DEF MergesUpTo
  <2>. QED
    BY <2>1
<1>2. ASSUME NEW m \in Nat, m \in T
      PROVE  m + 1 \in T
  <2>1. PICK f : MergesUpTo(f, layers, keys, m)
    BY <1>2
  <2>. DEFINE h == [n \in 0 .. m + 1 |->
                        IF n = m + 1 THEN MergeLayer(f[m], Part(n)) ELSE f[n]]
  <2>2. ASSUME NEW n \in 0 .. m + 1
        PROVE  h[n] = IF n = 0 THEN NoFields ELSE MergeLayer(h[n - 1], Part(n))
    <3>1. CASE n = m + 1
      <4>1. h[n - 1] = f[m] /\ n # 0
        BY <3>1
      <4>. QED
        BY <3>1, <4>1
    <3>2. CASE n = 0
      BY <3>2, <2>1 DEF MergesUpTo
    <3>3. CASE n # 0 /\ n # m + 1
      <4>1. h[n] = f[n] /\ h[n - 1] = f[n - 1] /\ n \in 0 .. m
        BY <3>3
      <4>2. f[n] = MergeLayer(f[n - 1], Part(n))
        BY <2>1, <4>1, <3>3 DEF MergesUpTo
      <4>. QED
        BY <3>3, <4>1, <4>2
    <3>. QED
      BY <3>1, <3>2, <3>3
  <2>3. MergesUpTo(h, layers, keys, m + 1)
    BY <2>2 DEF MergesUpTo
  <2>. HIDE DEF h
  <2>. QED
    BY <2>3
<1>. HIDE DEF T
<1>3. k \in T
  BY <1>1, <1>2, Induct
<1>. QED
  BY <1>3 DEF T

\* merge_layers goes through the layers one by one: MergeLayerKeys is where
\* that ends.
LEMMA MergeLayerKeysIs ==
    ASSUME NEW layers, NEW keys, Len(layers) \in Nat
    PROVE  \E f : /\ MergesUpTo(f, layers, keys, Len(layers))
                  /\ MergeLayerKeys(layers, keys) = f[Len(layers)]
<1>1. \E f : MergesUpTo(f, layers, keys, Len(layers))
  BY MergesUpToAny
<1>2. MergesUpTo((CHOOSE f : MergesUpTo(f, layers, keys, Len(layers))),
                 layers, keys, Len(layers))
  BY <1>1, Zenon
<1>3. MergeLayerKeys(layers, keys) =
          (CHOOSE f : MergesUpTo(f, layers, keys, Len(layers)))[Len(layers)]
  BY DEF MergeLayerKeys, MergesUpTo
<1>. QED
  BY <1>2, <1>3

-----------------------------------------------------------------------------
(* Arrays without repetitions                                               *)

\* Those of a set of numbers up to one of them.
UpTo(F, i) == {j \in F : j <= i}

\* Finite sets of places, counted from below: what numbers the items of Distinct.
LEMMA UpToFinite ==
    ASSUME NEW m \in Nat, NEW F, F \subseteq 1 .. m
    PROVE  /\ IsFiniteSet(F) /\ Cardinality(F) \in Nat
           /\ \A i : /\ IsFiniteSet(UpTo(F, i)) /\ Cardinality(UpTo(F, i)) \in Nat
                     /\ Cardinality(UpTo(F, i)) <= Cardinality(F)
<1>1. IsFiniteSet(1 .. m)
  BY FS_Interval
<1>2. IsFiniteSet(F) /\ Cardinality(F) \in Nat
  BY <1>1, FS_Subset, FS_CardinalityType
<1>3. \A i : UpTo(F, i) \in SUBSET F
  BY DEF UpTo
<1>4. \A i : IsFiniteSet(UpTo(F, i)) /\ Cardinality(UpTo(F, i)) <= Cardinality(F)
  BY <1>2, <1>3, FS_Subset
<1>. QED
  BY <1>2, <1>4, FS_CardinalityType

LEMMA CountsDiffer ==
    ASSUME NEW m \in Nat, NEW F, F \subseteq 1 .. m, NEW i \in F, NEW k \in F, i < k
    PROVE  Cardinality(UpTo(F, i)) < Cardinality(UpTo(F, k))
<1>1. UpTo(F, i) \in SUBSET UpTo(F, k) /\ UpTo(F, i) # UpTo(F, k)
  <2>1. \A j \in F : j <= i => j <= k
    OBVIOUS
  <2>2. k \in UpTo(F, k) /\ k \notin UpTo(F, i)
    BY DEF UpTo
  <2>. QED
    BY <2>1, <2>2 DEF UpTo
<1>2. /\ IsFiniteSet(UpTo(F, k))
      /\ Cardinality(UpTo(F, k)) \in Nat /\ Cardinality(UpTo(F, i)) \in Nat
  BY UpToFinite
<1>3. /\ Cardinality(UpTo(F, i)) <= Cardinality(UpTo(F, k))
      /\ Cardinality(UpTo(F, i)) # Cardinality(UpTo(F, k))
  BY <1>1, <1>2, FS_Subset
<1>. QED
  BY <1>2, <1>3

LEMMA CountsAre ==
    ASSUME NEW m \in Nat, NEW F, F \subseteq 1 .. m, NEW i \in F
    PROVE  Cardinality(UpTo(F, i)) \in 1 .. Cardinality(F)
<1>1. i \in UpTo(F, i)
  BY DEF UpTo
<1>2. /\ IsFiniteSet(UpTo(F, i)) /\ Cardinality(UpTo(F, i)) \in Nat
      /\ Cardinality(UpTo(F, i)) <= Cardinality(F) /\ Cardinality(F) \in Nat
  BY UpToFinite
<1>3. Cardinality(UpTo(F, i)) # 0
  BY <1>1, <1>2, FS_EmptySet
<1>. QED
  BY <1>2, <1>3

LEMMA CountsReach ==
    ASSUME NEW m \in Nat, NEW F, F \subseteq 1 .. m, NEW n \in 1 .. Cardinality(F)
    PROVE  \E i \in F : Cardinality(UpTo(F, i)) = n
<1>. DEFINE T == {l \in Nat : \A G \in SUBSET (1 .. l) : \A e \in 1 .. Cardinality(G) :
                        \E i \in G : Cardinality(UpTo(G, i)) = e}
<1>1. 0 \in T
  <2>1. ASSUME NEW G \in SUBSET (1 .. 0) PROVE 1 .. Cardinality(G) = {}
    <3>1. G = {}
      OBVIOUS
    <3>. QED
      BY <3>1, FS_EmptySet
  <2>. QED
    BY <2>1
<1>2. ASSUME NEW l \in Nat, l \in T
      PROVE  l + 1 \in T
  <2>. SUFFICES ASSUME NEW G \in SUBSET (1 .. l + 1), NEW e \in 1 .. Cardinality(G)
                PROVE  \E i \in G : Cardinality(UpTo(G, i)) = e
    OBVIOUS
  <2>. DEFINE H == G \ {l + 1}
  <2>0. H \in SUBSET (1 .. l)
    OBVIOUS
  <2>1. CASE l + 1 \notin G
    <3>1. G \in SUBSET (1 .. l)
      BY <2>1
    <3>. QED
      BY <3>1, <1>2
  <2>2. CASE l + 1 \in G
    <3>1. IsFiniteSet(H) /\ Cardinality(H) \in Nat
      BY <2>0, UpToFinite
    <3>2. G = H \cup {l + 1} /\ l + 1 \notin H
      BY <2>2
    <3>3. Cardinality(G) = Cardinality(H) + 1
      <4>. HIDE DEF H
      <4>. QED
        BY <3>1, <3>2, FS_AddElement
    <3>4. CASE e = Cardinality(G)
      <4>1. UpTo(G, l + 1) = G
        <5>1. \A j \in G : j <= l + 1
          OBVIOUS
        <5>. QED
          BY <5>1 DEF UpTo
      <4>. QED
        BY <4>1, <3>4, <2>2
    <3>5. CASE e # Cardinality(G)
      <4>1. e \in 1 .. Cardinality(H)
        BY <3>1, <3>3, <3>5
      <4>2. PICK i \in H : Cardinality(UpTo(H, i)) = e
        BY <4>1, <2>0, <1>2
      <4>3. UpTo(G, i) = UpTo(H, i)
        BY <2>0, <3>2 DEF UpTo
      <4>. QED
        BY <4>2, <4>3
    <3>. QED
      BY <3>4, <3>5
  <2>. QED
    BY <2>1, <2>2
<1>. HIDE DEF T
<1>3. m \in T
  BY <1>1, <1>2, Induct
<1>. QED
  BY <1>3 DEF T

\* Append, written as a function.
LEMMA AppendIs ==
    ASSUME NEW S, NEW s \in Seq(S), NEW x \in S
    PROVE  Append(s, x) =
              [n \in 1 .. Len(s) + 1 |-> IF n = Len(s) + 1 THEN x ELSE s[n]]
<1>. DEFINE m == Len(s) + 1
            t == [n \in 1 .. m |-> IF n = m THEN x ELSE s[n]]
<1>1. t \in Seq(S) /\ Len(t) = m
  <2>1. m \in Nat /\ \A n \in 1 .. m : t[n] \in S
    OBVIOUS
  <2>. HIDE DEF m
  <2>. QED
    BY <2>1
<1>2. \A n \in 1 .. m : Append(s, x)[n] = t[n]
  OBVIOUS
<1>3. Append(s, x) \in Seq(S) /\ Len(Append(s, x)) = m
  OBVIOUS
<1>. HIDE DEF t
<1>4. Append(s, x) = t
  BY <1>1, <1>2, <1>3, SeqEqual
<1>. QED
  BY <1>4 DEF t

\* The places where items are seen for the first time, and what Distinct makes
\* of them.
Firsts(items) == {i \in DOMAIN items : \A j \in 1 .. i - 1 : items[j] # items[i]}

LEMMA DistinctIs ==
    ASSUME NEW S, NEW items \in Seq(S)
    PROVE  /\ Firsts(items) \subseteq 1 .. Len(items)
           /\ Cardinality(Firsts(items)) \in Nat
           /\ Distinct(items) = [n \in 1 .. Cardinality(Firsts(items)) |->
                                    Distinct(items)[n]]
           /\ \A i \in Firsts(items) :
                 LET n == Cardinality(UpTo(Firsts(items), i))
                 IN  n \in 1 .. Cardinality(Firsts(items)) /\ Distinct(items)[n] = items[i]
           /\ \A n \in 1 .. Cardinality(Firsts(items)) :
                 \E i \in Firsts(items) : n = Cardinality(UpTo(Firsts(items), i))
<1>. DEFINE F == Firsts(items)
<1>0. Len(items) \in Nat /\ DOMAIN items = 1 .. Len(items)
  BY LenProperties
<1>1. F \subseteq 1 .. Len(items)
  BY <1>0 DEF Firsts
<1>2. Distinct(items) =
        [n \in 1 .. Cardinality(F) |->
            items[CHOOSE i \in F : Cardinality(UpTo(F, i)) = n]]
  BY DEF Distinct, Firsts, UpTo
<1>. HIDE DEF F
<1>3. Cardinality(F) \in Nat
  BY <1>0, <1>1, UpToFinite
<1>4. ASSUME NEW i \in F
      PROVE  LET n == Cardinality(UpTo(F, i))
             IN  n \in 1 .. Cardinality(F) /\ Distinct(items)[n] = items[i]
  <2>. DEFINE n == Cardinality(UpTo(F, i))
              at == CHOOSE j \in F : Cardinality(UpTo(F, j)) = n
  <2>1. n \in 1 .. Cardinality(F)
    BY <1>0, <1>1, CountsAre
  <2>2. at \in F /\ Cardinality(UpTo(F, at)) = n
    OBVIOUS
  <2>3. at = i
    <3>1. ~(at < i) /\ ~(i < at)
      <4>. HIDE DEF at
      <4>1. at < i => Cardinality(UpTo(F, at)) < Cardinality(UpTo(F, i))
        BY <1>0, <1>1, <2>2, CountsDiffer
      <4>2. i < at => Cardinality(UpTo(F, i)) < Cardinality(UpTo(F, at))
        BY <1>0, <1>1, <2>2, CountsDiffer
      <4>. QED
        BY <4>1, <4>2, <2>2, <2>1, <1>3
    <3>. HIDE DEF at
    <3>. QED
      BY <1>0, <1>1, <2>2, <3>1
  <2>4. Distinct(items)[n] = items[at]
    BY <1>2, <2>1
  <2>. QED
    BY <2>1, <2>3, <2>4
<1>5. \A n \in 1 .. Cardinality(F) : \E i \in F : n = Cardinality(UpTo(F, i))
  BY <1>0, <1>1, CountsReach
<1>6. Distinct(items) = [n \in 1 .. Cardinality(F) |-> Distinct(items)[n]]
  BY <1>2
<1>. QED
  BY <1>1, <1>3, <1>4, <1>5, <1>6 DEF F

LEMMA DistinctEmpty == Distinct(<<>>) = <<>>
<1>1. Firsts(<<>>) = {}
  BY DEF Firsts
<1>2. Cardinality(Firsts(<<>>)) = 0
  BY <1>1, FS_EmptySet
<1>3. <<>> \in Seq({}) /\ 1 .. 0 = {}
  OBVIOUS
<1>4. Distinct(<<>>) = [n \in {} |-> Distinct(<<>>)[n]]
  BY <1>2, <1>3, DistinctIs
<1>5. <<>> = [n \in {} |-> Distinct(<<>>)[n]]
  OBVIOUS
<1>. QED
  BY <1>4, <1>5

\* One more item: known already, or new.
LEMMA DistinctKnown ==
    ASSUME NEW S, NEW items \in Seq(S), NEW x \in Range(items)
    PROVE  Distinct(Append(items, x)) = Distinct(items)
<1>. DEFINE more == Append(items, x)
            F == Firsts(items)
            G == Firsts(more)
<1>0. x \in S
  BY DEF Range
<1>1. /\ more \in Seq(S) /\ Len(more) = Len(items) + 1
      /\ \A i \in 1 .. Len(items) : more[i] = items[i]
      /\ more[Len(more)] = x /\ Len(items) \in Nat
      /\ DOMAIN items = 1 .. Len(items) /\ DOMAIN more = 1 .. Len(items) + 1
  BY <1>0
<1>2. Len(more) \notin G
  <2>1. PICK j \in 1 .. Len(items) : items[j] = x
    BY DEF Range
  <2>. QED
    BY <1>1, <2>1 DEF Firsts
<1>3. G = F
  BY <1>1, <1>2 DEF Firsts
<1>. HIDE DEF F, G
<1>4. \A n \in 1 .. Cardinality(F) : Distinct(more)[n] = Distinct(items)[n]
  <2>. TAKE n \in 1 .. Cardinality(F)
  <2>1. PICK i \in F : n = Cardinality(UpTo(F, i))
    BY DistinctIs DEF F
  <2>2. Distinct(items)[n] = items[i]
    BY <2>1, DistinctIs DEF F
  <2>3. Distinct(more)[n] = more[i]
    <3>1. \A j \in Firsts(more) :
              Distinct(more)[Cardinality(UpTo(Firsts(more), j))] = more[j]
      BY <1>1, DistinctIs
    <3>. QED
      BY <3>1, <2>1, <1>3 DEF G
  <2>4. more[i] = items[i]
    BY <1>1, DistinctIs DEF F
  <2>. QED
    BY <2>2, <2>3, <2>4
<1>5. Distinct(items) = [n \in 1 .. Cardinality(F) |-> Distinct(items)[n]]
  BY DistinctIs DEF F
<1>6. Distinct(more) = [n \in 1 .. Cardinality(F) |-> Distinct(more)[n]]
  BY <1>1, <1>3, DistinctIs DEF F, G
<1>. QED
  BY <1>4, <1>5, <1>6

LEMMA DistinctNew ==
    ASSUME NEW S, NEW items \in Seq(S), NEW x \in S, x \notin Range(items)
    PROVE  Distinct(Append(items, x)) = Append(Distinct(items), x)
<1>. DEFINE more == Append(items, x)
            m == Len(items)
            F == Firsts(items)
            G == Firsts(more)
            c == Cardinality(F)
<1>1. /\ more \in Seq(S) /\ Len(more) = m + 1
      /\ \A i \in 1 .. m : more[i] = items[i]
      /\ more[m + 1] = x /\ m \in Nat
      /\ DOMAIN items = 1 .. m /\ DOMAIN more = 1 .. m + 1
  OBVIOUS
<1>2. m + 1 \in G
  BY <1>1 DEF Firsts, Range
<1>3. G = F \cup {m + 1} /\ m + 1 \notin F /\ F \subseteq 1 .. m
  BY <1>1, <1>2 DEF Firsts
<1>. HIDE DEF F, G
<1>4. IsFiniteSet(F) /\ c \in Nat
  BY <1>1, <1>3, UpToFinite
<1>5. Cardinality(G) = c + 1
  BY <1>3, <1>4, FS_AddElement
<1>6. \A n \in 1 .. c : Distinct(more)[n] = Distinct(items)[n] /\ Distinct(items)[n] \in S
  <2>. TAKE n \in 1 .. c
  <2>1. PICK i \in F : n = Cardinality(UpTo(F, i))
    BY DistinctIs DEF F
  <2>2. Distinct(items)[n] = items[i] /\ items[i] \in S
    BY <2>1, <1>1, <1>3, DistinctIs DEF F
  <2>3. UpTo(G, i) = UpTo(F, i) /\ i \in G
    BY <1>1, <1>3, <2>1 DEF UpTo
  <2>4. Distinct(more)[n] = more[i]
    BY <2>1, <2>3, <1>1, DistinctIs DEF G
  <2>. QED
    BY <2>2, <2>4, <1>1, <1>3
<1>7. Distinct(more)[c + 1] = x
  <2>1. \A j \in G : j <= m + 1
    BY <1>1, <1>3
  <2>2. UpTo(G, m + 1) = G
    BY <2>1 DEF UpTo
  <2>3. \A j \in Firsts(more) :
            Distinct(more)[Cardinality(UpTo(Firsts(more), j))] = more[j]
    BY <1>1, DistinctIs
  <2>. QED
    BY <2>2, <2>3, <1>2, <1>5, <1>1 DEF G
<1>8. Distinct(items) = [n \in 1 .. c |-> Distinct(items)[n]]
  BY DistinctIs DEF F
<1>9. Distinct(more) = [n \in 1 .. c + 1 |-> Distinct(more)[n]]
  BY <1>1, <1>5, DistinctIs DEF G
<1>10. Distinct(items) \in Seq(S) /\ Len(Distinct(items)) = c
  <2>. DEFINE d == [n \in 1 .. c |-> Distinct(items)[n]]
  <2>1. d \in Seq(S) /\ Len(d) = c
    BY <1>4, <1>6
  <2>. QED
    BY <2>1, <1>8
<1>11. Append(Distinct(items), x) =
          [n \in 1 .. c + 1 |-> IF n = c + 1 THEN x ELSE Distinct(items)[n]]
  BY <1>10, AppendIs
<1>12. \A n \in 1 .. c + 1 :
          Distinct(more)[n] = IF n = c + 1 THEN x ELSE Distinct(items)[n]
  BY <1>4, <1>6, <1>7
<1>. QED
  BY <1>9, <1>11, <1>12

\* Prefixes of a sequence, one item at a time.
LEMMA PrefixNext ==
    ASSUME NEW S, NEW s \in Seq(S), NEW n \in Nat, n < Len(s)
    PROVE  /\ SubSeq(s, 1, n) \in Seq(S) /\ s[n + 1] \in S
           /\ SubSeq(s, 1, n + 1) = Append(SubSeq(s, 1, n), s[n + 1])
<1>. DEFINE a == SubSeq(s, 1, n)
            b == SubSeq(s, 1, n + 1)
<1>1. a \in Seq(S) /\ b \in Seq(S) /\ s[n + 1] \in S /\ Len(a) = n /\ Len(b) = n + 1
  OBVIOUS
<1>2. \A i \in 1 .. n + 1 : b[i] = Append(a, s[n + 1])[i]
  OBVIOUS
<1>3. Append(a, s[n + 1]) \in Seq(S) /\ Len(Append(a, s[n + 1])) = n + 1
  BY <1>1
<1>. HIDE DEF a, b
<1>4. b = Append(a, s[n + 1])
  BY <1>1, <1>2, <1>3, SeqEqual
<1>. QED
  BY <1>1, <1>4 DEF a, b

LEMMA PrefixEnds ==
    ASSUME NEW S, NEW s \in Seq(S)
    PROVE  SubSeq(s, 1, 0) = <<>> /\ SubSeq(s, 1, Len(s)) = s /\ Len(s) \in Nat
  BY SubSeqFull, SubSeqEmpty

LEMMA ConcatAppend ==
    ASSUME NEW S, NEW a \in Seq(S), NEW b \in Seq(S), NEW x \in S
    PROVE  a \o Append(b, x) = Append(a \o b, x)
<1>1. <<x>> \in Seq(S) /\ a \o b \in Seq(S)
  OBVIOUS
<1>2. Append(b, x) = b \o <<x>> /\ Append(a \o b, x) = (a \o b) \o <<x>>
  BY <1>1, AppendIsConcat
<1>. QED
  BY <1>1, <1>2, ConcatAssociative

\* Distinct keeps every item.
LEMMA DistinctType ==
    ASSUME NEW S, NEW items \in Seq(S)
    PROVE  Distinct(items) \in Seq(S) /\ Range(Distinct(items)) = Range(items)
<1>. DEFINE F == Firsts(items)
            d == [n \in 1 .. Cardinality(F) |-> Distinct(items)[n]]
<1>1. /\ F \subseteq DOMAIN items /\ Cardinality(F) \in Nat /\ Distinct(items) = d
      /\ \A i \in F : /\ Cardinality(UpTo(F, i)) \in 1 .. Cardinality(F)
                      /\ Distinct(items)[Cardinality(UpTo(F, i))] = items[i]
      /\ \A n \in 1 .. Cardinality(F) : \E i \in F : n = Cardinality(UpTo(F, i))
  BY DistinctIs
<1>2. ASSUME NEW n \in 1 .. Cardinality(F)
      PROVE  \E i \in F : Distinct(items)[n] = items[i]
  BY <1>1
<1>3. ASSUME NEW i \in DOMAIN items
      PROVE  \E j \in F : items[j] = items[i]
  <2>. DEFINE T == {j \in DOMAIN items : items[j] = items[i]}
  <2>1. T \subseteq Nat /\ T # {}
    OBVIOUS
  <2>2. PICK j \in T : \A k \in T : j <= k
    <3>. HIDE DEF T
    <3>. QED
      BY <2>1, Least
  <2>3. j \in F
    BY <2>2 DEF Firsts
  <2>. QED
    BY <2>2, <2>3
<1>. HIDE DEF F
<1>4. \A n \in 1 .. Cardinality(F) : Distinct(items)[n] \in S
  BY <1>1, <1>2
<1>5. d \in Seq(S)
  BY <1>1, <1>4
<1>6. Range(Distinct(items)) = {Distinct(items)[n] : n \in 1 .. Cardinality(F)}
  <2>1. DOMAIN d = 1 .. Cardinality(F)
    OBVIOUS
  <2>. HIDE DEF d
  <2>. QED
    BY <1>1, <2>1 DEF Range
<1>7. Range(Distinct(items)) \subseteq Range(items)
  BY <1>1, <1>2, <1>6 DEF Range
<1>8. ASSUME NEW x \in Range(items) PROVE x \in Range(Distinct(items))
  <2>1. PICK i \in DOMAIN items : items[i] = x
    BY DEF Range
  <2>2. PICK j \in F : items[j] = x
    BY <1>3, <2>1
  <2>. QED
    BY <1>1, <1>6, <2>2
<1>. QED
  BY <1>1, <1>5, <1>7, <1>8

\* One item more, or an array more, behind an array without repetitions: what
\* `add` appends if it is not there yet.
LEMMA DistinctAppend ==
    ASSUME NEW S, NEW items \in Seq(S), NEW x \in S
    PROVE  Distinct(Append(items, x)) = AppendNew(Distinct(items), x)
<1>1. Range(Distinct(items)) = Range(items)
  BY DistinctType
<1>2. CASE x \in Range(items)
  BY <1>1, <1>2, DistinctKnown DEF AppendNew
<1>3. CASE x \notin Range(items)
  BY <1>1, <1>3, DistinctNew DEF AppendNew
<1>. QED
  BY <1>2, <1>3

LEMMA DistinctConcat ==
    ASSUME NEW S, NEW items \in Seq(S), NEW more \in Seq(S)
    PROVE  Distinct(items \o more) = AppendAllNew(Distinct(items), more)
<1>. DEFINE Upto(n) == items \o SubSeq(more, 1, n)
<1>0. Len(more) \in Nat
  OBVIOUS
<1>1. PICK f : /\ AppendsUpTo(f, Distinct(items), more, Len(more))
               /\ AppendAllNew(Distinct(items), more) = f[Len(more)]
  BY <1>0, AppendAllNewIs
<1>. DEFINE T == {n \in Nat : n <= Len(more) => f[n] = Distinct(Upto(n))}
<1>2. 0 \in T
  <2>1. Upto(0) = items
    BY PrefixEnds, ConcatEmptySeq
  <2>2. f[0] = Distinct(items)
    BY <1>0, <1>1 DEF AppendsUpTo
  <2>. QED
    BY <2>1, <2>2
<1>3. ASSUME NEW n \in Nat, n \in T
      PROVE  n + 1 \in T
  <2>. SUFFICES ASSUME n + 1 <= Len(more)
                PROVE  f[n + 1] = Distinct(Upto(n + 1))
    OBVIOUS
  <2>0. n + 1 \in 0 .. Len(more) /\ n + 1 # 0 /\ (n + 1) - 1 = n /\ n < Len(more)
        /\ n <= Len(more)
    BY <1>0
  <2>1. f[n + 1] = AppendNew(f[n], more[n + 1])
    BY <2>0, <1>1 DEF AppendsUpTo
  <2>2. f[n] = Distinct(Upto(n))
    BY <1>3, <2>0
  <2>3. /\ SubSeq(more, 1, n) \in Seq(S) /\ more[n + 1] \in S
        /\ SubSeq(more, 1, n + 1) = Append(SubSeq(more, 1, n), more[n + 1])
    BY <2>0, PrefixNext
  <2>4. Upto(n + 1) = Append(Upto(n), more[n + 1])
    BY <2>3, ConcatAppend
  <2>5. Upto(n) \in Seq(S)
    BY <2>3
  <2>. QED
    BY <2>1, <2>2, <2>3, <2>4, <2>5, DistinctAppend
<1>. HIDE DEF T
<1>4. Len(more) \in T
  BY <1>0, <1>2, <1>3, Induct
<1>5. Upto(Len(more)) = items \o more
  BY PrefixEnds
<1>6. f[Len(more)] = Distinct(Upto(Len(more)))
  <2>. HIDE DEF Upto
  <2>. QED
    BY <1>0, <1>4 DEF T
<1>. QED
  BY <1>1, <1>5, <1>6

\* AppendAllNew keeps arrays arrays, and without repetitions if they had none.
LEMMA AppendNewType ==
    ASSUME NEW S, NEW items \in Seq(S), NEW x \in S
    PROVE  /\ AppendNew(items, x) \in Seq(S)
           /\ IsInjective(items) => IsInjective(AppendNew(items, x))
<1>1. CASE x \in Range(items)
  BY <1>1 DEF AppendNew
<1>2. CASE x \notin Range(items)
  <2>1. AppendNew(items, x) = Append(items, x)
    BY <1>2 DEF AppendNew
  <2>2. \A i \in DOMAIN items : items[i] # x
    BY <1>2 DEF Range
  <2>. QED
    BY <2>1, <2>2 DEF IsInjective
<1>. QED
  BY <1>1, <1>2

LEMMA AppendAllNewType ==
    ASSUME NEW S, NEW items \in Seq(S), NEW more \in Seq(S)
    PROVE  /\ AppendAllNew(items, more) \in Seq(S)
           /\ IsInjective(items) => IsInjective(AppendAllNew(items, more))
<1>0. Len(more) \in Nat
  OBVIOUS
<1>1. PICK f : /\ AppendsUpTo(f, items, more, Len(more))
               /\ AppendAllNew(items, more) = f[Len(more)]
  BY <1>0, AppendAllNewIs
<1>. DEFINE Good(s) == s \in Seq(S) /\ (IsInjective(items) => IsInjective(s))
            T == {n \in Nat : n <= Len(more) => Good(f[n])}
<1>2. 0 \in T
  BY <1>0, <1>1 DEF AppendsUpTo
<1>3. ASSUME NEW n \in Nat, n \in T
      PROVE  n + 1 \in T
  <2>. SUFFICES ASSUME n + 1 <= Len(more)
                PROVE  Good(f[n + 1])
    OBVIOUS
  <2>0. /\ n + 1 \in 0 .. Len(more) /\ n + 1 # 0 /\ (n + 1) - 1 = n
        /\ n <= Len(more) /\ more[n + 1] \in S
    BY <1>0
  <2>1. f[n + 1] = AppendNew(f[n], more[n + 1])
    BY <2>0, <1>1 DEF AppendsUpTo
  <2>. QED
    BY <1>3, <2>0, <2>1, AppendNewType
<1>. HIDE DEF T
<1>4. Len(more) \in T
  BY <1>0, <1>2, <1>3, Induct
<1>. QED
  BY <1>0, <1>1, <1>4 DEF T

\* Appended to nothing, an array without repetition stays as it is.
LEMMA AppendAllNewToNothing ==
    ASSUME NEW S, NEW items \in Seq(S), IsInjective(items)
    PROVE  AppendAllNew(<<>>, items) = items
<1>0. Len(items) \in Nat /\ DOMAIN items = 1 .. Len(items)
  OBVIOUS
<1>1. PICK f : /\ AppendsUpTo(f, <<>>, items, Len(items))
               /\ AppendAllNew(<<>>, items) = f[Len(items)]
  BY <1>0, AppendAllNewIs
<1>. DEFINE T == {n \in Nat : n <= Len(items) => f[n] = SubSeq(items, 1, n)}
<1>2. 0 \in T
  BY <1>0, <1>1, PrefixEnds DEF AppendsUpTo
<1>3. ASSUME NEW n \in Nat, n \in T
      PROVE  n + 1 \in T
  <2>. SUFFICES ASSUME n + 1 <= Len(items)
                PROVE  f[n + 1] = SubSeq(items, 1, n + 1)
    OBVIOUS
  <2>0. /\ n + 1 \in 0 .. Len(items) /\ n + 1 # 0 /\ (n + 1) - 1 = n
        /\ n <= Len(items) /\ n < Len(items)
    BY <1>0
  <2>. DEFINE s == SubSeq(items, 1, n)
  <2>1. f[n + 1] = AppendNew(s, items[n + 1])
    BY <2>0, <1>1, <1>3 DEF AppendsUpTo
  <2>2. items[n + 1] \notin Range(s)
    <3>1. \A i \in DOMAIN s : s[i] = items[i] /\ i \in DOMAIN items /\ i # n + 1
      BY <2>0
    <3>. QED
      BY <3>1, <1>0, <2>0 DEF Range, IsInjective
  <2>. QED
    BY <2>0, <2>1, <2>2, PrefixNext DEF AppendNew
<1>. HIDE DEF T
<1>4. Len(items) \in T
  BY <1>0, <1>2, <1>3, Induct
<1>. QED
  BY <1>0, <1>1, <1>4, PrefixEnds DEF T

-----------------------------------------------------------------------------
(* Arrays put together                                                      *)

\* FlattenSeq, as a function of how many sequences it has put together.
FlattensUpTo(f, seqs, m) ==
    f = [i \in 1 .. m |-> IF i = 1 THEN seqs[i] ELSE f[i - 1] \o seqs[i]]

LEMMA FlattensUpToAny ==
    ASSUME NEW seqs, NEW k \in Nat
    PROVE  \E f : FlattensUpTo(f, seqs, k)
<1>. DEFINE T == {m \in Nat : \E f : FlattensUpTo(f, seqs, m)}
<1>1. 0 \in T
  <2>. DEFINE f == [i \in 1 .. 0 |-> seqs]
  <2>1. FlattensUpTo(f, seqs, 0)
    BY DEF FlattensUpTo
  <2>. QED
    BY <2>1
<1>2. ASSUME NEW m \in Nat, m \in T
      PROVE  m + 1 \in T
  <2>1. PICK f : FlattensUpTo(f, seqs, m)
    BY <1>2
  <2>. DEFINE Next1(i) == IF i = 1 THEN seqs[i] ELSE f[i - 1] \o seqs[i]
              h == [i \in 1 .. m + 1 |-> IF i = m + 1 THEN Next1(i) ELSE f[i]]
  <2>2. ASSUME NEW i \in 1 .. m + 1
        PROVE  h[i] = IF i = 1 THEN seqs[i] ELSE h[i - 1] \o seqs[i]
    <3>1. CASE i = m + 1
      <4>1. i # 1 => h[i - 1] = f[i - 1]
        BY <3>1
      <4>. QED
        BY <3>1, <4>1
    <3>2. CASE i # m + 1
      <4>1. h[i] = f[i] /\ (i # 1 => h[i - 1] = f[i - 1]) /\ i \in 1 .. m
        BY <3>2
      <4>2. f[i] = Next1(i)
        BY <2>1, <4>1 DEF FlattensUpTo
      <4>. QED
        BY <4>1, <4>2
    <3>. QED
      BY <3>1, <3>2
  <2>3. FlattensUpTo(h, seqs, m + 1)
    BY <2>2 DEF FlattensUpTo
  <2>. HIDE DEF h
  <2>. QED
    BY <2>3
<1>. HIDE DEF T
<1>3. k \in T
  BY <1>1, <1>2, Induct
<1>. QED
  BY <1>3 DEF T

LEMMA FlattenSeqIs ==
    ASSUME NEW seqs, Len(seqs) \in Nat, Len(seqs) # 0
    PROVE  \E f : /\ FlattensUpTo(f, seqs, Len(seqs))
                  /\ FlattenSeq(seqs) = f[Len(seqs)]
<1>1. \E f : FlattensUpTo(f, seqs, Len(seqs))
  BY FlattensUpToAny
<1>2. FlattensUpTo((CHOOSE f : FlattensUpTo(f, seqs, Len(seqs))), seqs, Len(seqs))
  BY <1>1, Zenon
<1>3. FlattenSeq(seqs) = (CHOOSE f : FlattensUpTo(f, seqs, Len(seqs)))[Len(seqs)]
  BY DEF FlattenSeq, FlattensUpTo
<1>. QED
  BY <1>2, <1>3

LEMMA FlattenEmpty == FlattenSeq(<<>>) = <<>>
  BY DEF FlattenSeq

\* Two sequences that agree at these places.
SameOn(these, s, t) == \A i \in these : t[i] = s[i]

\* What is computed of a prefix does not depend on what follows.
LEMMA FlattenOfPrefix ==
    ASSUME NEW seqs, NEW more, NEW m \in Nat, NEW n \in Nat, m <= n,
           SameOn(1 .. m, seqs, more),
           NEW f, FlattensUpTo(f, seqs, m), NEW g, FlattensUpTo(g, more, n)
    PROVE  \A i \in 1 .. m : f[i] = g[i]
<1>. DEFINE T == {i \in Nat : i \in 1 .. m => f[i] = g[i]}
<1>1. 0 \in T
  OBVIOUS
<1>2. ASSUME NEW i \in Nat, i \in T
      PROVE  i + 1 \in T
  <2>. SUFFICES ASSUME i + 1 \in 1 .. m
                PROVE  f[i + 1] = g[i + 1]
    OBVIOUS
  <2>0. i + 1 \in 1 .. n /\ (i + 1) - 1 = i /\ (i + 1 # 1 => i \in 1 .. m)
    OBVIOUS
  <2>1. f[i + 1] = IF i + 1 = 1 THEN seqs[i + 1] ELSE f[i] \o seqs[i + 1]
    BY <2>0 DEF FlattensUpTo
  <2>2. g[i + 1] = IF i + 1 = 1 THEN more[i + 1] ELSE g[i] \o more[i + 1]
    BY <2>0 DEF FlattensUpTo
  <2>. QED
    BY <1>2, <2>0, <2>1, <2>2 DEF SameOn
<1>. HIDE DEF T
<1>3. \A i \in Nat : i \in T
  BY <1>1, <1>2, Induct
<1>. QED
  BY <1>3 DEF T

LEMMA FlattenOneMore ==
    ASSUME NEW seqs, NEW more, NEW m \in Nat, Len(seqs) = m, Len(more) = m + 1,
           SameOn(1 .. m, seqs, more)
    PROVE  FlattenSeq(more) = IF m = 0 THEN more[m + 1]
                              ELSE FlattenSeq(seqs) \o more[m + 1]
<1>0. m + 1 \in 1 .. m + 1 /\ (m + 1) - 1 = m /\ m + 1 # 0 /\ m + 1 \in Nat
  OBVIOUS
<1>1. PICK g : FlattensUpTo(g, more, m + 1) /\ FlattenSeq(more) = g[m + 1]
  BY <1>0, FlattenSeqIs
<1>2. g[m + 1] = IF m + 1 = 1 THEN more[m + 1] ELSE g[m] \o more[m + 1]
  BY <1>0, <1>1 DEF FlattensUpTo
<1>3. CASE m = 0
  BY <1>1, <1>2, <1>3
<1>4. CASE m # 0
  <2>1. PICK f : FlattensUpTo(f, seqs, m) /\ FlattenSeq(seqs) = f[m]
    BY <1>4, FlattenSeqIs
  <2>2. m <= m + 1 /\ m \in 1 .. m /\ m + 1 # 1
    BY <1>4
  <2>3. f[m] = g[m]
    BY <1>0, <1>1, <2>1, <2>2, FlattenOfPrefix
  <2>. QED
    BY <1>1, <1>2, <1>4, <2>1, <2>2, <2>3
<1>. QED
  BY <1>3, <1>4

\* The items of one array more go behind the others.
LEMMA FlattenAppend ==
    ASSUME NEW S, NEW seqs \in Seq(Seq(S)), NEW x \in Seq(S)
    PROVE  FlattenSeq(Append(seqs, x)) = FlattenSeq(seqs) \o x
<1>. DEFINE m == Len(seqs)
            more == Append(seqs, x)
<1>0. /\ m \in Nat /\ Len(more) = m + 1 /\ more[m + 1] = x
      /\ SameOn(1 .. m, seqs, more)
  BY DEF SameOn
<1>1. FlattenSeq(more) = IF m = 0 THEN x ELSE FlattenSeq(seqs) \o x
  BY <1>0, FlattenOneMore
<1>2. CASE m = 0
  <2>1. seqs = <<>>
    BY <1>2
  <2>2. FlattenSeq(seqs) \o x = x
    BY <2>1, FlattenEmpty, ConcatEmptySeq
  <2>. QED
    BY <1>1, <1>2, <2>2
<1>. QED
  BY <1>1, <1>2

\* By prefixes: what is joined are items of S, and nothing if all are empty.
LEMMA FlattenType ==
    ASSUME NEW S, NEW seqs \in Seq(Seq(S))
    PROVE  /\ FlattenSeq(seqs) \in Seq(S)
           /\ (\A i \in DOMAIN seqs : seqs[i] = <<>>) => FlattenSeq(seqs) = <<>>
<1>. DEFINE Good(s) == /\ FlattenSeq(s) \in Seq(S)
                       /\ (\A i \in DOMAIN seqs : seqs[i] = <<>>) => FlattenSeq(s) = <<>>
            T == {n \in Nat : n <= Len(seqs) => Good(SubSeq(seqs, 1, n))}
<1>0. Len(seqs) \in Nat /\ DOMAIN seqs = 1 .. Len(seqs)
  OBVIOUS
<1>1. 0 \in T
  <2>1. SubSeq(seqs, 1, 0) = <<>>
    BY PrefixEnds
  <2>2. <<>> \in Seq(S)
    OBVIOUS
  <2>3. Good(SubSeq(seqs, 1, 0))
    BY <2>1, <2>2, FlattenEmpty
  <2>. HIDE DEF Good
  <2>. QED
    BY <2>3
<1>2. ASSUME NEW n \in Nat, n \in T
      PROVE  n + 1 \in T
  <2>. SUFFICES ASSUME n + 1 <= Len(seqs)
                PROVE  Good(SubSeq(seqs, 1, n + 1))
    OBVIOUS
  <2>0. n < Len(seqs) /\ n <= Len(seqs) /\ n + 1 \in DOMAIN seqs
    BY <1>0
  <2>. DEFINE s == SubSeq(seqs, 1, n)
              x == seqs[n + 1]
  <2>1. s \in Seq(Seq(S)) /\ x \in Seq(S) /\ SubSeq(seqs, 1, n + 1) = Append(s, x)
    BY <2>0, PrefixNext
  <2>2. Good(s)
    BY <1>2, <2>0
  <2>. HIDE DEF s
  <2>3. FlattenSeq(Append(s, x)) = FlattenSeq(s) \o x
    BY <2>1, FlattenAppend
  <2>4. FlattenSeq(s) \o x \in Seq(S)
    BY <2>1, <2>2
  <2>5. x = <<>> /\ FlattenSeq(s) = <<>> => FlattenSeq(s) \o x = <<>>
    BY <2>2, ConcatEmptySeq
  <2>. QED
    BY <2>0, <2>1, <2>2, <2>3, <2>4, <2>5
<1>. HIDE DEF T
<1>3. Len(seqs) \in T
  BY <1>0, <1>1, <1>2, Induct
<1>4. Good(SubSeq(seqs, 1, Len(seqs)))
  <2>. HIDE DEF Good
  <2>. QED
    BY <1>0, <1>3 DEF T
<1>. QED
  BY <1>4, PrefixEnds

-----------------------------------------------------------------------------
(* What the layers hold, one layer more                                     *)

\* One layer more, on top of the others.
OnTop(layers, o, more) == more = Append(layers, o)

\* All of them are configs.
Configs(C) == \A c \in C : IsConfig(c)

\* What a config adds to an array, and all the items there may be.
Part(c, k) == IF k \in DOMAIN c THEN c[k] ELSE <<>>
\* All the items there may be in field k.
Listed(C, k) == UNION {Range(c[k]) : c \in {d \in C : k \in DOMAIN d}}

IsArrayField(k) == k \in ArrayFields \cup ArrayConcatFields

\* What the layers list in an array field: the parts, one after the other.
LEMMA PartType ==
    ASSUME NEW C, Configs(C), NEW k, IsArrayField(k), NEW c \in C
    PROVE  Part(c, k) \in Seq(Listed(C, k))
<1>1. CASE k \notin DOMAIN c
  BY <1>1 DEF Part
<1>2. CASE k \in DOMAIN c
  <2>1. c[k] \in Seq(Range(c[k]))
    BY <1>2 DEF Configs, IsConfig, OfKind, IsArrayField, IsArray
  <2>2. Range(c[k]) \subseteq Listed(C, k)
    BY <1>2 DEF Listed
  <2>. QED
    BY <1>2, <2>1, <2>2, SeqMonotonic DEF Part
<1>. QED
  BY <1>1, <1>2

Parts(layers, k) == [i \in DOMAIN layers |-> Part(layers[i], k)]

LEMMA PartsType ==
    ASSUME NEW C, Configs(C), NEW k, IsArrayField(k), NEW layers \in Seq(C)
    PROVE  /\ Parts(layers, k) \in Seq(Seq(Listed(C, k)))
           /\ Len(Parts(layers, k)) = Len(layers)
           /\ Items(layers, k) = FlattenSeq(Parts(layers, k))
<1>1. \A i \in 1 .. Len(layers) : Part(layers[i], k) \in Seq(Listed(C, k))
  BY PartType
<1>2. Parts(layers, k) = [i \in 1 .. Len(layers) |-> Part(layers[i], k)]
  BY DEF Parts
<1>3. Items(layers, k) = FlattenSeq(Parts(layers, k))
  BY DEF Items, Parts, Part
<1>. QED
  BY <1>1, <1>2, <1>3

\* A layer more puts its items behind the others.
LEMMA ItemsAppend ==
    ASSUME NEW C, Configs(C), NEW k, IsArrayField(k), NEW layers \in Seq(C),
           NEW o \in C,
           NEW more, OnTop(layers, o, more)
    PROVE  Items(more, k) = Items(layers, k) \o Part(o, k)
<1>. DEFINE U == Listed(C, k)
<1>1. more \in Seq(C) /\ Len(more) = Len(layers) + 1 /\ more[Len(layers) + 1] = o
      /\ \A i \in 1 .. Len(layers) : more[i] = layers[i]
  BY DEF OnTop
<1>2. Parts(more, k) = Append(Parts(layers, k), Part(o, k))
  <2>1. /\ Parts(layers, k) \in Seq(Seq(U)) /\ Len(Parts(layers, k)) = Len(layers)
        /\ Parts(more, k) \in Seq(Seq(U)) /\ Len(Parts(more, k)) = Len(layers) + 1
        /\ Part(o, k) \in Seq(U)
    BY <1>1, PartType, PartsType
  <2>2. Append(Parts(layers, k), Part(o, k)) =
          [n \in 1 .. Len(layers) + 1 |->
             IF n = Len(layers) + 1 THEN Part(o, k) ELSE Parts(layers, k)[n]]
    BY <2>1, AppendIs
  <2>3. Parts(more, k) = [n \in 1 .. Len(layers) + 1 |-> Part(more[n], k)]
    BY <1>1 DEF Parts
  <2>4. \A n \in 1 .. Len(layers) : Parts(layers, k)[n] = Part(more[n], k)
    BY <1>1 DEF Parts
  <2>. QED
    BY <1>1, <2>2, <2>3, <2>4
<1>3. FlattenSeq(Append(Parts(layers, k), Part(o, k)))
        = FlattenSeq(Parts(layers, k)) \o Part(o, k)
  BY PartType, PartsType, FlattenAppend
<1>. QED
  BY <1>1, <1>2, <1>3, PartsType

LEMMA ItemsType ==
    ASSUME NEW C, Configs(C), NEW k, IsArrayField(k), NEW layers \in Seq(C)
    PROVE  /\ Items(layers, k) \in Seq(Listed(C, k))
           /\ Holding(layers, k) = {} => Items(layers, k) = <<>>
<1>1. /\ Parts(layers, k) \in Seq(Seq(Listed(C, k)))
      /\ Items(layers, k) = FlattenSeq(Parts(layers, k))
  BY PartsType
<1>2. ASSUME Holding(layers, k) = {}
      PROVE  \A i \in DOMAIN Parts(layers, k) : Parts(layers, k)[i] = <<>>
  BY <1>2 DEF Holding, Parts, Part
<1>. QED
  BY <1>1, <1>2, FlattenType

\* The layers that have field k, one layer more.
LEMMA HoldingAppend ==
    ASSUME NEW C, NEW layers \in Seq(C), NEW o \in C, NEW k,
           NEW more, OnTop(layers, o, more)
    PROVE  LET n == Len(layers)
           IN  /\ n \in Nat /\ Holding(layers, k) \subseteq 1 .. n
               /\ Holding(more, k) =
                     IF k \in DOMAIN o THEN Holding(layers, k) \cup {n + 1}
                     ELSE Holding(layers, k)
               /\ more[n + 1] = o
               /\ SameOn(Holding(layers, k), layers, more)
  BY DEF Holding, SameOn, OnTop

\* Places up to some height.
Bounded(these) == \E n \in Nat : these \subseteq 1 .. n

\* Layers that agree in these places make the same of the field.
LEMMA TopmostSame ==
    ASSUME NEW layers, NEW more, NEW k, NEW these,
           Bounded(these), SameOn(these, layers, more)
    PROVE  Topmost(more, these, k) = Topmost(layers, these, k)
<1>. DEFINE Keys(ls) == UNION {DOMAIN ls[i][k] : i \in these}
            With(ls, e) == {i \in these : e \in DOMAIN ls[i][k]}
<1>. PICK n \in Nat : these \subseteq 1 .. n
  BY DEF Bounded
<1>0. \A i \in these : more[i] = layers[i]
  BY DEF SameOn
<1>1. Keys(more) = Keys(layers)
  BY <1>0
<1>2. ASSUME NEW e \in Keys(layers)
      PROVE  more[Max(With(more, e))][k][e] = layers[Max(With(layers, e))][k][e]
  <2>1. With(more, e) = With(layers, e)
    BY <1>0
  <2>2. Max(With(layers, e)) \in these
    <3>1. With(layers, e) # {} /\ With(layers, e) \subseteq 1 .. n
      OBVIOUS
    <3>2. Max(With(layers, e)) \in With(layers, e)
      <4>. HIDE DEF With
      <4>. QED
        BY <3>1, MaxAmong
    <3>. QED
      BY <3>2
  <2>. QED
    BY <1>0, <2>1, <2>2
<1>3. Topmost(more, these, k) = [e \in Keys(more) |-> more[Max(With(more, e))][k][e]]
  BY DEF Topmost
<1>4. Topmost(layers, these, k) =
        [e \in Keys(layers) |-> layers[Max(With(layers, e))][k][e]]
  BY DEF Topmost
<1>. HIDE DEF Keys, With
<1>. QED
  BY <1>1, <1>2, <1>3, <1>4

\* Place m is above these.
Above(m, these) == m \in Nat /\ these \subseteq 1 .. m - 1

\* In a map, a layer more hides the keys it has: dict.update.
LEMMA TopmostAppend ==
    ASSUME NEW layers, NEW more, NEW k, NEW these, NEW m, Above(m, these),
           SameOn(these, layers, more)
    PROVE  Topmost(more, these \cup {m}, k)
               = Updated(Topmost(layers, these, k), more[m][k])
<1>0. Bounded(these)
  <2>1. m = 0 => these = {}
    BY DEF Above
  <2>2. m # 0 => m - 1 \in Nat
    BY DEF Above
  <2>3. these \subseteq 1 .. 0 \/ \E n \in Nat : these \subseteq 1 .. n
    BY <2>1, <2>2 DEF Above
  <2>. QED
    BY <2>3 DEF Bounded
<1>1. Topmost(more, these, k) = Topmost(layers, these, k)
  BY <1>0, TopmostSame
<1>. DEFINE Keys == UNION {DOMAIN more[i][k] : i \in these}
            New == DOMAIN more[m][k]
            With(e) == {i \in these : e \in DOMAIN more[i][k]}
            WithNew(e) == {i \in these \cup {m} : e \in DOMAIN more[i][k]}
            t == Topmost(more, these, k)
<1>2. t = [e \in Keys |-> more[Max(With(e))][k][e]]
  BY DEF Topmost
<1>3. Topmost(more, these \cup {m}, k) =
        [e \in Keys \cup New |-> more[Max(WithNew(e))][k][e]]
  <2>1. UNION {DOMAIN more[i][k] : i \in these \cup {m}} = Keys \cup New
    OBVIOUS
  <2>. QED
    BY <2>1 DEF Topmost
<1>4. ASSUME NEW e \in New PROVE Max(WithNew(e)) = m
  <2>1. these \cup {m} \subseteq Nat /\ \A i \in these \cup {m} : i <= m
    BY DEF Above
  <2>2. m \in WithNew(e) /\ WithNew(e) \subseteq these \cup {m}
    OBVIOUS
  <2>. HIDE DEF WithNew
  <2>. QED
    BY <2>1, <2>2, MaxIs
<1>5. ASSUME NEW e, e \notin New PROVE WithNew(e) = With(e)
  BY <1>5
<1>6. Updated(t, more[m][k]) =
        [e \in Keys \cup New |-> IF e \in New THEN more[m][k][e] ELSE t[e]]
  BY <1>2 DEF Updated
<1>7. ASSUME NEW e \in Keys \cup New
      PROVE  more[Max(WithNew(e))][k][e] = IF e \in New THEN more[m][k][e] ELSE t[e]
  <2>1. CASE e \in New
    BY <2>1, <1>4
  <2>2. CASE e \notin New
    <3>1. WithNew(e) = With(e) /\ e \in Keys
      BY <2>2, <1>5
    <3>. HIDE DEF WithNew, With, Keys
    <3>. QED
      BY <3>1, <2>2, <1>2
  <2>. QED
    BY <2>1, <2>2
<1>. HIDE DEF Keys, New, With, WithNew, t
<1>8. Topmost(more, these \cup {m}, k) = Updated(t, more[m][k])
  BY <1>3, <1>6, <1>7
<1>. QED
  BY <1>1, <1>8 DEF t

\* dict.update of nothing.
LEMMA UpdatedNothing ==
    ASSUME NEW layers, NEW k, NEW v, IsMap(v)
    PROVE  Updated(Topmost(layers, {}, k), v) = v
  BY DEF Updated, Topmost, IsMap

\* The highest layer is the one just added.
LEMMA HighestAppend ==
    ASSUME NEW C, NEW layers \in Seq(C), NEW o \in C, NEW k, k \in DOMAIN o,
           NEW more, OnTop(layers, o, more)
    PROVE  Max(Holding(more, k)) = Len(layers) + 1 /\ Highest(more, k) = o[k]
<1>. DEFINE G == Holding(more, k)
            n == Len(layers)
<1>0. n \in Nat /\ Holding(layers, k) \subseteq 1 .. n /\ more[n + 1] = o
  BY HoldingAppend
<1>1. G = Holding(layers, k) \cup {n + 1}
  BY HoldingAppend
<1>2. n + 1 \in G /\ G \subseteq Nat /\ \A i \in G : i <= n + 1
  BY <1>0, <1>1
<1>. HIDE DEF G
<1>3. Max(G) = n + 1
  BY <1>2, MaxIs
<1>. QED
  BY <1>0, <1>3 DEF G, Highest

\* Named commands are united with those below, unless either is a plain one.
LEMMA CommandsAppend ==
    ASSUME NEW C, NEW layers \in Seq(C), NEW o \in C, NEW k, k \in DOMAIN o,
           IsMap(o[k]), NEW more, OnTop(layers, o, more)
    PROVE  LET below == Commands(layers, k)
           IN  Commands(more, k) =
                 IF Holding(layers, k) # {} /\ IsNamed(below) /\ IsNamed(o[k])
                 THEN Updated(below, o[k]) ELSE o[k]
<1>. DEFINE n == Len(layers)
            H == Holding(layers, k)
            plain == {i \in H : ~IsNamed(layers[i][k])}
            shown == {i \in H : \A j \in plain : j < i}
            G == Holding(more, k)
            plainNow == {i \in G : ~IsNamed(more[i][k])}
            shownNow == {i \in G : \A j \in plainNow : j < i}
            below == Commands(layers, k)
<1>1. /\ n \in Nat /\ H \subseteq 1 .. n /\ G = H \cup {n + 1} /\ more[n + 1] = o
      /\ SameOn(H, layers, more)
  BY HoldingAppend
<1>2. \A i \in H : more[i] = layers[i]
  BY <1>1 DEF SameOn
<1>3. below = IF Max(H) \in plain THEN Highest(layers, k) ELSE Topmost(layers, shown, k)
  BY DEF Commands
<1>4. Commands(more, k) = IF n + 1 \in plainNow THEN o[k] ELSE Topmost(more, shownNow, k)
  <2>1. Max(G) = n + 1 /\ Highest(more, k) = o[k]
    BY HighestAppend
  <2>. QED
    BY <2>1 DEF Commands
<1>5. n + 1 \in plainNow <=> ~IsNamed(o[k])
  BY <1>1
<1>6. CASE ~IsNamed(o[k])
  BY <1>4, <1>5, <1>6
<1>7. CASE IsNamed(o[k])
  <2>1. plainNow = plain
    <3>1. n + 1 \notin plainNow
      BY <1>5, <1>7
    <3>. QED
      BY <1>1, <1>2, <3>1
  <2>2. shownNow = shown \cup {n + 1}
    <3>1. \A j \in plain : j < n + 1
      BY <1>1
    <3>. QED
      BY <1>1, <2>1, <3>1
  <2>3. shown \subseteq 1 .. n /\ SameOn(shown, layers, more)
    BY <1>1 DEF SameOn
  <2>4. Commands(more, k) = Updated(Topmost(layers, shown, k), o[k])
    <3>1. Topmost(more, shown \cup {n + 1}, k)
             = Updated(Topmost(layers, shown, k), o[k])
      <4>1. Above(n + 1, shown)
        BY <1>1, <2>3 DEF Above
      <4>2. Topmost(more, shown \cup {n + 1}, k)
               = Updated(Topmost(layers, shown, k), more[n + 1][k])
        <5>. HIDE DEF shown
        <5>. QED
          BY <2>3, <4>1, TopmostAppend
      <4>. QED
        BY <1>1, <4>2
    <3>. QED
      BY <1>1, <1>4, <1>5, <1>7, <2>2, <3>1
  <2>5. CASE H = {}
    <3>1. shown = {}
      BY <2>5
    <3>. QED
      BY <2>4, <2>5, <3>1, UpdatedNothing
  <2>6. CASE H # {}
    <3>1. Max(H) \in H /\ \A i \in H : i <= Max(H)
      <4>. HIDE DEF H
      <4>. QED
        BY <1>1, <2>6, MaxAmong
    <3>2. CASE Max(H) \in plain
      <4>1. shown = {}
        <5>1. \A i \in H : ~(Max(H) < i)
          BY <1>1, <3>1
        <5>. QED
          BY <3>2, <5>1
      <4>2. ~IsNamed(below)
        BY <1>3, <3>2 DEF Highest
      <4>. QED
        BY <1>7, <2>4, <4>1, <4>2, UpdatedNothing
    <3>3. CASE Max(H) \notin plain
      <4>1. \A i \in shown : IsNamed(layers[i][k])
        <5>1. \A i \in shown : i \notin plain
          BY <1>1
        <5>. QED
          BY <5>1
      <4>2. IsNamed(Topmost(layers, shown, k))
        BY <4>1 DEF IsNamed, Topmost
      <4>. QED
        BY <1>3, <1>7, <2>4, <2>6, <3>3, <4>2
    <3>. QED
      BY <3>2, <3>3
  <2>. QED
    BY <2>5, <2>6
<1>. QED
  BY <1>6, <1>7

\* What the layers make of a field, one layer more: merge.py's rule for it.
LEMMA ExpectedAppend ==
    ASSUME NEW C, Configs(C), NEW layers \in Seq(C), NEW o \in C,
           NEW k \in DOMAIN o, NEW more, OnTop(layers, o, more)
    PROVE  Expected(more, k) =
             IF Holding(layers, k) = {} THEN NewField(k, o[k])
             ELSE MergeField(k, Expected(layers, k), o[k])
<1>. DEFINE n == Len(layers)
            H == Holding(layers, k)
            below == Expected(layers, k)
<1>0. k \in Field /\ OfKind(k, o[k])
  BY DEF Configs, IsConfig
<1>1. /\ n \in Nat /\ H \subseteq 1 .. n /\ Holding(more, k) = H \cup {n + 1}
      /\ more[n + 1] = o /\ SameOn(H, layers, more)
  BY HoldingAppend
<1>2. CASE k \in MapFields
  <2>1. Expected(more, k) = Updated(Topmost(layers, H, k), o[k])
    <3>1. Topmost(more, H \cup {n + 1}, k) = Updated(Topmost(layers, H, k), o[k])
      <4>1. Above(n + 1, H)
        BY <1>1 DEF Above
      <4>0. SameOn(H, layers, more)
        BY <1>1
      <4>2. Topmost(more, H \cup {n + 1}, k)
               = Updated(Topmost(layers, H, k), more[n + 1][k])
        BY <4>0, <4>1, TopmostAppend
      <4>. QED
        BY <1>1, <4>2
    <3>. QED
      BY <1>1, <1>2, <3>1 DEF Expected
  <2>2. IsMap(o[k]) /\ k \notin ArrayFields
    BY <1>0, <1>2, FieldAssumption DEF OfKind
  <2>3. CASE H = {}
    BY <2>1, <2>2, <2>3, UpdatedNothing DEF NewField
  <2>4. CASE H # {}
    BY <1>2, <2>1, <2>4 DEF Expected, MergeField
  <2>. QED
    BY <2>3, <2>4
<1>3. CASE k \in LifecycleFields
  <2>1. /\ IsMap(o[k]) /\ k \notin MapFields
        /\ k \notin ArrayFields /\ k \notin ArrayConcatFields
    BY <1>0, <1>3, FieldAssumption DEF OfKind
  <2>2. /\ Expected(more, k) = Commands(more, k)
        /\ below = Commands(layers, k)
    BY <1>3, <2>1 DEF Expected
  <2>3. Commands(more, k) =
          IF H # {} /\ IsNamed(Commands(layers, k)) /\ IsNamed(o[k])
          THEN Updated(Commands(layers, k), o[k]) ELSE o[k]
    BY <2>1, CommandsAppend
  <2>. HIDE DEF H
  <2>. QED
    BY <1>3, <2>1, <2>2, <2>3 DEF NewField, MergeField, H
<1>4. CASE IsArrayField(k)
  <2>1. /\ k \notin MapFields /\ k \notin LifecycleFields
        /\ k \in ArrayFields => k \notin ArrayConcatFields
    BY <1>4, FieldAssumption DEF IsArrayField
  <2>. DEFINE S == Listed(C, k)
  <2>2. /\ Items(more, k) = Items(layers, k) \o o[k]
        /\ o[k] \in Seq(S) /\ Items(layers, k) \in Seq(S)
        /\ H = {} => Items(layers, k) = <<>>
    <3>1. Part(o, k) = o[k] /\ Part(o, k) \in Seq(S)
      BY <1>4, PartType DEF Part
    <3>2. Items(more, k) = Items(layers, k) \o Part(o, k)
      BY <1>4, ItemsAppend
    <3>. QED
      BY <1>4, <3>1, <3>2, ItemsType
  <2>3. CASE k \in ArrayFields
    <3>1. /\ Expected(more, k) = Distinct(Items(more, k))
          /\ below = Distinct(Items(layers, k))
      BY <2>1, <2>3 DEF Expected
    <3>2. Distinct(Items(more, k)) = AppendAllNew(Distinct(Items(layers, k)), o[k])
      BY <2>2, DistinctConcat
    <3>3. H = {} => Distinct(Items(layers, k)) = <<>>
      BY <2>2, DistinctEmpty
    <3>. HIDE DEF H
    <3>. QED
      BY <2>1, <2>3, <3>1, <3>2, <3>3 DEF NewField, MergeField, H
  <2>4. CASE k \notin ArrayFields
    <3>1. k \in ArrayConcatFields
      BY <1>4, <2>4 DEF IsArrayField
    <3>2. Expected(more, k) = Items(more, k) /\ below = Items(layers, k)
      BY <2>1, <2>4, <3>1 DEF Expected
    <3>3. H = {} => Items(more, k) = o[k]
      BY <2>2, ConcatEmptySeq
    <3>. HIDE DEF H
    <3>. QED
      BY <2>1, <2>2, <2>4, <3>1, <3>2, <3>3 DEF NewField, MergeField, H
  <2>. QED
    BY <2>3, <2>4
<1>5. CASE k \notin MapFields /\ k \notin LifecycleFields /\ ~IsArrayField(k)
  <2>1. Expected(more, k) = o[k]
    <3>1. Highest(more, k) = o[k]
      BY HighestAppend
    <3>. QED
      BY <1>5, <3>1 DEF Expected, IsArrayField
  <2>. HIDE DEF H
  <2>. QED
    BY <1>5, <2>1 DEF NewField, MergeField, IsArrayField, H
<1>. QED
  BY <1>2, <1>3, <1>4, <1>5

\* A layer that lacks the field leaves it as it was.
LEMMA ExpectedKept ==
    ASSUME NEW C, Configs(C), NEW layers \in Seq(C), NEW o \in C,
           NEW k, k \notin DOMAIN o, Holding(layers, k) # {},
           NEW more, OnTop(layers, o, more)
    PROVE  Expected(more, k) = Expected(layers, k)
<1>. DEFINE n == Len(layers)
            H == Holding(layers, k)
<1>1. /\ n \in Nat /\ H \subseteq 1 .. n /\ Holding(more, k) = H
      /\ SameOn(H, layers, more)
  BY HoldingAppend
<1>2. \A i \in H : more[i] = layers[i]
  BY <1>1 DEF SameOn
<1>3. ASSUME NEW these, these \subseteq H
      PROVE  Topmost(more, these, k) = Topmost(layers, these, k)
  <2>1. Bounded(these) /\ SameOn(these, layers, more)
    BY <1>1, <1>2, <1>3 DEF Bounded, SameOn
  <2>. QED
    BY <2>1, TopmostSame
<1>4. Max(H) \in H
  <2>. HIDE DEF H
  <2>. QED
    BY <1>1, MaxAmong DEF H
<1>5. Highest(more, k) = Highest(layers, k)
  BY <1>1, <1>2, <1>4 DEF Highest
<1>6. Commands(more, k) = Commands(layers, k)
  <2>. DEFINE plain(ls) == {i \in H : ~IsNamed(ls[i][k])}
              shown(ls) == {i \in H : \A j \in plain(ls) : j < i}
  <2>1. plain(more) = plain(layers)
    BY <1>2
  <2>2. shown(more) = shown(layers) /\ shown(layers) \subseteq H
    BY <2>1
  <2>3. Commands(layers, k) =
          IF Max(H) \in plain(layers) THEN Highest(layers, k)
          ELSE Topmost(layers, shown(layers), k)
    BY DEF Commands
  <2>4. Commands(more, k) =
          IF Max(H) \in plain(more) THEN Highest(more, k)
          ELSE Topmost(more, shown(more), k)
    BY <1>1 DEF Commands
  <2>. HIDE DEF plain, shown
  <2>. QED
    BY <1>3, <1>5, <2>1, <2>2, <2>3, <2>4
<1>7. IsArrayField(k) => Items(more, k) = Items(layers, k)
  <2>. SUFFICES ASSUME IsArrayField(k)
                PROVE  Items(more, k) = Items(layers, k)
    OBVIOUS
  <2>1. Items(more, k) = Items(layers, k) \o <<>>
    BY ItemsAppend DEF Part
  <2>2. Items(layers, k) \in Seq(Listed(C, k))
    BY ItemsType
  <2>. QED
    BY <2>1, <2>2, ConcatEmptySeq
<1>8. Topmost(more, H, k) = Topmost(layers, H, k)
  BY <1>3
<1>. HIDE DEF H
<1>. QED
  BY <1>1, <1>5, <1>6, <1>7, <1>8 DEF Expected, IsArrayField, H

-----------------------------------------------------------------------------
(* Layers merged one by one are what all of them together say               *)

\* Two configs have the same in field k.
SameField(c, d, k) ==
    /\ k \in DOMAIN c <=> k \in DOMAIN d
    /\ k \in DOMAIN c => c[k] = d[k]

\* Holds is about one field, and says all there is to say about it.
LEMMA HoldsSame ==
    ASSUME NEW c, NEW d, NEW k, NEW layers, Holds(c, layers, k), SameField(c, d, k)
    PROVE  Holds(d, layers, k)
  BY DEF Holds, SameField

LEMMA HoldsOnly ==
    ASSUME NEW c, NEW d, NEW k, NEW layers, Holds(c, layers, k), Holds(d, layers, k)
    PROVE  SameField(c, d, k)
  BY DEF Holds, SameField

\* A merge leaves alone what the overlay lacks.
LEMMA MergeSame ==
    ASSUME NEW c, NEW k, NEW o, k \notin DOMAIN o
    PROVE  SameField(MergeLayer(c, o), c, k)
  BY DEF MergeLayer, SameField

LEMMA MergeBySame ==
    ASSUME NEW c, NEW k, NEW o, NEW p, SameField(o, p, k)
    PROVE  SameField(MergeLayer(c, o), MergeLayer(c, p), k)
  BY DEF MergeLayer, SameField

\* What some layers make of field k, merged with another, is what they make of
\* it with that one on top.
LEMMA MergeHolds ==
    ASSUME NEW C, Configs(C), NEW layers \in Seq(C), NEW o \in C, NEW k,
           NEW c, Holds(c, layers, k), NEW more, OnTop(layers, o, more)
    PROVE  Holds(MergeLayer(c, o), more, k)
<1>. DEFINE n == Len(layers)
            H == Holding(layers, k)
<1>1. n \in Nat /\ H \subseteq 1 .. n
  BY HoldingAppend
<1>2. Holding(more, k) = IF k \in DOMAIN o THEN H \cup {n + 1} ELSE H
  BY HoldingAppend
<1>3. /\ k \in DOMAIN c <=> H # {}
      /\ k \in DOMAIN c => c[k] = Expected(layers, k)
  BY DEF Holds
<1>. HIDE DEF H
<1>4. CASE k \in DOMAIN o
  <2>1. Holding(more, k) # {}
    BY <1>2, <1>4
  <2>2. Expected(more, k) =
          IF H = {} THEN NewField(k, o[k])
          ELSE MergeField(k, Expected(layers, k), o[k])
    BY <1>4, ExpectedAppend DEF H
  <2>3. /\ k \in DOMAIN MergeLayer(c, o)
        /\ MergeLayer(c, o)[k] = IF k \notin DOMAIN c THEN NewField(k, o[k])
                                 ELSE MergeField(k, c[k], o[k])
    BY <1>4 DEF MergeLayer
  <2>. QED
    BY <1>3, <2>1, <2>2, <2>3 DEF Holds
<1>5. CASE k \notin DOMAIN o
  <2>1. SameField(MergeLayer(c, o), c, k)
    BY <1>5, MergeSame
  <2>2. Holding(more, k) = H
    BY <1>2, <1>5
  <2>3. H # {} => Expected(more, k) = Expected(layers, k)
    BY <1>5, ExpectedKept DEF H
  <2>. QED
    BY <1>3, <2>1, <2>2, <2>3 DEF Holds, SameField
<1>. QED
  BY <1>4, <1>5

\* The same for a prefix of the layers and the next layer.
LEMMA MergeNext ==
    ASSUME NEW C, Configs(C), NEW s \in Seq(C), NEW n \in Nat, n < Len(s), NEW k,
           NEW c, Holds(c, SubSeq(s, 1, n), k)
    PROVE  /\ Holds(MergeLayer(c, s[n + 1]), SubSeq(s, 1, n + 1), k)
           /\ k \notin DOMAIN s[n + 1] => Holds(c, SubSeq(s, 1, n + 1), k)
<1>. DEFINE a == SubSeq(s, 1, n)
            b == SubSeq(s, 1, n + 1)
            o == s[n + 1]
<1>1. a \in Seq(C) /\ o \in C
  BY PrefixNext
<1>2. OnTop(a, o, b)
  BY PrefixNext DEF OnTop
<1>. HIDE DEF a, b, o
<1>3. Holds(c, a, k)
  BY DEF a
<1>4. Holds(MergeLayer(c, o), b, k)
  BY <1>1, <1>2, <1>3, MergeHolds
<1>5. k \notin DOMAIN o => Holds(c, b, k)
  BY <1>4, MergeSame, HoldsSame
<1>. QED
  BY <1>4, <1>5 DEF b, o

\* No layer, no field.
LEMMA NothingHolds ==
    ASSUME NEW k
    PROVE  Holds(NoFields, <<>>, k)
  BY DEF Holds, Holding, NoFields

\* merge_layers, the fold that `remove` computes with, makes of any layers what
\* the definition of the fields says of all of them at once.
THEOREM MergeLayerKeysHolds ==
    ASSUME NEW C, Configs(C), NEW layers \in Seq(C), NEW keys, NEW k \in keys
    PROVE  Holds(MergeLayerKeys(layers, keys), layers, k)
<1>0. Len(layers) \in Nat
  OBVIOUS
<1>1. PICK f : /\ MergesUpTo(f, layers, keys, Len(layers))
               /\ MergeLayerKeys(layers, keys) = f[Len(layers)]
  BY <1>0, MergeLayerKeysIs
<1>. DEFINE L == Len(layers)
            T == {n \in Nat : n <= L => Holds(f[n], SubSeq(layers, 1, n), k)}
<1>2. 0 \in T
  <2>1. f[0] = NoFields
    BY <1>0, <1>1 DEF MergesUpTo
  <2>2. SubSeq(layers, 1, 0) = <<>>
    BY PrefixEnds
  <2>. QED
    BY <2>1, <2>2, NothingHolds
<1>3. ASSUME NEW n \in Nat, n \in T PROVE n + 1 \in T
  <2>. SUFFICES ASSUME n + 1 <= L PROVE Holds(f[n + 1], SubSeq(layers, 1, n + 1), k)
    OBVIOUS
  <2>1. n < L /\ Holds(f[n], SubSeq(layers, 1, n), k)
    BY <1>0, <1>3
  <2>. DEFINE o == layers[n + 1]
              p == Restrict(o, keys \cap DOMAIN o)
  <2>2. f[n + 1] = MergeLayer(f[n], p)
    <3>1. n + 1 \in 0 .. L /\ n + 1 # 0 /\ (n + 1) - 1 = n
      BY <1>0, <2>1
    <3>2. f = [i \in 0 .. L |->
                 IF i = 0 THEN NoFields
                 ELSE MergeLayer(f[i - 1],
                                 Restrict(layers[i], keys \cap DOMAIN layers[i]))]
      BY <1>1 DEF MergesUpTo
    <3>. QED
      BY <3>1, <3>2
  <2>3. SameField(o, p, k)
    BY DEF SameField, Restrict
  <2>. HIDE DEF o, p, L
  <2>4. Holds(MergeLayer(f[n], o), SubSeq(layers, 1, n + 1), k)
    BY <2>1, MergeNext DEF o, L
  <2>5. SameField(MergeLayer(f[n], o), MergeLayer(f[n], p), k)
    BY <2>3, MergeBySame
  <2>. QED
    BY <2>2, <2>4, <2>5, HoldsSame
<1>4. L \in T
  <2>. HIDE DEF T
  <2>. QED
    BY <1>0, <1>2, <1>3, Induct
<1>5. Holds(f[L], SubSeq(layers, 1, L), k)
  BY <1>0, <1>4
<1>. QED
  BY <1>1, <1>5, PrefixEnds

\* Layers that have the same in field k make the same of it.
LEMMA HoldsLike ==
    ASSUME NEW C, Configs(C), NEW s \in Seq(C), NEW t \in Seq(C), NEW k,
           Len(s) = Len(t),
           \A i \in 1 .. Len(s) : SameField(s[i], t[i], k),
           NEW c, Holds(c, s, k)
    PROVE  Holds(c, t, k)
<1>. DEFINE L == Len(s)
            Both(d, n) == Holds(d, SubSeq(s, 1, n), k) /\ Holds(d, SubSeq(t, 1, n), k)
            T == {n \in Nat : n <= L => \E d : Both(d, n)}
<1>0. L \in Nat
  OBVIOUS
<1>1. 0 \in T
  <2>1. Both(NoFields, 0)
    BY PrefixEnds, NothingHolds
  <2>. QED
    BY <2>1
<1>2. ASSUME NEW n \in Nat, n \in T PROVE n + 1 \in T
  <2>. SUFFICES ASSUME n + 1 <= L PROVE \E d : Both(d, n + 1)
    OBVIOUS
  <2>0. n < L /\ n < Len(t) /\ n < Len(s) /\ n + 1 \in 1 .. Len(s)
    BY <1>0
  <2>1. PICK d : Both(d, n)
    BY <1>2, <2>0
  <2>. DEFINE e == MergeLayer(d, s[n + 1])
  <2>2. Holds(e, SubSeq(s, 1, n + 1), k)
    BY <2>0, <2>1, MergeNext
  <2>3. Holds(MergeLayer(d, t[n + 1]), SubSeq(t, 1, n + 1), k)
    BY <2>0, <2>1, MergeNext
  <2>4. SameField(t[n + 1], s[n + 1], k)
    BY <2>0 DEF SameField
  <2>5. SameField(MergeLayer(d, t[n + 1]), e, k)
    BY <2>4, MergeBySame
  <2>6. Holds(e, SubSeq(t, 1, n + 1), k)
    <3>. HIDE DEF e
    <3>. QED
      BY <2>3, <2>5, HoldsSame
  <2>7. Both(e, n + 1)
    BY <2>2, <2>6
  <2>. HIDE DEF e, Both
  <2>. QED
    BY <2>7
<1>3. L \in T
  <2>. HIDE DEF T
  <2>. QED
    BY <1>0, <1>1, <1>2, Induct
<1>4. PICK d : Both(d, L)
  BY <1>0, <1>3
<1>5. Holds(d, s, k) /\ Holds(d, t, k)
  BY <1>4, PrefixEnds
<1>. QED
  BY <1>5, HoldsOnly, HoldsSame

\* fewer is layers without its place i.
Dropped(layers, i, fewer) ==
    /\ i \in 1 .. Len(layers) /\ Len(fewer) = Len(layers) - 1
    /\ \A j \in 1 .. Len(fewer) : fewer[j] = IF j < i THEN layers[j] ELSE layers[j + 1]

\* A layer that lacks field k makes no difference to it.
LEMMA HoldsDropped ==
    ASSUME NEW C, Configs(C), NEW s \in Seq(C), NEW t \in Seq(C), NEW k, NEW i,
           Dropped(s, i, t), k \notin DOMAIN s[i], NEW c
    PROVE  Holds(c, s, k) <=> Holds(c, t, k)
<1>. DEFINE L == Len(s)
            m(n) == IF n < i THEN n ELSE n - 1
            Both(d, n) == Holds(d, SubSeq(s, 1, n), k) /\ Holds(d, SubSeq(t, 1, m(n)), k)
            T == {n \in Nat : n <= L => \E d : Both(d, n)}
<1>0. L \in Nat /\ i \in 1 .. L /\ Len(t) = L - 1
  BY DEF Dropped
<1>1. 0 \in T
  <2>0. m(0) = 0
    BY <1>0
  <2>1. Both(NoFields, 0)
    <3>1. SubSeq(s, 1, 0) = <<>> /\ SubSeq(t, 1, 0) = <<>>
      BY PrefixEnds
    <3>. HIDE DEF m
    <3>. QED
      BY <2>0, <3>1, NothingHolds
  <2>. QED
    BY <2>1
<1>2. ASSUME NEW n \in Nat, n \in T PROVE n + 1 \in T
  <2>. SUFFICES ASSUME n + 1 <= L PROVE \E d : Both(d, n + 1)
    OBVIOUS
  <2>0. n < L /\ n < Len(s)
    BY <1>0
  <2>1. PICK d : Both(d, n)
    BY <1>2, <2>0
  <2>2. CASE n + 1 < i
    <3>1. m(n) = n /\ m(n + 1) = n + 1 /\ n < Len(t) /\ t[n + 1] = s[n + 1]
      BY <1>0, <2>2 DEF Dropped
    <3>. DEFINE e == MergeLayer(d, s[n + 1])
    <3>2. Holds(e, SubSeq(s, 1, n + 1), k)
      BY <2>0, <2>1, MergeNext
    <3>3. Holds(MergeLayer(d, t[n + 1]), SubSeq(t, 1, n + 1), k)
      BY <2>1, <3>1, MergeNext
    <3>. QED
      BY <3>1, <3>2, <3>3
  <2>3. CASE n + 1 = i
    <3>1. m(n) = n /\ m(n + 1) = n /\ k \notin DOMAIN s[n + 1]
      BY <1>0, <2>3
    <3>2. Holds(d, SubSeq(s, 1, n + 1), k)
      BY <2>0, <2>1, <3>1, MergeNext
    <3>. QED
      BY <2>1, <3>1, <3>2
  <2>4. CASE n >= i
    <3>1. /\ n - 1 \in Nat /\ m(n) = n - 1 /\ m(n + 1) = n /\ (n - 1) + 1 = n
          /\ n - 1 < Len(t) /\ t[n] = s[n + 1]
      BY <1>0, <2>0, <2>4 DEF Dropped
    <3>. DEFINE e == MergeLayer(d, s[n + 1])
    <3>2. Holds(e, SubSeq(s, 1, n + 1), k)
      BY <2>0, <2>1, MergeNext
    <3>3. Holds(MergeLayer(d, t[(n - 1) + 1]), SubSeq(t, 1, (n - 1) + 1), k)
      <4>1. Holds(d, SubSeq(t, 1, n - 1), k)
        BY <2>1, <3>1
      <4>. DEFINE q == n - 1
      <4>2. q \in Nat /\ q < Len(t) /\ Holds(d, SubSeq(t, 1, q), k)
        BY <3>1, <4>1
      <4>3. Holds(MergeLayer(d, t[q + 1]), SubSeq(t, 1, q + 1), k)
        <5>. HIDE DEF q
        <5>. QED
          BY <4>2, MergeNext
      <4>. QED
        BY <4>3
    <3>. QED
      BY <3>1, <3>2, <3>3
  <2>. QED
    BY <1>0, <2>2, <2>3, <2>4
<1>3. L \in T
  <2>. HIDE DEF T
  <2>. QED
    BY <1>0, <1>1, <1>2, Induct
<1>4. PICK d : Both(d, L)
  BY <1>0, <1>3
<1>5. m(L) = Len(t)
  BY <1>0
<1>6. Holds(d, s, k) /\ Holds(d, t, k)
  BY <1>4, <1>5, PrefixEnds
<1>. QED
  BY <1>6, HoldsOnly, HoldsSame

-----------------------------------------------------------------------------
(* Files stay files                                                         *)

\* A sequence of whatever is an array.
LEMMA SeqIsArray ==
    ASSUME NEW S, NEW v \in Seq(S)
    PROVE  IsArray(v) /\ DOMAIN v = 1 .. Len(v) /\ Len(v) \in Nat
<1>1. v = [i \in 1 .. Len(v) |-> v[i]] /\ Len(v) \in Nat
  OBVIOUS
<1>2. \A i \in 1 .. Len(v) : v[i] \in Range(v)
  BY <1>1 DEF Range
<1>. QED
  BY <1>1, <1>2 DEF IsArray

\* A value that a field of a file may have.
Fits(k, v) == OfKind(k, v) /\ Unrepeated(k, v)

\* merge.py keeps the kind of a field, and lists nothing twice in an array that
\* listed nothing twice before.
LEMMA NewFieldFits ==
    ASSUME NEW k, NEW above, OfKind(k, above)
    PROVE  Fits(k, NewField(k, above))
<1>1. CASE k \in ArrayFields
  <2>1. k \notin MapFields \cup LifecycleFields \cup ArrayConcatFields
    BY <1>1, FieldAssumption
  <2>2. /\ above \in Seq(Range(above)) /\ <<>> \in Seq(Range(above))
        /\ IsInjective(<<>>)
    BY <1>1 DEF OfKind, IsArray, IsInjective
  <2>3. /\ AppendAllNew(<<>>, above) \in Seq(Range(above))
        /\ IsInjective(AppendAllNew(<<>>, above))
    BY <2>2, AppendAllNewType
  <2>4. IsArray(AppendAllNew(<<>>, above))
    BY <2>3, SeqIsArray
  <2>. QED
    BY <1>1, <2>1, <2>3, <2>4 DEF NewField, Fits, OfKind, Unrepeated
<1>2. CASE k \notin ArrayFields
  BY <1>2 DEF NewField, Fits, Unrepeated
<1>. QED
  BY <1>1, <1>2

LEMMA MergeFieldFits ==
    ASSUME NEW k, NEW below, Fits(k, below), NEW above, OfKind(k, above)
    PROVE  Fits(k, MergeField(k, below, above))
<1>. DEFINE United == k \in MapFields
                        \/ (k \in LifecycleFields /\ IsNamed(below) /\ IsNamed(above))
<1>1. CASE United
  <2>1. k \notin ArrayFields \cup ArrayConcatFields
    BY <1>1, FieldAssumption
  <2>2. IsMap(Updated(below, above))
    BY DEF IsMap, Updated
  <2>. QED
    BY <1>1, <2>1, <2>2 DEF MergeField, Fits, OfKind, Unrepeated
<1>2. CASE ~United /\ k \in ArrayFields \cup ArrayConcatFields
  <2>. DEFINE S == Range(below) \cup Range(above)
  <2>1. /\ k \notin MapFields \cup LifecycleFields
        /\ k \in ArrayFields <=> k \notin ArrayConcatFields
    BY <1>2, FieldAssumption
  <2>2. below \in Seq(S) /\ above \in Seq(S)
    <3>1. below \in Seq(Range(below)) /\ above \in Seq(Range(above))
      BY <1>2 DEF Fits, OfKind, IsArray
    <3>2. Range(below) \subseteq S /\ Range(above) \subseteq S
      OBVIOUS
    <3>. HIDE DEF S
    <3>. QED
      BY <3>1, <3>2, SeqMonotonic
  <2>3. CASE k \in ArrayFields
    <3>1. IsInjective(below)
      BY <2>3 DEF Fits, Unrepeated
    <3>2. /\ AppendAllNew(below, above) \in Seq(S)
          /\ IsInjective(AppendAllNew(below, above))
      BY <2>2, <3>1, AppendAllNewType
    <3>3. IsArray(AppendAllNew(below, above))
      BY <3>2, SeqIsArray
    <3>. QED
      BY <1>2, <2>1, <2>3, <3>2, <3>3 DEF MergeField, Fits, OfKind, Unrepeated
  <2>4. CASE k \notin ArrayFields
    <3>1. below \o above \in Seq(S)
      BY <2>2
    <3>2. IsArray(below \o above)
      BY <3>1, SeqIsArray
    <3>. QED
      BY <1>2, <2>1, <2>4, <3>2 DEF MergeField, Fits, OfKind, Unrepeated
  <2>. QED
    BY <2>3, <2>4
<1>3. CASE ~United /\ k \notin ArrayFields \cup ArrayConcatFields
  BY <1>3 DEF MergeField, Fits, Unrepeated
<1>. QED
  BY <1>1, <1>2, <1>3

\* What a file is, field by field.
LEMMA FileIs ==
    ASSUME NEW c
    PROVE  IsFile(c) <=> /\ IsMap(c) /\ DOMAIN c \subseteq Field
                         /\ \A k \in DOMAIN c : Fits(k, c[k])
  BY DEF IsFile, IsConfig, Fits

LEMMA NoFieldsIsFile == IsFile(NoFields)
  BY DEF NoFields, IsFile, IsConfig, IsMap

\* Merging, restricting and updating make files of files.
LEMMA MergeLayerIsFile ==
    ASSUME NEW base, IsFile(base), NEW overlay, IsConfig(overlay)
    PROVE  IsFile(MergeLayer(base, overlay))
<1>. DEFINE m == MergeLayer(base, overlay)
            D == DOMAIN base \cup DOMAIN overlay
<1>1. DOMAIN base \subseteq Field /\ \A k \in DOMAIN base : Fits(k, base[k])
  BY FileIs
<1>2. DOMAIN overlay \subseteq Field /\ \A k \in DOMAIN overlay : OfKind(k, overlay[k])
  BY DEF IsConfig
<1>3. m = [k \in D |-> m[k]] /\ DOMAIN m = D
  BY DEF MergeLayer
<1>4. ASSUME NEW k \in D PROVE Fits(k, m[k])
  <2>1. CASE k \notin DOMAIN overlay
    BY <1>1, <2>1 DEF MergeLayer
  <2>2. CASE k \in DOMAIN overlay /\ k \notin DOMAIN base
    <3>1. m[k] = NewField(k, overlay[k])
      BY <2>2 DEF MergeLayer
    <3>. QED
      BY <1>2, <2>2, <3>1, NewFieldFits
  <2>3. CASE k \in DOMAIN overlay /\ k \in DOMAIN base
    <3>1. m[k] = MergeField(k, base[k], overlay[k])
      BY <2>3 DEF MergeLayer
    <3>. QED
      BY <1>1, <1>2, <2>3, <3>1, MergeFieldFits
  <2>. QED
    BY <2>1, <2>2, <2>3
<1>5. IsMap(m)
  BY <1>3 DEF IsMap
<1>. HIDE DEF m
<1>. QED
  BY <1>1, <1>2, <1>3, <1>4, <1>5, FileIs DEF m

LEMMA RestrictIsFile ==
    ASSUME NEW c, IsFile(c), NEW D, D \subseteq DOMAIN c
    PROVE  IsFile(Restrict(c, D))
<1>1. DOMAIN c \subseteq Field /\ \A k \in DOMAIN c : Fits(k, c[k])
  BY FileIs
<1>2. /\ IsMap(Restrict(c, D)) /\ DOMAIN Restrict(c, D) = D
      /\ \A k \in D : Restrict(c, D)[k] = c[k]
  BY DEF IsMap, Restrict
<1>. QED
  BY <1>1, <1>2, FileIs

LEMMA RestrictIsConfig ==
    ASSUME NEW c, IsConfig(c), NEW D, D \subseteq DOMAIN c
    PROVE  IsConfig(Restrict(c, D))
  BY DEF IsConfig, IsMap, Restrict

LEMMA UpdatedIsFile ==
    ASSUME NEW c, IsFile(c), NEW d, IsFile(d)
    PROVE  IsFile(Updated(c, d))
<1>1. /\ DOMAIN c \subseteq Field /\ \A k \in DOMAIN c : Fits(k, c[k])
      /\ DOMAIN d \subseteq Field /\ \A k \in DOMAIN d : Fits(k, d[k])
  BY FileIs
<1>2. /\ IsMap(Updated(c, d)) /\ DOMAIN Updated(c, d) = DOMAIN c \cup DOMAIN d
      /\ \A k \in DOMAIN c \cup DOMAIN d :
            Updated(c, d)[k] = IF k \in DOMAIN d THEN d[k] ELSE c[k]
  BY DEF IsMap, Updated
<1>. QED
  BY <1>1, <1>2, FileIs

LEMMA MergeLayerKeysIsFile ==
    ASSUME NEW C, Configs(C), NEW layers \in Seq(C), NEW keys
    PROVE  /\ IsFile(MergeLayerKeys(layers, keys))
           /\ DOMAIN MergeLayerKeys(layers, keys) \subseteq keys
<1>0. Len(layers) \in Nat
  OBVIOUS
<1>1. PICK f : /\ MergesUpTo(f, layers, keys, Len(layers))
               /\ MergeLayerKeys(layers, keys) = f[Len(layers)]
  BY <1>0, MergeLayerKeysIs
<1>. DEFINE L == Len(layers)
            Good(c) == IsFile(c) /\ DOMAIN c \subseteq keys
            T == {n \in Nat : n <= L => Good(f[n])}
<1>2. 0 \in T
  <2>1. f[0] = NoFields
    BY <1>0, <1>1 DEF MergesUpTo
  <2>2. Good(NoFields)
    BY NoFieldsIsFile DEF NoFields
  <2>. QED
    BY <2>1, <2>2
<1>3. ASSUME NEW n \in Nat, n \in T PROVE n + 1 \in T
  <2>. SUFFICES ASSUME n + 1 <= L PROVE Good(f[n + 1])
    OBVIOUS
  <2>1. n < L /\ n + 1 \in 1 .. L /\ Good(f[n])
    BY <1>0, <1>3
  <2>. DEFINE o == layers[n + 1]
              p == Restrict(o, keys \cap DOMAIN o)
  <2>2. f[n + 1] = MergeLayer(f[n], p)
    <3>1. n + 1 \in 0 .. L /\ n + 1 # 0 /\ (n + 1) - 1 = n
      BY <1>0, <2>1
    <3>2. f = [i \in 0 .. L |->
                 IF i = 0 THEN NoFields
                 ELSE MergeLayer(f[i - 1],
                                 Restrict(layers[i], keys \cap DOMAIN layers[i]))]
      BY <1>1 DEF MergesUpTo
    <3>. QED
      BY <3>1, <3>2
  <2>3. IsConfig(o)
    BY <2>1 DEF Configs
  <2>4. IsConfig(p)
    <3>. HIDE DEF o
    <3>. QED
      BY <2>3, RestrictIsConfig
  <2>5. DOMAIN p \subseteq keys
    BY DEF Restrict
  <2>. HIDE DEF p
  <2>6. IsFile(MergeLayer(f[n], p))
    BY <2>1, <2>4, MergeLayerIsFile
  <2>7. DOMAIN MergeLayer(f[n], p) \subseteq keys
    BY <2>1, <2>5 DEF MergeLayer
  <2>. QED
    BY <2>2, <2>6, <2>7
<1>4. L \in T
  <2>. HIDE DEF T
  <2>. QED
    BY <1>0, <1>2, <1>3, Induct
<1>. QED
  BY <1>0, <1>1, <1>4

\* A file is what it is made of.
LEMMA OneHolds ==
    ASSUME NEW b, IsFile(b), NEW k
    PROVE  Holds(b, <<b>>, k)
<1>. DEFINE C == {b}
            none == <<>>
            one == <<b>>
            m == MergeLayer(NoFields, b)
<1>1. none \in Seq(C) /\ b \in C /\ Configs(C) /\ OnTop(none, b, one)
  BY DEF Configs, IsFile, OnTop
<1>2. Holds(NoFields, none, k)
  BY NothingHolds
<1>3. Holds(m, one, k)
  <2>. HIDE DEF none, one, C
  <2>. QED
    BY <1>1, <1>2, MergeHolds
<1>4. SameField(m, b, k)
  <2>1. CASE k \notin DOMAIN b
    BY <2>1 DEF MergeLayer, SameField, NoFields
  <2>2. CASE k \in DOMAIN b
    <3>1. k \in DOMAIN m /\ m[k] = NewField(k, b[k])
      BY <2>2 DEF MergeLayer, NoFields
    <3>2. NewField(k, b[k]) = b[k]
      <4>1. CASE k \in ArrayFields
        <5>1. Fits(k, b[k])
          BY <2>2, FileIs
        <5>2. b[k] \in Seq(Range(b[k])) /\ IsInjective(b[k])
          BY <4>1, <5>1 DEF Fits, OfKind, IsArray, Unrepeated
        <5>. QED
          BY <4>1, <5>2, AppendAllNewToNothing DEF NewField
      <4>2. CASE k \notin ArrayFields
        BY <4>2 DEF NewField
      <4>. QED
        BY <4>1, <4>2
    <3>. QED
      BY <2>2, <3>1, <3>2 DEF SameField
  <2>. QED
    BY <2>1, <2>2
<1>. HIDE DEF m
<1>. QED
  BY <1>3, <1>4, HoldsSame

\* The user's fields with overlays on top.
LEMMA StackIs ==
    ASSUME NEW C, NEW h \in C, NEW ps \in Seq(C)
    PROVE  /\ <<h>> \o ps \in Seq(C) /\ Len(<<h>> \o ps) = Len(ps) + 1
           /\ (<<h>> \o ps)[1] = h
           /\ \A i \in 1 .. Len(ps) : (<<h>> \o ps)[i + 1] = ps[i]
           /\ <<h>> \o <<>> = <<h>>
  OBVIOUS

\* An overlay goes on top.
LEMMA StackAppend ==
    ASSUME NEW C, NEW h \in C, NEW ps \in Seq(C), NEW o \in C
    PROVE  OnTop(<<h>> \o ps, o, <<h>> \o Append(ps, o))
<1>1. <<h>> \in Seq(C)
  OBVIOUS
<1>. QED
  BY <1>1, ConcatAppend DEF OnTop

\* A field that no overlay has is what the user wrote.
LEMMA HoldsUnder ==
    ASSUME NEW C, Configs(C), NEW h \in C, NEW ps \in Seq(C), NEW k,
           \A i \in 1 .. Len(ps) : k \notin DOMAIN ps[i],
           NEW c, Holds(c, <<h>>, k)
    PROVE  Holds(c, <<h>> \o ps, k)
<1>. DEFINE s == <<h>> \o ps
            L == Len(ps)
            T == {n \in Nat : n <= L => Holds(c, SubSeq(s, 1, n + 1), k)}
<1>0. L \in Nat /\ s \in Seq(C) /\ Len(s) = L + 1 /\ s[1] = h
      /\ \A i \in 1 .. L : s[i + 1] = ps[i]
  BY StackIs
<1>1. 0 \in T
  <2>. DEFINE one == <<h>>
              q == SubSeq(s, 1, 0 + 1)
  <2>1. q = one
    <3>. HIDE DEF s
    <3>1. q = Append(SubSeq(s, 1, 0), s[0 + 1])
      BY <1>0, PrefixNext
    <3>2. SubSeq(s, 1, 0) = <<>> /\ s[0 + 1] = h
      BY <1>0, PrefixEnds
    <3>3. Append(<<>>, h) = one
      OBVIOUS
    <3>. QED
      BY <3>1, <3>2, <3>3
  <2>2. Holds(c, one, k)
    OBVIOUS
  <2>3. Holds(c, q, k)
    <3>. HIDE DEF q, one
    <3>. QED
      BY <2>1, <2>2
  <2>. HIDE DEF s
  <2>. QED
    BY <2>3
<1>2. ASSUME NEW n \in Nat, n \in T PROVE n + 1 \in T
  <2>. SUFFICES ASSUME n + 1 <= L PROVE Holds(c, SubSeq(s, 1, (n + 1) + 1), k)
    OBVIOUS
  <2>. DEFINE m == n + 1
  <2>1. m \in Nat /\ m < Len(s) /\ m \in 1 .. L /\ Holds(c, SubSeq(s, 1, m), k)
    BY <1>0, <1>2
  <2>2. k \notin DOMAIN s[m + 1]
    BY <1>0, <2>1
  <2>3. Holds(c, SubSeq(s, 1, m + 1), k)
    <3>. HIDE DEF s, m
    <3>. QED
      BY <1>0, <2>1, <2>2, MergeNext
  <2>. QED
    BY <2>3
<1>3. L \in T
  <2>. HIDE DEF T
  <2>. QED
    BY <1>0, <1>1, <1>2, Induct
<1>. HIDE DEF s
<1>4. Holds(c, SubSeq(s, 1, Len(s)), k)
  BY <1>0, <1>3
<1>5. Holds(c, s, k)
  BY <1>0, <1>4, PrefixEnds
<1>. QED
  BY <1>5 DEF s

\* What `remove` keeps of the applied list is the list without that place.
LEMMA RemoveAtDrops ==
    ASSUME NEW C, NEW s \in Seq(C), NEW i \in 1 .. Len(s)
    PROVE  RemoveAt(s, i) \in Seq(C) /\ Dropped(s, i, RemoveAt(s, i))
<1>. DEFINE a == SubSeq(s, 1, i - 1)
            b == SubSeq(s, i + 1, Len(s))
<1>1. /\ Len(s) \in Nat /\ i \in Nat /\ i >= 1 /\ i <= Len(s)
  OBVIOUS
<1>2. /\ a \in Seq(C) /\ Len(a) = i - 1 /\ \A j \in 1 .. i - 1 : a[j] = s[j]
  BY <1>1
<1>3. /\ b \in Seq(C) /\ Len(b) = Len(s) - i
      /\ \A j \in 1 .. Len(s) - i : b[j] = s[i + j]
  BY <1>1
<1>. HIDE DEF a, b
<1>4. /\ a \o b \in Seq(C) /\ Len(a \o b) = Len(s) - 1
      /\ \A j \in 1 .. Len(s) - 1 : (a \o b)[j] = IF j < i THEN s[j] ELSE s[j + 1]
  <2>1. a \o b \in Seq(C) /\ Len(a \o b) = Len(s) - 1
    <3>1. a \o b \in Seq(C)
      BY <1>2, <1>3
    <3>2. Len(a \o b) = Len(a) + Len(b)
      BY <1>2, <1>3, LenProperties, ConcatProperties
    <3>. QED
      BY <1>1, <1>2, <1>3, <3>1, <3>2
  <2>2. ASSUME NEW j \in 1 .. Len(s) - 1
        PROVE  (a \o b)[j] = IF j < i THEN s[j] ELSE s[j + 1]
    <3>1. CASE j < i
      BY <1>1, <1>2, <1>3, <3>1
    <3>2. CASE ~(j < i)
      <4>1. (a \o b)[j] = b[j - (i - 1)]
        BY <1>1, <1>2, <1>3, <3>2
      <4>2. j - (i - 1) \in 1 .. Len(s) - i /\ i + (j - (i - 1)) = j + 1
        BY <1>1, <3>2
      <4>. QED
        BY <1>3, <3>2, <4>1, <4>2
    <3>. QED
      BY <3>1, <3>2
  <2>. QED
    BY <2>1, <2>2
<1>5. RemoveAt(s, i) = a \o b
  BY DEF RemoveAt, a, b
<1>. QED
  BY <1>1, <1>4, <1>5 DEF Dropped

LEMMA StackDropped ==
    ASSUME NEW C, NEW h \in C, NEW ps \in Seq(C), NEW qs \in Seq(C), NEW i,
           Dropped(ps, i, qs)
    PROVE  Dropped(<<h>> \o ps, i + 1, <<h>> \o qs)
<1>. DEFINE s == <<h>> \o ps
            t == <<h>> \o qs
<1>1. /\ i \in 1 .. Len(ps) /\ Len(qs) = Len(ps) - 1 /\ Len(ps) \in Nat /\ Len(qs) \in Nat
      /\ \A j \in 1 .. Len(qs) : qs[j] = IF j < i THEN ps[j] ELSE ps[j + 1]
  BY DEF Dropped
<1>2. Len(s) = Len(ps) + 1 /\ s[1] = h /\ \A j \in 1 .. Len(ps) : s[j + 1] = ps[j]
  BY StackIs
<1>3. Len(t) = Len(qs) + 1 /\ t[1] = h /\ \A j \in 1 .. Len(qs) : t[j + 1] = qs[j]
  BY StackIs
<1>. HIDE DEF s, t
<1>4. ASSUME NEW j \in 1 .. Len(t)
      PROVE  t[j] = IF j < i + 1 THEN s[j] ELSE s[j + 1]
  <2>1. CASE j = 1
    BY <1>1, <1>2, <1>3, <2>1
  <2>2. CASE j # 1
    <3>. DEFINE m == j - 1
    <3>1. /\ m \in 1 .. Len(qs) /\ j = m + 1 /\ m \in 1 .. Len(ps)
          /\ m + 1 \in 1 .. Len(ps)
      BY <1>1, <1>3, <2>2
    <3>2. t[j] = qs[m] /\ s[j] = ps[m] /\ s[j + 1] = ps[m + 1]
      <4>1. t[m + 1] = qs[m] /\ s[m + 1] = ps[m] /\ s[(m + 1) + 1] = ps[m + 1]
        <5>. HIDE DEF m
        <5>. QED
          BY <1>2, <1>3, <3>1
      <4>. QED
        BY <3>1, <4>1
    <3>3. j < i + 1 <=> m < i
      BY <1>1
    <3>. QED
      BY <1>1, <3>1, <3>2, <3>3
  <2>. QED
    BY <2>1, <2>2
<1>5. i + 1 \in 1 .. Len(s) /\ Len(t) = Len(s) - 1
  BY <1>1, <1>2, <1>3
<1>. QED
  BY <1>4, <1>5 DEF Dropped, s, t

\* There is the sequence that has x put in at place i.
LEMMA Inserted ==
    ASSUME NEW C, NEW qs \in Seq(C), NEW x \in C, NEW i \in 1 .. Len(qs) + 1
    PROVE  \E ps \in Seq(C) : Dropped(ps, i, qs) /\ ps[i] = x
<1>. DEFINE ps == [j \in 1 .. Len(qs) + 1 |->
                    IF j < i THEN qs[j] ELSE IF j = i THEN x ELSE qs[j - 1]]
<1>0. Len(qs) \in Nat /\ \A j \in 1 .. Len(qs) : qs[j] \in C
  OBVIOUS
<1>1. ASSUME NEW j \in 1 .. Len(qs) + 1 PROVE ps[j] \in C
  <2>1. j < i => j \in 1 .. Len(qs)
    BY <1>0
  <2>2. j > i => j - 1 \in 1 .. Len(qs)
    BY <1>0
  <2>. QED
    BY <1>0, <2>1, <2>2
<1>2. ps \in Seq(C) /\ Len(ps) = Len(qs) + 1
  <2>. HIDE DEF ps
  <2>1. DOMAIN ps = 1 .. Len(qs) + 1 /\ ps = [j \in 1 .. Len(qs) + 1 |-> ps[j]]
    BY DEF ps
  <2>. QED
    BY <1>0, <1>1, <2>1
<1>3. Dropped(ps, i, qs) /\ ps[i] = x
  <2>1. ASSUME NEW j \in 1 .. Len(qs)
        PROVE  qs[j] = IF j < i THEN ps[j] ELSE ps[j + 1]
    <3>1. j \in 1 .. Len(qs) + 1 /\ j + 1 \in 1 .. Len(qs) + 1 /\ (j + 1) - 1 = j
      BY <1>0
    <3>. QED
      BY <1>0, <3>1
  <2>2. ps[i] = x
    BY <1>0
  <2>3. i \in 1 .. Len(ps) /\ Len(qs) = Len(ps) - 1
    BY <1>0, <1>2
  <2>. HIDE DEF ps
  <2>. QED
    BY <2>1, <2>2, <2>3 DEF Dropped
<1>. HIDE DEF ps
<1>. QED
  BY <1>2, <1>3

-----------------------------------------------------------------------------
(* What the user wrote, under overlays                                      *)

\* An entry of the sidecar's applied list.
Entry == [name : Feature, overlay : Overlay]

\* Field k of c is what the user wrote under overlays os, some of which may be
\* out of the file already: none of them as long as no command was killed.
Laid(c, h, os, killed, k) ==
    \E ps \in [DOMAIN os -> Range(os) \cup {NoFields}] :
        /\ \A i \in DOMAIN os : ps[i] \in {os[i], NoFields}
        /\ killed = 0 => ps = os
        /\ Holds(c, <<h>> \o ps, k)

\* The configs a stack is made of.
Sheets(h) == Overlay \cup {NoFields, h}

\* Overlays and files are configs.
LEMMA OverlayIsConfig == \A o \in Overlay : IsConfig(o)
  BY TemplateAssumption DEF Overlay

LEMMA SheetsAre ==
    ASSUME NEW h, IsFile(h)
    PROVE  /\ Configs(Sheets(h)) /\ h \in Sheets(h) /\ NoFields \in Sheets(h)
           /\ Overlay \subseteq Sheets(h)
  BY OverlayIsConfig, NoFieldsIsFile DEF Configs, Sheets, IsFile

\* os with some of its overlays out of the file.
Thinned(ps, os) ==
    /\ Len(ps) = Len(os)
    /\ \A i \in 1 .. Len(os) : ps[i] = os[i] \/ ps[i] = NoFields

LEMMA ThinnedIs ==
    ASSUME NEW h, NEW os \in Seq(Overlay), NEW ps,
           ps \in [DOMAIN os -> Range(os) \cup {NoFields}],
           \A i \in DOMAIN os : ps[i] \in {os[i], NoFields}
    PROVE  ps \in Seq(Sheets(h)) /\ Thinned(ps, os)
<1>1. DOMAIN os = 1 .. Len(os) /\ Len(os) \in Nat /\ \A i \in 1 .. Len(os) : os[i] \in Overlay
  OBVIOUS
<1>2. \A i \in 1 .. Len(os) : ps[i] \in Sheets(h)
  BY <1>1 DEF Sheets
<1>3. ps = [i \in 1 .. Len(os) |-> ps[i]]
  BY <1>1
<1>4. ps \in Seq(Sheets(h)) /\ Len(ps) = Len(os)
  BY <1>1, <1>2, <1>3
<1>. QED
  BY <1>1, <1>4 DEF Thinned

\* What Laid says, and what shows it.
LEMMA LaidIs ==
    ASSUME NEW c, NEW h, NEW os \in Seq(Overlay), NEW killed, NEW k,
           Laid(c, h, os, killed, k)
    PROVE  \E ps \in Seq(Sheets(h)) :
              Thinned(ps, os) /\ (killed = 0 => ps = os) /\ Holds(c, <<h>> \o ps, k)
<1>1. PICK ps \in [DOMAIN os -> Range(os) \cup {NoFields}] :
          /\ \A i \in DOMAIN os : ps[i] \in {os[i], NoFields}
          /\ killed = 0 => ps = os
          /\ Holds(c, <<h>> \o ps, k)
  BY DEF Laid
<1>2. ps \in Seq(Sheets(h)) /\ Thinned(ps, os)
  BY <1>1, ThinnedIs
<1>. QED
  BY <1>1, <1>2

LEMMA LaidBy ==
    ASSUME NEW C, NEW c, NEW h, NEW os \in Seq(Overlay), NEW killed, NEW k,
           NEW ps \in Seq(C), Thinned(ps, os), killed = 0 => ps = os,
           Holds(c, <<h>> \o ps, k)
    PROVE  Laid(c, h, os, killed, k)
<1>1. /\ DOMAIN os = 1 .. Len(os) /\ DOMAIN ps = DOMAIN os
      /\ ps = [i \in DOMAIN ps |-> ps[i]]
  BY DEF Thinned
<1>2. \A i \in DOMAIN os : ps[i] \in {os[i], NoFields} /\ ps[i] \in Range(os) \cup {NoFields}
  BY <1>1 DEF Thinned, Range
<1>3. ps \in [DOMAIN os -> Range(os) \cup {NoFields}]
  BY <1>1, <1>2
<1>. QED
  BY <1>2, <1>3 DEF Laid

\* With all the overlays in the file Laid is Holds.
LEMMA LaidExactly ==
    ASSUME NEW c, NEW h, NEW os \in Seq(Overlay), NEW killed, NEW k,
           Holds(c, <<h>> \o os, k)
    PROVE  Laid(c, h, os, killed, k)
<1>1. Thinned(os, os)
  BY DEF Thinned
<1>. QED
  BY <1>1, LaidBy

LEMMA LaidMeans ==
    ASSUME NEW c, NEW h, NEW os \in Seq(Overlay), NEW killed, NEW k,
           Laid(c, h, os, killed, k), killed = 0 \/ os = <<>>
    PROVE  Holds(c, <<h>> \o os, k)
<1>1. PICK ps \in Seq(Sheets(h)) :
        Thinned(ps, os) /\ (killed = 0 => ps = os) /\ Holds(c, <<h>> \o ps, k)
  BY LaidIs
<1>2. ps = os
  <2>1. os = <<>> => Len(ps) = 0
    BY <1>1 DEF Thinned
  <2>2. Len(ps) = 0 => ps = <<>>
    BY EmptySeq
  <2>. QED
    BY <1>1, <2>1, <2>2
<1>. QED
  BY <1>1, <1>2

\* Laid is about one field of the file, and of what the user wrote.
LEMMA LaidSame ==
    ASSUME NEW c, NEW d, NEW h, NEW os, NEW killed, NEW k,
           Laid(c, h, os, killed, k), SameField(c, d, k)
    PROVE  Laid(d, h, os, killed, k)
  BY HoldsSame DEF Laid

LEMMA HoldsOverSame ==
    ASSUME NEW C, Configs(C), NEW h \in C, NEW g \in C, NEW k, SameField(h, g, k),
           NEW ps \in Seq(C), NEW c, Holds(c, <<h>> \o ps, k)
    PROVE  Holds(c, <<g>> \o ps, k)
<1>. DEFINE s == <<h>> \o ps
            t == <<g>> \o ps
<1>1. /\ s \in Seq(C) /\ Len(s) = Len(ps) + 1 /\ s[1] = h
      /\ \A i \in 1 .. Len(ps) : s[i + 1] = ps[i]
  BY StackIs
<1>2. /\ t \in Seq(C) /\ Len(t) = Len(ps) + 1 /\ t[1] = g
      /\ \A i \in 1 .. Len(ps) : t[i + 1] = ps[i]
  BY StackIs
<1>3. Holds(c, s, k)
  OBVIOUS
<1>. HIDE DEF s, t
<1>4. ASSUME NEW i \in 1 .. Len(s) PROVE SameField(s[i], t[i], k)
  <2>1. CASE i = 1
    BY <1>1, <1>2, <2>1
  <2>2. CASE i # 1
    <3>. DEFINE j == i - 1
    <3>1. j \in 1 .. Len(ps) /\ i = j + 1
      BY <1>1, <2>2
    <3>2. s[j + 1] = t[j + 1]
      <4>. HIDE DEF j
      <4>. QED
        BY <1>1, <1>2, <3>1
    <3>. QED
      BY <3>1, <3>2 DEF SameField
  <2>. QED
    BY <2>1, <2>2
<1>5. Holds(c, t, k)
  BY <1>1, <1>2, <1>3, <1>4, HoldsLike
<1>. QED
  BY <1>5 DEF t

LEMMA LaidOverSame ==
    ASSUME NEW c, NEW h, IsFile(h), NEW g, IsFile(g), NEW os \in Seq(Overlay),
           NEW killed,
           NEW k, Laid(c, h, os, killed, k), SameField(h, g, k)
    PROVE  Laid(c, g, os, killed, k)
<1>1. PICK ps \in Seq(Sheets(h)) :
        Thinned(ps, os) /\ (killed = 0 => ps = os) /\ Holds(c, <<h>> \o ps, k)
  BY LaidIs
<1>. DEFINE C == Sheets(h) \cup Sheets(g)
<1>2. Configs(C) /\ h \in C /\ g \in C /\ Sheets(h) \subseteq C
  BY SheetsAre DEF Configs
<1>. HIDE DEF C
<1>3. ps \in Seq(C)
  BY <1>2, SeqMonotonic
<1>4. Holds(c, <<g>> \o ps, k)
  BY <1>1, <1>2, <1>3, HoldsOverSame
<1>. QED
  BY <1>1, <1>3, <1>4, LaidBy

\* A field that no overlay has, as the user wrote it.
LEMMA LaidUnder ==
    ASSUME NEW c, NEW h, IsFile(h), NEW os \in Seq(Overlay), NEW killed, NEW k,
           \A i \in 1 .. Len(os) : k \notin DOMAIN os[i], SameField(h, c, k)
    PROVE  Laid(c, h, os, killed, k)
<1>1. Holds(c, <<h>>, k)
  BY OneHolds, HoldsSame
<1>2. Configs(Sheets(h)) /\ h \in Sheets(h) /\ os \in Seq(Sheets(h))
  BY SheetsAre, SeqMonotonic
<1>3. Holds(c, <<h>> \o os, k)
  BY <1>1, <1>2, HoldsUnder
<1>. QED
  BY <1>3, LaidExactly

LEMMA LaidFresh ==
    ASSUME NEW c, NEW h, IsFile(h), NEW killed, NEW k, SameField(h, c, k)
    PROVE  Laid(c, h, <<>>, killed, k)
<1>. DEFINE none == <<>>
<1>1. none \in Seq(Overlay) /\ \A i \in 1 .. Len(none) : k \notin DOMAIN none[i]
  OBVIOUS
<1>2. Laid(c, h, none, killed, k)
  <2>. HIDE DEF none
  <2>. QED
    BY <1>1, LaidUnder
<1>. QED
  BY <1>2

\* `add` puts one overlay on top, also of those that are out of the file.
LEMMA LaidAppend ==
    ASSUME NEW c, NEW h, IsFile(h), NEW os \in Seq(Overlay), NEW killed, NEW k,
           Laid(c, h, os, killed, k), NEW o \in Overlay
    PROVE  Laid(MergeLayer(c, o), h, Append(os, o), killed, k)
<1>1. PICK ps \in Seq(Sheets(h)) :
        Thinned(ps, os) /\ (killed = 0 => ps = os) /\ Holds(c, <<h>> \o ps, k)
  BY LaidIs
<1>2. Configs(Sheets(h)) /\ h \in Sheets(h) /\ o \in Sheets(h)
  BY SheetsAre
<1>3. /\ OnTop(<<h>> \o ps, o, <<h>> \o Append(ps, o))
      /\ <<h>> \o ps \in Seq(Sheets(h))
  BY <1>2, StackAppend, StackIs
<1>4. Holds(MergeLayer(c, o), <<h>> \o Append(ps, o), k)
  BY <1>1, <1>2, <1>3, MergeHolds
<1>5. Append(ps, o) \in Seq(Sheets(h)) /\ Append(os, o) \in Seq(Overlay)
  BY <1>2
<1>6. Thinned(Append(ps, o), Append(os, o))
  BY <1>1, <1>2 DEF Thinned
<1>7. killed = 0 => Append(ps, o) = Append(os, o)
  BY <1>1
<1>. QED
  BY <1>4, <1>5, <1>6, <1>7, LaidBy

\* An overlay without field k is taken out, or put back.
LEMMA LaidDropped ==
    ASSUME NEW c, NEW h, IsFile(h), NEW os \in Seq(Overlay),
           NEW rest \in Seq(Overlay),
           NEW i, Dropped(os, i, rest), NEW k, k \notin DOMAIN os[i], NEW killed,
           Laid(c, h, os, killed, k)
    PROVE  Laid(c, h, rest, killed, k)
<1>1. PICK ps \in Seq(Sheets(h)) :
        Thinned(ps, os) /\ (killed = 0 => ps = os) /\ Holds(c, <<h>> \o ps, k)
  BY LaidIs
<1>. DEFINE qs == RemoveAt(ps, i)
<1>2. i \in 1 .. Len(os) /\ Len(ps) = Len(os)
  BY <1>1 DEF Thinned, Dropped
<1>3. qs \in Seq(Sheets(h)) /\ Dropped(ps, i, qs)
  BY <1>2, RemoveAtDrops
<1>. HIDE DEF qs
<1>4. k \notin DOMAIN ps[i]
  BY <1>1, <1>2 DEF Thinned, NoFields
<1>5. Thinned(qs, rest)
  <2>1. /\ Len(qs) = Len(os) - 1 /\ Len(rest) = Len(os) - 1
        /\ \A j \in 1 .. Len(rest) : /\ qs[j] = IF j < i THEN ps[j] ELSE ps[j + 1]
                                     /\ rest[j] = IF j < i THEN os[j] ELSE os[j + 1]
    BY <1>2, <1>3 DEF Dropped
  <2>2. \A j \in 1 .. Len(rest) : j \in 1 .. Len(os) /\ j + 1 \in 1 .. Len(os)
    BY <2>1
  <2>. QED
    BY <1>1, <2>1, <2>2 DEF Thinned
<1>6. killed = 0 => qs = rest
  <2>. SUFFICES ASSUME ps = os PROVE qs = rest
    BY <1>1
  <2>1. /\ Len(qs) = Len(rest)
        /\ \A j \in 1 .. Len(rest) : qs[j] = rest[j]
    BY <1>2, <1>3 DEF Dropped
  <2>2. rest \in Seq(Sheets(h))
    BY SheetsAre, SeqMonotonic
  <2>. QED
    BY <1>3, <2>1, <2>2, SeqEqual
<1>7. Configs(Sheets(h)) /\ h \in Sheets(h)
  BY SheetsAre
<1>8. Holds(c, <<h>> \o qs, k)
  <2>. DEFINE s == <<h>> \o ps
              t == <<h>> \o qs
  <2>1. Dropped(s, i + 1, t) /\ s[i + 1] = ps[i]
    <3>1. Dropped(s, i + 1, t)
      BY <1>3, <1>7, StackDropped
    <3>2. s[i + 1] = ps[i]
      <4>1. i \in 1 .. Len(ps)
        BY <1>3, <1>7 DEF Dropped
      <4>. QED
        BY <1>3, <1>7, <4>1, StackIs
    <3>. QED
      BY <3>1, <3>2
  <2>2. s \in Seq(Sheets(h)) /\ t \in Seq(Sheets(h)) /\ Holds(c, s, k)
    BY <1>1, <1>3, <1>7, StackIs
  <2>. HIDE DEF s, t
  <2>3. Holds(c, t, k)
    BY <1>4, <1>7, <2>1, <2>2, HoldsDropped
  <2>. QED
    BY <2>3 DEF t
<1>. QED
  BY <1>3, <1>5, <1>6, <1>8, LaidBy

\* A `remove` killed between its writes: one overlay is out of the file only.
LEMMA LaidKilled ==
    ASSUME NEW c, NEW h, IsFile(h), NEW os \in Seq(Overlay),
           NEW rest \in Seq(Overlay),
           NEW i, Dropped(os, i, rest), NEW k, NEW killed, NEW now, now # 0,
           Laid(c, h, rest, killed, k)
    PROVE  Laid(c, h, os, now, k)
<1>1. PICK qs \in Seq(Sheets(h)) : Thinned(qs, rest) /\ Holds(c, <<h>> \o qs, k)
  BY LaidIs
<1>2. i \in 1 .. Len(os) /\ Len(rest) = Len(os) - 1 /\ Len(qs) = Len(os) - 1
  BY <1>1 DEF Thinned, Dropped
<1>3. Configs(Sheets(h)) /\ h \in Sheets(h) /\ NoFields \in Sheets(h)
  BY SheetsAre
<1>4. PICK ps \in Seq(Sheets(h)) : Dropped(ps, i, qs) /\ ps[i] = NoFields
  <2>1. i \in 1 .. Len(qs) + 1
    BY <1>2
  <2>. QED
    BY <1>3, <2>1, Inserted
<1>5. Thinned(ps, os)
  <2>1. Len(ps) = Len(os)
    BY <1>2, <1>4 DEF Dropped
  <2>2. ASSUME NEW j \in 1 .. Len(os) PROVE ps[j] = os[j] \/ ps[j] = NoFields
    <3>1. CASE j < i
      <4>1. j \in 1 .. Len(rest) /\ rest[j] = os[j] /\ qs[j] = ps[j]
        BY <1>2, <1>4, <3>1 DEF Dropped
      <4>. QED
        BY <1>1, <4>1 DEF Thinned
    <3>2. CASE j = i
      BY <1>4, <3>2
    <3>3. CASE j > i
      <4>. DEFINE m == j - 1
      <4>1. m \in 1 .. Len(rest) /\ m \in 1 .. Len(qs) /\ j = m + 1 /\ ~(m < i)
        BY <1>2, <3>3
      <4>2. rest[m] = os[m + 1] /\ qs[m] = ps[m + 1]
        <5>. HIDE DEF m
        <5>. QED
          BY <1>4, <4>1 DEF Dropped
      <4>3. qs[m] = rest[m] \/ qs[m] = NoFields
        <5>. HIDE DEF m
        <5>. QED
          BY <1>1, <4>1 DEF Thinned
      <4>. QED
        BY <4>1, <4>2, <4>3
    <3>. QED
      BY <1>2, <3>1, <3>2, <3>3
  <2>. QED
    BY <2>1, <2>2 DEF Thinned
<1>6. Holds(c, <<h>> \o ps, k)
  <2>. DEFINE s == <<h>> \o ps
              t == <<h>> \o qs
  <2>1. Dropped(s, i + 1, t) /\ s[i + 1] = ps[i]
    <3>1. Dropped(s, i + 1, t)
      BY <1>3, <1>4, StackDropped
    <3>2. s[i + 1] = ps[i]
      <4>1. i \in 1 .. Len(ps)
        BY <1>3, <1>4 DEF Dropped
      <4>. QED
        BY <1>3, <1>4, <4>1, StackIs
    <3>. QED
      BY <3>1, <3>2
  <2>2. s \in Seq(Sheets(h)) /\ t \in Seq(Sheets(h)) /\ Holds(c, t, k)
    BY <1>1, <1>3, <1>4, StackIs
  <2>3. k \notin DOMAIN s[i + 1]
    BY <1>4, <2>1 DEF NoFields
  <2>. HIDE DEF s, t
  <2>4. Holds(c, s, k)
    BY <1>3, <2>1, <2>2, <2>3, HoldsDropped
  <2>. QED
    BY <2>4 DEF s
<1>. QED
  BY <1>5, <1>6, LaidBy

-----------------------------------------------------------------------------
(* The applied list                                                         *)

\* The applied list, and its overlays.
Tracked(applied) ==
    /\ applied \in Seq(Entry)
    /\ \A i, j \in DOMAIN applied : i # j => applied[i].name # applied[j].name

\* The overlays of an applied list.
OverlaysOf(applied) == [i \in DOMAIN applied |-> applied[i].overlay]

\* The overlays change with the applied list.
LEMMA OverlaysType ==
    ASSUME NEW applied \in Seq(Entry)
    PROVE  /\ OverlaysOf(applied) \in Seq(Overlay)
           /\ Len(OverlaysOf(applied)) = Len(applied)
<1>1. DOMAIN applied = 1 .. Len(applied) /\ Len(applied) \in Nat
      /\ \A i \in 1 .. Len(applied) : applied[i] \in Entry
  OBVIOUS
<1>2. \A i \in 1 .. Len(applied) : applied[i].overlay \in Overlay
  BY <1>1 DEF Entry
<1>3. OverlaysOf(applied) = [i \in 1 .. Len(applied) |-> applied[i].overlay]
  BY <1>1 DEF OverlaysOf
<1>. QED
  BY <1>1, <1>2, <1>3

LEMMA OverlaysAppend ==
    ASSUME NEW applied \in Seq(Entry), NEW e \in Entry
    PROVE  OverlaysOf(Append(applied, e)) = Append(OverlaysOf(applied), e.overlay)
<1>. DEFINE L == Len(applied)
            os == OverlaysOf(applied)
            more == Append(applied, e)
            g == [n \in 1 .. L + 1 |-> IF n = L + 1 THEN e.overlay ELSE os[n]]
<1>0. e.overlay \in Overlay /\ L \in Nat
  BY DEF Entry
<1>1. os \in Seq(Overlay) /\ Len(os) = L /\ e.overlay \in Overlay /\ L \in Nat
  BY <1>0, OverlaysType
<1>2. Append(os, e.overlay) = g
  <2>. HIDE DEF os
  <2>. QED
    BY <1>1, AppendIs
<1>3. more = [n \in 1 .. L + 1 |-> IF n = L + 1 THEN e ELSE applied[n]]
  BY AppendIs
<1>4. DOMAIN applied = 1 .. L
  OBVIOUS
<1>5. OverlaysOf(more) = g
  <2>. HIDE DEF more
  <2>1. DOMAIN more = 1 .. L + 1 /\ \A n \in 1 .. L + 1 : more[n] = IF n = L + 1 THEN e ELSE applied[n]
    BY <1>3
  <2>2. \A n \in 1 .. L : os[n] = applied[n].overlay
    BY <1>4 DEF OverlaysOf
  <2>. HIDE DEF os
  <2>3. \A n \in 1 .. L + 1 : more[n].overlay = IF n = L + 1 THEN e.overlay ELSE os[n]
    BY <1>1, <2>1, <2>2
  <2>. QED
    BY <2>1, <2>3 DEF OverlaysOf
<1>. QED
  BY <1>2, <1>5

LEMMA OverlaysDropped ==
    ASSUME NEW applied \in Seq(Entry), NEW rest \in Seq(Entry), NEW i,
           Dropped(applied, i, rest)
    PROVE  /\ Dropped(OverlaysOf(applied), i, OverlaysOf(rest))
           /\ OverlaysOf(applied)[i] = applied[i].overlay
<1>. DEFINE os == OverlaysOf(applied)
            ps == OverlaysOf(rest)
<1>1. /\ i \in 1 .. Len(applied) /\ Len(rest) = Len(applied) - 1 /\ Len(applied) \in Nat
      /\ \A j \in 1 .. Len(rest) : rest[j] = IF j < i THEN applied[j] ELSE applied[j + 1]
  BY DEF Dropped
<1>2. Len(os) = Len(applied) /\ Len(ps) = Len(rest)
  BY OverlaysType
<1>3. /\ \A j \in 1 .. Len(applied) : os[j] = applied[j].overlay
      /\ \A j \in 1 .. Len(rest) : ps[j] = rest[j].overlay
  BY DEF OverlaysOf
<1>. HIDE DEF os, ps
<1>4. ASSUME NEW j \in 1 .. Len(rest)
      PROVE  ps[j] = IF j < i THEN os[j] ELSE os[j + 1]
  <2>1. j \in 1 .. Len(applied) /\ j + 1 \in 1 .. Len(applied)
    BY <1>1
  <2>. QED
    BY <1>1, <1>3, <2>1
<1>5. Dropped(os, i, ps)
  BY <1>1, <1>2, <1>4 DEF Dropped
<1>. QED
  BY <1>1, <1>3, <1>5 DEF os, ps

\* The entry `remove` takes is one of that name.
LEMMA LastOfIs ==
    ASSUME NEW applied, Tracked(applied), NEW f, IsApplied(applied, f)
    PROVE  /\ LastOf(applied, f) \in 1 .. Len(applied)
           /\ applied[LastOf(applied, f)].name = f
<1>. DEFINE Is(i) == /\ applied[i].name = f
                     /\ \A j \in DOMAIN applied : applied[j].name = f => j <= i
<1>1. DOMAIN applied = 1 .. Len(applied) /\ Len(applied) \in Nat
  BY DEF Tracked
<1>2. PICK i \in DOMAIN applied : applied[i].name = f
  BY DEF IsApplied
<1>3. \A j \in DOMAIN applied : applied[j].name = f => j <= i
  BY <1>1, <1>2 DEF Tracked
<1>4. \E j \in DOMAIN applied : Is(j)
  BY <1>2, <1>3
<1>5. LastOf(applied, f) = CHOOSE j \in DOMAIN applied : Is(j)
  BY DEF LastOf
<1>. HIDE DEF Is
<1>6. LastOf(applied, f) \in DOMAIN applied /\ Is(LastOf(applied, f))
  BY <1>4, <1>5, Zenon
<1>. QED
  BY <1>1, <1>6 DEF Is

\* `add` and `remove` keep the list one that names a feature at most once.
LEMMA TrackedAppend ==
    ASSUME NEW applied, Tracked(applied), NEW e \in Entry,
           ~IsApplied(applied, e.name)
    PROVE  Tracked(Append(applied, e)) /\ Append(applied, e) # <<>>
<1>. DEFINE more == Append(applied, e)
            L == Len(applied)
<1>1. /\ applied \in Seq(Entry) /\ L \in Nat /\ DOMAIN applied = 1 .. L
      /\ \A i \in 1 .. L : applied[i].name # e.name
      /\ \A i, j \in 1 .. L : i # j => applied[i].name # applied[j].name
  BY DEF Tracked, IsApplied
<1>2. /\ more \in Seq(Entry) /\ DOMAIN more = 1 .. L + 1 /\ more # <<>>
      /\ more[L + 1] = e /\ \A i \in 1 .. L : more[i] = applied[i]
  <2>1. more = [n \in 1 .. L + 1 |-> IF n = L + 1 THEN e ELSE applied[n]]
    BY <1>1, AppendIs
  <2>2. more \in Seq(Entry) /\ more # <<>>
    BY <1>1, AppendProperties
  <2>. HIDE DEF more
  <2>. QED
    BY <1>1, <2>1, <2>2
<1>. HIDE DEF more
<1>3. \A i \in 1 .. L + 1 : i # L + 1 => i \in 1 .. L
  BY <1>1
<1>4. \A i, j \in 1 .. L + 1 : i # j => more[i].name # more[j].name
  BY <1>1, <1>2, <1>3
<1>. QED
  BY <1>2, <1>4 DEF Tracked, more

LEMMA TrackedRemoved ==
    ASSUME NEW applied, Tracked(applied), NEW i \in 1 .. Len(applied)
    PROVE  /\ Tracked(RemoveAt(applied, i)) /\ Dropped(applied, i, RemoveAt(applied, i))
           /\ \A j \in DOMAIN RemoveAt(applied, i) :
                 \E n \in DOMAIN applied : RemoveAt(applied, i)[j] = applied[n]
<1>. DEFINE rest == RemoveAt(applied, i)
            L == Len(applied)
<1>1. /\ applied \in Seq(Entry) /\ L \in Nat /\ DOMAIN applied = 1 .. L
      /\ \A m, j \in 1 .. L : m # j => applied[m].name # applied[j].name
  BY DEF Tracked
<1>2. rest \in Seq(Entry) /\ Dropped(applied, i, rest)
  BY <1>1, RemoveAtDrops
<1>. HIDE DEF rest
<1>3. /\ DOMAIN rest = 1 .. L - 1
      /\ \A j \in 1 .. L - 1 : rest[j] = IF j < i THEN applied[j] ELSE applied[j + 1]
  BY <1>1, <1>2 DEF Dropped
<1>. DEFINE m(j) == IF j < i THEN j ELSE j + 1
<1>4. /\ \A j \in 1 .. L - 1 : m(j) \in 1 .. L
      /\ \A j, n \in 1 .. L - 1 : j # n => m(j) # m(n)
  BY <1>1
<1>5. \A j \in 1 .. L - 1 : rest[j] = applied[m(j)]
  BY <1>3
<1>. HIDE DEF m
<1>6. \A j, n \in 1 .. L - 1 : j # n => rest[j].name # rest[n].name
  BY <1>1, <1>4, <1>5
<1>7. Tracked(rest)
  BY <1>2, <1>3, <1>6 DEF Tracked
<1>8. \A j \in DOMAIN rest : \E n \in DOMAIN applied : rest[j] = applied[n]
  BY <1>1, <1>3, <1>4, <1>5
<1>. QED
  BY <1>2, <1>7, <1>8 DEF rest

\* What `remove` writes, and what it may rely on.
Recomputed(from) ==
    Updated(Restrict(from.base, DOMAIN from.base \ TouchedKeys(from)),
            MergeLayerKeys(Layers(from), TouchedKeys(from)))

\* The feature is in the list that was read, and so is the overlay.
Removable(from) ==
    /\ IsFile(from.base) /\ IsFile(from.sidecar.init) /\ Tracked(from.sidecar.applied)
    /\ IsApplied(from.sidecar.applied, from.name)
    /\ from.overlay = from.sidecar.applied[LastOf(from.sidecar.applied, from.name)].overlay

\* What `remove` keeps, and the layers it computes from.
LEMMA RemainingIs ==
    ASSUME NEW from, Removable(from)
    PROVE  LET applied == from.sidecar.applied
               i == LastOf(applied, from.name)
           IN  /\ Tracked(Remaining(from))
               /\ WithoutInit(from) = OverlaysOf(Remaining(from))
               /\ WithoutInit(from) \in Seq(Overlay)
               /\ Dropped(OverlaysOf(applied), i, WithoutInit(from))
               /\ OverlaysOf(applied)[i] = from.overlay
               /\ \A j \in DOMAIN Remaining(from) :
                     \E n \in DOMAIN applied : Remaining(from)[j] = applied[n]
<1>. DEFINE applied == from.sidecar.applied
            i == LastOf(applied, from.name)
<1>1. Tracked(applied) /\ i \in 1 .. Len(applied)
  BY LastOfIs DEF Removable
<1>2. Remaining(from) = RemoveAt(applied, i)
  BY DEF Remaining
<1>3. WithoutInit(from) = OverlaysOf(Remaining(from))
  BY DEF WithoutInit, OverlaysOf
<1>4. from.overlay = applied[i].overlay
  BY DEF Removable
<1>. HIDE DEF applied, i
<1>5. /\ Tracked(Remaining(from)) /\ Dropped(applied, i, Remaining(from))
      /\ \A j \in DOMAIN Remaining(from) : \E n \in DOMAIN applied : Remaining(from)[j] = applied[n]
  BY <1>1, <1>2, TrackedRemoved
<1>6. applied \in Seq(Entry) /\ Remaining(from) \in Seq(Entry)
  BY <1>1, <1>5 DEF Tracked
<1>7. Dropped(OverlaysOf(applied), i, OverlaysOf(Remaining(from)))
  BY <1>5, <1>6, OverlaysDropped
<1>8. OverlaysOf(applied)[i] = applied[i].overlay
  BY <1>5, <1>6, OverlaysDropped
<1>9. OverlaysOf(Remaining(from)) \in Seq(Overlay)
  BY <1>6, OverlaysType
<1>. QED
  BY <1>3, <1>4, <1>5, <1>7, <1>8, <1>9 DEF applied, i

\* The file `remove` writes: the fields of the overlay are computed again, the
\* others are left alone.
LEMMA RecomputedIs ==
    ASSUME NEW from, Removable(from)
    PROVE  /\ IsFile(Recomputed(from))
           /\ \A k : k \in DOMAIN from.overlay =>
                 Holds(Recomputed(from), <<from.sidecar.init>> \o WithoutInit(from), k)
           /\ \A k : k \notin DOMAIN from.overlay => SameField(from.base, Recomputed(from), k)
<1>. DEFINE C == Sheets(from.sidecar.init)
            layers == Layers(from)
            keys == TouchedKeys(from)
            kept == Restrict(from.base, DOMAIN from.base \ keys)
            again == MergeLayerKeys(layers, keys)
<1>1. IsFile(from.base) /\ IsFile(from.sidecar.init)
  BY DEF Removable
<1>2. layers \in Seq(C) /\ Configs(C)
  <2>1. WithoutInit(from) \in Seq(Overlay)
    BY RemainingIs
  <2>2. Configs(C) /\ from.sidecar.init \in C /\ Overlay \subseteq C
    BY <1>1, SheetsAre
  <2>. HIDE DEF C
  <2>3. WithoutInit(from) \in Seq(C)
    BY <2>1, <2>2, SeqMonotonic
  <2>. QED
    BY <2>2, <2>3, StackIs DEF Layers
<1>3. IsFile(again) /\ DOMAIN again \subseteq keys
  <2>. HIDE DEF layers, keys, C
  <2>. QED
    BY <1>2, MergeLayerKeysIsFile
<1>4. IsFile(kept) /\ DOMAIN kept = DOMAIN from.base \ keys
      /\ \A k \in DOMAIN from.base \ keys : kept[k] = from.base[k]
  <2>1. IsFile(kept)
    BY <1>1, RestrictIsFile
  <2>. QED
    BY <2>1 DEF Restrict
<1>5. Recomputed(from) = Updated(kept, again)
  BY DEF Recomputed
<1>6. ASSUME NEW k \in keys PROVE Holds(again, layers, k)
  <2>. HIDE DEF layers, keys, C
  <2>. QED
    BY <1>2, MergeLayerKeysHolds
<1>. HIDE DEF kept, again, C
<1>7. ASSUME NEW k \in keys PROVE SameField(again, Updated(kept, again), k)
  BY <1>3, <1>4 DEF SameField, Updated
<1>8. ASSUME NEW k, k \notin keys PROVE SameField(from.base, Updated(kept, again), k)
  BY <1>3, <1>4, <1>8 DEF SameField, Updated
<1>9. IsFile(Updated(kept, again))
  BY <1>3, <1>4, UpdatedIsFile
<1>10. ASSUME NEW k \in keys PROVE Holds(Updated(kept, again), layers, k)
  <2>. HIDE DEF layers, keys
  <2>. QED
    BY <1>6, <1>7, HoldsSame
<1>11. /\ keys = DOMAIN from.overlay
       /\ layers = <<from.sidecar.init>> \o WithoutInit(from)
  BY DEF TouchedKeys, Layers
<1>. QED
  BY <1>5, <1>8, <1>9, <1>10, <1>11

-----------------------------------------------------------------------------
(* The invariant                                                            *)

\* `add` or `remove` is between its reads and its last write.
AtWork == pc \in {"addWrite", "addSidecar", "removeWrite", "removeSidecar"}

\* What a command has read is how things are.
ReadOK ==
    AtWork =>
        /\ file # Missing /\ IsFile(read.base) /\ read.sidecar = LoadSidecar
        /\ read.name \in Feature /\ read.overlay \in Overlay
        /\ pc \in {"addWrite", "addSidecar"} =>
              ~IsApplied(LoadSidecar.applied, read.name)
        /\ pc \in {"removeWrite", "removeSidecar"} => Removable(read)

\* And what it has written so far.
WrittenOK ==
    ~torn =>
        /\ pc \in {"addWrite", "removeWrite"} => file = read.base
        /\ pc = "addSidecar" => file = MergeLayer(read.base, read.overlay)
        /\ pc = "removeSidecar" => file = Recomputed(read)
        /\ pc = "initSidecar" => file = hand

\* The file the sidecar tells of.
Source == IF AtWork THEN read.base ELSE file

\* A file whose fields are accounted for.
Quiet == file # Missing /\ pc # "initSidecar" /\ ~torn

\* Every guaranteed field is what the user wrote under the applied overlays, but
\* for overlays that a killed `remove` has taken out of the file only.
LaidOK ==
    Quiet => \A k \in Field : Guaranteed(k) => Laid(Source, hand, Overlays, kills, k)

\* The sidecar's "init" agrees with the user on every field not edited since, and
\* what the overlays touch is known.
InitOK ==
    Quiet /\ Tracking =>
        /\ \A i \in DOMAIN sidecar.applied :
              DOMAIN sidecar.applied[i].overlay \subseteq touched
        /\ \A k \in Field \ late : SameField(sidecar.init, hand, k)

\* The inductive invariant.
Inv == TypeOK /\ ReadOK /\ WrittenOK /\ LaidOK /\ InitOK

\* Missing is neither a file nor a sidecar.
LEMMA FileIsThere == \A c : IsFile(c) => c # Missing
<1>1. ASSUME NEW c, IsFile(c) PROVE c # Missing
  <2>1. DOMAIN c \subseteq Field
    BY <1>1 DEF IsFile, IsConfig
  <2>2. "missing" \in DOMAIN Missing
    BY DEF Missing
  <2>. QED
    BY <2>1, <2>2, FieldAssumption
<1>. QED
  BY <1>1

LEMMA SidecarIsThere == \A i, a : [init |-> i, applied |-> a] # Missing
<1>1. ASSUME NEW i, NEW a PROVE [init |-> i, applied |-> a] # Missing
  <2>1. DOMAIN [init |-> i, applied |-> a] = {"init", "applied"}
    OBVIOUS
  <2>2. DOMAIN Missing = {"missing"}
    BY DEF Missing
  <2>. QED
    BY <2>1, <2>2
<1>. QED
  BY <1>1

\* TypeOK, by the values of the variables.
SidecarOK(sc) ==
    sc = Missing \/ (DOMAIN sc = {"init", "applied"} /\ IsFile(sc.init) /\ Tracked(sc.applied))

LEMMA TypeIs ==
    TypeOK <=>
    /\ file = Missing \/ IsFile(file)
    /\ SidecarOK(sidecar)
    /\ pc \in Ended \cup {"initSidecar", "addWrite", "addSidecar",
                          "removeWrite", "removeSidecar"}
    /\ given \in 0 .. MaxGiven /\ kills \in 0 .. MaxKills
    /\ IsFile(hand)
    /\ late \subseteq Field /\ touched \subseteq Field
  BY DEF TypeOK, SidecarOK, Tracked, Entry

LEMMA TypeIsNext ==
    /\ file' = Missing \/ IsFile(file')
    /\ SidecarOK(sidecar')
    /\ pc' \in Ended \cup {"initSidecar", "addWrite", "addSidecar",
                          "removeWrite", "removeSidecar"}
    /\ given' \in 0 .. MaxGiven /\ kills' \in 0 .. MaxKills
    /\ IsFile(hand')
    /\ late' \subseteq Field /\ touched' \subseteq Field
    => TypeOK'
  BY DEF TypeOK, SidecarOK, Tracked, Entry

LEMMA NothingTracked == Tracked(<<>>) /\ OverlaysOf(<<>>) = <<>>
  BY DEF Tracked, OverlaysOf

\* What load_sidecar returns, and the overlays in force.
LEMMA LoadIs ==
    ASSUME TypeOK
    PROVE  /\ IsFile(LoadSidecar.init) /\ Tracked(LoadSidecar.applied)
           /\ Overlays = OverlaysOf(LoadSidecar.applied)
           /\ Overlays \in Seq(Overlay) /\ Len(Overlays) = Len(LoadSidecar.applied)
           /\ Tracking <=> LoadSidecar.applied # <<>>
           /\ sidecar # Missing => LoadSidecar = sidecar
<1>1. SidecarOK(sidecar)
  BY TypeIs
<1>2. CASE sidecar = Missing
  <2>1. LoadSidecar.init = NoFields /\ LoadSidecar.applied = <<>>
    BY <1>2 DEF LoadSidecar
  <2>2. Overlays = <<>> /\ ~Tracking
    BY <1>2 DEF Overlays, Tracking
  <2>. QED
    BY <1>2, <2>1, <2>2, NothingTracked, NoFieldsIsFile
<1>3. CASE sidecar # Missing
  <2>1. LoadSidecar = sidecar /\ IsFile(sidecar.init) /\ Tracked(sidecar.applied)
    BY <1>1, <1>3 DEF LoadSidecar, SidecarOK
  <2>2. Overlays = OverlaysOf(sidecar.applied) /\ (Tracking <=> sidecar.applied # <<>>)
    BY <1>3 DEF Overlays, OverlaysOf, Tracking
  <2>3. OverlaysOf(sidecar.applied) \in Seq(Overlay)
        /\ Len(OverlaysOf(sidecar.applied)) = Len(sidecar.applied)
    BY <2>1, OverlaysType DEF Tracked
  <2>. QED
    BY <1>3, <2>1, <2>2, <2>3
<1>. QED
  BY <1>2, <1>3

LEMMA LoadSame ==
    ASSUME sidecar' = sidecar
    PROVE  /\ LoadSidecar' = LoadSidecar /\ Overlays' = Overlays
           /\ Tracking' = Tracking
  BY DEF LoadSidecar, Overlays, Tracking

\* Steps that leave the file the sidecar tells of, and all else, as they were.
LEMMA LaidKept ==
    ASSUME LaidOK, sidecar' = sidecar, hand' = hand, kills' = kills, late' = late,
           touched' = touched, Quiet' => Quiet /\ Source' = Source
    PROVE  LaidOK'
<1>. SUFFICES ASSUME Quiet', NEW k \in Field, Guaranteed(k)'
              PROVE  Laid(Source', hand', Overlays', kills', k)
  BY DEF LaidOK
<1>1. Guaranteed(k)
  BY DEF Guaranteed
<1>2. Laid(Source, hand, Overlays, kills, k)
  BY <1>1 DEF LaidOK
<1>3. Source' = Source /\ Overlays' = Overlays
  BY LoadSame
<1>. QED
  BY <1>2, <1>3

LEMMA InitKept ==
    ASSUME InitOK, sidecar' = sidecar, hand' = hand, late' = late,
           touched' = touched, Quiet' => Quiet
    PROVE  InitOK'
<1>1. Tracking' => Tracking
  BY DEF Tracking
<1>. QED
  BY <1>1 DEF InitOK

\* The user's file, or none, and no sidecar.
LEMMA InitHolds == Init => Inv
<1>. SUFFICES ASSUME Init PROVE Inv
  OBVIOUS
<1>1. file = Missing \/ IsFile(file)
  BY WrittenAssumption DEF Init
<1>2. IsFile(hand) /\ (file # Missing => file = hand)
  BY <1>1, NoFieldsIsFile DEF Init
<1>3. TypeOK
  BY <1>1, <1>2, TypeIs, BoundAssumption DEF Init, SidecarOK, Ended
<1>4. ~AtWork /\ ReadOK /\ WrittenOK
  BY DEF Init, AtWork, ReadOK, WrittenOK
<1>5. LaidOK
  <2>. SUFFICES ASSUME Quiet, NEW k \in Field PROVE Laid(Source, hand, Overlays, kills, k)
    BY DEF LaidOK
  <2>1. Source = hand /\ Overlays = <<>>
    BY <1>2, <1>4 DEF Quiet, Source, Init, Overlays
  <2>2. Laid(hand, hand, <<>>, kills, k)
    <3>1. SameField(hand, hand, k)
      BY DEF SameField
    <3>. QED
      BY <1>2, <3>1, LaidFresh
  <2>. QED
    BY <2>1, <2>2
<1>6. InitOK
  BY DEF Init, InitOK, Tracking
<1>. QED
  BY <1>3, <1>4, <1>5, <1>6 DEF Inv

\* The user writes, or erases, one field.
LEMMA FieldKept ==
    ASSUME Inv, NEW field \in Field, NEW v, NEW w,
           file # Missing, Give, file' = v, IsFile(v), hand' = w, IsFile(w),
           \A k \in Field : k # field => SameField(file, v,
           k) /\ SameField(hand, w, k),
           SameField(w, v, field),
           MarkLate(field), torn' = (torn \/ pc \notin Ended),
           UNCHANGED <<sidecar, pc, read, kills, touched>>
    PROVE  Inv'
<1>0. TypeOK /\ ReadOK /\ WrittenOK /\ LaidOK /\ InitOK
  BY DEF Inv
<1>1. ~torn' => ~torn /\ pc \in Ended
  OBVIOUS
<1>2. /\ LoadSidecar' = LoadSidecar /\ Overlays' = Overlays /\ Tracking' = Tracking
      /\ AtWork' = AtWork
  BY LoadSame DEF AtWork
<1>3. late' = (IF Tracking THEN late \cup {field} ELSE late) /\ given' \in 0 .. MaxGiven
  BY <1>0, TypeIs, BoundAssumption DEF MarkLate, Give
<1>4. TypeOK'
  BY <1>0, <1>3, TypeIs, TypeIsNext
<1>5. ReadOK'
  <2>1. file' # Missing
    BY FileIsThere
  <2>. QED
    BY <1>0, <1>2, <2>1 DEF ReadOK
<1>6. WrittenOK'
  BY <1>1 DEF WrittenOK, Ended
<1>7. Quiet' => Quiet /\ Source = file /\ Source' = v
  BY <1>1, <1>2 DEF Quiet, Source, AtWork, Ended
<1>8. LaidOK'
  <2>. SUFFICES ASSUME Quiet', NEW k \in Field, Guaranteed(k)'
                PROVE  Laid(v, w, Overlays, kills, k)
    BY <1>2, <1>7 DEF LaidOK
  <2>1. Overlays \in Seq(Overlay) /\ Overlays = OverlaysOf(LoadSidecar.applied)
        /\ (Tracking <=> LoadSidecar.applied # <<>>) /\ (sidecar # Missing => LoadSidecar = sidecar)
        /\ Len(Overlays) = Len(LoadSidecar.applied)
    BY <1>0, LoadIs
  <2>2. CASE k = field
    <3>1. \A i \in 1 .. Len(Overlays) : k \notin DOMAIN Overlays[i]
      <4>1. CASE ~Tracking
        BY <2>1, <4>1
      <4>2. CASE Tracking
        <5>1. k \notin touched
          BY <1>3, <2>2, <4>2 DEF Guaranteed
        <5>2. sidecar # Missing /\ LoadSidecar = sidecar
          BY <2>1, <4>2 DEF Tracking
        <5>3. \A i \in DOMAIN sidecar.applied : DOMAIN sidecar.applied[i].overlay \subseteq touched
          BY <1>0, <1>7, <4>2 DEF InitOK
        <5>4. \A i \in 1 .. Len(Overlays) :
                 i \in DOMAIN sidecar.applied /\ Overlays[i] = sidecar.applied[i].overlay
          BY <2>1, <5>2 DEF OverlaysOf
        <5>. QED
          BY <5>1, <5>3, <5>4
      <4>. QED
        BY <4>1, <4>2
    <3>. QED
      BY <2>1, <2>2, <3>1, LaidUnder
  <2>3. CASE k # field
    <3>1. Guaranteed(k)
      BY <1>3, <2>3 DEF Guaranteed
    <3>2. Laid(file, hand, Overlays, kills, k)
      BY <1>0, <1>7, <3>1 DEF LaidOK
    <3>3. SameField(file, v, k) /\ SameField(hand, w, k) /\ IsFile(hand)
      BY <1>0, <2>3, TypeIs
    <3>4. Laid(v, hand, Overlays, kills, k)
      BY <3>2, <3>3, LaidSame
    <3>. QED
      BY <2>1, <3>3, <3>4, LaidOverSame
  <2>. QED
    BY <2>2, <2>3
<1>9. InitOK'
  <2>. SUFFICES ASSUME Quiet', Tracking'
                PROVE  /\ \A i \in DOMAIN sidecar.applied :
                             DOMAIN sidecar.applied[i].overlay \subseteq touched
                       /\ \A k \in Field \ late' : SameField(sidecar.init, w, k)
    BY DEF InitOK
  <2>1. Quiet /\ Tracking /\ late' = late \cup {field}
    BY <1>2, <1>3, <1>7
  <2>2. \A k \in Field \ late' :
          SameField(sidecar.init, hand, k) /\ SameField(hand, w, k)
    BY <1>0, <2>1 DEF InitOK
  <2>3. \A k \in Field \ late' : SameField(sidecar.init, w, k)
    BY <2>2 DEF SameField
  <2>. QED
    BY <1>0, <2>1, <2>3 DEF InitOK
<1>. QED
  BY <1>4, <1>5, <1>6, <1>8, <1>9 DEF Inv

-----------------------------------------------------------------------------
(* The steps                                                                *)

\* A value that the user writes into a field.
LEMMA OneFieldIsFile ==
    ASSUME NEW k \in Field, NEW v \in Written[k]
    PROVE  IsFile([d \in {k} |-> v])
<1>. DEFINE c == [d \in {k} |-> v]
<1>1. OfKind(k, v) /\ Unrepeated(k, v)
  BY WrittenAssumption
<1>2. IsMap(c) /\ DOMAIN c = {k} /\ c[k] = v
  BY DEF IsMap
<1>. HIDE DEF c
<1>3. IsFile(c)
  BY <1>1, <1>2 DEF IsFile, IsConfig
<1>. QED
  BY <1>3 DEF c

\* The user's steps.
LEMMA EditKeeps == ASSUME Inv, NEW k \in Field, Edit(k) PROVE Inv'
<1>1. IsFile(hand) /\ IsFile(file)
  BY TypeIs DEF Inv, Edit
<1>2. PICK v \in Written[k] : /\ file' = Updated(file, [d \in {k} |-> v])
                              /\ hand' = Updated(hand, [d \in {k} |-> v])
  BY DEF Edit
<1>. DEFINE one == [d \in {k} |-> v]
<1>3. IsFile(one)
  BY OneFieldIsFile
<1>4. DOMAIN one = {k}
  OBVIOUS
<1>. HIDE DEF one
<1>5. file' = Updated(file, one) /\ hand' = Updated(hand, one)
  BY <1>2 DEF one
<1>6. IsFile(file') /\ IsFile(hand')
  BY <1>1, <1>3, <1>5, UpdatedIsFile
<1>7. \A j \in Field : j # k => SameField(file, file', j) /\ SameField(hand, hand', j)
  BY <1>4, <1>5 DEF SameField, Updated
<1>8. SameField(hand', file', k)
  BY <1>4, <1>5 DEF SameField, Updated
<1>9. /\ file # Missing /\ Give /\ MarkLate(k) /\ torn' = (torn \/ pc \notin Ended)
      /\ UNCHANGED <<sidecar, pc, read, kills, touched>>
  BY DEF Edit
<1>. QED
  BY <1>6, <1>7, <1>8, <1>9, FieldKept

LEMMA EraseKeeps == ASSUME Inv, NEW k \in Field, EraseField(k) PROVE Inv'
<1>1. IsFile(hand) /\ IsFile(file)
  BY TypeIs DEF Inv, EraseField
<1>5. /\ file' = Restrict(file, DOMAIN file \ {k})
      /\ hand' = Restrict(hand, DOMAIN hand \ {k})
  BY DEF EraseField
<1>6. IsFile(file') /\ IsFile(hand')
  BY <1>1, <1>5, RestrictIsFile
<1>7. \A j \in Field : j # k => SameField(file, file', j) /\ SameField(hand, hand', j)
  BY <1>5 DEF SameField, Restrict
<1>8. SameField(hand', file', k)
  BY <1>5 DEF SameField, Restrict
<1>9. /\ file # Missing /\ Give /\ MarkLate(k) /\ torn' = (torn \/ pc \notin Ended)
      /\ UNCHANGED <<sidecar, pc, read, kills, touched>>
  BY DEF EraseField
<1>. QED
  BY <1>6, <1>7, <1>8, <1>9, FieldKept

LEMMA GiveIs == ASSUME TypeOK, Give PROVE given' \in 0 .. MaxGiven
  BY TypeIs, BoundAssumption DEF Give

LEMMA DeleteFileKeeps == ASSUME Inv, DeleteFile PROVE Inv'
<1>0. TypeOK
  BY DEF Inv
<1>1. TypeOK'
  BY <1>0, GiveIs, TypeIs, TypeIsNext, NoFieldsIsFile DEF DeleteFile
<1>2. ReadOK' /\ WrittenOK'
  BY DEF DeleteFile, ReadOK, WrittenOK, AtWork, Ended
<1>3. LaidOK' /\ InitOK'
  BY DEF DeleteFile, LaidOK, InitOK, Quiet
<1>. QED
  BY <1>1, <1>2, <1>3 DEF Inv

LEMMA LoseSidecarKeeps == ASSUME Inv, LoseSidecar PROVE Inv'
<1>0. TypeOK
  BY DEF Inv
<1>1. IsFile(hand') /\ (file # Missing => hand' = file)
  BY <1>0, TypeIs, NoFieldsIsFile DEF LoseSidecar
<1>2. TypeOK'
  BY <1>0, <1>1, GiveIs, TypeIs, TypeIsNext DEF LoseSidecar, SidecarOK
<1>3. ReadOK' /\ WrittenOK' /\ ~AtWork'
  BY DEF LoseSidecar, ReadOK, WrittenOK, AtWork, Ended
<1>4. InitOK'
  BY DEF LoseSidecar, InitOK, Tracking
<1>5. LaidOK'
  <2>. SUFFICES ASSUME Quiet', NEW k \in Field
                PROVE  Laid(Source', hand', Overlays', kills', k)
    BY DEF LaidOK
  <2>1. Source' = hand' /\ Overlays' = <<>>
    BY <1>1, <1>3 DEF Quiet, Source, LoseSidecar, Overlays
  <2>2. SameField(hand', hand', k)
    BY DEF SameField
  <2>3. Laid(hand', hand', <<>>, kills', k)
    BY <1>1, <2>2, LaidFresh
  <2>. QED
    BY <2>1, <2>3
<1>. QED
  BY <1>2, <1>3, <1>4, <1>5 DEF Inv

\* dvt init.
LEMMA InitFileKeeps == ASSUME Inv, InitFile PROVE Inv'
<1>0. TypeOK
  BY DEF Inv
<1>1. IsFile(Boilerplate)
  BY WrittenAssumption
<1>2. TypeOK'
  BY <1>0, <1>1, GiveIs, TypeIs, TypeIsNext DEF InitFile
<1>3. ReadOK' /\ WrittenOK'
  BY DEF InitFile, ReadOK, WrittenOK, AtWork
<1>4. LaidOK' /\ InitOK'
  BY DEF InitFile, LaidOK, InitOK, Quiet
<1>. QED
  BY <1>2, <1>3, <1>4 DEF Inv

LEMMA InitSidecarKeeps == ASSUME Inv, InitSidecar PROVE Inv'
<1>0. TypeOK
  BY DEF Inv
<1>1. /\ sidecar' # Missing /\ sidecar'.applied = <<>> /\ ~Tracking'
      /\ Overlays' = <<>>
  <2>1. sidecar' # Missing
    BY SidecarIsThere DEF InitSidecar
  <2>2. sidecar'.applied = <<>>
    BY DEF InitSidecar
  <2>. QED
    BY <2>1, <2>2 DEF Tracking, Overlays
<1>2. SidecarOK(sidecar')
  BY NothingTracked, WrittenAssumption DEF InitSidecar, SidecarOK
<1>3. TypeOK'
  BY <1>0, <1>2, TypeIs, TypeIsNext DEF InitSidecar, Ended
<1>4. ReadOK' /\ WrittenOK' /\ ~AtWork'
  BY DEF InitSidecar, ReadOK, WrittenOK, AtWork
<1>5. InitOK'
  BY <1>1 DEF InitOK
<1>6. LaidOK'
  <2>. SUFFICES ASSUME Quiet', NEW k \in Field
                PROVE  Laid(Source', hand', Overlays', kills', k)
    BY DEF LaidOK
  <2>1. Source' = hand /\ hand' = hand
    BY <1>4 DEF Inv, WrittenOK, Quiet, Source, InitSidecar
  <2>2. SameField(hand, hand, k) /\ IsFile(hand)
    BY <1>0, TypeIs DEF SameField
  <2>3. Laid(hand, hand, <<>>, kills', k)
    BY <2>2, LaidFresh
  <2>. QED
    BY <1>1, <2>1, <2>3
<1>. QED
  BY <1>3, <1>4, <1>5, <1>6 DEF Inv

\* dvt feature add and remove, up to the sidecar.
LEMMA AddReadKeeps == ASSUME Inv, NEW f \in Feature, AddRead(f) PROVE Inv'
<1>0. TypeOK /\ IsFile(file)
  BY TypeIs DEF Inv, AddRead
<1>1. TypeOK'
  BY <1>0, GiveIs, TypeIs, TypeIsNext DEF AddRead
<1>2. PICK overlay \in Template[f] :
        read' = [name |-> f, base |-> file, sidecar |-> LoadSidecar, overlay |-> overlay]
  BY DEF AddRead
<1>3. /\ read'.name = f /\ read'.base = file /\ read'.sidecar = LoadSidecar
      /\ read'.overlay \in Overlay
  BY <1>2 DEF Overlay
<1>4. LoadSidecar' = LoadSidecar
  BY LoadSame DEF AddRead
<1>5. ReadOK'
  BY <1>0, <1>3, <1>4 DEF ReadOK, AddRead
<1>6. WrittenOK'
  BY <1>3 DEF WrittenOK, AddRead
<1>7. Quiet' => Quiet /\ Source' = Source
  BY <1>3 DEF AddRead, Quiet, Source, AtWork, Ended
<1>8. LaidOK' /\ InitOK'
  BY <1>7, LaidKept, InitKept DEF Inv, AddRead
<1>. QED
  BY <1>1, <1>5, <1>6, <1>8 DEF Inv

LEMMA RemoveReadKeeps == ASSUME Inv, NEW f \in Feature, RemoveRead(f) PROVE Inv'
<1>0. TypeOK /\ IsFile(file)
  BY TypeIs DEF Inv, RemoveRead
<1>1. TypeOK'
  BY <1>0, GiveIs, TypeIs, TypeIsNext DEF RemoveRead
<1>. DEFINE applied == LoadSidecar.applied
            i == LastOf(applied, f)
<1>2. /\ read'.name = f /\ read'.base = file /\ read'.sidecar = LoadSidecar
      /\ read'.overlay = applied[i].overlay
  BY DEF RemoveRead
<1>3. IsFile(LoadSidecar.init) /\ Tracked(applied) /\ IsApplied(applied, f)
  BY <1>0, LoadIs DEF RemoveRead
<1>4. read'.overlay \in Overlay
  <2>. HIDE DEF applied
  <2>1. i \in 1 .. Len(applied)
    BY <1>3, LastOfIs
  <2>. HIDE DEF i
  <2>2. applied[i] \in Entry
    BY <1>3, <2>1 DEF Tracked
  <2>. QED
    BY <1>2, <2>2 DEF Entry
<1>5. Removable(read')
  BY <1>0, <1>2, <1>3 DEF Removable
<1>6. LoadSidecar' = LoadSidecar
  BY LoadSame DEF RemoveRead
<1>7. ReadOK'
  BY <1>0, <1>2, <1>4, <1>5, <1>6 DEF ReadOK, RemoveRead
<1>8. WrittenOK'
  BY <1>2 DEF WrittenOK, RemoveRead
<1>9. Quiet' => Quiet /\ Source' = Source
  BY <1>2 DEF RemoveRead, Quiet, Source, AtWork, Ended
<1>10. LaidOK' /\ InitOK'
  BY <1>9, LaidKept, InitKept DEF Inv, RemoveRead
<1>. QED
  BY <1>1, <1>7, <1>8, <1>10 DEF Inv

LEMMA AddWriteKeeps == ASSUME Inv, AddWrite PROVE Inv'
<1>0. TypeOK /\ ReadOK
  BY DEF Inv
<1>1. IsFile(read.base) /\ IsConfig(read.overlay)
  BY <1>0, OverlayIsConfig DEF ReadOK, AtWork, AddWrite
<1>2. IsFile(file') /\ file' # Missing
  BY <1>1, MergeLayerIsFile, FileIsThere DEF AddWrite
<1>3. TypeOK'
  BY <1>0, <1>2, TypeIs, TypeIsNext DEF AddWrite
<1>4. LoadSidecar' = LoadSidecar
  BY LoadSame DEF AddWrite
<1>5. ReadOK' /\ WrittenOK'
  BY <1>0, <1>2, <1>4 DEF ReadOK, WrittenOK, AtWork, AddWrite
<1>6. Quiet' => Quiet /\ Source' = Source
  BY <1>0 DEF AddWrite, Quiet, Source, AtWork, ReadOK
<1>7. LaidOK' /\ InitOK'
  BY <1>6, LaidKept, InitKept DEF Inv, AddWrite
<1>. QED
  BY <1>3, <1>5, <1>7 DEF Inv

LEMMA RemoveWriteKeeps == ASSUME Inv, RemoveWrite PROVE Inv'
<1>0. TypeOK /\ ReadOK
  BY DEF Inv
<1>1. Removable(read) /\ file' = Recomputed(read)
  BY <1>0 DEF ReadOK, AtWork, RemoveWrite, Recomputed
<1>2. IsFile(file') /\ file' # Missing
  BY <1>1, RecomputedIs, FileIsThere
<1>3. TypeOK'
  BY <1>0, <1>2, TypeIs, TypeIsNext DEF RemoveWrite
<1>4. LoadSidecar' = LoadSidecar
  BY LoadSame DEF RemoveWrite
<1>5. ReadOK' /\ WrittenOK'
  BY <1>0, <1>1, <1>2, <1>4 DEF ReadOK, WrittenOK, AtWork, RemoveWrite
<1>6. Quiet' => Quiet /\ Source' = Source
  BY <1>0 DEF RemoveWrite, Quiet, Source, AtWork, ReadOK
<1>7. LaidOK' /\ InitOK'
  BY <1>6, LaidKept, InitKept DEF Inv, RemoveWrite
<1>. QED
  BY <1>3, <1>5, <1>7 DEF Inv

-----------------------------------------------------------------------------
(* The last writes, killed commands, and the theorems                       *)

\* What `add` has written is the old file under one overlay more; with a first
\* feature, what stands in the old file is what counts as written by the user.
LEMMA AddSidecarKeeps == ASSUME Inv, AddSidecar PROVE Inv'
<1>. DEFINE applied == LoadSidecar.applied
            base == read.base
            e == [name |-> read.name, overlay |-> read.overlay]
            os == OverlaysOf(applied)
<1>0. TypeOK /\ ReadOK /\ WrittenOK /\ LaidOK /\ InitOK /\ AtWork
  BY DEF Inv, AddSidecar, AtWork
<1>1. /\ IsFile(base) /\ file # Missing /\ read.sidecar = LoadSidecar
      /\ read.name \in Feature /\ read.overlay \in Overlay /\ ~IsApplied(applied, read.name)
  BY <1>0 DEF ReadOK, AddSidecar
<1>2. /\ IsFile(LoadSidecar.init) /\ Tracked(applied) /\ Overlays = os /\ os \in Seq(Overlay)
      /\ (Tracking <=> applied # <<>>)
  BY <1>0, LoadIs
<1>3. e \in Entry /\ e.name = read.name /\ e.overlay = read.overlay
  BY <1>1 DEF Entry
<1>4. /\ sidecar' = [init |-> Capture(read), applied |-> Append(applied, e)]
      /\ sidecar'.init = Capture(read) /\ sidecar'.applied = Append(applied, e)
      /\ sidecar' # Missing
  BY <1>1, SidecarIsThere DEF AddSidecar
<1>. HIDE DEF applied, e, os
<1>5. Capture(read) = IF applied = <<>> THEN base ELSE LoadSidecar.init
  BY <1>1 DEF Capture, applied
<1>6. Tracked(Append(applied, e)) /\ Append(applied, e) # <<>>
  BY <1>1, <1>2, <1>3, TrackedAppend
<1>7. Overlays' = Append(os, read.overlay)
  <2>1. Overlays' = OverlaysOf(Append(applied, e))
    BY <1>4 DEF Overlays, OverlaysOf
  <2>. QED
    BY <1>2, <1>3, <2>1, OverlaysAppend DEF os, Tracked
<1>8. Tracking'
  BY <1>4, <1>6 DEF Tracking
<1>9. /\ pc' = "added" /\ file' = file /\ given' = given /\ kills' = kills
      /\ torn' = torn
  BY DEF AddSidecar
<1>10. Quiet' => Quiet /\ Source = base /\ Source' = MergeLayer(base, read.overlay)
  BY <1>0, <1>9 DEF Quiet, Source, AtWork, WrittenOK, AddSidecar
<1>11. ReadOK' /\ WrittenOK'
  BY <1>9 DEF ReadOK, WrittenOK, AtWork
<1>12. DOMAIN read.overlay \subseteq Field
  BY <1>1, OverlayIsConfig DEF IsConfig
<1>13. CASE applied = <<>>
  <2>1. /\ hand' = Updated(Restrict(hand, {d \in DOMAIN hand : Guaranteed(d)}),
                           Restrict(base, {d \in DOMAIN base : ~Guaranteed(d)}))
        /\ late' = {} /\ touched' = DOMAIN read.overlay
    BY <1>1, <1>13 DEF AddSidecar, StartRun, applied
  <2>2. IsFile(hand')
    <3>1. IsFile(Restrict(hand, {d \in DOMAIN hand : Guaranteed(d)}))
      BY <1>0, TypeIs, RestrictIsFile
    <3>2. IsFile(Restrict(base, {d \in DOMAIN base : ~Guaranteed(d)}))
      BY <1>1, RestrictIsFile
    <3>. QED
      BY <2>1, <3>1, <3>2, UpdatedIsFile
  <2>3. TypeOK'
    <3>1. SidecarOK(sidecar')
      BY <1>1, <1>2, <1>4, <1>5, <1>6 DEF SidecarOK
    <3>. QED
      BY <1>0, <1>9, <1>12, <2>1, <2>2, <3>1, TypeIs, TypeIsNext DEF Ended
  <2>4. ASSUME Quiet', NEW k \in Field PROVE SameField(base, hand', k)
    <3>1. CASE Guaranteed(k)
      <4>1. os = <<>>
        BY <1>13, NothingTracked DEF os
      <4>2. Laid(base, hand, os, kills, k)
        BY <1>0, <1>2, <1>10, <2>4, <3>1 DEF LaidOK
      <4>3. Holds(base, <<hand>> \o os, k)
        BY <1>2, <4>1, <4>2, LaidMeans
      <4>4. Laid(hand, hand, os, kills, k)
        <5>1. IsFile(hand) /\ SameField(hand, hand, k)
          BY <1>0, TypeIs DEF SameField
        <5>. QED
          BY <4>1, <5>1, LaidFresh
      <4>5. Holds(hand, <<hand>> \o os, k)
        BY <1>2, <4>1, <4>4, LaidMeans
      <4>6. SameField(base, hand, k)
        BY <4>3, <4>5, HoldsOnly
      <4>7. SameField(hand, hand', k)
        BY <2>1, <3>1 DEF SameField, Updated, Restrict
      <4>. QED
        BY <4>6, <4>7 DEF SameField
    <3>2. CASE ~Guaranteed(k)
      BY <2>1, <3>2 DEF SameField, Updated, Restrict
    <3>. QED
      BY <3>1, <3>2
  <2>5. LaidOK'
    <3>. SUFFICES ASSUME Quiet', NEW k \in Field
                  PROVE  Laid(Source', hand', Overlays', kills', k)
      BY DEF LaidOK
    <3>1. SameField(hand', base, k)
      BY <2>4 DEF SameField
    <3>2. Laid(base, hand', <<>>, kills, k)
      BY <2>2, <3>1, LaidFresh
    <3>3. os = <<>>
      BY <1>13, NothingTracked DEF os
    <3>4. Laid(MergeLayer(base, read.overlay), hand', Append(os, read.overlay), kills, k)
      BY <1>1, <1>2, <2>2, <3>2, <3>3, LaidAppend
    <3>. QED
      BY <1>7, <1>9, <1>10, <3>4
  <2>6. InitOK'
    <3>. SUFFICES ASSUME Quiet'
                  PROVE  /\ \A i \in DOMAIN sidecar'.applied :
                               DOMAIN sidecar'.applied[i].overlay \subseteq touched'
                         /\ \A k \in Field \ late' : SameField(sidecar'.init, hand', k)
      BY DEF InitOK
    <3>1. \A k \in Field : SameField(sidecar'.init, hand', k)
      BY <1>4, <1>5, <1>13, <2>4
    <3>2. \A i \in DOMAIN sidecar'.applied : sidecar'.applied[i].overlay = read.overlay
      <4>1. sidecar'.applied = Append(<<>>, e)
        BY <1>4, <1>13
      <4>2. DOMAIN Append(<<>>, e) = {1} /\ Append(<<>>, e)[1] = e
        OBVIOUS
      <4>. QED
        BY <1>3, <4>1, <4>2
    <3>. QED
      BY <2>1, <3>1, <3>2
  <2>. QED
    BY <1>11, <2>3, <2>5, <2>6 DEF Inv
<1>14. CASE applied # <<>>
  <2>1. hand' = hand /\ late' = late /\ touched' = touched \cup DOMAIN read.overlay
    BY <1>1, <1>14 DEF AddSidecar, applied
  <2>2. TypeOK'
    <3>1. SidecarOK(sidecar')
      BY <1>2, <1>4, <1>5, <1>6, <1>14 DEF SidecarOK
    <3>. QED
      BY <1>0, <1>9, <1>12, <2>1, <3>1, TypeIs, TypeIsNext DEF Ended
  <2>3. LaidOK'
    <3>. SUFFICES ASSUME Quiet', NEW k \in Field, Guaranteed(k)'
                  PROVE  Laid(Source', hand', Overlays', kills', k)
      BY DEF LaidOK
    <3>1. Guaranteed(k)
      BY <2>1 DEF Guaranteed
    <3>2. Laid(base, hand, os, kills, k) /\ IsFile(hand)
      BY <1>0, <1>2, <1>10, <3>1, TypeIs DEF LaidOK
    <3>3. Laid(MergeLayer(base, read.overlay), hand, Append(os, read.overlay), kills, k)
      BY <1>1, <1>2, <3>2, LaidAppend
    <3>. QED
      BY <1>7, <1>9, <1>10, <2>1, <3>3
  <2>4. InitOK'
    <3>. SUFFICES ASSUME Quiet'
                  PROVE  /\ \A i \in DOMAIN sidecar'.applied :
                               DOMAIN sidecar'.applied[i].overlay \subseteq touched'
                         /\ \A k \in Field \ late' : SameField(sidecar'.init, hand', k)
      BY DEF InitOK
    <3>1. sidecar # Missing /\ LoadSidecar = sidecar /\ Tracking /\ Quiet
      BY <1>0, <1>2, <1>10, <1>14, LoadIs DEF Tracking
    <3>2. /\ \A i \in DOMAIN applied : DOMAIN applied[i].overlay \subseteq touched
          /\ \A k \in Field \ late : SameField(sidecar.init, hand, k)
      BY <1>0, <3>1 DEF InitOK, applied
    <3>3. \A k \in Field \ late' : SameField(sidecar'.init, hand', k)
      BY <1>4, <1>5, <1>14, <2>1, <3>1, <3>2
    <3>4. ASSUME NEW i \in DOMAIN Append(applied, e)
          PROVE  DOMAIN Append(applied, e)[i].overlay \subseteq touched'
      <4>1. applied \in Seq(Entry)
        BY <1>2 DEF Tracked
      <4>2. \/ i \in DOMAIN applied /\ Append(applied, e)[i] = applied[i]
            \/ Append(applied, e)[i] = e
        BY <4>1, <1>3
      <4>. QED
        BY <1>3, <2>1, <3>2, <4>2
    <3>. QED
      BY <1>4, <3>3, <3>4
  <2>. QED
    BY <1>11, <2>2, <2>3, <2>4 DEF Inv
<1>. QED
  BY <1>13, <1>14

\* What `remove` has written is what the overlays that remain make of the
\* user's fields: those it computed again come from "init", which agrees with
\* the user where the overlay went; the others lack the overlay.
LEMMA RecomputedLaid ==
    ASSUME Inv, pc = "removeSidecar", ~torn, NEW k \in Field, Guaranteed(k)
    PROVE  Laid(file, hand, WithoutInit(read), kills, k)
<1>. DEFINE applied == LoadSidecar.applied
            os == OverlaysOf(applied)
            i == LastOf(applied, read.name)
            rest == WithoutInit(read)
            init == LoadSidecar.init
<1>0. TypeOK /\ ReadOK /\ WrittenOK /\ LaidOK /\ InitOK /\ AtWork
  BY DEF Inv, AtWork
<1>1. /\ Removable(read) /\ read.sidecar = LoadSidecar /\ file # Missing
      /\ file = Recomputed(read)
  BY <1>0 DEF ReadOK, WrittenOK
<1>2. Quiet /\ Source = read.base
  BY <1>0, <1>1 DEF Quiet, Source
<1>3. Laid(read.base, hand, os, kills, k) /\ os \in Seq(Overlay)
  BY <1>0, <1>2, LoadIs DEF LaidOK
<1>4. /\ rest \in Seq(Overlay) /\ Dropped(os, i, rest) /\ os[i] = read.overlay
  BY <1>1, RemainingIs
<1>5. IsFile(hand) /\ IsFile(init)
  BY <1>0, TypeIs, LoadIs
<1>6. /\ k \in DOMAIN read.overlay => Holds(file, <<init>> \o rest, k)
      /\ k \notin DOMAIN read.overlay => SameField(read.base, file, k)
  BY <1>1, RecomputedIs
<1>7. CASE k \in DOMAIN read.overlay
  <2>1. applied # <<>>
    BY <1>1 DEF Removable, IsApplied
  <2>2. Tracking /\ sidecar = LoadSidecar
    BY <1>0, <2>1, LoadIs DEF Tracking
  <2>3. read.overlay = applied[i].overlay /\ i \in DOMAIN applied
    <3>1. i \in 1 .. Len(applied) /\ applied \in Seq(Entry)
      BY <1>1, LastOfIs DEF Removable, Tracked
    <3>. QED
      BY <1>1, <3>1 DEF Removable
  <2>4. k \in touched
    BY <1>0, <1>2, <1>7, <2>2, <2>3 DEF InitOK
  <2>5. SameField(init, hand, k)
    BY <1>0, <1>2, <2>2, <2>4 DEF InitOK, Guaranteed
  <2>. HIDE DEF rest, os, i, applied, init
  <2>6. Laid(file, init, rest, kills, k)
    BY <1>4, <1>6, <1>7, LaidExactly
  <2>7. Laid(file, hand, rest, kills, k)
    BY <1>4, <1>5, <2>5, <2>6, LaidOverSame
  <2>. QED
    BY <2>7 DEF rest
<1>8. CASE k \notin DOMAIN read.overlay
  <2>. HIDE DEF rest, os, i, applied, init
  <2>1. Laid(read.base, hand, rest, kills, k)
    BY <1>3, <1>4, <1>5, <1>8, LaidDropped
  <2>. QED
    BY <1>6, <1>8, <2>1, LaidSame DEF rest
<1>. QED
  BY <1>7, <1>8

\* The sidecar catches up with the file that was written.
LEMMA RemoveSidecarKeeps == ASSUME Inv, RemoveSidecar PROVE Inv'
<1>0. TypeOK /\ ReadOK /\ WrittenOK /\ LaidOK /\ InitOK /\ AtWork
  BY DEF Inv, RemoveSidecar, AtWork
<1>1. Removable(read) /\ read.sidecar = LoadSidecar /\ file # Missing
  BY <1>0 DEF ReadOK, RemoveSidecar
<1>2. IsFile(LoadSidecar.init)
  BY <1>0, LoadIs
<1>3. /\ Tracked(Remaining(read)) /\ WithoutInit(read) = OverlaysOf(Remaining(read))
      /\ \A j \in DOMAIN Remaining(read) :
            \E n \in DOMAIN LoadSidecar.applied : Remaining(read)[j] = LoadSidecar.applied[n]
  BY <1>1, RemainingIs
<1>4. /\ sidecar'.init = LoadSidecar.init /\ sidecar'.applied = Remaining(read)
      /\ sidecar' # Missing /\ DOMAIN sidecar' = {"init", "applied"}
  BY <1>1, SidecarIsThere DEF RemoveSidecar
<1>5. /\ pc' = "removed" /\ file' = file /\ given' = given /\ kills' = kills /\ hand' = hand
      /\ late' = late /\ touched' = touched /\ torn' = torn
  BY DEF RemoveSidecar
<1>6. Overlays' = WithoutInit(read)
  BY <1>3, <1>4 DEF Overlays, OverlaysOf
<1>7. TypeOK'
  <2>1. SidecarOK(sidecar')
    BY <1>2, <1>3, <1>4 DEF SidecarOK
  <2>. QED
    BY <1>0, <1>5, <2>1, TypeIs, TypeIsNext DEF Ended
<1>8. ReadOK' /\ WrittenOK' /\ ~AtWork'
  BY <1>5 DEF ReadOK, WrittenOK, AtWork
<1>9. LaidOK'
  <2>. SUFFICES ASSUME Quiet', NEW k \in Field, Guaranteed(k)'
                PROVE  Laid(Source', hand', Overlays', kills', k)
    BY DEF LaidOK
  <2>1. Guaranteed(k) /\ ~torn /\ pc = "removeSidecar" /\ Source' = file
    BY <1>5, <1>8 DEF Guaranteed, Quiet, Source, RemoveSidecar
  <2>2. Laid(file, hand, WithoutInit(read), kills, k)
    BY <2>1, RecomputedLaid
  <2>. QED
    BY <1>5, <1>6, <2>1, <2>2
<1>10. InitOK'
  <2>. SUFFICES ASSUME Quiet'
                PROVE  /\ \A j \in DOMAIN Remaining(read) :
                             DOMAIN Remaining(read)[j].overlay \subseteq touched
                       /\ \A k \in Field \ late : SameField(LoadSidecar.init, hand, k)
    BY <1>4, <1>5 DEF InitOK
  <2>1. LoadSidecar.applied # <<>>
    BY <1>1 DEF Removable, IsApplied
  <2>2. Tracking /\ sidecar = LoadSidecar /\ Quiet
    BY <1>0, <1>5, <2>1, LoadIs DEF Tracking, Quiet, RemoveSidecar
  <2>3. /\ \A n \in DOMAIN LoadSidecar.applied :
             DOMAIN LoadSidecar.applied[n].overlay \subseteq touched
        /\ \A k \in Field \ late : SameField(LoadSidecar.init, hand, k)
    BY <1>0, <2>2 DEF InitOK
  <2>. QED
    BY <1>3, <2>3
<1>. QED
  BY <1>7, <1>8, <1>9, <1>10 DEF Inv

\* A killed command: the file is as it was read, or lacks the overlay that the
\* sidecar still lists.
LEMMA KilledKeeps == ASSUME Inv, Killed PROVE Inv'
<1>0. TypeOK /\ ReadOK /\ WrittenOK /\ LaidOK /\ InitOK
  BY DEF Inv
<1>1. /\ pc' = "idle" /\ kills' = kills + 1 /\ kills < MaxKills /\ pc \notin Ended
      /\ torn' = (torn \/ pc \in {"initSidecar", "addSidecar"})
      /\ UNCHANGED <<file, sidecar, given, hand, late, touched>>
  BY DEF Killed
<1>2. kills' \in 0 .. MaxKills /\ kills' # 0
  BY <1>0, <1>1, TypeIs, BoundAssumption
<1>3. TypeOK'
  BY <1>0, <1>1, <1>2, TypeIs, TypeIsNext DEF Ended
<1>4. ReadOK' /\ WrittenOK' /\ ~AtWork'
  BY <1>1 DEF ReadOK, WrittenOK, AtWork
<1>5. Overlays' = Overlays /\ Source' = file
  BY <1>1, <1>4, LoadSame DEF Source
<1>6. Quiet' => /\ Quiet /\ ~torn /\ pc \in {"addWrite", "removeWrite", "removeSidecar"}
                /\ AtWork
  <2>1. ~torn' => ~torn /\ pc \notin {"initSidecar", "addSidecar"}
    BY <1>1
  <2>. QED
    BY <1>0, <1>1, <2>1, TypeIs DEF Quiet, AtWork
<1>7. LaidOK'
  <2>. SUFFICES ASSUME Quiet', NEW k \in Field, Guaranteed(k)'
                PROVE  Laid(file, hand, Overlays, kills', k)
    BY <1>1, <1>5 DEF LaidOK
  <2>1. Guaranteed(k) /\ IsFile(hand) /\ Overlays \in Seq(Overlay)
        /\ Overlays = OverlaysOf(LoadSidecar.applied)
    BY <1>0, <1>1, TypeIs, LoadIs DEF Guaranteed
  <2>2. CASE pc \in {"addWrite", "removeWrite"}
    <3>1. Laid(file, hand, Overlays, kills, k)
      BY <1>0, <1>6, <2>1, <2>2 DEF LaidOK, WrittenOK, Source
    <3>2. PICK ps \in Seq(Sheets(hand)) :
            Thinned(ps, Overlays) /\ Holds(file, <<hand>> \o ps, k)
      BY <2>1, <3>1, LaidIs
    <3>. QED
      BY <1>2, <2>1, <3>2, LaidBy
  <2>3. CASE pc = "removeSidecar"
    <3>1. Laid(file, hand, WithoutInit(read), kills, k)
      BY <1>6, <2>1, <2>3, RecomputedLaid
    <3>2. Removable(read) /\ read.sidecar = LoadSidecar
      BY <1>0, <1>6, <2>3 DEF ReadOK
    <3>. DEFINE i == LastOf(LoadSidecar.applied, read.name)
    <3>3. /\ WithoutInit(read) \in Seq(Overlay)
          /\ Dropped(Overlays, i, WithoutInit(read))
      BY <2>1, <3>2, RemainingIs
    <3>. HIDE DEF i
    <3>. QED
      BY <1>2, <2>1, <3>1, <3>3, LaidKilled
  <2>. QED
    BY <1>6, <2>2, <2>3
<1>8. InitOK'
  BY <1>0, <1>1, <1>6, InitKept
<1>. QED
  BY <1>3, <1>4, <1>7, <1>8 DEF Inv

\* No step at all.
LEMMA StutterKeeps == ASSUME Inv, UNCHANGED vars PROVE Inv'
<1>1. /\ UNCHANGED <<file, sidecar, pc, read, given, kills, hand, late, touched, torn>>
  BY DEF vars
<1>2. LoadSidecar' = LoadSidecar /\ Overlays' = Overlays /\ AtWork' = AtWork
      /\ Quiet' = Quiet /\ Source' = Source
  BY <1>1, LoadSame DEF AtWork, Quiet, Source
<1>3. TypeOK'
  BY <1>1, TypeIs, TypeIsNext DEF Inv
<1>4. ReadOK' /\ WrittenOK'
  BY <1>1, <1>2 DEF Inv, ReadOK, WrittenOK
<1>5. LaidOK' /\ InitOK'
  BY <1>1, <1>2, LaidKept, InitKept DEF Inv
<1>. QED
  BY <1>3, <1>4, <1>5 DEF Inv

\* Every step keeps the invariant.
LEMMA NextKeeps == Inv /\ [Next]_vars => Inv'
<1>. SUFFICES ASSUME Inv, [Next]_vars PROVE Inv'
  OBVIOUS
<1>1. ASSUME Command PROVE Inv'
  BY <1>1, InitFileKeeps, InitSidecarKeeps, AddReadKeeps, RemoveReadKeeps, AddWriteKeeps,
     AddSidecarKeeps, RemoveWriteKeeps, RemoveSidecarKeeps DEF Command
<1>2. ASSUME User PROVE Inv'
  BY <1>2, EditKeeps, EraseKeeps, DeleteFileKeeps, LoseSidecarKeeps DEF User
<1>. QED
  BY <1>1, <1>2, KilledKeeps, StutterKeeps DEF Next

\* So it always holds.
LEMMA InvAlways == Spec => []Inv
  BY InitHolds, NextKeeps, PTL DEF Spec

\* The file, the sidecar and what the user wrote stay configs of the kinds that
\* merge.py tells apart, and the applied list names a feature at most once.
THEOREM TypeCorrect == Spec => []TypeOK
<1>1. Inv => TypeOK
  BY DEF Inv
<1>. QED
  BY <1>1, InvAlways, PTL

\* While nothing runs, and nothing was killed or nothing is applied, the fields
\* are explained.
LEMMA QuietlyExplained ==
    ASSUME Inv, Quiet, ~AtWork, kills = 0 \/ Overlays = <<>>, NEW k \in Field,
           Guaranteed(k)
    PROVE  Explained(k)
<1>1. Overlays \in Seq(Overlay)
  BY LoadIs DEF Inv
<1>2. Laid(file, hand, Overlays, kills, k)
  BY DEF Inv, LaidOK, Source
<1>3. Holds(file, <<hand>> \o Overlays, k)
  BY <1>1, <1>2, LaidMeans
<1>. QED
  BY <1>3 DEF Explained

\* "The precise guarantee" of concepts.md: a guaranteed field holds what the
\* user wrote under the overlays still applied, over any series of adds,
\* removes, edits and template changes.
THEOREM LayersExplain == Spec => []LayersExplainFile
<1>1. ASSUME Inv PROVE LayersExplainFile
  <2>. SUFFICES ASSUME pc \in Ended, kills = 0, ~torn, file # Missing,
                       NEW k \in Field, Guaranteed(k)
                PROVE  Explained(k)
    BY DEF LayersExplainFile
  <2>1. Quiet /\ ~AtWork
    BY DEF Quiet, AtWork, Ended
  <2>. QED
    BY <1>1, <2>1, QuietlyExplained
<1>. QED
  BY <1>1, InvAlways, PTL

\* The "init" that `remove` goes back to is what the user wrote before the
\* first feature.
THEOREM InitKeptAsWritten == Spec => []InitIsWhatWasThere
<1>1. ASSUME Inv PROVE InitIsWhatWasThere
  <2>. SUFFICES ASSUME pc \in Ended, Tracking, file # Missing, ~torn, NEW k \in Field \ late
                PROVE  SameField(hand, sidecar.init, k)
    BY DEF InitIsWhatWasThere, SameField
  <2>1. Quiet
    BY DEF Quiet, Ended
  <2>2. SameField(sidecar.init, hand, k)
    BY <1>1, <2>1 DEF Inv, InitOK
  <2>. QED
    BY <2>2 DEF SameField
<1>. QED
  BY <1>1, InvAlways, PTL

\* A `remove` killed between its writes may be given again: with the last
\* feature removed the file is as the user wrote it.
THEOREM RemoveRepeats == Spec => []RemoveMayBeRepeated
<1>1. ASSUME Inv PROVE RemoveMayBeRepeated
  <2>. SUFFICES ASSUME pc = "removed", sidecar # Missing, sidecar.applied = <<>>,
                       file # Missing, ~torn, NEW k \in Field, Guaranteed(k)
                PROVE  Explained(k)
    BY DEF RemoveMayBeRepeated
  <2>1. Quiet /\ ~AtWork
    BY DEF Quiet, AtWork
  <2>2. Overlays = <<>>
    BY DEF Overlays
  <2>. QED
    BY <1>1, <2>1, <2>2, QuietlyExplained
<1>. QED
  BY <1>1, InvAlways, PTL
=============================================================================

-------------------------- MODULE RegistrySyncProofs --------------------------
(***************************************************************************)
(* RegistrySync's type invariant, the safety of what users added, and what *)
(* a sync delivers while no other overlaps it, for every number of         *)
(* processes, names, syncs and changes upstream.                           *)
(*                                                                         *)
(* OwnIsSafe is about single steps; what makes it hold is that every name  *)
(* a sync may touch - one it has listed, one it has read from the          *)
(* manifest, one that is in the manifest - has been listed at some time.   *)
(* That is ManagedInv.                                                     *)
(***************************************************************************)
EXTENDS RegistrySync, TLAPS

\* What a sync writes is on its own list, and what it has written too.
WritingInv ==
    \A p \in Process :
        /\ pc[p] \in {"open", "write"} => name[p] \in listing[p]
        /\ done[p] \subseteq listing[p]

\* Whatever a sync may touch has been listed by one.
ManagedInv ==
    /\ manifest \in {Absent, Emptied} \/ manifest \subseteq managed
    /\ \A p \in Process :
          listing[p] \subseteq managed /\ previous[p] \subseteq managed

Inv == TypeOK /\ WritingInv /\ ManagedInv

-----------------------------------------------------------------------------
LEMMA InitTypeOK == Init => TypeOK
<1>. SUFFICES ASSUME Init PROVE TypeOK
  OBVIOUS
<1>1. 0 \in Version /\ MaxChanges \in Nat /\ MaxGiven \in Nat /\ MaxOwn \in Nat
  BY BoundAssumption DEF Version
<1>2. upstream \in [Name -> Version \cup {Absent}]
  BY <1>1 DEF Init
<1>3. /\ since \in [Process -> [Name -> Version \cup {Absent}]]
      /\ local \in [Name -> Version \cup {Absent, Emptied, Own}]
  BY <1>2 DEF Init
<1>4. /\ listing \in [Process -> SUBSET Name] /\ previous \in [Process -> SUBSET Name]
      /\ done \in [Process -> SUBSET Name]
      /\ name \in [Process -> Name \cup {Absent}] /\ version \in [Process -> Version]
  BY <1>1 DEF Init
<1>5. /\ pc \in [Process -> Ended]
      /\ \A p \in Process : pc[p] = "idle"
  BY DEF Init, Ended
<1>6. /\ changes \in 0 .. MaxChanges /\ given \in 0 .. MaxGiven /\ owned \in 0 .. MaxOwn
  BY <1>1 DEF Init
<1>7. /\ manifest \in {Absent, Emptied}
      /\ managed = {} /\ lost = {}
  BY DEF Init
<1>8. overlapped \in BOOLEAN
  BY DEF Init
<1>9. pc \in [Process -> Ended \cup {"list", "manifest", "fetch", "open", "write",
                                    "prune", "writeManifest"}]
  BY <1>5
<1>10. \A p \in Process :
          pc[p] \in {"prune", "writeManifest"} => done[p] = listing[p]
  BY <1>5
<1>. QED
  BY <1>2, <1>3, <1>4, <1>6, <1>7, <1>8, <1>9, <1>10 DEF TypeOK

\* Each action keeps the types; the only one that begins to prune has written
\* all it listed, for what it has written was listed.
LEMMA NextTypeOK == TypeOK /\ WritingInv /\ [Next]_vars => TypeOK'
<1>. SUFFICES ASSUME TypeOK, WritingInv, [Next]_vars PROVE TypeOK'
  OBVIOUS
<1>. USE BoundAssumption DEF Goto
<1>1. CASE UNCHANGED vars
  BY <1>1 DEF TypeOK, vars, storeVars, countVars, readVars, historyVars
<1>2. ASSUME NEW n \in Name, Change(n) PROVE TypeOK'
  <2>1. changes + 1 \in Version /\ changes + 1 \in 0 .. MaxChanges
    BY <1>2 DEF Change, TypeOK, Version
  <2>. QED
    BY <1>2, <2>1 DEF Change, TypeOK, storeVars, readVars, historyVars
<1>3. ASSUME NEW n \in Name, PutOwn(n) PROVE TypeOK'
  <2>1. owned + 1 \in 0 .. MaxOwn
    BY <1>3 DEF PutOwn, TypeOK
  <2>. QED
    BY <1>3, <2>1 DEF PutOwn, TypeOK, readVars, historyVars
<1>4. ASSUME NEW p \in Process, Launch(p) PROVE TypeOK'
  <2>1. given + 1 \in 0 .. MaxGiven
    BY <1>4 DEF Launch, TypeOK
  <2>. QED
    BY <1>4, <2>1 DEF Launch, TypeOK, storeVars, readVars
<1>5. ASSUME NEW p \in Process, List(p) PROVE TypeOK'
  BY <1>5 DEF List, TypeOK, storeVars, countVars
<1>6. ASSUME NEW p \in Process, ReadManifest(p) PROVE TypeOK'
  BY <1>6 DEF ReadManifest, ManifestNames, TypeOK, storeVars, countVars, historyVars
<1>7. ASSUME NEW p \in Process, Fetch(p) PROVE TypeOK'
  BY <1>7 DEF Fetch, Unfetched, TypeOK, storeVars, countVars, historyVars
<1>8. ASSUME NEW p \in Process, Open(p) PROVE TypeOK'
  BY <1>8 DEF Open, TypeOK, countVars, readVars, historyVars
<1>9. ASSUME NEW p \in Process, Write(p) PROVE TypeOK'
  BY <1>9 DEF Write, WritingInv, TypeOK, countVars, historyVars
<1>10. ASSUME NEW p \in Process, FetchedAll(p) PROVE TypeOK'
  BY <1>10 DEF FetchedAll, Unfetched, WritingInv, TypeOK, storeVars, countVars,
              readVars, historyVars
<1>11. ASSUME NEW p \in Process, Prune(p) PROVE TypeOK'
  BY <1>11 DEF Prune, TypeOK, countVars, readVars, historyVars
<1>12. ASSUME NEW p \in Process, OpenManifest(p) PROVE TypeOK'
  BY <1>12 DEF OpenManifest, TypeOK, countVars, readVars, historyVars
<1>13. ASSUME NEW p \in Process, WriteManifest(p) PROVE TypeOK'
  BY <1>13 DEF WriteManifest, TypeOK, Ended, countVars, readVars
<1>14. ASSUME NEW p \in Process, EndEarly(p) PROVE TypeOK'
  BY <1>14 DEF EndEarly, TypeOK, Ended, storeVars, countVars, readVars
<1>. QED
  BY <1>1, <1>2, <1>3, <1>4, <1>5, <1>6, <1>7, <1>8, <1>9, <1>10, <1>11, <1>12,
     <1>13, <1>14 DEF Next, Sync

-----------------------------------------------------------------------------
LEMMA InitInv == Init => Inv
<1>. SUFFICES ASSUME Init PROVE Inv
  OBVIOUS
<1>1. WritingInv
  BY DEF Init, WritingInv
<1>2. ManagedInv
  BY DEF Init, ManagedInv
<1>. QED
  BY <1>1, <1>2, InitTypeOK DEF Inv

LEMMA NextWritingInv == TypeOK /\ WritingInv /\ [Next]_vars => WritingInv'
<1>. SUFFICES ASSUME TypeOK, WritingInv, [Next]_vars PROVE WritingInv'
  OBVIOUS
<1>. USE DEF Goto
<1>1. CASE UNCHANGED vars
  BY <1>1 DEF WritingInv, vars, readVars
<1>2. ASSUME NEW n \in Name, Change(n) \/ PutOwn(n) PROVE WritingInv'
  BY <1>2 DEF Change, PutOwn, WritingInv, readVars
<1>3. ASSUME NEW p \in Process, Launch(p) PROVE WritingInv'
  BY <1>3 DEF Launch, TypeOK, WritingInv, readVars
<1>4. ASSUME NEW p \in Process, List(p) PROVE WritingInv'
  BY <1>4 DEF List, TypeOK, WritingInv
<1>5. ASSUME NEW p \in Process, ReadManifest(p) PROVE WritingInv'
  BY <1>5 DEF ReadManifest, TypeOK, WritingInv
<1>6. ASSUME NEW p \in Process, Fetch(p) PROVE WritingInv'
  BY <1>6 DEF Fetch, Unfetched, TypeOK, WritingInv
<1>7. ASSUME NEW p \in Process, Open(p) PROVE WritingInv'
  BY <1>7 DEF Open, TypeOK, WritingInv, readVars
<1>8. ASSUME NEW p \in Process, Write(p) PROVE WritingInv'
  BY <1>8 DEF Write, TypeOK, WritingInv
<1>9. ASSUME NEW p \in Process,
             FetchedAll(p) \/ Prune(p) \/ OpenManifest(p) \/ WriteManifest(p)
                 \/ EndEarly(p)
      PROVE  WritingInv'
  BY <1>9 DEF FetchedAll, Prune, OpenManifest, WriteManifest, EndEarly, Busy,
              TypeOK, WritingInv, readVars
<1>. QED
  BY <1>1, <1>2, <1>3, <1>4, <1>5, <1>6, <1>7, <1>8, <1>9 DEF Next, Sync

\* Only List adds to what has been listed; the manifest and what is read from it
\* come from lists.
LEMMA NextManagedInv == TypeOK /\ ManagedInv /\ [Next]_vars => ManagedInv'
<1>. SUFFICES ASSUME TypeOK, ManagedInv, [Next]_vars PROVE ManagedInv'
  OBVIOUS
<1>1. CASE UNCHANGED vars
  BY <1>1 DEF ManagedInv, vars, storeVars, readVars, historyVars
<1>2. ASSUME NEW n \in Name, Change(n) \/ PutOwn(n) PROVE ManagedInv'
  BY <1>2 DEF Change, PutOwn, ManagedInv, storeVars, readVars, historyVars
<1>3. ASSUME NEW p \in Process, List(p) PROVE ManagedInv'
  BY <1>3 DEF List, TypeOK, ManagedInv, storeVars
<1>4. ASSUME NEW p \in Process, ReadManifest(p) PROVE ManagedInv'
  BY <1>4 DEF ReadManifest, ManifestNames, TypeOK, ManagedInv, storeVars, historyVars
<1>5. ASSUME NEW p \in Process, WriteManifest(p) PROVE ManagedInv'
  BY <1>5 DEF WriteManifest, ManagedInv, readVars
<1>6. ASSUME NEW p \in Process, OpenManifest(p) PROVE ManagedInv'
  BY <1>6 DEF OpenManifest, ManagedInv, readVars, historyVars
<1>7. ASSUME NEW p \in Process,
             Launch(p) \/ Fetch(p) \/ Open(p) \/ Write(p) \/ FetchedAll(p)
                 \/ Prune(p) \/ EndEarly(p)
      PROVE  ManagedInv'
  BY <1>7 DEF Launch, Fetch, Open, Write, FetchedAll, Prune, EndEarly, ManagedInv,
              storeVars, readVars, historyVars
<1>. QED
  BY <1>1, <1>2, <1>3, <1>4, <1>5, <1>6, <1>7 DEF Next, Sync

\* Every reachable state is consistent, also after syncs that raced, failed or
\* were killed.
THEOREM Invariance == Spec => []Inv
<1>1. Inv /\ [Next]_vars => Inv'
  BY NextTypeOK, NextWritingInv, NextManagedInv DEF Inv
<1>. QED
  BY <1>1, InitInv, PTL DEF Spec

\* The variables keep their types and nothing is pruned before all that was
\* listed has been written, for any number of processes and names.
THEOREM TypeCorrect == Spec => []TypeOK
BY Invariance, PTL DEF Inv

-----------------------------------------------------------------------------
\* One step leaves what a user put under a name that no sync has listed: a sync
\* writes what it has listed and prunes what it read from the manifest.
LEMMA StepKeepsOwn ==
    ASSUME Inv, [Next]_vars, NEW n \in Name, local[n] = Own, n \notin managed'
    PROVE  local'[n] = Own
<1>1. managed \subseteq managed'
  BY DEF Next, Sync, Change, PutOwn, Launch, List, ReadManifest, Fetch, Open, Write,
         FetchedAll, Prune, OpenManifest, WriteManifest, EndEarly, vars, historyVars
<1>2. \A p \in Process : n \notin listing[p] /\ n \notin previous[p]
  BY <1>1 DEF Inv, ManagedInv
<1>3. CASE local' = local
  BY <1>3
<1>4. ASSUME NEW m \in Name, PutOwn(m) PROVE local'[n] = Own
  BY <1>4 DEF PutOwn, Inv, TypeOK
<1>5. ASSUME NEW p \in Process, Open(p) \/ Write(p) PROVE local'[n] = Own
  <2>1. name[p] \in listing[p]
    BY <1>5 DEF Open, Write, Inv, WritingInv
  <2>2. name[p] # n
    BY <1>2, <2>1
  <2>. QED
    BY <1>5, <2>2 DEF Open, Write, Inv, TypeOK
<1>6. ASSUME NEW p \in Process, Prune(p) PROVE local'[n] = Own
  <2>1. n \notin Removed(p)
    BY <1>2 DEF Removed
  <2>. QED
    BY <1>6, <2>1 DEF Prune, Removed, Inv, TypeOK
<1>. QED
  BY <1>3, <1>4, <1>5, <1>6
     DEF Next, Sync, Change, Launch, List, ReadManifest, Fetch, FetchedAll,
         OpenManifest, WriteManifest, EndEarly, vars, storeVars

\* What a user has put under a name that no sync has ever listed is never
\* written or deleted, whatever syncs race, fail or are killed: the promise of
\* sync_templates about hand-added templates.
THEOREM OwnSafe == Spec => OwnIsSafe
<1>1. Inv /\ [Next]_vars =>
        [\A n \in Name :
            local[n] = Own /\ n \notin managed' => local'[n] = Own]_vars
  BY StepKeepsOwn
<1>. QED
  BY <1>1, Invariance, PTL DEF Spec, OwnIsSafe

-----------------------------------------------------------------------------
(* What a sync delivers while no two overlap.                               *)

\* One sync at a time.
Alone == \A p, q \in Process : p # q /\ Busy(p) => ~Busy(q)

\* An entry that was removed and comes back has a newer version.
VersionInv ==
    /\ \A n \in Name : upstream[n] # Absent => upstream[n] <= changes
    /\ \A p \in Process, n \in Name :
          since[p][n] # Absent =>
              since[p][n] <= changes /\ (upstream[n] # Absent => since[p][n] <= upstream[n])

Listed == {"manifest", "fetch", "open", "write", "prune", "writeManifest"}

\* What a sync has written is as new as it was when the sync was given, and what
\* it is writing will be.
Freshens(p) ==
    pc[p] \in Listed =>
        /\ \A n \in done[p] : /\ local[n] \in Version
                              /\ since[p][n] # Absent => since[p][n] <= local[n]
        /\ pc[p] \in {"open", "write"} =>
              /\ name[p] \in Name \ done[p]
              /\ since[p][name[p]] # Absent => since[p][name[p]] <= version[p]

\* Whatever was fetched is in the manifest, on the list of the sync that runs or
\* forgotten; the manifest does not change behind a sync.
Tracked(n) ==
    \/ n \in lost \cup ManifestNames
    \/ \E p \in Process : pc[p] \in Listed /\ n \in listing[p]
TrackedInv ==
    /\ \A n \in Name : local[n] \in Version \cup {Emptied} => Tracked(n)
    /\ \A p \in Process :
          /\ pc[p] \in {"fetch", "open", "write", "prune"} => ManifestNames = previous[p]
          /\ pc[p] = "writeManifest" => manifest = Emptied

FreshInv == \A p \in Process : Freshens(p)
AloneInv == Inv /\ VersionInv /\ (~overlapped => Alone /\ FreshInv /\ TrackedInv)

\* What a step of one sync leaves of the others.
LEMMA OthersKeep ==
    ASSUME TypeOK, NEW p \in Process, Launch(p) \/ Sync(p) \/ EndEarly(p),
           NEW q \in Process, q # p
    PROVE  /\ pc'[q] = pc[q] /\ listing'[q] = listing[q] /\ previous'[q] = previous[q]
           /\ done'[q] = done[q] /\ name'[q] = name[q] /\ version'[q] = version[q]
           /\ since'[q] = since[q]
  BY DEF TypeOK, Sync, Launch, List, ReadManifest, Fetch, Open, Write, FetchedAll, Prune,
         OpenManifest, WriteManifest, EndEarly, Goto, readVars, historyVars

\* Nothing runs, nothing was fetched.
LEMMA InitAlone == Init => AloneInv
<1>. SUFFICES ASSUME Init PROVE AloneInv
  OBVIOUS
<1>1. VersionInv
  BY DEF Init, VersionInv
<1>2. Alone /\ FreshInv
  BY DEF Init, Alone, Busy, Ended, FreshInv, Freshens, Listed
<1>3. TrackedInv
  BY ValueAssumption DEF Init, TrackedInv, Version
<1>. QED
  BY <1>1, <1>2, <1>3, InitInv DEF AloneInv

\* Versions only grow.
LEMMA VersionStep == TypeOK /\ VersionInv /\ [Next]_vars => VersionInv'
<1>. SUFFICES ASSUME TypeOK, VersionInv, [Next]_vars PROVE VersionInv'
  OBVIOUS
<1>0. /\ changes \in Nat
      /\ \A n \in Name : upstream[n] # Absent => upstream[n] \in Nat
      /\ \A p \in Process, n \in Name : since[p][n] # Absent => since[p][n] \in Nat
  BY BoundAssumption DEF TypeOK, Version
<1>1. ASSUME NEW m \in Name, Change(m) PROVE VersionInv'
  <2>1. /\ changes' = changes + 1 /\ since' = since
        /\ \A n \in Name : upstream'[n] = upstream[n] \/ upstream'[n] \in {changes + 1, Absent}
    BY <1>1 DEF Change, TypeOK, historyVars
  <2>. QED
    BY <1>0, <2>1 DEF VersionInv
<1>2. ASSUME NEW p \in Process, Launch(p) PROVE VersionInv'
  <2>1. UNCHANGED <<changes, upstream>> /\ since' = [since EXCEPT ![p] = upstream]
    BY <1>2 DEF Launch
  <2>2. \A q \in Process : since'[q] = since[q] \/ since'[q] = upstream
    BY <2>1 DEF TypeOK
  <2>. QED
    BY <1>0, <2>1, <2>2 DEF VersionInv
<1>3. ASSUME \A n \in Name : ~Change(n), \A p \in Process : ~Launch(p)
      PROVE  UNCHANGED <<changes, upstream, since>>
  BY <1>3 DEF Next, Sync, PutOwn, List, ReadManifest, Fetch, Open, Write, FetchedAll, Prune,
         OpenManifest, WriteManifest, EndEarly, vars, countVars, historyVars
<1>. QED
  BY <1>1, <1>2, <1>3 DEF VersionInv

\* A sync given beside another makes them overlap.
LEMMA AloneStep ==
    TypeOK /\ (~overlapped => Alone) /\ [Next]_vars => (~overlapped' => Alone')
<1>. SUFFICES ASSUME TypeOK, ~overlapped => Alone, [Next]_vars, ~overlapped' PROVE Alone'
  OBVIOUS
<1>1. ASSUME NEW p \in Process, Launch(p) PROVE Alone'
  <2>1. \A q \in Process : ~Busy(q)
    BY <1>1 DEF Launch
  <2>. QED
    BY <1>1, <2>1, OthersKeep DEF Alone, Busy
<1>2. ASSUME NEW p \in Process, Sync(p) \/ EndEarly(p) PROVE Alone'
  <2>1. Busy(p) /\ overlapped' = overlapped
    BY <1>2 DEF Sync, List, ReadManifest, Fetch, Open, Write, FetchedAll, Prune,
         OpenManifest, WriteManifest, EndEarly, historyVars, Busy, Ended
  <2>. QED
    BY <1>2, <2>1, OthersKeep DEF Alone, Busy
<1>3. CASE UNCHANGED vars \/ \E n \in Name : Change(n) \/ PutOwn(n)
  BY <1>3 DEF vars, Change, PutOwn, historyVars, Alone, Busy
<1>. QED
  BY <1>1, <1>2, <1>3 DEF Next

\* The one step of a running sync, seen from the others: they are at rest.
LEMMA Resting ==
    ASSUME Alone, NEW p \in Process, Busy(p), NEW q \in Process, q # p
    PROVE  pc[q] \in Ended /\ pc[q] \notin Listed
  BY DEF Alone, Busy, Ended, Listed

\* What a sync has written stays written: no one else writes, and it prunes what
\* it does not list.
LEMMA FreshStep ==
    AloneInv /\ [Next]_vars => (~overlapped' => FreshInv')
<1>. SUFFICES ASSUME AloneInv, [Next]_vars, ~overlapped', NEW q \in Process
              PROVE  Freshens(q)'
  BY DEF FreshInv
<1>0. /\ TypeOK /\ WritingInv /\ VersionInv
      /\ ~overlapped => Alone /\ Freshens(q)
      /\ \A n \in Name : (upstream[n] # Absent => upstream[n] \in Nat)
                         /\ (since[q][n] # Absent => since[q][n] \in Nat)
      /\ Absent \notin Version /\ Emptied \notin Version /\ Own \notin Version
  BY ValueAssumption, BoundAssumption DEF AloneInv, Inv, FreshInv, TypeOK, Version
<1>1. CASE UNCHANGED vars
  BY <1>0, <1>1 DEF vars, storeVars, readVars, historyVars, Freshens
<1>2. ASSUME NEW n \in Name, Change(n) PROVE Freshens(q)'
  BY <1>0, <1>2 DEF Change, storeVars, readVars, historyVars, Freshens
<1>3. ASSUME NEW n \in Name, PutOwn(n) PROVE Freshens(q)'
  <2>1. \A m \in Name : local[m] \in Version => local'[m] = local[m]
    BY <1>0, <1>3 DEF PutOwn, TypeOK
  <2>2. done[q] \subseteq Name
    BY <1>0 DEF TypeOK
  <2>. QED
    BY <1>0, <1>3, <2>1, <2>2 DEF PutOwn, readVars, historyVars, Freshens
<1>4. ASSUME NEW p \in Process, Launch(p) \/ Sync(p) \/ EndEarly(p), p # q PROVE Freshens(q)'
  <2>1. ~overlapped
    BY <1>4 DEF Launch, Sync, List, ReadManifest, Fetch, Open, Write, FetchedAll, Prune,
         OpenManifest, WriteManifest, EndEarly, historyVars
  <2>2. pc[q] \notin Listed
    <3>1. CASE Launch(p)
      BY <2>1, <3>1 DEF Launch, Listed, Busy, Ended
    <3>2. CASE Sync(p) \/ EndEarly(p)
      <4>1. Busy(p)
        BY <3>2 DEF Sync, List, ReadManifest, Fetch, Open, Write, FetchedAll, Prune,
           OpenManifest, WriteManifest, EndEarly, Busy, Ended
      <4>. QED
        BY <1>0, <1>4, <2>1, <4>1, Resting
    <3>. QED
      BY <1>4, <3>1, <3>2
  <2>. QED
    BY <1>0, <1>4, <2>2, OthersKeep DEF Freshens
<1>5. ASSUME Launch(q) \/ EndEarly(q) \/ WriteManifest(q) PROVE Freshens(q)'
  <2>1. \E step \in {"list", "failed", "synced"} : pc' = [pc EXCEPT ![q] = step]
    BY <1>5 DEF Launch, EndEarly, WriteManifest, Goto
  <2>. QED
    BY <1>0, <2>1 DEF Freshens, Listed, TypeOK
<1>6. CASE List(q)
  <2>1. done'[q] = {} /\ pc'[q] = "manifest"
    BY <1>0, <1>6 DEF List, Goto, TypeOK
  <2>. QED
    BY <2>1 DEF Freshens
<1>7. CASE ReadManifest(q) \/ FetchedAll(q)
  <2>1. /\ pc[q] \in Listed /\ \E step \in {"fetch", "prune"} : pc' = [pc EXCEPT ![q] = step]
        /\ UNCHANGED <<done, local, since, overlapped>>
    BY <1>7 DEF ReadManifest, FetchedAll, Goto, Listed, storeVars, historyVars, readVars
  <2>2. pc'[q] \in {"fetch", "prune"}
    BY <1>0, <2>1 DEF TypeOK
  <2>. QED
    BY <1>0, <2>1, <2>2 DEF Freshens
<1>8. CASE Fetch(q)
  <2>1. PICK n \in Unfetched(q) :
              /\ upstream[n] # Absent
              /\ name' = [name EXCEPT ![q] = n] /\ version' = [version EXCEPT ![q] = upstream[n]]
    BY <1>8 DEF Fetch
  <2>2. /\ pc[q] = "fetch" /\ pc' = [pc EXCEPT ![q] = "open"]
        /\ UNCHANGED <<done, local, since, overlapped>>
    BY <1>8 DEF Fetch, Goto, storeVars, historyVars
  <2>3. /\ name'[q] = n /\ version'[q] = upstream[n] /\ n \in Name \ done[q]
        /\ since[q][n] # Absent => since[q][n] <= upstream[n]
    BY <1>0, <2>1 DEF Unfetched, TypeOK, VersionInv
  <2>. QED
    BY <1>0, <2>2, <2>3 DEF Freshens, Listed
<1>9. CASE Open(q)
  <2>1. /\ pc[q] = "open" /\ pc' = [pc EXCEPT ![q] = "write"]
        /\ local' = [local EXCEPT ![name[q]] = Emptied]
        /\ UNCHANGED <<done, since, overlapped, name, version>>
    BY <1>9 DEF Open, Goto, readVars, historyVars
  <2>2. Freshens(q) /\ pc'[q] = "write" /\ done[q] \subseteq Name
    BY <1>0, <2>1 DEF TypeOK
  <2>3. name[q] \in Name \ done[q]
    BY <2>1, <2>2 DEF Freshens, Listed
  <2>4. \A n \in done[q] : local'[n] = local[n]
    BY <1>0, <2>1, <2>2, <2>3 DEF TypeOK
  <2>. QED
    BY <2>1, <2>2, <2>3, <2>4 DEF Freshens, Listed
<1>10. CASE Write(q)
  <2>1. /\ pc[q] = "write" /\ pc' = [pc EXCEPT ![q] = "fetch"]
        /\ local' = [local EXCEPT ![name[q]] = version[q]]
        /\ done' = [done EXCEPT ![q] = @ \cup {name[q]}]
        /\ UNCHANGED <<since, overlapped>>
    BY <1>10 DEF Write, Goto, readVars, historyVars
  <2>2. /\ Freshens(q) /\ pc'[q] = "fetch" /\ done[q] \subseteq Name
        /\ done'[q] = done[q] \cup {name[q]}
    BY <1>0, <2>1 DEF TypeOK
  <2>3. name[q] \in Name \ done[q] /\ version[q] \in Version
    BY <1>0, <2>1, <2>2 DEF Freshens, Listed, TypeOK
  <2>4. local'[name[q]] = version[q] /\ \A n \in done[q] : local'[n] = local[n]
    BY <1>0, <2>1, <2>2, <2>3 DEF TypeOK
  <2>. QED
    BY <2>1, <2>2, <2>3, <2>4 DEF Freshens, Listed
<1>11. CASE Prune(q)
  <2>1. PICK n \in Removed(q) : local' = [local EXCEPT ![n] = Absent]
    BY <1>11 DEF Prune
  <2>2. n \notin done[q] /\ done[q] \subseteq Name
    BY <1>0, <2>1 DEF Removed, WritingInv, TypeOK
  <2>3. \A m \in done[q] : local'[m] = local[m]
    BY <1>0, <2>1, <2>2 DEF TypeOK
  <2>. QED
    BY <1>0, <1>11, <2>3 DEF Prune, readVars, historyVars, Freshens
<1>12. CASE OpenManifest(q)
  <2>1. /\ pc[q] = "prune" /\ pc' = [pc EXCEPT ![q] = "writeManifest"]
        /\ UNCHANGED <<done, local, since, overlapped>>
    BY <1>12 DEF OpenManifest, Goto, readVars, historyVars
  <2>2. pc'[q] = "writeManifest"
    BY <1>0, <2>1 DEF TypeOK
  <2>. QED
    BY <1>0, <2>1, <2>2 DEF Freshens, Listed
<1>. QED
  BY <1>1, <1>2, <1>3, <1>4, <1>5, <1>6, <1>7, <1>8, <1>9, <1>10, <1>11, <1>12 DEF Next, Sync

\* What was fetched is never forgotten.
LEMMA TrackedStep ==
    AloneInv /\ [Next]_vars => (~overlapped' => TrackedInv')
<1>. SUFFICES ASSUME AloneInv, [Next]_vars, ~overlapped' PROVE TrackedInv'
  OBVIOUS
<1>0. /\ TypeOK /\ WritingInv
      /\ ~overlapped => Alone /\ TrackedInv
      /\ Own \notin Version \cup {Emptied} /\ Absent \notin Version \cup {Emptied}
      /\ \A S \in SUBSET Name : S # Absent /\ S # Emptied
  BY ValueAssumption, BoundAssumption DEF AloneInv, Inv, Version
<1>1. CASE UNCHANGED vars
  BY <1>0, <1>1
  DEF vars, storeVars, readVars, historyVars, TrackedInv, Tracked, ManifestNames
<1>2. ASSUME NEW n \in Name, Change(n) PROVE TrackedInv'
  BY <1>0, <1>2
  DEF Change, storeVars, readVars, historyVars, TrackedInv, Tracked, ManifestNames
<1>3. ASSUME NEW n \in Name, PutOwn(n) PROVE TrackedInv'
  <2>1. \A m \in Name : local'[m] = local[m] \/ local'[m] = Own
    BY <1>0, <1>3 DEF PutOwn, TypeOK
  <2>. QED
    BY <1>0, <1>3, <2>1
    DEF PutOwn, readVars, historyVars, TrackedInv, Tracked, ManifestNames
<1>4. ASSUME NEW p \in Process, Launch(p) PROVE TrackedInv'
  <2>1. ~overlapped /\ \A q \in Process : pc[q] \notin Listed
    BY <1>4 DEF Launch, Busy, Ended, Listed
  <2>2. \A q \in Process : pc'[q] \notin Listed
    BY <1>0, <1>4, <2>1 DEF Launch, Goto, TypeOK, Listed
  <2>. QED
    BY <1>0, <1>4, <2>1, <2>2 DEF Launch, storeVars, TrackedInv, Tracked, ManifestNames, Listed
\* From here one process moves and the others are at rest.
<1>5. ASSUME NEW p \in Process, Sync(p) \/ EndEarly(p) PROVE TrackedInv'
  <2>1. Busy(p) /\ ~overlapped
    BY <1>5 DEF Sync, List, ReadManifest, Fetch, Open, Write, FetchedAll, Prune,
       OpenManifest, WriteManifest, EndEarly, Busy, Ended, historyVars
  <2>2. \A q \in Process : q # p =>
            pc[q] \notin Listed /\ pc'[q] \notin Listed /\ listing'[q] = listing[q]
    BY <1>0, <1>5, <2>1, Resting, OthersKeep
  <2>3. \A n \in Name : Tracked(n) <=> \/ n \in lost \cup ManifestNames
                                       \/ pc[p] \in Listed /\ n \in listing[p]
    BY <2>2 DEF Tracked
  <2>4. \A n \in Name : Tracked(n)' <=> \/ n \in lost' \cup ManifestNames'
                                        \/ pc'[p] \in Listed /\ n \in listing'[p]
    BY <2>2 DEF Tracked
  <2>5. SUFFICES
          /\ \A n \in Name : local'[n] \in Version \cup {Emptied} =>
                \/ n \in lost' \cup ManifestNames'
                \/ pc'[p] \in Listed /\ n \in listing'[p]
          /\ pc'[p] \in {"fetch", "open", "write", "prune"} => ManifestNames' = previous'[p]
          /\ pc'[p] = "writeManifest" => manifest' = Emptied
    BY <2>2, <2>4 DEF TrackedInv, Listed
  <2>6. /\ \A n \in Name : local[n] \in Version \cup {Emptied} =>
              \/ n \in lost \cup ManifestNames
              \/ pc[p] \in Listed /\ n \in listing[p]
        /\ pc[p] \in {"fetch", "open", "write", "prune"} => ManifestNames = previous[p]
        /\ pc[p] = "writeManifest" => manifest = Emptied
    BY <1>0, <2>1, <2>3 DEF TrackedInv
  <2>7. CASE List(p)
    <3>1. pc[p] = "list" /\ pc' = [pc EXCEPT ![p] = "manifest"]
          /\ UNCHANGED <<local, manifest, lost>>
      BY <2>7 DEF List, Goto, storeVars
    <3>2. pc'[p] = "manifest"
      BY <1>0, <3>1 DEF TypeOK
    <3>. QED
      BY <2>6, <3>1, <3>2 DEF ManifestNames, Listed
  <2>8. CASE ReadManifest(p)
    <3>1. /\ pc[p] = "manifest" /\ pc' = [pc EXCEPT ![p] = "fetch"]
          /\ previous' = [previous EXCEPT ![p] = ManifestNames]
          /\ UNCHANGED <<local, manifest, lost, listing>>
      BY <2>8 DEF ReadManifest, Goto, storeVars, historyVars, ManifestNames
    <3>2. pc'[p] = "fetch" /\ previous'[p] = ManifestNames
      BY <1>0, <3>1 DEF TypeOK
    <3>. QED
      BY <2>6, <3>1, <3>2 DEF ManifestNames, Listed
  <2>9. CASE Fetch(p) \/ FetchedAll(p)
    <3>1. /\ pc[p] = "fetch" /\ \E step \in {"open", "prune"} : pc' = [pc EXCEPT ![p] = step]
          /\ UNCHANGED <<local, manifest, lost, listing, previous>>
      BY <2>9 DEF Fetch, FetchedAll, Goto, storeVars, readVars, historyVars
    <3>2. pc'[p] \in {"open", "prune"}
      BY <1>0, <3>1 DEF TypeOK
    <3>. QED
      BY <2>6, <3>1, <3>2 DEF ManifestNames, Listed
  <2>10. CASE Open(p) \/ Write(p)
    <3>1. /\ pc[p] \in {"open", "write"}
          /\ \E step \in {"write", "fetch"} : pc' = [pc EXCEPT ![p] = step]
          /\ \E v \in {Emptied, version[p]} : local' = [local EXCEPT ![name[p]] = v]
          /\ UNCHANGED <<manifest, lost, listing, previous>>
      BY <2>10 DEF Open, Write, Goto, readVars, historyVars
    <3>2. pc'[p] \in {"write", "fetch"} /\ name[p] \in listing[p]
      BY <1>0, <3>1 DEF TypeOK, WritingInv
    <3>3. \A n \in Name : n # name[p] => local'[n] = local[n]
      BY <1>0, <3>1 DEF TypeOK
    <3>. QED
      BY <2>6, <3>1, <3>2, <3>3 DEF ManifestNames, Listed
  <2>11. CASE Prune(p)
    <3>1. PICK m \in Removed(p) : local' = [local EXCEPT ![m] = Absent]
      BY <2>11 DEF Prune
    <3>2. /\ pc[p] = "prune" /\ UNCHANGED <<pc, manifest, lost, listing, previous>>
      BY <2>11 DEF Prune, readVars, historyVars
    <3>3. \A n \in Name : local'[n] = local[n] \/ local'[n] = Absent
      BY <1>0, <3>1 DEF TypeOK
    <3>. QED
      BY <1>0, <2>6, <3>2, <3>3 DEF ManifestNames, Listed
  <2>12. CASE OpenManifest(p)
    <3>1. /\ pc[p] = "prune" /\ pc' = [pc EXCEPT ![p] = "writeManifest"]
          /\ \A n \in Removed(p) : local[n] = Absent
          /\ manifest' = Emptied /\ UNCHANGED <<local, lost, listing>>
      BY <2>12 DEF OpenManifest, Goto, readVars, historyVars
    <3>2. pc'[p] = "writeManifest"
      BY <1>0, <3>1 DEF TypeOK
    \* What the old manifest had and the sync does not list has been pruned.
    <3>3. ASSUME NEW n \in Name, local[n] \in Version \cup {Emptied}
          PROVE  n \in lost \cup listing[p]
      <4>1. n \in ManifestNames => n \in previous[p] /\ n \notin Removed(p)
        BY <1>0, <2>6, <3>1, <3>3
      <4>. QED
        BY <2>6, <3>3, <4>1 DEF Removed
    <3>. QED
      BY <3>1, <3>2, <3>3 DEF Listed
  <2>13. CASE WriteManifest(p)
    <3>1. /\ pc[p] = "writeManifest" /\ pc' = [pc EXCEPT ![p] = "synced"]
          /\ manifest' = listing[p] /\ lost' = lost \ listing[p] /\ UNCHANGED local
      BY <2>13 DEF WriteManifest, Goto
    <3>2. pc'[p] = "synced" /\ ManifestNames' = listing[p] /\ ManifestNames = {}
      <4>1. listing[p] \in SUBSET Name
        BY <1>0 DEF TypeOK
      <4>. QED
        BY <1>0, <2>6, <3>1, <4>1 DEF TypeOK, ManifestNames
    <3>. QED
      BY <2>6, <3>1, <3>2
  <2>14. CASE EndEarly(p)
    <3>1. /\ pc' = [pc EXCEPT ![p] = "failed"] /\ UNCHANGED <<local, manifest>>
          /\ lost' = IF pc[p] = "list" THEN lost ELSE lost \cup (listing[p] \ ManifestNames)
      BY <2>14 DEF EndEarly, Goto, storeVars
    <3>2. pc'[p] = "failed"
      BY <1>0, <3>1 DEF TypeOK
    <3>. QED
      BY <2>6, <3>1, <3>2 DEF ManifestNames, Listed
  <2>. QED
    BY <1>5, <2>7, <2>8, <2>9, <2>10, <2>11, <2>12, <2>13, <2>14 DEF Sync
<1>. QED
  BY <1>1, <1>2, <1>3, <1>4, <1>5 DEF Next

\* The invariant holds in every state.
LEMMA AloneInvariance == Spec => []AloneInv
<1>1. AloneInv /\ [Next]_vars => AloneInv'
  <2>. SUFFICES ASSUME AloneInv, [Next]_vars PROVE AloneInv'
    OBVIOUS
  <2>1. Inv'
    BY NextTypeOK, NextWritingInv, NextManagedInv DEF AloneInv, Inv
  <2>2. VersionInv' /\ (~overlapped' => Alone')
    BY VersionStep, AloneStep DEF AloneInv, Inv
  <2>. QED
    BY <2>1, <2>2, FreshStep, TrackedStep DEF AloneInv
<1>. QED
  BY <1>1, InitAlone, PTL DEF Spec

\* Only the last step of a sync makes it a successful one.
LEMMA SyncedByWriteManifest ==
    ASSUME TypeOK, [Next]_vars, NEW p \in Process, pc[p] # "synced", pc'[p] = "synced"
    PROVE  WriteManifest(p)
<1>1. CASE UNCHANGED vars \/ \E n \in Name : Change(n) \/ PutOwn(n)
  BY <1>1 DEF vars, Change, PutOwn
<1>2. ASSUME NEW q \in Process, Launch(q) \/ Sync(q) \/ EndEarly(q), q # p PROVE FALSE
  BY <1>2, OthersKeep
<1>3. ASSUME Launch(p) \/ Sync(p) \/ EndEarly(p), ~WriteManifest(p) PROVE FALSE
  <2>1. \/ pc' = pc
        \/ \E step \in Listed \cup {"list", "failed"} : pc' = [pc EXCEPT ![p] = step]
    BY <1>3 DEF Launch, Sync, List, ReadManifest, Fetch, Open, Write, FetchedAll, Prune,
         OpenManifest, EndEarly, Goto, Listed
  <2>. QED
    BY <2>1 DEF TypeOK, Listed
<1>. QED
  BY <1>1, <1>2, <1>3 DEF Next

\* After a successful sync that no other overlapped, every name it listed has a
\* whole copy that is no older than the entry was when the sync was given, also
\* after syncs that failed half-way.
THEOREM Freshened == Spec => SyncFreshens
<1>1. AloneInv /\ [Next]_vars =>
          [\A p \in Process :
              pc[p] # "synced" /\ pc'[p] = "synced" /\ ~overlapped =>
                  \A n \in listing[p] :
                      /\ local[n] \in Version
                      /\ since[p][n] # Absent => local[n] >= since[p][n]]_vars
  <2>. SUFFICES ASSUME AloneInv, [Next]_vars, NEW p \in Process,
                       pc[p] # "synced", pc'[p] = "synced", ~overlapped,
                       NEW n \in listing[p]
                PROVE  /\ local[n] \in Version
                       /\ since[p][n] # Absent => local[n] >= since[p][n]
    OBVIOUS
  <2>1. TypeOK /\ Freshens(p)
    BY DEF AloneInv, Inv, FreshInv
  <2>2. pc[p] = "writeManifest"
    BY <2>1, SyncedByWriteManifest DEF WriteManifest
  <2>3. n \in done[p] /\ n \in Name
    BY <2>1, <2>2 DEF TypeOK
  <2>4. local[n] \in Version /\ (since[p][n] # Absent => since[p][n] <= local[n])
    BY <2>1, <2>2, <2>3 DEF Freshens, Listed
  <2>5. local[n] \in Int /\ (since[p][n] # Absent => since[p][n] \in Int)
    BY <2>1, <2>3, <2>4, BoundAssumption DEF TypeOK, Version
  <2>. QED
    BY <2>4, <2>5
<1>. QED
  BY <1>1, AloneInvariance, PTL DEF Spec, SyncFreshens

\* After a successful sync that no other overlapped, no copy dvt fetched is left
\* of a name GitHub did not list, but for forgotten ones: a sync that ended early
\* had listed them while they were in no manifest, or after it had emptied it.
THEOREM Pruned == Spec => SyncPrunes
<1>1. AloneInv /\ [Next]_vars =>
          [\A p \in Process :
              pc[p] # "synced" /\ pc'[p] = "synced" /\ ~overlapped =>
                  \A n \in Name :
                      local[n] \in Version \cup {Emptied} => n \in listing[p] \cup lost]_vars
  <2>. SUFFICES ASSUME AloneInv, [Next]_vars, NEW p \in Process,
                       pc[p] # "synced", pc'[p] = "synced", ~overlapped,
                       NEW n \in Name, local[n] \in Version \cup {Emptied}
                PROVE  n \in listing[p] \cup lost
    OBVIOUS
  <2>1. TypeOK /\ Alone /\ Tracked(n) /\ (pc[p] = "writeManifest" => manifest = Emptied)
    BY DEF AloneInv, Inv, TrackedInv
  <2>2. pc[p] = "writeManifest"
    BY <2>1, SyncedByWriteManifest DEF WriteManifest
  <2>3. ManifestNames = {}
    BY <2>1, <2>2 DEF ManifestNames
  <2>4. \A q \in Process : q # p => pc[q] \notin Listed
    BY <2>1, <2>2, Resting DEF Busy, Ended
  <2>. QED
    BY <2>1, <2>3, <2>4 DEF Tracked
<1>. QED
  BY <1>1, AloneInvariance, PTL DEF Spec, SyncPrunes
=============================================================================

--------------------------- MODULE FeatureCacheProofs ---------------------------
(***************************************************************************)
(* Proofs about FeatureCache, for any number of processes, features, files *)
(* of a feature, releases, commands and kills.  The inductive invariant    *)
(* has a part that holds always (where each process is) and a part that    *)
(* holds as long as no `sync` has been disturbed: then a `sync` is the     *)
(* only command that runs, and is the only one that takes anything out of  *)
(* the cache; the others only ever add whole directories to it.            *)
(***************************************************************************)
EXTENDS FeatureCache, TLAPS

Pulling == {"pull", "fetch", "download", "extract"}

\* Where a process is, whatever the others do.
Place(p) ==
    /\ pc[p] \in {"download", "extract"} => tries[p] < Attempts
    /\ pc[p] \in {"fetch", "download", "extract"} => ref[p] \in wanted[p]
    /\ wanted[p] \subseteq needs[p]
    /\ tmp[p] # None => pc[p] = "extract"
    /\ entries[p] # {} => pc[p] = "build" /\ ref[p] \in needs[p] \ wanted[p]
    /\ pc[p] \in Clearing \cup {"registries"} => cmd[p] = "sync"
    /\ pc[p] = "build" => cmd[p] = "up"
    /\ pc[p] \in Pulling \cup Clearing \cup {"registries"} => copied[p] = {}
    /\ \A r \in Ref : since[p][r] <= tag[r]

PlaceInv == (\A p \in Process : Place(p)) /\ (~there => stray = {})

\* While a `sync` runs nothing else does.
Alone ==
    \A p, q \in Process : p # q /\ Busy(p) /\ cmd[p] = "sync" => ~Busy(q)

\* A directory that lacks files is being deleted; rmtree has seen all there are.
WholeInv ==
    /\ \A r \in Ref : dest[r] # None /\ dest[r].files # File =>
          \E p \in Process : pc[p] = "delete" /\ r \in doomed[p]
    /\ \A p \in Process : pc[p] = "delete" =>
          there /\ \A r \in Ref : dest[r] # None => r \in doomed[p]

\* The build context holds what has been copied of r: everything but the files
\* still listed, in the version the cache holds.
Copies(p, r) ==
    \A f \in File, v \in 0 .. MaxVersion :
        <<r, f, v>> \in copied[p] <=>
            /\ r \notin wanted[p] /\ v = dest[r].version
            /\ r = ref[p] => f \notin entries[p]

\* An `up` has in the cache what it has pulled, copies from it, and ends with one
\* version of each feature.
BuildInv ==
    \A p \in Process :
        /\ pc[p] \in Pulling /\ cmd[p] = "up" =>
              \A r \in needs[p] \ wanted[p] : dest[r] # None
        /\ pc[p] = "build" => \A r \in needs[p] : dest[r] # None /\ Copies(p, r)
        /\ pc[p] = "built" => \A r \in needs[p] : \E v \in 0 .. MaxVersion :
              \A f \in File, w \in 0 .. MaxVersion : <<r, f, w>> \in copied[p] <=> w = v

\* A `sync` that has cleared the cache finds nothing there but what it pulled,
\* or failed to.
SyncInv ==
    \A p \in Process : cmd[p] = "sync" /\ pc[p] \in Pulling \cup {"registries"} =>
        /\ \A r \in Ref : dest[r] # None => dest[r].version >= since[p][r]
        /\ stray \subseteq {given}
        /\ pc[p] \in {"download", "extract"} => version[p] >= since[p][ref[p]]
        /\ pc[p] \in {"fetch", "download", "extract"} => dest[ref[p]] = None

Inv == TypeOK /\ PlaceInv /\ (~disturbed => Alone /\ WholeInv /\ BuildInv /\ SyncInv)

-----------------------------------------------------------------------------
\* Nothing runs and the cache is empty.
LEMMA InitInv == Init => Inv
<1>. SUFFICES ASSUME Init PROVE Inv
  OBVIOUS
<1>1. TypeOK
  <2>1. /\ tag \in [Ref -> 0 .. MaxVersion]
        /\ since \in [Process -> [Ref -> 0 .. MaxVersion]]
        /\ version \in [Process -> 0 .. MaxVersion]
        /\ tries \in [Process -> 0 .. Attempts]
        /\ given \in 0 .. MaxGiven /\ kills \in 0 .. MaxKills
    <3>1. tag \in [Ref -> 0 .. MaxVersion]
      BY BoundAssumption DEF Init
    <3>. QED
      BY <3>1, BoundAssumption DEF Init, Attempts
  <2>. QED
    BY <2>1 DEF Init, TypeOK, Ended
<1>2. PlaceInv
  BY BoundAssumption DEF Init, PlaceInv, Place, Pulling, Clearing
<1>3. Alone /\ WholeInv /\ BuildInv /\ SyncInv
  BY DEF Init, Alone, WholeInv, BuildInv, SyncInv, Pulling, Busy, Ended
<1>. QED
  BY <1>1, <1>2, <1>3 DEF Inv

-----------------------------------------------------------------------------
\* The types.
Step == Ended \cup Clearing \cup
        {"registries", "pull", "fetch", "download", "extract", "build"}

LEMMA UpdateInRange ==
    ASSUME NEW S, NEW T, NEW f \in [S -> T], NEW s \in S, NEW v \in T
    PROVE  [f EXCEPT ![s] = v] \in [S -> T]
  OBVIOUS

\* A process that goes to a step is at it, and the others stay where they are.
LEMMA MovesOn ==
    ASSUME TypeOK, NEW p \in Process, NEW step \in Step, Goto(p, step)
    PROVE  pc' \in [Process -> Step] /\ pc'[p] = step
           /\ \A q \in Process : q # p => pc'[q] = pc[q]
  BY DEF TypeOK, Goto, Step

\* What follows an attempt keeps the types, tries[p] among them.
LEMMA Retries ==
    ASSUME TypeOK, PlaceInv, NEW p \in Process, pc[p] \in {"fetch", "download", "extract"}
    PROVE  /\ Pulled(p) \/ Failed(p) \/ TryAgain(p) =>
                 pc' \in [Process -> Step] /\ wanted' \in [Process -> SUBSET Ref]
           /\ TryAgain(p) /\ pc[p] # "fetch" => tries' \in [Process -> 0 .. Attempts]
<1>1. Pulled(p) => pc' \in [Process -> Step] /\ wanted' \in [Process -> SUBSET Ref]
  BY MovesOn DEF Pulled, TypeOK, Step
<1>2. Failed(p) => pc' \in [Process -> Step] /\ wanted' \in [Process -> SUBSET Ref]
  BY <1>1, MovesOn DEF Failed, TypeOK, Step, Ended
<1>3. TryAgain(p) /\ pc[p] # "fetch" => tries' \in [Process -> 0 .. Attempts]
  <2>2. tries[p] \in 0 .. Attempts
    BY DEF TypeOK
  <2>3. pc[p] # "fetch" => tries[p] < Attempts
    BY DEF PlaceInv, Place
  <2>1. pc[p] # "fetch" => tries[p] + 1 \in 0 .. Attempts
    BY <2>2, <2>3 DEF Attempts
  <2>. QED
    BY <2>1 DEF TryAgain, TypeOK
<1>. QED
  BY <1>1, <1>2, <1>3, MovesOn DEF TryAgain, Step, TypeOK

\* A temporary directory that is left is numbered with the command before it.
LEMMA Leaves ==
    ASSUME TypeOK, NEW p \in Process,
           LeaveTemporary(p) \/ (tmp' = [tmp EXCEPT ![p] = None] /\ UNCHANGED stray)
    PROVE  /\ tmp' = [tmp EXCEPT ![p] = None]
           /\ tmp' \in [Process -> (SUBSET File) \cup {None}]
           /\ stray' \subseteq stray \cup {given} /\ stray' \subseteq 0 .. MaxGiven
           /\ tmp[p] = None => stray' = stray
  BY DEF LeaveTemporary, TypeOK

\* Every action keeps the types.
LEMMA TypeStep == Inv /\ [Next]_vars => TypeOK'
<1>. SUFFICES ASSUME Inv, [Next]_vars PROVE TypeOK'
  OBVIOUS
<1>1. TypeOK /\ PlaceInv
  BY DEF Inv
<1>. USE <1>1 DEF cacheVars, pullVars, copyVars
<1>2. CASE UNCHANGED vars
  BY <1>2 DEF vars, TypeOK
<1>3. ASSUME NEW r \in Ref, Release(r) PROVE TypeOK'
  <2>2. tag[r] \in 0 .. MaxVersion /\ tag[r] < MaxVersion
    BY <1>3 DEF Release, TypeOK
  <2>1. tag[r] + 1 \in 0 .. MaxVersion
    BY <2>2, BoundAssumption
  <2>. QED
    BY <1>3, <2>1 DEF Release, TypeOK
<1>4. ASSUME NEW p \in Process, Launch(p) PROVE TypeOK'
  <2>1. PICK c \in {"up", "sync"}, refs \in SUBSET Ref :
              /\ cmd' = [cmd EXCEPT ![p] = c] /\ needs' = [needs EXCEPT ![p] = refs]
              /\ wanted' = [wanted EXCEPT ![p] = refs]
              /\ Goto(p, IF c = "sync" THEN "clear" ELSE "pull")
              /\ disturbed' = (disturbed \/ Disturbs(c))
    BY <1>4 DEF Launch, FirstStep
  <2>2. pc' \in [Process -> Step] /\ disturbed' \in BOOLEAN
    BY <2>1, MovesOn DEF Step, Clearing, TypeOK
  <2>5. given \in 0 .. MaxGiven /\ given < MaxGiven /\ given' = given + 1
    BY <1>4 DEF Launch, TypeOK
  <2>6. given' \in 0 .. MaxGiven
    BY <2>5, BoundAssumption
  <2>3. /\ copied' \in [Process -> SUBSET (Ref \X File \X (0 .. MaxVersion))]
        /\ since' \in [Process -> [Ref -> 0 .. MaxVersion]]
        /\ UNCHANGED <<tag, cacheVars, kills, ref, version, tries, tmp, doomed, entries>>
    BY <1>4 DEF Launch, TypeOK
  <2>4. /\ cmd' \in [Process -> {"up", "sync"}]
        /\ needs' \in [Process -> SUBSET Ref] /\ wanted' \in [Process -> SUBSET Ref]
    BY <2>1 DEF TypeOK
  <2>. QED
    BY <2>2, <2>3, <2>4, <2>6 DEF TypeOK, Step
<1>5. ASSUME NEW p \in Process, Clear(p) PROVE TypeOK'
  <2>1. pc' \in [Process -> Step]
    BY <1>5, MovesOn DEF Clear, Step, Clearing
  <2>. QED
    BY <1>5, <2>1 DEF Clear, TypeOK, Step
<1>6. ASSUME NEW p \in Process, DeleteFile(p) PROVE TypeOK'
  <2>1. PICK r \in Ref, f \in File :
              dest[r] # None /\ dest' = [dest EXCEPT ![r].files = @ \ {f}]
    BY <1>6 DEF DeleteFile, TypeOK, Directory
  <2>2. [dest[r] EXCEPT !.files = @ \ {f}] \in Directory
    <3>1. dest[r] \in Directory
      BY <2>1 DEF TypeOK
    <3>. QED
      BY <3>1 DEF Directory
  <2>. QED
    BY <1>6, <2>1, <2>2 DEF DeleteFile, TypeOK
<1>7. ASSUME NEW p \in Process, DeleteDirectory(p) PROVE TypeOK'
  BY <1>7 DEF DeleteDirectory, TypeOK
<1>8. ASSUME NEW p \in Process, DeleteTemporary(p) PROVE TypeOK'
  BY <1>8 DEF DeleteTemporary, TypeOK
<1>9. ASSUME NEW p \in Process, DeleteCache(p) PROVE TypeOK'
  <2>1. pc' \in [Process -> Step]
    BY <1>9, MovesOn DEF DeleteCache, Step, Ended
  <2>. QED
    BY <1>9, <2>1 DEF DeleteCache, TypeOK, Step
<1>10. ASSUME NEW p \in Process, DeleteRaises(p) PROVE TypeOK'
  <2>1. pc' \in [Process -> Step]
    BY <1>10, MovesOn DEF DeleteRaises, Step, Ended
  <2>. QED
    BY <1>10, <2>1 DEF DeleteRaises, TypeOK, Step
<1>11. ASSUME NEW p \in Process, Registries(p) PROVE TypeOK'
  <2>1. pc' \in [Process -> Step]
    BY <1>11, MovesOn DEF Registries, Step, Ended
  <2>. QED
    BY <1>11, <2>1 DEF Registries, TypeOK, Step
<1>12. ASSUME NEW p \in Process, Lookup(p) PROVE TypeOK'
  <2>1. pc' \in [Process -> Step]
    BY <1>12, MovesOn DEF Lookup, Step, TypeOK
  <2>2. PICK r \in wanted[p] :
              /\ ref' = [ref EXCEPT ![p] = r]
              /\ wanted' = wanted \/ wanted' = [wanted EXCEPT ![p] = @ \ {r}]
    BY <1>12 DEF Lookup
  <2>4. wanted \in [Process -> SUBSET Ref] /\ ref \in [Process -> Ref \cup {None}]
    BY DEF TypeOK
  <2>5. r \in Ref /\ wanted[p] \ {r} \in SUBSET Ref
    BY <2>4
  <2>3. wanted' \in [Process -> SUBSET Ref] /\ ref' \in [Process -> Ref \cup {None}]
    BY <2>2, <2>4, <2>5
  <2>. QED
    BY <1>12, <2>1, <2>3 DEF Lookup, TypeOK, Step
<1>13. ASSUME NEW p \in Process, Fetch(p) PROVE TypeOK'
  <2>1. pc' \in [Process -> Step] /\ wanted' \in [Process -> SUBSET Ref]
    BY <1>13, MovesOn, Retries DEF Fetch, Step, TypeOK
  <2>2. tag[ref[p]] \in 0 .. MaxVersion
    BY <1>13 DEF Fetch, PlaceInv, Place, TypeOK
  <2>4. version' = version \/ version' = [version EXCEPT ![p] = tag[ref[p]]]
    BY <1>13 DEF Fetch
  <2>5. tries' = tries \/ tries' = [tries EXCEPT ![p] = 0]
    BY <1>13 DEF Fetch
  <2>6. 0 \in 0 .. Attempts
    BY DEF Attempts
  <2>7. version \in [Process -> 0 .. MaxVersion] /\ tries \in [Process -> 0 .. Attempts]
    BY DEF TypeOK
  <2>3. version' \in [Process -> 0 .. MaxVersion] /\ tries' \in [Process -> 0 .. Attempts]
    BY <2>2, <2>4, <2>5, <2>6, <2>7, UpdateInRange
  <2>. QED
    BY <1>13, <2>1, <2>3 DEF Fetch, TypeOK, Step
<1>14. ASSUME NEW p \in Process, Download(p) PROVE TypeOK'
  <2>1. pc' \in [Process -> Step] /\ wanted' \in [Process -> SUBSET Ref]
    BY <1>14, MovesOn, Retries DEF Download, Step, TypeOK
  <2>2. tries' \in [Process -> 0 .. Attempts]
    BY <1>14, Retries DEF Download, TypeOK
  <2>3. tmp' \in [Process -> (SUBSET File) \cup {None}] /\ there' \in BOOLEAN
        /\ (there' = TRUE \/ UNCHANGED <<there, tmp>>)
    BY <1>14 DEF Download, TypeOK
  <2>. QED
    BY <1>14, <2>1, <2>2, <2>3 DEF Download, TypeOK, Step
<1>15. ASSUME NEW p \in Process, ExtractFile(p) PROVE TypeOK'
  <2>1. PICK f \in File : tmp[p] # None /\ tmp' = [tmp EXCEPT ![p] = @ \cup {f}]
    BY <1>15 DEF ExtractFile
  <2>2. tmp[p] \cup {f} \in SUBSET File
    BY <2>1 DEF TypeOK
  <2>. QED
    BY <1>15, <2>1, <2>2 DEF ExtractFile, TypeOK
<1>16. ASSUME NEW p \in Process, ExtractFails(p) PROVE TypeOK'
  <2>1. /\ pc' \in [Process -> Step] /\ wanted' \in [Process -> SUBSET Ref]
        /\ tries' \in [Process -> 0 .. Attempts]
    BY <1>16, Retries DEF ExtractFails
  <2>2. stray' \subseteq 0 .. MaxGiven /\ tmp' \in [Process -> (SUBSET File) \cup {None}]
        /\ tmp' = [tmp EXCEPT ![p] = None]
    BY <1>16, Leaves DEF ExtractFails
  <2>. QED
    BY <1>16, <2>1, <2>2 DEF ExtractFails, TypeOK, Step
<1>17. ASSUME NEW p \in Process, Rename(p) PROVE TypeOK'
  <2>1. pc' \in [Process -> Step] /\ wanted' \in [Process -> SUBSET Ref]
    BY <1>17, Retries DEF Rename
  <2>2. [files |-> tmp[p], version |-> version[p]] \in Directory
    BY <1>17 DEF Rename, TypeOK, Directory
  <2>3. ref[p] \in Ref /\ there
    BY <1>17 DEF Rename, PlaceInv, Place, TypeOK
  <2>. QED
    BY <1>17, <2>1, <2>2, <2>3 DEF Rename, TypeOK, Step
<1>18. ASSUME NEW p \in Process, RenameFails(p) PROVE TypeOK'
  <2>1. /\ pc' \in [Process -> Step] /\ wanted' \in [Process -> SUBSET Ref]
        /\ tries' \in [Process -> 0 .. Attempts]
    BY <1>18, Retries DEF RenameFails
  <2>2. stray' \subseteq 0 .. MaxGiven /\ tmp' \in [Process -> (SUBSET File) \cup {None}]
        /\ tmp' = [tmp EXCEPT ![p] = None]
    BY <1>18, Leaves DEF RenameFails
  <2>. QED
    BY <1>18, <2>1, <2>2 DEF RenameFails, TypeOK, Step
<1>19. ASSUME NEW p \in Process, AllPulled(p) PROVE TypeOK'
  <2>1. pc' \in [Process -> Step] /\ wanted' \in [Process -> SUBSET Ref]
    <3>1. \E step \in {"synced", "build"} : Goto(p, step)
      BY <1>19 DEF AllPulled
    <3>2. wanted' = wanted \/ wanted' = [wanted EXCEPT ![p] = needs[p]]
      BY <1>19 DEF AllPulled
    <3>3. pc' \in [Process -> Step]
      BY <3>1, MovesOn DEF Step, Ended
    <3>4. wanted' \in [Process -> SUBSET Ref]
      BY <3>2 DEF TypeOK
    <3>. QED
      BY <3>3, <3>4
  <2>. QED
    BY <1>19, <2>1 DEF AllPulled, TypeOK, Step
<1>20. ASSUME NEW p \in Process, ListFeature(p) PROVE TypeOK'
  <2>1. pc' \in [Process -> Step]
    BY <1>20, MovesOn DEF ListFeature, Step, TypeOK, Ended
  <2>2. entries' \in [Process -> SUBSET File]
    BY <1>20 DEF ListFeature, TypeOK, Directory
  <2>. QED
    <3>1. PICK r \in wanted[p] : /\ ref' = [ref EXCEPT ![p] = r]
                                 /\ wanted' = [wanted EXCEPT ![p] = @ \ {r}]
      BY <1>20 DEF ListFeature
    <3>2. wanted' \in [Process -> SUBSET Ref] /\ ref' \in [Process -> Ref \cup {None}]
      BY <3>1 DEF TypeOK
    <3>. QED
      BY <1>20, <2>1, <2>2, <3>2 DEF ListFeature, TypeOK, Step
<1>21. ASSUME NEW p \in Process, CopyFile(p) PROVE TypeOK'
  <2>1. pc' \in [Process -> Step] /\ entries' \in [Process -> SUBSET File]
    <3>1. /\ pc' = pc \/ Goto(p, "failed")
          /\ \E f \in entries[p] : \/ entries' = [entries EXCEPT ![p] = @ \ {f}]
                                  \/ entries' = [entries EXCEPT ![p] = {}]
      BY <1>21 DEF CopyFile
    <3>2. pc' \in [Process -> Step]
      BY <3>1, MovesOn DEF Step, TypeOK, Ended
    <3>3. entries \in [Process -> SUBSET File] /\ \A f : entries[p] \ {f} \in SUBSET File
      BY DEF TypeOK
    <3>. QED
      BY <3>1, <3>2, <3>3, UpdateInRange
  <2>2. copied' \in [Process -> SUBSET (Ref \X File \X (0 .. MaxVersion))]
    <3>1. PICK f \in entries[p] :
                \/ copied' = copied
                \/ /\ dest[ref[p]] # None
                   /\ copied' = [copied EXCEPT ![p] =
                                     @ \cup {<<ref[p], f, dest[ref[p]].version>>}]
      BY <1>21 DEF CopyFile
    <3>2. ref[p] \in Ref /\ f \in File
      BY <1>21, <3>1 DEF CopyFile, PlaceInv, Place, TypeOK
    <3>3. dest[ref[p]] # None => dest[ref[p]].version \in 0 .. MaxVersion
      BY <3>2 DEF TypeOK, Directory
    <3>4. copied' = copied \/ \E x \in Ref \X File \X (0 .. MaxVersion) :
                                  copied' = [copied EXCEPT ![p] = @ \cup {x}]
      BY <3>1, <3>2, <3>3
    <3>5. copied \in [Process -> SUBSET (Ref \X File \X (0 .. MaxVersion))]
      BY DEF TypeOK
    <3>6. \A x \in Ref \X File \X (0 .. MaxVersion) :
              copied[p] \cup {x} \in SUBSET (Ref \X File \X (0 .. MaxVersion))
      BY <3>5
    <3>. QED
      BY <3>4, <3>5, <3>6, UpdateInRange
  <2>. QED
    BY <1>21, <2>1, <2>2 DEF CopyFile, TypeOK, Step
<1>22. ASSUME NEW p \in Process, Build(p) PROVE TypeOK'
  <2>1. pc' \in [Process -> Step]
    BY <1>22, MovesOn DEF Build, Step, Ended
  <2>. QED
    BY <1>22, <2>1 DEF Build, TypeOK, Step
<1>23. ASSUME NEW p \in Process, Kill(p) PROVE TypeOK'
  <2>1. pc' \in [Process -> Step]
    BY <1>23, MovesOn DEF Kill, Step, Ended
  <2>3. kills \in 0 .. MaxKills /\ kills < MaxKills /\ kills' = kills + 1
    BY <1>23 DEF Kill, TypeOK
  <2>2. kills' \in 0 .. MaxKills /\ disturbed' \in BOOLEAN
    BY <1>23, <2>3, BoundAssumption DEF Kill, TypeOK
  <2>4. stray' \subseteq 0 .. MaxGiven /\ tmp' \in [Process -> (SUBSET File) \cup {None}]
        /\ tmp' = [tmp EXCEPT ![p] = None]
    BY <1>23, Leaves DEF Kill
  <2>. QED
    BY <1>23, <2>1, <2>2, <2>4 DEF Kill, TypeOK, Step
<1>. QED
  BY <1>2, <1>3, <1>4, <1>5, <1>6, <1>7, <1>8, <1>9, <1>10, <1>11, <1>12, <1>13,
     <1>14, <1>15, <1>16, <1>17, <1>18, <1>19, <1>20, <1>21, <1>22, <1>23
  DEF Next, SyncStep, PullStep, BuildStep

-----------------------------------------------------------------------------
\* What the step of a process leaves as it is.
Acts(p) == SyncStep(p) \/ PullStep(p) \/ BuildStep(p) \/ Kill(p)

LocalsKept(q) ==
    /\ pc'[q] = pc[q] /\ cmd'[q] = cmd[q] /\ needs'[q] = needs[q]
    /\ wanted'[q] = wanted[q] /\ ref'[q] = ref[q] /\ version'[q] = version[q]
    /\ tries'[q] = tries[q] /\ doomed'[q] = doomed[q] /\ entries'[q] = entries[q]
    /\ copied'[q] = copied[q] /\ since'[q] = since[q]
    /\ tmp'[q] = tmp[q] \/ tmp'[q] = None

\* The others lose at most their temporary directories, to a `sync`.
LEMMA OthersKeep ==
    ASSUME TypeOK, NEW p \in Process, Launch(p) \/ Acts(p)
    PROVE  \A q \in Process : q # p => LocalsKept(q)
<1>. SUFFICES ASSUME NEW q \in Process, q # p PROVE LocalsKept(q)
  OBVIOUS
<1>. USE DEF LocalsKept, TypeOK, cacheVars, pullVars, copyVars, Goto
<1>1. CASE Launch(p)
  BY <1>1 DEF Launch
<1>2. CASE Clear(p)
  BY <1>2 DEF Clear
<1>3. CASE DeleteFile(p) \/ DeleteDirectory(p) \/ DeleteTemporary(p)
  BY <1>3 DEF DeleteFile, DeleteDirectory, DeleteTemporary
<1>4. CASE DeleteCache(p) \/ DeleteRaises(p) \/ Registries(p)
  BY <1>4 DEF DeleteCache, DeleteRaises, Registries
<1>5. CASE Lookup(p)
  BY <1>5 DEF Lookup
<1>6. CASE Fetch(p)
  BY <1>6 DEF Fetch, Failed, Pulled
<1>7. CASE Download(p)
  BY <1>7 DEF Download, TryAgain, Failed, Pulled
<1>8. CASE ExtractFile(p)
  BY <1>8 DEF ExtractFile
<1>9. CASE ExtractFails(p)
  BY <1>9, Leaves DEF ExtractFails, TryAgain, Failed, Pulled
<1>10. CASE Rename(p)
  BY <1>10 DEF Rename, Pulled
<1>11. CASE RenameFails(p)
  BY <1>11, Leaves DEF RenameFails, TryAgain, Failed, Pulled
<1>12. CASE AllPulled(p)
  BY <1>12 DEF AllPulled
<1>13. CASE ListFeature(p)
  BY <1>13 DEF ListFeature
<1>14. CASE CopyFile(p)
  BY <1>14 DEF CopyFile
<1>15. CASE Build(p)
  BY <1>15 DEF Build
<1>16. CASE Kill(p)
  BY <1>16, Leaves DEF Kill
<1>. QED
  BY <1>1, <1>2, <1>3, <1>4, <1>5, <1>6, <1>7, <1>8, <1>9, <1>10, <1>11, <1>12, <1>13,
     <1>14, <1>15, <1>16
  DEF Acts, SyncStep, PullStep, BuildStep

\* After a command was given nothing of it changes, and the tags do not move.
LEMMA CommandKept ==
    ASSUME TypeOK, NEW p \in Process, Acts(p)
    PROVE  /\ UNCHANGED <<cmd, needs, since, tag, given>> /\ Busy(p)
           /\ disturbed => disturbed'
<1>. USE DEF cacheVars, pullVars, copyVars, Busy, Ended
<1>1. CASE SyncStep(p)
  BY <1>1 DEF SyncStep, Clear, DeleteFile, DeleteDirectory, DeleteTemporary, DeleteCache,
              DeleteRaises, Registries
<1>2. CASE PullStep(p)
  <2>1. CASE Lookup(p) \/ Fetch(p) \/ Download(p)
    BY <2>1 DEF Lookup, Fetch, Download
  <2>2. CASE ExtractFile(p) \/ ExtractFails(p) \/ Rename(p)
    BY <2>2 DEF ExtractFile, ExtractFails, Rename
  <2>3. CASE RenameFails(p) \/ AllPulled(p)
    BY <2>3 DEF RenameFails, AllPulled
  <2>. QED
    BY <1>2, <2>1, <2>2, <2>3 DEF PullStep
<1>3. CASE BuildStep(p)
  BY <1>3 DEF BuildStep, ListFeature, CopyFile, Build
<1>4. CASE Kill(p)
  BY <1>4 DEF Kill
<1>. QED
  BY <1>1, <1>2, <1>3, <1>4 DEF Acts

-----------------------------------------------------------------------------
\* The process's own place.
LEMMA OwnPlace ==
    ASSUME TypeOK, PlaceInv, NEW p \in Process, Launch(p) \/ Acts(p)
    PROVE  Place(p)'
<1>1. Place(p) /\ p \in Process
  BY DEF PlaceInv
<1>2. TypeOK
  OBVIOUS
<1>. USE <1>1, <1>2 DEF Place, Pulling, Clearing, cacheVars, pullVars, copyVars, Goto
<1>3. CASE Launch(p)
  <2>1. PICK c \in {"up", "sync"}, refs \in SUBSET Ref :
              /\ cmd' = [cmd EXCEPT ![p] = c] /\ needs' = [needs EXCEPT ![p] = refs]
              /\ wanted' = [wanted EXCEPT ![p] = refs]
              /\ pc' = [pc EXCEPT ![p] = IF c = "sync" THEN "clear" ELSE "pull"]
    BY <1>3 DEF Launch, FirstStep
  <2>2. /\ ~Busy(p) /\ since' = [since EXCEPT ![p] = tag]
        /\ copied' = [copied EXCEPT ![p] = {}]
        /\ UNCHANGED <<tag, tries, tmp, entries, ref>>
    BY <1>3 DEF Launch
  <2>3. pc'[p] = IF c = "sync" THEN "clear" ELSE "pull"
    BY <2>1 DEF TypeOK
  <2>4. cmd'[p] = c /\ needs'[p] = refs /\ wanted'[p] = refs /\ since'[p] = tag
        /\ copied'[p] = {}
    BY <2>1, <2>2 DEF TypeOK
  <2>5. tmp[p] = None /\ entries[p] = {}
    BY <2>2 DEF Busy, Ended
  <2>6. \A r \in Ref : tag[r] \in Int
    BY BoundAssumption DEF TypeOK
  <2>. QED
    BY <2>2, <2>3, <2>4, <2>5, <2>6
<1>4. CASE Clear(p)
  BY <1>4 DEF Clear, TypeOK
<1>5. CASE DeleteFile(p) \/ DeleteDirectory(p)
  BY <1>5 DEF DeleteFile, DeleteDirectory, TypeOK
<1>6. CASE DeleteTemporary(p)
  BY <1>6 DEF DeleteTemporary, TypeOK
<1>7. CASE DeleteCache(p) \/ DeleteRaises(p) \/ Registries(p)
  <2>1. CASE DeleteCache(p)
    BY <2>1 DEF DeleteCache, TypeOK
  <2>2. CASE DeleteRaises(p)
    BY <2>2 DEF DeleteRaises, TypeOK
  <2>3. CASE Registries(p)
    <3>1. /\ \E step \in {"failed", "pull"} : pc' = [pc EXCEPT ![p] = step]
          /\ pc[p] = "registries"
          /\ UNCHANGED <<tag, cmd, needs, wanted, ref, tries, tmp, since, entries, copied>>
      BY <2>3 DEF Registries
    <3>. QED
      BY <3>1 DEF TypeOK
  <2>. QED
    BY <1>7, <2>1, <2>2, <2>3
<1>8. CASE Lookup(p)
  BY <1>8 DEF Lookup, TypeOK
<1>9. CASE Fetch(p)
  BY <1>9 DEF Fetch, Failed, Pulled, TypeOK, Attempts
<1>10. CASE Download(p)
  <2>1. CASE tmp' = [tmp EXCEPT ![p] = {}] /\ Goto(p, "extract") /\ UNCHANGED <<wanted, tries>>
    BY <1>10, <2>1 DEF Download, TypeOK
  <2>2. CASE TryAgain(p) /\ UNCHANGED tmp
    BY <1>10, <2>2 DEF Download, TryAgain, Failed, Pulled, TypeOK
  <2>. QED
    BY <1>10, <2>1, <2>2 DEF Download
<1>11. CASE ExtractFile(p)
  BY <1>11 DEF ExtractFile, TypeOK
<1>12. CASE ExtractFails(p)
  BY <1>12, Leaves DEF ExtractFails, TryAgain, Failed, Pulled, TypeOK
<1>13. CASE Rename(p)
  BY <1>13 DEF Rename, Pulled, TypeOK
<1>14. CASE RenameFails(p)
  BY <1>14, Leaves DEF RenameFails, TryAgain, Failed, Pulled, TypeOK
<1>15. CASE AllPulled(p)
  BY <1>15 DEF AllPulled, TypeOK
<1>16. CASE ListFeature(p)
  BY <1>16 DEF ListFeature, TypeOK
<1>17. CASE CopyFile(p)
  <2>1. /\ pc[p] = "build" /\ \E f \in entries[p] : entries' = [entries EXCEPT ![p] = @ \ {f}]
                                                    \/ entries' = [entries EXCEPT ![p] = {}]
        /\ pc' = pc \/ (pc' = [pc EXCEPT ![p] = "failed"] /\ entries' = [entries EXCEPT ![p] = {}])
        /\ UNCHANGED <<tag, cmd, needs, wanted, ref, tries, tmp, since>>
    BY <1>17 DEF CopyFile
  <2>2. entries'[p] # {} => entries[p] # {} /\ pc'[p] = "build"
    BY <2>1 DEF TypeOK
  <2>3. pc'[p] \in {"build", "failed"}
    BY <2>1 DEF TypeOK
  <2>. QED
    BY <2>1, <2>2, <2>3
<1>18. CASE Build(p)
  BY <1>18 DEF Build, TypeOK
<1>19. CASE Kill(p)
  BY <1>19, Leaves DEF Kill, TypeOK
<1>. QED
  BY <1>3, <1>4, <1>5, <1>6, <1>7, <1>8, <1>9, <1>10, <1>11, <1>12, <1>13,
     <1>14, <1>15, <1>16, <1>17, <1>18, <1>19
  DEF Acts, SyncStep, PullStep, BuildStep

\* Every action leaves every process where Place says.
LEMMA PlaceStep == Inv /\ [Next]_vars => PlaceInv'
<1>. SUFFICES ASSUME Inv, [Next]_vars PROVE PlaceInv'
  OBVIOUS
<1>1. TypeOK /\ PlaceInv
  BY DEF Inv
<1>2. CASE UNCHANGED vars
  BY <1>1, <1>2 DEF vars, PlaceInv, Place, cacheVars, pullVars, copyVars
<1>3. ASSUME NEW r \in Ref, Release(r) PROVE PlaceInv'
  <2>1. \A s \in Ref : tag[s] \in Nat /\ tag'[s] \in Nat /\ tag[s] <= tag'[s]
    BY <1>1, <1>3, BoundAssumption DEF Release, TypeOK
  <2>2. \A p \in Process, s \in Ref : since[p][s] \in Nat /\ since[p][s] <= tag[s]
    BY <1>1, BoundAssumption DEF TypeOK, PlaceInv, Place
  <2>3. \A p \in Process, s \in Ref : since[p][s] <= tag'[s]
    BY <2>1, <2>2
  <2>. QED
    BY <1>1, <1>3, <2>3 DEF Release, PlaceInv, Place, cacheVars, pullVars, copyVars
<1>4. ASSUME NEW p \in Process, Launch(p) \/ Acts(p) PROVE PlaceInv'
  <2>1. ASSUME NEW q \in Process, q # p PROVE Place(q)'
    <3>1. LocalsKept(q) /\ Place(q) /\ tag' = tag
      BY <1>1, <1>4, <2>1, OthersKeep, CommandKept DEF PlaceInv, Launch
    <3>. QED
      BY <3>1 DEF LocalsKept, Place
  <2>2. Place(p)'
    BY <1>1, <1>4, OwnPlace
  <2>3. (~there => stray = {})'
    <3>1. CASE UNCHANGED <<there, stray>>
      BY <1>1, <3>1 DEF PlaceInv
    <3>2. CASE Download(p) \/ ExtractFails(p) \/ RenameFails(p) \/ DeleteCache(p) \/ Kill(p)
      <4>1. tmp[p] # None => there
        <5>1. tmp[p] # None => ref[p] \in Ref
          BY <1>1 DEF TypeOK, PlaceInv, Place
        <5>. QED
          BY <1>1, <5>1 DEF TypeOK
      <4>2. CASE Download(p)
        <5>1. (there' = TRUE \/ there' = there) /\ stray' = stray
          BY <4>2 DEF Download
        <5>. QED
          BY <1>1, <5>1 DEF PlaceInv
      <4>3. CASE RenameFails(p)
        BY <1>1, <4>1, <4>3, Leaves DEF RenameFails, PlaceInv
      <4>4. CASE DeleteCache(p)
        BY <1>1, <4>4 DEF DeleteCache, PlaceInv
      <4>5. CASE Kill(p)
        BY <1>1, <4>1, <4>5, Leaves DEF Kill, PlaceInv
      <4>6. CASE ExtractFails(p)
        BY <1>1, <4>1, <4>6, Leaves DEF ExtractFails, PlaceInv
      <4>. QED
        BY <3>2, <4>2, <4>3, <4>4, <4>5, <4>6
    <3>3. CASE Launch(p) \/ BuildStep(p)
      BY <3>1, <3>3 DEF Launch, BuildStep, ListFeature, CopyFile, Build, cacheVars
    <3>4. CASE SyncStep(p) /\ ~DeleteCache(p)
      BY <3>1, <3>4 DEF SyncStep, Clear, DeleteFile, DeleteDirectory, DeleteTemporary,
                        DeleteRaises, Registries, cacheVars
    <3>5. CASE PullStep(p) /\ ~Download(p) /\ ~ExtractFails(p) /\ ~RenameFails(p)
      BY <3>1, <3>5 DEF PullStep, Lookup, Fetch, ExtractFile, Rename, AllPulled, cacheVars
    <3>. QED
      BY <1>4, <3>2, <3>3, <3>4, <3>5 DEF Acts
  <2>. QED
    BY <2>1, <2>2, <2>3 DEF PlaceInv
<1>. QED
  BY <1>2, <1>3, <1>4 DEF Next, Acts

-----------------------------------------------------------------------------
\* A `sync` that is not disturbed runs alone.
LEMMA AloneStep == Inv /\ [Next]_vars => (~disturbed => Alone)'
<1>. SUFFICES ASSUME Inv, [Next]_vars, ~disturbed' PROVE Alone'
  OBVIOUS
<1>1. TypeOK /\ (~disturbed => Alone)
  BY DEF Inv
<1>2. CASE UNCHANGED vars
  BY <1>1, <1>2 DEF vars, Alone, Busy, pullVars, copyVars
<1>3. ASSUME NEW r \in Ref, Release(r) PROVE Alone'
  BY <1>1, <1>3 DEF Release, Alone, Busy
<1>4. ASSUME NEW p \in Process, Launch(p) PROVE Alone'
  <2>1. PICK c \in {"up", "sync"} : /\ cmd' = [cmd EXCEPT ![p] = c]
                                    /\ disturbed' = (disturbed \/ Disturbs(c))
    BY <1>4 DEF Launch
  <2>2. \A q \in Process : q # p => LocalsKept(q)
    BY <1>1, <1>4, OthersKeep
  <2>3. \A q \in Process : Busy(q) => c # "sync" /\ cmd[q] # "sync"
    BY <2>1 DEF Disturbs
  <2>4. cmd'[p] = c
    BY <1>1, <2>1 DEF TypeOK
  <2>5. ASSUME NEW a \in Process, NEW b \in Process, a # b, Busy(a)', cmd'[a] = "sync"
        PROVE  ~Busy(b)'
    <3>1. CASE a = p
      BY <2>2, <2>3, <2>4, <2>5, <3>1 DEF LocalsKept, Busy
    <3>2. CASE a # p
      BY <2>2, <2>3, <2>5, <3>2 DEF LocalsKept, Busy
    <3>. QED
      BY <3>1, <3>2
  <2>. QED
    BY <2>5 DEF Alone
<1>5. ASSUME NEW p \in Process, Acts(p) PROVE Alone'
  <2>1. UNCHANGED cmd /\ Busy(p) /\ Alone
    BY <1>1, <1>5, CommandKept
  <2>2. \A q \in Process : Busy(q)' => Busy(q)
    BY <1>1, <1>5, <2>1, OthersKeep DEF LocalsKept, Busy
  <2>. QED
    BY <2>1, <2>2 DEF Alone
<1>. QED
  BY <1>2, <1>3, <1>4, <1>5 DEF Next, Acts

-----------------------------------------------------------------------------
\* What a step does to the cache's directories.
Deletes(p) ==
    /\ pc[p] = "delete" /\ cmd[p] = "sync" /\ UNCHANGED <<pc, there>>
    /\ \E r \in doomed[p] :
          \/ /\ dest[r] # None /\ UNCHANGED doomed
             /\ \E f \in File : dest' = [dest EXCEPT ![r].files = @ \ {f}]
          \/ /\ dest' = [dest EXCEPT ![r] = None]
             /\ doomed' = [doomed EXCEPT ![p] = @ \ {r}]

Publishes(p) ==
    /\ pc[p] = "extract" /\ pc' = [pc EXCEPT ![p] = "pull"] /\ ref[p] \in Ref
    /\ UNCHANGED <<there, doomed>>
    /\ ~Occupied(ref[p])
    /\ dest' = [dest EXCEPT ![ref[p]] = [files |-> File, version |-> version[p]]]
    /\ wanted' = [wanted EXCEPT ![p] = @ \ {ref[p]}]

\* Only these two touch the directories.
LEMMA OnDirectories ==
    ASSUME TypeOK, PlaceInv, NEW p \in Process, Acts(p)
    PROVE  /\ dest' = dest \/ Deletes(p) \/ Publishes(p)
           /\ DeleteFile(p) \/ DeleteDirectory(p) => Deletes(p)
<1>. USE DEF cacheVars, pullVars, copyVars
<1>1. ASSUME DeleteFile(p) \/ DeleteDirectory(p) PROVE Deletes(p)
  <2>1. pc[p] = "delete" /\ cmd[p] = "sync" /\ doomed[p] \subseteq Ref
    BY <1>1 DEF DeleteFile, DeleteDirectory, PlaceInv, Place, Clearing, TypeOK
  <2>2. ASSUME NEW r \in Ref, dest[r] # None, NEW f \in dest[r].files PROVE f \in File
    <3>1. dest[r] \in Directory
      BY <2>2 DEF TypeOK
    <3>. QED
      BY <2>2, <3>1 DEF Directory
  <2>. QED
    BY <1>1, <2>1, <2>2 DEF DeleteFile, DeleteDirectory, Deletes
<1>2. ASSUME Rename(p) PROVE Publishes(p)
  BY <1>2 DEF Rename, Publishes, Pulled, Goto, Extracted, PlaceInv, Place, TypeOK
<1>3. ASSUME SyncStep(p), ~DeleteFile(p), ~DeleteDirectory(p) PROVE dest' = dest
  BY <1>3 DEF SyncStep, Clear, DeleteTemporary, DeleteCache, DeleteRaises, Registries
<1>4. ASSUME PullStep(p), ~Rename(p) PROVE dest' = dest
  BY <1>4 DEF PullStep, Lookup, Fetch, Download, ExtractFile, ExtractFails, RenameFails,
              AllPulled
<1>5. ASSUME BuildStep(p) \/ Kill(p) PROVE dest' = dest
  BY <1>5 DEF BuildStep, ListFeature, CopyFile, Build, Kill
<1>. QED
  BY <1>1, <1>2, <1>3, <1>4, <1>5 DEF Acts

\* Only a deletion takes files from a directory, and it deletes that directory.
LEMMA WholeStep == Inv /\ [Next]_vars => (~disturbed => WholeInv)'
<1>. SUFFICES ASSUME Inv, [Next]_vars, ~disturbed' PROVE WholeInv'
  OBVIOUS
<1>1. TypeOK /\ PlaceInv /\ (~disturbed => Alone /\ WholeInv)
  BY DEF Inv
<1>2. CASE UNCHANGED vars
  BY <1>1, <1>2 DEF vars, WholeInv, cacheVars, pullVars, copyVars
<1>3. ASSUME NEW r \in Ref, Release(r) PROVE WholeInv'
  BY <1>1, <1>3 DEF Release, WholeInv, cacheVars
<1>4. ASSUME NEW p \in Process, Launch(p) PROVE WholeInv'
  <2>1. \A q \in Process : (pc'[q] = "delete" <=> pc[q] = "delete") /\ doomed'[q] = doomed[q]
    BY <1>1, <1>4 DEF Launch, FirstStep, Goto, TypeOK, Busy, Ended
  <2>2. UNCHANGED <<dest, there>> /\ WholeInv
    BY <1>1, <1>4 DEF Launch, cacheVars, TypeOK
  <2>. QED
    BY <2>1, <2>2 DEF WholeInv
<1>5. ASSUME NEW p \in Process, Acts(p) PROVE WholeInv'
  <2>1. Alone /\ WholeInv /\ Busy(p)
    BY <1>1, <1>5, CommandKept
  <2>2. \A q \in Process : q # p => pc'[q] = pc[q] /\ doomed'[q] = doomed[q]
    BY <1>1, <1>5, OthersKeep DEF LocalsKept
  \* While one process deletes no other is at work.
  <2>3. \A q \in Process : pc[q] = "delete" => q = p
    BY <1>1, <2>1 DEF Alone, PlaceInv, Place, Clearing, Busy, Ended
  <2>4. CASE Deletes(p)
    <3>1. PICK r \in doomed[p] :
              \/ /\ dest[r] # None /\ UNCHANGED doomed
                 /\ \E f \in File : dest' = [dest EXCEPT ![r].files = @ \ {f}]
              \/ /\ dest' = [dest EXCEPT ![r] = None]
                 /\ doomed' = [doomed EXCEPT ![p] = @ \ {r}]
      BY <2>4 DEF Deletes
    <3>2. \A s \in Ref : s # r => dest'[s] = dest[s] /\ (s \in doomed'[p] <=> s \in doomed[p])
      BY <1>1, <3>1 DEF TypeOK
    <3>3. dest'[r] = None \/ r \in doomed'[p]
      BY <1>1, <3>1 DEF TypeOK
    <3>4. pc'[p] = "delete" /\ pc[p] = "delete" /\ there' = there
      BY <2>4 DEF Deletes
    <3>. QED
      BY <2>1, <2>2, <2>3, <3>2, <3>3, <3>4 DEF WholeInv
  <2>5. CASE Publishes(p)
    <3>1. /\ pc[p] = "extract" /\ pc' = [pc EXCEPT ![p] = "pull"]
          /\ dest' = [dest EXCEPT ![ref[p]] = [files |-> File, version |-> version[p]]]
      BY <2>5 DEF Publishes
    <3>2. \A s \in Ref : dest'[s] = dest[s] \/ dest'[s].files = File
      BY <1>1, <3>1 DEF TypeOK
    <3>3. \A q \in Process : pc[q] # "delete" /\ pc'[q] # "delete"
      BY <1>1, <2>2, <2>3, <3>1 DEF TypeOK
    <3>. QED
      BY <2>1, <3>2, <3>3 DEF WholeInv
  <2>6. CASE dest' = dest /\ pc[p] # "delete" /\ pc'[p] # "delete"
    BY <2>1, <2>2, <2>3, <2>6 DEF WholeInv
  <2>7. CASE Clear(p)
    <3>1. /\ dest' = dest /\ there' = there /\ pc[p] = "clear"
          /\ pc' = [pc EXCEPT ![p] = IF there THEN "delete" ELSE "registries"]
          /\ doomed' = [doomed EXCEPT ![p] = {r \in Ref : dest[r] # None}]
      BY <2>7 DEF Clear, Goto, cacheVars
    <3>2. doomed'[p] = {r \in Ref : dest[r] # None} /\ (pc'[p] = "delete" => there)
      BY <1>1, <3>1 DEF TypeOK
    <3>3. \A q \in Process : pc[q] # "delete"
      BY <2>3, <3>1
    <3>4. \A r \in Ref : dest[r] # None => dest[r].files = File
      BY <2>1, <3>3 DEF WholeInv
    <3>. QED
      BY <2>2, <3>1, <3>2, <3>3, <3>4 DEF WholeInv
  <2>8. CASE DeleteCache(p)
    <3>1. /\ dest' = dest /\ pc[p] = "delete" /\ doomed[p] = {}
          /\ pc' = [pc EXCEPT ![p] = "registries"] \/ pc' = [pc EXCEPT ![p] = "failed"]
      BY <2>8 DEF DeleteCache, Goto
    <3>2. \A r \in Ref : dest[r] = None
      BY <2>1, <3>1 DEF WholeInv
    <3>3. \A q \in Process : pc'[q] # "delete"
      BY <1>1, <2>2, <2>3, <3>1 DEF TypeOK
    <3>. QED
      BY <3>1, <3>2, <3>3 DEF WholeInv
  <2>9. CASE DeleteTemporary(p)
    BY <2>1, <2>9 DEF DeleteTemporary, WholeInv, cacheVars
  <2>10. CASE DeleteRaises(p)
    BY <2>10 DEF DeleteRaises
  <2>11. CASE Kill(p)
    <3>1. pc[p] \notin Clearing /\ pc' = [pc EXCEPT ![p] = "idle"] /\ dest' = dest
      BY <2>11 DEF Kill, Goto
    <3>. QED
      BY <1>1, <2>6, <3>1 DEF Clearing, TypeOK
  <2>12. CASE Registries(p) \/ PullStep(p) \/ BuildStep(p)
    <3>1. \E step \in Step \ {"delete"} : Goto(p, step) \/ pc' = pc
      BY <2>12 DEF Registries, PullStep, Lookup, Fetch, Download, ExtractFile, ExtractFails,
                   Rename, RenameFails, AllPulled, BuildStep, ListFeature, CopyFile, Build,
                   TryAgain, Failed, Pulled, Step, Ended
    <3>2. pc[p] # "delete"
      BY <2>12 DEF Registries, PullStep, Lookup, Fetch, Download, ExtractFile, ExtractFails,
                   Rename, RenameFails, AllPulled, BuildStep, ListFeature, CopyFile, Build
    <3>3. pc'[p] # "delete"
      BY <1>1, <3>1, <3>2, MovesOn
    <3>. QED
      BY <1>1, <1>5, <2>4, <2>5, <2>6, <3>2, <3>3, OnDirectories
  <2>13. CASE DeleteFile(p) \/ DeleteDirectory(p)
    BY <1>1, <1>5, <2>4, <2>13, OnDirectories
  <2>. QED
    BY <1>5, <2>7, <2>8, <2>9, <2>10, <2>11, <2>12, <2>13 DEF Acts, SyncStep
<1>. QED
  BY <1>2, <1>3, <1>4, <1>5 DEF Next, Acts

-----------------------------------------------------------------------------
\* What a build has and will find.
Builds(p) ==
    /\ pc[p] \in Pulling /\ cmd[p] = "up" =>
          \A r \in needs[p] \ wanted[p] : dest[r] # None
    /\ pc[p] = "build" => \A r \in needs[p] : dest[r] # None /\ Copies(p, r)
    /\ pc[p] = "built" => \A r \in needs[p] : \E v \in 0 .. MaxVersion :
          \A f \in File, w \in 0 .. MaxVersion : <<r, f, w>> \in copied[p] <=> w = v

\* No other process takes away what a build needs, or replaces it by another
\* version.
LEMMA OthersLeaveIt ==
    ASSUME Inv, ~disturbed, NEW p \in Process, Acts(p), NEW q \in Process,
           pc[q] \in Pulling \cup {"build"}, cmd[q] = "up",
           NEW r \in Ref, dest[r] # None, q = p => dest' = dest \/ Publishes(p)
    PROVE  /\ dest'[r] # None
           /\ File # {} => dest'[r] = dest[r]
<1>1. TypeOK /\ PlaceInv /\ Alone /\ WholeInv /\ Busy(p) /\ Busy(q)
  BY CommandKept DEF Inv, Busy, Ended, Pulling
<1>2. CASE dest' = dest
  BY <1>2
<1>3. ~Deletes(p) \/ dest' = dest \/ Publishes(p)
  BY <1>1 DEF Deletes, Alone
<1>4. CASE Publishes(p)
  <2>1. /\ pc[p] = "extract" /\ ~Occupied(ref[p])
        /\ dest' = [dest EXCEPT ![ref[p]] = [files |-> File, version |-> version[p]]]
    BY <1>4 DEF Publishes
  <2>2. [files |-> File, version |-> version[p]] # None
    BY <1>1, AbsentAssumption DEF TypeOK
  <2>3. dest'[r] # None /\ (r # ref[p] => dest'[r] = dest[r])
    BY <1>1, <2>1, <2>2 DEF TypeOK
  <2>4. CASE r = ref[p] /\ File # {}
    <3>1. dest[r].files = {}
      BY <2>1, <2>4 DEF Occupied
    <3>2. PICK d \in Process : pc[d] = "delete"
      BY <1>1, <2>4, <3>1 DEF WholeInv
    <3>3. cmd[d] = "sync" /\ Busy(d) /\ d # p
      BY <1>1, <2>1, <3>2 DEF PlaceInv, Place, Clearing, Busy, Ended
    <3>. QED
      BY <1>1, <3>3 DEF Alone
  <2>. QED
    BY <2>3, <2>4
<1>. QED
  BY <1>1, <1>2, <1>3, <1>4, OnDirectories

\* What a build has seen in the cache stays there until it has copied it.
LEMMA BuildStepKeeps == Inv /\ [Next]_vars => (~disturbed => BuildInv)'
<1>. SUFFICES ASSUME Inv, [Next]_vars, ~disturbed', NEW q \in Process PROVE Builds(q)'
  BY DEF BuildInv, Builds
<1>1. TypeOK /\ PlaceInv /\ TypeOK' /\ PlaceInv' /\ (~disturbed => Builds(q))
  BY TypeStep, PlaceStep DEF Inv, BuildInv, Builds
<1>2. CASE UNCHANGED vars
  BY <1>1, <1>2 DEF vars, Builds, Copies, cacheVars, pullVars, copyVars
<1>3. ASSUME NEW r \in Ref, Release(r) PROVE Builds(q)'
  BY <1>1, <1>3 DEF Release, Builds, Copies, cacheVars, pullVars, copyVars
<1>4. ASSUME NEW p \in Process, Launch(p) PROVE Builds(q)'
  <2>1. ~disturbed /\ UNCHANGED dest
    BY <1>1, <1>4 DEF Launch, cacheVars, TypeOK
  <2>2. CASE q = p
    <3>1. PICK c \in {"up", "sync"}, refs \in SUBSET Ref :
                /\ cmd' = [cmd EXCEPT ![p] = c] /\ needs' = [needs EXCEPT ![p] = refs]
                /\ wanted' = [wanted EXCEPT ![p] = refs]
                /\ pc' = [pc EXCEPT ![p] = IF c = "sync" THEN "clear" ELSE "pull"]
      BY <1>4 DEF Launch, FirstStep, Goto
    <3>2. pc'[q] \in {"clear", "pull"} /\ needs'[q] = wanted'[q]
      BY <1>1, <2>2, <3>1 DEF TypeOK
    <3>. QED
      BY <3>2 DEF Builds
  <2>3. CASE q # p
    <3>1. LocalsKept(q)
      BY <1>1, <1>4, <2>3, OthersKeep
    <3>. QED
      BY <1>1, <2>1, <3>1 DEF LocalsKept, Builds, Copies
  <2>. QED
    BY <2>2, <2>3
<1>5. ASSUME NEW p \in Process, Acts(p), q # p PROVE Builds(q)'
  <2>1. ~disturbed /\ Builds(q) /\ LocalsKept(q)
    BY <1>1, <1>5, CommandKept, OthersKeep
  <2>2. needs[q] \subseteq Ref
    BY <1>1 DEF TypeOK
  <2>3. pc[q] = "build" => cmd[q] = "up"
    BY <1>1 DEF PlaceInv, Place
  <2>4. ASSUME pc[q] \in Pulling \cup {"build"}, cmd[q] = "up", NEW r \in Ref, dest[r] # None
        PROVE  dest'[r] # None /\ (File # {} => dest'[r] = dest[r])
    BY <1>5, <2>1, <2>4, OthersLeaveIt
  <2>. QED
    BY <2>1, <2>2, <2>3, <2>4 DEF LocalsKept, Builds, Copies
<1>6. ASSUME Acts(q) PROVE Builds(q)'
  <2>1. ~disturbed /\ Builds(q) /\ UNCHANGED <<cmd, needs>>
    BY <1>1, <1>6, CommandKept
  <2>2. needs[q] \subseteq Ref /\ wanted[q] \subseteq Ref
    BY <1>1 DEF TypeOK
  <2>3. CASE SyncStep(q) \/ Kill(q)
    <3>1. cmd[q] = "sync" \/ pc'[q] = "idle"
      BY <1>1, <2>3 DEF SyncStep, Clear, DeleteFile, DeleteDirectory, DeleteTemporary,
           DeleteCache, DeleteRaises, Registries, Kill, PlaceInv, Place, Clearing, Goto, TypeOK
    <3>2. pc'[q] \notin {"build", "built"}
      BY <1>1, <2>3 DEF SyncStep, Clear, DeleteFile, DeleteDirectory, DeleteTemporary,
           DeleteCache, DeleteRaises, Registries, Kill, Goto, TypeOK
    <3>. QED
      BY <2>1, <3>1, <3>2 DEF Builds, Pulling
  <2>4. CASE Lookup(q)
    <3>1. PICK r \in wanted[q] :
                /\ pc[q] = "pull" /\ UNCHANGED <<dest, copied>>
                /\ \/ /\ dest[r] # None /\ pc' = pc
                      /\ wanted' = [wanted EXCEPT ![q] = @ \ {r}]
                   \/ pc' = [pc EXCEPT ![q] = "fetch"] /\ wanted' = wanted
      BY <2>4 DEF Lookup, Goto, cacheVars, copyVars
    <3>2. pc'[q] \in {"pull", "fetch"}
      BY <1>1, <3>1 DEF TypeOK
    <3>3. wanted'[q] = wanted[q] \/ (wanted'[q] = wanted[q] \ {r} /\ dest[r] # None)
      BY <1>1, <3>1 DEF TypeOK
    <3>. QED
      BY <2>1, <3>1, <3>2, <3>3 DEF Builds, Pulling
  <2>5. CASE Fetch(q) \/ Download(q) \/ ExtractFails(q) \/ RenameFails(q)
    <3>1. pc[q] \in Pulling /\ dest' = dest /\ copied' = copied
      BY <2>5 DEF Fetch, Download, ExtractFails, RenameFails, Pulling, cacheVars, copyVars
    <3>2. cmd[q] = "up" =>
              wanted' = wanted /\ \E step \in Pulling \cup {"failed"} : Goto(q, step)
      BY <2>5 DEF Fetch, Download, ExtractFails, RenameFails, TryAgain, Failed, Pulling
    <3>3. cmd[q] = "sync" => \E step \in Pulling : Goto(q, step)
      BY <2>5 DEF Fetch, Download, ExtractFails, RenameFails, TryAgain, Failed, Pulled, Pulling
    <3>4. pc'[q] \in Pulling \cup {"failed"}
      BY <1>1, <3>2, <3>3 DEF Goto, TypeOK
    <3>. QED
      BY <2>1, <3>1, <3>2, <3>4 DEF Builds, Pulling, TypeOK
  <2>6. CASE ExtractFile(q)
    BY <2>1, <2>6 DEF ExtractFile, Builds, Pulling, cacheVars, copyVars
  <2>7. CASE Rename(q)
    <3>1. Publishes(q) /\ UNCHANGED copied
      BY <1>1, <1>6, <2>7, OnDirectories DEF Rename, copyVars, Publishes, Pulled, Goto,
           Extracted, PlaceInv, Place, TypeOK
    <3>2. pc'[q] = "pull" /\ wanted'[q] = wanted[q] \ {ref[q]} /\ pc[q] = "extract"
      BY <1>1, <3>1 DEF Publishes, TypeOK
    <3>3. [files |-> File, version |-> version[q]] # None
      BY <1>1, AbsentAssumption DEF TypeOK
    <3>4. dest'[ref[q]] # None
      BY <1>1, <3>1, <3>3 DEF Publishes, TypeOK
    <3>5. \A r \in Ref : r # ref[q] => dest'[r] = dest[r]
      BY <1>1, <3>1 DEF Publishes, TypeOK
    <3>. QED
      BY <2>1, <2>2, <3>2, <3>4, <3>5 DEF Builds, Pulling
  <2>8. CASE AllPulled(q)
    <3>1. /\ pc[q] = "pull" /\ wanted[q] = {} /\ UNCHANGED <<dest, entries, copied, ref>>
          /\ cmd[q] = "sync" => pc' = [pc EXCEPT ![q] = "synced"]
          /\ cmd[q] = "up" => /\ pc' = [pc EXCEPT ![q] = "build"]
                              /\ wanted' = [wanted EXCEPT ![q] = needs[q]]
      BY <2>8 DEF AllPulled, Goto, cacheVars, copyVars
    <3>2. copied[q] = {}
      BY <1>1, <3>1 DEF PlaceInv, Place, Pulling
    <3>3. CASE cmd[q] = "sync"
      BY <1>1, <3>1, <3>3 DEF Builds, Pulling, TypeOK
    <3>4. CASE cmd[q] = "up"
      <4>1. pc'[q] = "build" /\ wanted'[q] = needs[q]
        BY <1>1, <3>1, <3>4 DEF TypeOK
      <4>2. \A r \in needs[q] : dest'[r] # None
        BY <2>1, <3>1, <3>4 DEF Builds, Pulling
      <4>3. \A r \in needs[q] : Copies(q, r)'
        BY <2>1, <3>1, <3>2, <4>1 DEF Copies
      <4>. QED
        BY <2>1, <4>1, <4>2, <4>3 DEF Builds, Pulling
    <3>. QED
      BY <1>1, <3>3, <3>4 DEF TypeOK
  <2>9. CASE ListFeature(q)
    <3>1. PICK r \in wanted[q] :
                /\ ref' = [ref EXCEPT ![q] = r] /\ wanted' = [wanted EXCEPT ![q] = @ \ {r}]
                /\ \/ pc' = [pc EXCEPT ![q] = "failed"]
                   \/ pc' = pc /\ entries' = [entries EXCEPT ![q] = dest[r].files]
      BY <2>9 DEF ListFeature, Goto
    <3>2. /\ pc[q] = "build" /\ entries[q] = {} /\ UNCHANGED <<dest, copied>>
      BY <2>9 DEF ListFeature, cacheVars
    <3>3. pc'[q] = "failed" \/ (pc'[q] = "build" /\ entries'[q] = dest[r].files)
      BY <1>1, <3>1, <3>2 DEF TypeOK
    <3>4. ref'[q] = r /\ wanted'[q] = wanted[q] \ {r} /\ r \in needs[q] /\ r \in Ref
      BY <1>1, <2>2, <3>1 DEF TypeOK, PlaceInv, Place
    <3>5. dest[r].files = File
      <4>1. dest[r] # None
        BY <2>1, <3>2, <3>4 DEF Builds
      <4>2. \A d \in Process : pc[d] # "delete"
        BY <1>1, <2>1, <3>2 DEF Inv, Alone, PlaceInv, Place, Clearing, Busy, Ended
      <4>. QED
        BY <2>1, <3>4, <4>1, <4>2 DEF Inv, WholeInv
    <3>6. ASSUME NEW s \in needs[q] PROVE dest'[s] # None /\ (pc'[q] = "build" => Copies(q, s)')
      <4>1. dest[s] # None /\ Copies(q, s)
        BY <2>1, <3>2 DEF Builds
      <4>. QED
        BY <3>1, <3>2, <3>3, <3>4, <3>5, <4>1 DEF Copies
    <3>. QED
      BY <2>1, <3>3, <3>6 DEF Builds, Pulling
  <2>10. CASE CopyFile(q)
    <3>1. PICK f \in entries[q] :
                \/ pc' = [pc EXCEPT ![q] = "failed"]
                \/ /\ pc' = pc /\ entries' = [entries EXCEPT ![q] = @ \ {f}]
                   /\ copied' = [copied EXCEPT ![q] =
                                     @ \cup {<<ref[q], f, dest[ref[q]].version>>}]
      BY <2>10 DEF CopyFile, Goto
    <3>2. pc[q] = "build" /\ UNCHANGED <<dest, wanted, ref>>
      BY <2>10 DEF CopyFile, cacheVars, pullVars
    <3>3. \/ pc'[q] = "failed"
          \/ /\ pc'[q] = "build" /\ entries'[q] = entries[q] \ {f}
             /\ copied'[q] = copied[q] \cup {<<ref[q], f, dest[ref[q]].version>>}
      BY <1>1, <3>1, <3>2 DEF TypeOK
    <3>4. ref[q] \in needs[q] \ wanted[q]
      BY <1>1, <3>1 DEF PlaceInv, Place
    <3>5. ASSUME NEW s \in needs[q] PROVE dest'[s] # None /\ (pc'[q] = "build" => Copies(q, s)')
      <4>1. dest[s] # None /\ Copies(q, s)
        BY <2>1, <3>2 DEF Builds
      <4>2. CASE s = ref[q]
        BY <3>2, <3>3, <3>4, <4>1, <4>2 DEF Copies
      <4>3. CASE s # ref[q]
        BY <3>2, <3>3, <3>4, <4>1, <4>3 DEF Copies
      <4>. QED
        BY <4>2, <4>3
    <3>. QED
      BY <2>1, <3>3, <3>5 DEF Builds, Pulling
  <2>11. CASE Build(q)
    <3>1. /\ pc[q] = "build" /\ wanted[q] = {} /\ entries[q] = {} /\ copied' = copied
          /\ \E step \in {"built", "failed"} : pc' = [pc EXCEPT ![q] = step]
      BY <2>11 DEF Build, Goto, copyVars
    <3>2. pc'[q] \in {"built", "failed"}
      BY <1>1, <3>1 DEF TypeOK
    <3>3. ASSUME NEW r \in needs[q]
          PROVE  /\ dest[r].version \in 0 .. MaxVersion
                 /\ \A f \in File, w \in 0 .. MaxVersion :
                        <<r, f, w>> \in copied[q] <=> w = dest[r].version
      <4>1. dest[r] # None /\ Copies(q, r)
        BY <2>1, <3>1 DEF Builds
      <4>2. dest[r] \in Directory
        BY <1>1, <2>2, <4>1 DEF TypeOK
      <4>. QED
        BY <3>1, <4>1, <4>2 DEF Copies, Directory
    <3>. QED
      BY <2>1, <3>1, <3>2, <3>3 DEF Builds, Pulling
  <2>. QED
    BY <1>6, <2>3, <2>4, <2>5, <2>6, <2>7, <2>8, <2>9, <2>10, <2>11
    DEF Acts, PullStep, BuildStep
<1>. QED
  BY <1>2, <1>3, <1>4, <1>5, <1>6 DEF Next, Acts

-----------------------------------------------------------------------------
\* A `sync` after it has cleared the cache.
Renews(p) ==
    cmd[p] = "sync" /\ pc[p] \in Pulling \cup {"registries"} =>
        /\ \A r \in Ref : dest[r] # None => dest[r].version >= since[p][r]
        /\ stray \subseteq {given}
        /\ pc[p] \in {"download", "extract"} => version[p] >= since[p][ref[p]]
        /\ pc[p] \in {"fetch", "download", "extract"} => dest[ref[p]] = None

\* What a `sync` puts into the cache is not older than its command.
LEMMA SyncStepKeeps == Inv /\ [Next]_vars => (~disturbed => SyncInv)'
<1>. SUFFICES ASSUME Inv, [Next]_vars, ~disturbed', NEW q \in Process PROVE Renews(q)'
  BY DEF SyncInv, Renews
<1>1. TypeOK /\ PlaceInv /\ TypeOK' /\ PlaceInv' /\ (~disturbed => Renews(q) /\ Alone)
  BY TypeStep, PlaceStep DEF Inv, SyncInv, Renews
<1>2. CASE UNCHANGED vars
  BY <1>1, <1>2 DEF vars, Renews, cacheVars, pullVars, copyVars
<1>3. ASSUME NEW r \in Ref, Release(r) PROVE Renews(q)'
  BY <1>1, <1>3 DEF Release, Renews, cacheVars, pullVars, copyVars
<1>4. ASSUME NEW p \in Process, Launch(p), p = q PROVE Renews(q)'
  <2>1. PICK c \in {"up", "sync"} :
              /\ cmd' = [cmd EXCEPT ![p] = c]
              /\ pc' = [pc EXCEPT ![p] = IF c = "sync" THEN "clear" ELSE "pull"]
    BY <1>4 DEF Launch, FirstStep, Goto
  <2>2. cmd'[q] = "sync" => pc'[q] = "clear"
    BY <1>1, <1>4, <2>1 DEF TypeOK
  <2>. QED
    BY <2>2 DEF Renews, Pulling
<1>5. ASSUME NEW p \in Process, Launch(p) \/ Acts(p), p # q PROVE Renews(q)'
  <2>1. LocalsKept(q) /\ ~disturbed
    BY <1>1, <1>5, CommandKept, OthersKeep DEF Launch, TypeOK
  <2>2. ~(cmd[q] = "sync" /\ Busy(q))
    <3>1. CASE Launch(p)
      BY <3>1 DEF Launch, Disturbs
    <3>2. CASE Acts(p)
      BY <1>1, <1>5, <2>1, <3>2, CommandKept DEF Alone
    <3>. QED
      BY <1>5, <3>1, <3>2
  <2>. QED
    BY <2>1, <2>2 DEF LocalsKept, Renews, Busy, Ended, Pulling
<1>6. ASSUME Acts(q), cmd[q] = "sync" PROVE Renews(q)'
  <2>1. ~disturbed /\ Renews(q) /\ UNCHANGED <<cmd, since, tag, given>>
    BY <1>1, <1>6, CommandKept
  <2>2. \A r \in Ref : since[q][r] \in Nat /\ tag[r] \in Nat /\ since[q][r] <= tag[r]
    BY <1>1, BoundAssumption DEF TypeOK, PlaceInv, Place
  <2>3. CASE Clear(q)
    <3>1. /\ pc[q] = "clear" /\ UNCHANGED <<dest, stray>>
          /\ pc' = [pc EXCEPT ![q] = IF there THEN "delete" ELSE "registries"]
      BY <2>3 DEF Clear, Goto, cacheVars
    <3>2. pc'[q] = "delete" \/ (pc'[q] = "registries" /\ ~there)
      BY <1>1, <3>1 DEF TypeOK
    <3>3. ~there => stray = {} /\ \A r \in Ref : dest[r] = None
      BY <1>1 DEF TypeOK, PlaceInv
    <3>. QED
      BY <3>1, <3>2, <3>3 DEF Renews, Pulling
  <2>4. CASE DeleteCache(q)
    <3>1. /\ dest' = dest
          /\ \/ /\ pc' = [pc EXCEPT ![q] = "registries"] /\ stray' = {}
                /\ \A r \in Ref : dest[r] = None
             \/ pc' = [pc EXCEPT ![q] = "failed"]
      BY <2>4 DEF DeleteCache, Goto
    <3>2. pc'[q] = "failed"
          \/ (pc'[q] = "registries" /\ stray' = {} /\ \A r \in Ref : dest[r] = None)
      BY <1>1, <3>1 DEF TypeOK
    <3>. QED
      BY <3>1, <3>2 DEF Renews, Pulling
  <2>5. CASE DeleteFile(q) \/ DeleteDirectory(q) \/ DeleteTemporary(q) \/ DeleteRaises(q) \/ Kill(q)
    <3>1. pc'[q] \in {"delete", "failed", "idle"}
      BY <1>1, <2>5 DEF DeleteFile, DeleteDirectory, DeleteTemporary, DeleteRaises, Kill, Goto,
           TypeOK
    <3>. QED
      BY <3>1 DEF Renews, Pulling
  <2>6. CASE Registries(q)
    <3>1. pc[q] = "registries" /\ UNCHANGED <<dest, stray>> /\ pc'[q] \in {"pull", "failed"}
      BY <1>1, <2>6 DEF Registries, Goto, TypeOK, cacheVars
    <3>. QED
      BY <1>6, <2>1, <3>1 DEF Renews, Pulling
  <2>7. CASE Lookup(q)
    <3>1. PICK r \in wanted[q] : /\ ref' = [ref EXCEPT ![q] = r]
                                 /\ pc' = pc \/ (dest[r] = None /\ pc' = [pc EXCEPT ![q] = "fetch"])
      BY <2>7 DEF Lookup, Goto
    <3>2. pc[q] = "pull" /\ UNCHANGED <<dest, stray>>
      BY <2>7 DEF Lookup, cacheVars
    <3>3. ref'[q] = r /\ (pc'[q] = "pull" \/ (dest[r] = None /\ pc'[q] = "fetch"))
      BY <1>1, <3>1, <3>2 DEF TypeOK
    <3>. QED
      BY <1>6, <2>1, <3>2, <3>3 DEF Renews, Pulling
  <2>8. CASE Fetch(q)
    <3>1. /\ pc[q] = "fetch" /\ UNCHANGED <<dest, stray, ref>>
          /\ \/ /\ version' = [version EXCEPT ![q] = tag[ref[q]]]
                /\ pc' = [pc EXCEPT ![q] = "download"]
             \/ pc' = [pc EXCEPT ![q] = "pull"]
      BY <1>6, <2>8 DEF Fetch, Failed, Pulled, Goto, cacheVars
    <3>2. pc'[q] = "pull" \/ (pc'[q] = "download" /\ version'[q] = tag[ref[q]])
      BY <1>1, <3>1 DEF TypeOK
    <3>3. ref[q] \in Ref
      BY <1>1, <3>1 DEF PlaceInv, Place, TypeOK
    <3>. QED
      BY <1>6, <2>1, <2>2, <3>1, <3>2, <3>3 DEF Renews, Pulling
  <2>9. CASE Download(q) \/ ExtractFile(q) \/ ExtractFails(q) \/ RenameFails(q)
    <3>1. /\ pc[q] \in {"download", "extract"} /\ UNCHANGED <<dest, ref, version>>
          /\ \E step \in {"pull", "download", "extract"} : pc' = [pc EXCEPT ![q] = step]
      <4>1. TryAgain(q) => \E step \in {"pull", "download"} : pc' = [pc EXCEPT ![q] = step]
        BY <1>6 DEF TryAgain, Failed, Pulled, Goto
      <4>2. pc = [pc EXCEPT ![q] = pc[q]]
        BY <1>1 DEF TypeOK
      <4>3. CASE Download(q) \/ ExtractFile(q)
        BY <4>1, <4>2, <4>3 DEF Download, ExtractFile, Goto, cacheVars
      <4>4. CASE ExtractFails(q) \/ RenameFails(q)
        BY <4>1, <4>4 DEF ExtractFails, RenameFails
      <4>. QED
        BY <2>9, <4>3, <4>4
    <3>2. pc'[q] \in {"pull", "download", "extract"}
      BY <1>1, <3>1 DEF TypeOK
    \* What it leaves itself is of its own command.
    <3>3. stray' \subseteq stray \cup {given}
      BY <1>1, <2>9, Leaves DEF Download, ExtractFile, ExtractFails, RenameFails, cacheVars
    <3>. QED
      BY <1>6, <2>1, <3>1, <3>2, <3>3 DEF Renews, Pulling
  <2>10. CASE Rename(q)
    <3>1. Publishes(q) /\ UNCHANGED stray
      BY <1>1, <2>10 DEF Rename, Publishes, Pulled, Goto, Extracted, PlaceInv, Place, TypeOK
    <3>2. /\ pc[q] = "extract" /\ pc'[q] = "pull" /\ ref[q] \in Ref
          /\ dest'[ref[q]] = [files |-> File, version |-> version[q]]
          /\ \A r \in Ref : r # ref[q] => dest'[r] = dest[r]
      BY <1>1, <3>1 DEF Publishes, TypeOK
    <3>3. dest'[ref[q]].version = version[q]
      BY <3>2
    <3>. QED
      BY <1>6, <2>1, <3>1, <3>2, <3>3 DEF Renews, Pulling
  <2>12. CASE AllPulled(q)
    <3>1. pc'[q] = "synced"
      BY <1>1, <1>6, <2>12 DEF AllPulled, Goto, TypeOK
    <3>. QED
      BY <3>1 DEF Renews, Pulling
  <2>13. ~BuildStep(q)
    BY <1>1, <1>6 DEF BuildStep, ListFeature, CopyFile, Build, PlaceInv, Place
  <2>. QED
    BY <1>6, <2>3, <2>4, <2>5, <2>6, <2>7, <2>8, <2>9, <2>10, <2>12, <2>13
    DEF Acts, SyncStep, PullStep
<1>7. ASSUME Acts(q), cmd[q] # "sync" PROVE Renews(q)'
  BY <1>1, <1>7, CommandKept DEF Renews
<1>. QED
  BY <1>2, <1>3, <1>4, <1>5, <1>6, <1>7 DEF Next, Acts

-----------------------------------------------------------------------------
\* The invariant holds in every state.
LEMMA Invariance == Spec => []Inv
<1>1. Inv /\ [Next]_vars => Inv'
  BY TypeStep, PlaceStep, AloneStep, WholeStep, BuildStepKeeps, SyncStepKeeps DEF Inv
<1>. QED
  BY InitInv, <1>1, PTL DEF Spec

\* The variables keep their types, for any number of processes, features, files,
\* releases, commands and kills; a cache directory that does not exist is empty.
THEOREM TypeCorrect == Spec => []TypeOK
<1>1. Inv => TypeOK
  BY DEF Inv
<1>. QED
  BY <1>1, Invariance, PTL

\* What pull_feature takes for a cache hit is a whole feature.
THEOREM HitsAreWhole == Spec => []HitIsWhole
<1>1. Inv => HitIsWhole
  BY DEF Inv, WholeInv, HitIsWhole, Clearing
<1>. QED
  BY <1>1, Invariance, PTL

\* build_image has copied all files of each feature, of one version.
THEOREM BuildsAreWhole == Spec => []BuildIsWhole
<1>1. Inv => BuildIsWhole
  <2>. SUFFICES ASSUME Inv, NEW p \in Process, pc[p] = "built", ~disturbed, NEW r \in needs[p]
                PROVE  \E v \in 0 .. MaxVersion :
                          {c \in copied[p] : c[1] = r} = {r} \X File \X {v}
    BY DEF BuildIsWhole
  <2>1. PICK v \in 0 .. MaxVersion :
              \A f \in File, w \in 0 .. MaxVersion : <<r, f, w>> \in copied[p] <=> w = v
    BY DEF Inv, BuildInv
  <2>2. copied[p] \subseteq Ref \X File \X (0 .. MaxVersion) /\ r \in Ref
    BY DEF Inv, TypeOK
  <2>3. ASSUME NEW c \in copied[p], c[1] = r PROVE c \in {r} \X File \X {v}
    <3>1. PICK f \in File, w \in 0 .. MaxVersion : c = <<r, f, w>>
      BY <2>2, <2>3
    <3>. QED
      BY <2>1, <3>1
  <2>4. ASSUME NEW f \in File PROVE <<r, f, v>> \in copied[p] /\ <<r, f, v>>[1] = r
    BY <2>1
  <2>. QED
    BY <2>3, <2>4
<1>. QED
  BY <1>1, Invariance, PTL

\* `sync` ends with nothing older than when it was given, and with nothing that
\* earlier commands left; its own failed pulls may leave temporary directories.
THEOREM SyncsRefresh == Spec => SyncRefreshes
<1>1. Inv /\ [Next]_vars =>
          [\A p \in Process :
              pc[p] # "synced" /\ pc'[p] = "synced" /\ ~disturbed =>
                  /\ \A r \in Ref : dest[r] # None => dest[r].version >= since[p][r]
                  /\ stray \subseteq {given}]_vars
  <2>. SUFFICES ASSUME Inv, [Next]_vars, NEW p \in Process,
                       pc[p] # "synced", pc'[p] = "synced", ~disturbed
                PROVE  /\ \A r \in Ref : dest[r] # None => dest[r].version >= since[p][r]
                       /\ stray \subseteq {given}
    OBVIOUS
  <2>1. TypeOK
    BY DEF Inv
  <2>2. pc[p] = "pull" /\ cmd[p] = "sync"
    <3>1. CASE UNCHANGED vars \/ \E r \in Ref : Release(r)
      BY <3>1 DEF vars, Release
    <3>2. ASSUME NEW q \in Process, Launch(q) \/ Acts(q), q # p PROVE FALSE
      BY <2>1, <3>2, OthersKeep DEF LocalsKept
    <3>3. CASE Launch(p)
      <4>1. pc' = [pc EXCEPT ![p] = "clear"] \/ pc' = [pc EXCEPT ![p] = "pull"]
        BY <3>3 DEF Launch, FirstStep, Goto
      <4>. QED
        BY <2>1, <4>1 DEF TypeOK
    <3>4. CASE SyncStep(p) \/ BuildStep(p) \/ Kill(p)
      <4>1. \/ pc' = pc
            \/ \E step \in {"delete", "registries", "pull", "failed", "built", "idle"} :
                   pc' = [pc EXCEPT ![p] = step]
        BY <3>4 DEF SyncStep, Clear, DeleteFile, DeleteDirectory, DeleteTemporary,
             DeleteCache, DeleteRaises, Registries, BuildStep, ListFeature, CopyFile,
             Build, Kill, Goto
      <4>. QED
        BY <2>1, <4>1 DEF TypeOK
    <3>5. CASE PullStep(p) /\ ~AllPulled(p)
      <4>1. \/ pc' = pc
            \/ \E step \in {"pull", "fetch", "download", "extract", "failed"} :
                   pc' = [pc EXCEPT ![p] = step]
        BY <3>5 DEF PullStep, Lookup, Fetch, Download, ExtractFile, ExtractFails, Rename,
             RenameFails, TryAgain, Failed, Pulled, Goto
      <4>. QED
        BY <2>1, <4>1 DEF TypeOK
    <3>6. CASE AllPulled(p)
      BY <2>1, <3>6 DEF AllPulled, Goto, TypeOK
    <3>. QED
      BY <3>1, <3>2, <3>3, <3>4, <3>5, <3>6 DEF Next, Acts
  <2>. QED
    BY <2>2 DEF Inv, SyncInv, Pulling
<1>. QED
  BY <1>1, Invariance, PTL DEF Spec, SyncRefreshes
-----------------------------------------------------------------------------
(* The cache implements WholeFeatures.                                       *)

\* What is fetched is of a version the tag has had, and what is copied is of the
\* features the command needs.
From(p) ==
    /\ pc[p] \in {"download", "extract"} => version[p] \in 0 .. tag[ref[p]]
    /\ \A c \in copied[p] : c[1] \in needs[p]

FromInv == \A p \in Process : From(p)

LEMMA TagsGrow ==
    ASSUME TypeOK, NEW r \in Ref, Release(r)
    PROVE  \A s \in Ref : tag[s] \in Nat /\ tag'[s] \in Nat /\ tag[s] <= tag'[s]
  BY BoundAssumption DEF Release, TypeOK

LEMMA OwnFrom ==
    ASSUME TypeOK, PlaceInv, FromInv, NEW p \in Process, Acts(p)
    PROVE  From(p)'
<1>1. From(p) /\ Place(p) /\ UNCHANGED <<tag, needs>>
  BY CommandKept DEF FromInv, PlaceInv
<1>. USE DEF cacheVars, pullVars, copyVars, TypeOK
<1>2. ASSUME copied' = copied, version' = version, ref' = ref,
             pc'[p] \in {"download", "extract"} => pc[p] \in {"download", "extract"}
      PROVE  From(p)'
  BY <1>1, <1>2 DEF From
<1>3. ASSUME copied' = copied, pc'[p] \notin {"download", "extract"}
      PROVE  From(p)'
  BY <1>1, <1>3 DEF From
<1>4. CASE SyncStep(p)
  <2>1. copied' = copied /\ version' = version /\ ref' = ref
    BY <1>4 DEF SyncStep, Clear, DeleteFile, DeleteDirectory, DeleteTemporary,
         DeleteCache, DeleteRaises, Registries
  <2>2. \/ pc' = pc
        \/ \E step \in {"delete", "registries", "pull", "failed"} :
               pc' = [pc EXCEPT ![p] = step]
    BY <1>4 DEF SyncStep, Clear, DeleteFile, DeleteDirectory, DeleteTemporary,
         DeleteCache, DeleteRaises, Registries, Goto
  <2>. QED
    BY <1>2, <2>1, <2>2
<1>5. CASE Lookup(p)
  <2>1. copied' = copied
    BY <1>5 DEF Lookup
  <2>2. pc[p] = "pull" /\ (pc' = pc \/ pc' = [pc EXCEPT ![p] = "fetch"])
    BY <1>5 DEF Lookup, Goto
  <2>. QED
    BY <1>3, <2>1, <2>2
<1>6. CASE Fetch(p)
  <2>1. copied' = copied /\ ref' = ref /\ pc[p] = "fetch"
    BY <1>6 DEF Fetch
  <2>2. CASE pc'[p] \notin {"download", "extract"}
    BY <1>3, <2>1, <2>2
  <2>3. CASE version' = [version EXCEPT ![p] = tag[ref[p]]]
    <3>1. ref[p] \in Ref
      BY <1>1, <2>1 DEF Place
    <3>2. version'[p] = tag[ref[p]] /\ tag[ref[p]] \in Nat
      BY <2>3, <3>1, BoundAssumption
    <3>. QED
      BY <1>1, <2>1, <3>2 DEF From
  <2>4. CASE Failed(p)
    BY <2>2, <2>4 DEF Failed, Pulled, Goto
  <2>. QED
    BY <1>6, <2>3, <2>4 DEF Fetch
<1>7. CASE Download(p) \/ ExtractFile(p) \/ ExtractFails(p) \/ Rename(p) \/ RenameFails(p)
  BY <1>2, <1>7 DEF Download, ExtractFile, ExtractFails, Rename, RenameFails
<1>8. CASE AllPulled(p)
  <2>1. copied' = copied /\ \E step \in {"synced", "build"} : pc' = [pc EXCEPT ![p] = step]
    BY <1>8 DEF AllPulled, Goto
  <2>. QED
    BY <1>3, <2>1
<1>9. CASE ListFeature(p)
  <2>1. copied' = copied /\ pc[p] = "build" /\ (pc' = pc \/ pc' = [pc EXCEPT ![p] = "failed"])
    BY <1>9 DEF ListFeature, Goto
  <2>. QED
    BY <1>3, <2>1
<1>10. CASE CopyFile(p)
  <2>1. pc[p] = "build" /\ (pc' = pc \/ pc' = [pc EXCEPT ![p] = "failed"])
    BY <1>10 DEF CopyFile, Goto
  <2>2. ref[p] \in needs[p]
    BY <1>1, <1>10 DEF CopyFile, Place
  <2>3. \A c \in copied'[p] : c \in copied[p] \/ c[1] = ref[p]
    BY <1>10 DEF CopyFile
  <2>. QED
    BY <1>1, <2>1, <2>2, <2>3 DEF From
<1>11. CASE Build(p) \/ Kill(p)
  <2>1. copied' = copied /\ \E step \in {"built", "failed", "idle"} :
                                pc' = [pc EXCEPT ![p] = step]
    BY <1>11 DEF Build, Kill, Goto
  <2>. QED
    BY <1>3, <2>1
<1>. QED
  BY <1>4, <1>5, <1>6, <1>7, <1>8, <1>9, <1>10, <1>11 DEF Acts, PullStep, BuildStep

LEMMA FromInit == Init => FromInv
  BY DEF Init, FromInv, From

LEMMA FromStep == Inv /\ FromInv /\ [Next]_vars => FromInv'
<1>. SUFFICES ASSUME Inv, FromInv, [Next]_vars PROVE FromInv'
  OBVIOUS
<1>1. TypeOK /\ PlaceInv
  BY DEF Inv
<1>2. CASE UNCHANGED vars
  BY <1>2 DEF vars, FromInv, From, cacheVars, pullVars, copyVars
<1>3. ASSUME NEW r \in Ref, Release(r) PROVE FromInv'
  <2>1. UNCHANGED <<pc, version, ref, copied, needs>>
    BY <1>3 DEF Release, pullVars, copyVars
  <2>2. ASSUME NEW p \in Process, pc[p] \in {"download", "extract"}
        PROVE  version[p] \in 0 .. tag'[ref[p]]
    <3>1. ref[p] \in Ref /\ version[p] \in 0 .. tag[ref[p]]
      BY <1>1, <2>2 DEF FromInv, From, PlaceInv, Place, TypeOK
    <3>. QED
      BY <1>1, <1>3, <3>1, TagsGrow
  <2>. QED
    BY <2>1, <2>2 DEF FromInv, From
<1>4. ASSUME NEW p \in Process, Launch(p) \/ Acts(p) PROVE FromInv'
  <2>1. tag' = tag
    BY <1>1, <1>4, CommandKept DEF Launch
  <2>2. ASSUME NEW q \in Process, q # p PROVE From(q)'
    BY <1>1, <1>4, <2>1, <2>2, OthersKeep DEF LocalsKept, FromInv, From
  <2>3. From(p)'
    <3>1. CASE Launch(p)
      BY <1>1, <3>1 DEF Launch, FirstStep, Goto, From, TypeOK
    <3>. QED
      BY <1>1, <1>4, <3>1, OwnFrom
  <2>. QED
    BY <2>2, <2>3 DEF FromInv
<1>. QED
  BY <1>2, <1>3, <1>4 DEF Next, Acts

\* What a step that leaves the directories alone, or the images, leaves to see.
LEMMA SeesCache == dest' = dest /\ disturbed' = disturbed => cacheSeen' = cacheSeen
  BY DEF cacheSeen

LEMMA SeesImage ==
    ASSUME disturbed' = disturbed,
           \A p \in Process : (pc'[p] = "built" <=> pc[p] = "built")
                              /\ (pc[p] = "built" => copied'[p] = copied[p])
    PROVE  imageSeen' = imageSeen
  BY DEF imageSeen

\* Who comes to "built" has built.
LEMMA BuiltByBuild ==
    ASSUME TypeOK, NEW p \in Process, Acts(p), pc'[p] = "built"
    PROVE  Build(p)
<1>. USE DEF TypeOK
<1>0. pc[p] # "built"
  BY CommandKept DEF Busy, Ended
<1>1. CASE SyncStep(p) \/ ListFeature(p) \/ CopyFile(p) \/ Kill(p)
  <2>1. \/ pc' = pc
        \/ \E step \in {"delete", "registries", "pull", "failed", "idle"} :
               pc' = [pc EXCEPT ![p] = step]
    BY <1>1 DEF SyncStep, Clear, DeleteFile, DeleteDirectory, DeleteTemporary,
         DeleteCache, DeleteRaises, Registries, ListFeature, CopyFile, Kill, Goto
  <2>. QED
    BY <1>0, <2>1
<1>2. CASE PullStep(p)
  <2>1. \/ pc' = pc
        \/ \E step \in {"pull", "fetch", "download", "extract", "failed", "synced", "build"} :
               pc' = [pc EXCEPT ![p] = step]
    BY <1>2 DEF PullStep, Lookup, Fetch, Download, ExtractFile, ExtractFails, Rename,
         RenameFails, AllPulled, TryAgain, Failed, Pulled, Goto
  <2>. QED
    BY <1>0, <2>1
<1>. QED
  BY <1>1, <1>2 DEF Acts, BuildStep

\* Until a `sync` is disturbed, an image is what the cache holds when it is built.
LEMMA BuildsFromCache ==
    ASSUME Inv, FromInv, ~disturbed, NEW p \in Process, Build(p),
           Acts(p), pc'[p] = "built"
    PROVE  Whole!Build(p)
<1>1. /\ TypeOK /\ PlaceInv /\ Alone /\ WholeInv /\ BuildInv
      /\ pc[p] = "build" /\ wanted[p] = {} /\ entries[p] = {}
      /\ UNCHANGED <<tag, needs, dest, copied, disturbed>>
      /\ copied[p] \subseteq Ref \X File \X (0 .. MaxVersion) /\ needs[p] \subseteq Ref
  BY CommandKept DEF Inv, Build, cacheVars, copyVars, TypeOK
<1>2. \A q \in Process : pc[q] # "delete"
  BY <1>1 DEF Alone, PlaceInv, Place, Clearing, Busy, Ended
<1>3. ASSUME NEW r \in needs[p]
      PROVE  /\ cacheSeen[r] = dest[r].version /\ cacheSeen[r] # None
             /\ cacheSeen[r] \in 0 .. MaxVersion /\ Copies(p, r)
  <2>1. dest[r] # None /\ Copies(p, r) /\ r \in Ref
    BY <1>1 DEF BuildInv
  <2>2. dest[r].files = File /\ dest[r].version \in 0 .. MaxVersion
    BY <1>1, <1>2, <2>1 DEF WholeInv, TypeOK, Directory
  <2>3. cacheSeen[r] = dest[r].version
    BY <2>1, <2>2 DEF cacheSeen
  <2>. QED
    BY <2>1, <2>2, <2>3, AbsentAssumption
<1>. DEFINE held == {<<r, f, cacheSeen[r]>> : r \in needs[p], f \in File}
<1>4. copied[p] = held
  <2>1. ASSUME NEW c \in copied[p] PROVE c \in held
    <3>1. PICK r \in Ref, f \in File, v \in 0 .. MaxVersion : c = <<r, f, v>>
      BY <1>1
    <3>2. r \in needs[p]
      BY <3>1 DEF FromInv, From
    <3>3. v = cacheSeen[r]
      BY <1>3, <2>1, <3>1, <3>2 DEF Copies
    <3>. QED
      BY <3>1, <3>2, <3>3
  <2>2. ASSUME NEW r \in needs[p], NEW f \in File
        PROVE  <<r, f, cacheSeen[r]>> \in copied[p]
    BY <1>1, <1>3 DEF Copies
  <2>. QED
    BY <2>1, <2>2
<1>5. imageSeen' = [imageSeen EXCEPT ![p] = held]
  <2>. HIDE DEF held
  <2>1. imageSeen'[p] = held
    BY <1>1, <1>4 DEF imageSeen
  <2>2. ASSUME NEW q \in Process, q # p PROVE imageSeen'[q] = imageSeen[q]
    <3>1. pc'[q] = pc[q]
      BY <1>1, <2>2, OthersKeep DEF LocalsKept
    <3>. QED
      BY <1>1, <3>1 DEF imageSeen
  <2>3. /\ imageSeen = [q \in Process |-> imageSeen[q]]
        /\ imageSeen' = [q \in Process |-> imageSeen'[q]]
    BY DEF imageSeen
  <2>. QED
    BY <2>1, <2>2, <2>3
<1>6. cacheSeen' = cacheSeen
  BY <1>1, SeesCache
<1>. QED
  BY <1>1, <1>3, <1>5, <1>6 DEF Whole!Build

\* Files go one by one, a feature with the first of them; it comes whole.
LEMMA DirectoriesSeen ==
    ASSUME Inv, FromInv, ~disturbed, disturbed' = disturbed, NEW p \in Process, Acts(p),
           imageSeen' = imageSeen
    PROVE  \/ UNCHANGED Whole!wholeVars
           \/ \E r \in Ref : Whole!Publish(r) \/ Whole!Drop(r)
<1>1. TypeOK /\ PlaceInv /\ UNCHANGED <<tag, needs, disturbed>>
  BY CommandKept DEF Inv, TypeOK
<1>2. /\ cacheSeen = [r \in Ref |-> cacheSeen[r]]
      /\ cacheSeen' = [r \in Ref |-> cacheSeen'[r]]
  BY DEF cacheSeen
<1>3. CASE dest' = dest
  BY <1>1, <1>3, SeesCache DEF Whole!wholeVars
<1>4. CASE Deletes(p)
  <2>1. PICK r \in Ref :
            \/ dest[r] # None /\ \E f \in File : dest' = [dest EXCEPT ![r].files = @ \ {f}]
            \/ dest' = [dest EXCEPT ![r] = None]
    BY <1>1, <1>4 DEF Deletes, TypeOK
  <2>2. \A s \in Ref : s # r => dest'[s] = dest[s]
    BY <1>1, <2>1 DEF TypeOK
  <2>3. dest'[r] = None \/ dest'[r].files # File
    BY <1>1, <2>1 DEF TypeOK, Directory
  <2>4. cacheSeen'[r] = None /\ \A s \in Ref : s # r => cacheSeen'[s] = cacheSeen[s]
    BY <1>1, <2>2, <2>3 DEF cacheSeen
  <2>5. cacheSeen' = [cacheSeen EXCEPT ![r] = None]
    BY <1>2, <2>4
  <2>. QED
    BY <1>1, <2>5 DEF Whole!Drop
<1>5. CASE Publishes(p)
  <2>1. /\ pc[p] = "extract" /\ ~Occupied(ref[p])
        /\ dest' = [dest EXCEPT ![ref[p]] = [files |-> File, version |-> version[p]]]
    BY <1>5 DEF Publishes
  <2>2. ref[p] \in Ref /\ version[p] \in 0 .. tag[ref[p]]
    BY <1>1, <2>1 DEF FromInv, From, PlaceInv, Place, TypeOK
  <2>3. cacheSeen[ref[p]] = None
    BY <2>1, <2>2, FileAssumption DEF Occupied, cacheSeen
  <2>4. /\ dest'[ref[p]] = [files |-> File, version |-> version[p]]
        /\ \A s \in Ref : s # ref[p] => dest'[s] = dest[s]
    BY <1>1, <2>1, <2>2 DEF TypeOK
  <2>5. dest'[ref[p]] # None
    <3>1. [files |-> File, version |-> version[p]] \in Directory
      BY <1>1 DEF TypeOK, Directory
    <3>. QED
      BY <2>4, <3>1, AbsentAssumption DEF Directory
  <2>6. /\ cacheSeen'[ref[p]] = version[p]
        /\ \A s \in Ref : s # ref[p] => cacheSeen'[s] = cacheSeen[s]
    BY <1>1, <2>2, <2>4, <2>5 DEF cacheSeen
  <2>7. cacheSeen' = [cacheSeen EXCEPT ![ref[p]] = version[p]]
    BY <1>2, <2>2, <2>6
  <2>. QED
    BY <1>1, <2>2, <2>3, <2>7 DEF Whole!Publish
<1>. QED
  BY <1>1, <1>3, <1>4, <1>5, OnDirectories

LEMMA WholeInit == Init => Whole!Init
<1>. SUFFICES ASSUME Init PROVE Whole!Init
  OBVIOUS
<1>1. cacheSeen = Whole!Nothing /\ imageSeen = Whole!NoImages
  BY DEF Init, cacheSeen, imageSeen, Whole!Nothing, Whole!NoImages
<1>. QED
  BY <1>1 DEF Init, Whole!Init

LEMMA AsksSeen ==
    ASSUME Inv, NEW p \in Process, Launch(p), disturbed' = disturbed
    PROVE  Whole!Ask(p)
<1>1. /\ TypeOK /\ UNCHANGED <<dest, tag>>
      /\ \E refs \in SUBSET Ref : needs' = [needs EXCEPT ![p] = refs]
  BY DEF Inv, Launch, cacheVars
<1>2. pc'[p] # "built"
  BY <1>1 DEF Launch, FirstStep, Goto, TypeOK
<1>3. \A q \in Process : q # p => pc'[q] = pc[q] /\ copied'[q] = copied[q]
  BY <1>1, OthersKeep DEF LocalsKept
<1>4. imageSeen' = [imageSeen EXCEPT ![p] = {}]
  BY <1>2, <1>3 DEF imageSeen
<1>. QED
  BY <1>1, <1>4, SeesCache DEF Whole!Ask

LEMMA WholeNext == Inv /\ FromInv /\ [Next]_vars => [Whole!Next]_(Whole!wholeVars)
<1>. SUFFICES ASSUME Inv, FromInv, [Next]_vars
              PROVE  Whole!Next \/ UNCHANGED Whole!wholeVars
  OBVIOUS
<1>1. TypeOK /\ TypeOK'
  BY TypeStep DEF Inv
<1>2. CASE UNCHANGED vars
  BY <1>2 DEF vars, cacheVars, pullVars, copyVars, Whole!wholeVars, cacheSeen, imageSeen
<1>3. ASSUME NEW r \in Ref, Release(r) PROVE Whole!Next
  <2>1. /\ UNCHANGED <<dest, needs, disturbed, pc, copied>>
        /\ tag' = [tag EXCEPT ![r] = @ + 1]
    BY <1>3 DEF Release, cacheVars, pullVars, copyVars
  <2>2. cacheSeen' = cacheSeen /\ imageSeen' = imageSeen
    BY <2>1, SeesCache DEF imageSeen
  <2>. QED
    BY <2>1, <2>2 DEF Whole!Next, Whole!Release
<1>4. ASSUME ~disturbed, disturbed', NEW p \in Process, Launch(p) \/ Acts(p)
      PROVE  Whole!Next
  <2>1. tag' = tag
    BY <1>1, <1>4, CommandKept DEF Launch
  <2>2. cacheSeen' = Whole!Nothing /\ imageSeen' = Whole!NoImages
    BY <1>4 DEF cacheSeen, imageSeen, Whole!Nothing, Whole!NoImages
  <2>3. needs' \in [Process -> SUBSET Ref] /\ disturbed' = TRUE
    BY <1>1, <1>4 DEF TypeOK
  <2>. QED
    BY <2>1, <2>2, <2>3 DEF Whole!Next, Whole!Spoil
<1>5. ASSUME NEW p \in Process, Launch(p), disturbed' = disturbed PROVE Whole!Next
  BY <1>5, AsksSeen DEF Whole!Next
<1>6. ASSUME NEW p \in Process, Acts(p), disturbed' = disturbed
      PROVE  Whole!Next \/ UNCHANGED Whole!wholeVars
  <2>1. UNCHANGED <<tag, needs>> /\ Busy(p)
    BY <1>1, <1>6, CommandKept
  <2>2. CASE disturbed
    BY <1>6, <2>1, <2>2 DEF cacheSeen, imageSeen, Whole!wholeVars
  <2>3. CASE ~disturbed /\ pc'[p] = "built"
    BY <1>1, <1>6, <2>3, BuiltByBuild, BuildsFromCache DEF Whole!Next
  <2>4. CASE ~disturbed /\ pc'[p] # "built"
    <3>1. \A q \in Process : q # p => pc'[q] = pc[q] /\ copied'[q] = copied[q]
      BY <1>1, <1>6, OthersKeep DEF LocalsKept
    <3>2. pc[p] # "built"
      BY <2>1 DEF Busy, Ended
    <3>3. imageSeen' = imageSeen
      BY <1>6, <2>4, <3>1, <3>2, SeesImage
    <3>. QED
      BY <1>6, <2>4, <3>3, DirectoriesSeen DEF Whole!Next
  <2>. QED
    BY <2>2, <2>3, <2>4
<1>7. disturbed => disturbed'
  BY <1>1, <1>2, CommandKept DEF Next, Acts, Launch, Release, vars
<1>. QED
  BY <1>1, <1>2, <1>3, <1>4, <1>5, <1>6, <1>7 DEF Next, Acts, TypeOK

\* The cache and what is built from it are those of WholeFeatures: for any number
\* of processes, features, files, releases, commands and kills.
THEOREM WholeRefinement == Spec => ImplementsWholeFeatures
  BY InitInv, FromInit, FromStep, WholeInit, WholeNext, Invariance, PTL
     DEF Spec, ImplementsWholeFeatures, Whole!Spec
=============================================================================

----------------------------- MODULE RegistrySync -----------------------------
(***************************************************************************)
(* The registries `dvt` keeps copies of: the templates of features and the *)
(* base images, listed on GitHub and fetched one by one                    *)
(* (dvt/src/devtemplate/store.py, images.py, github.py).                   *)
(*                                                                         *)
(* sync_templates and sync_images are one algorithm over two stores; this  *)
(* is one store.  It has a copy of each name and a manifest of the names   *)
(* the last sync listed; what was in the manifest and is listed no more is *)
(* deleted, and nothing else, for users keep templates of their own in the *)
(* same directory.  There is no lock, a write first empties its file, and  *)
(* a sync may fail or be killed between any two steps.                     *)
(*                                                                         *)
(* A name that is not well-formed makes the listing fail, before anything  *)
(* is written; the three tries for a request are one.                      *)
(***************************************************************************)
EXTENDS Integers, FiniteSets

CONSTANTS
    Process,
    Name,
    Absent,     \* no such name, no manifest
    Emptied,    \* a file whose contents are not written yet; for a template
                \* also its directory without the file
    Own,        \* a copy that the user has put there
    MaxChanges, \* bound: changes upstream
    MaxGiven,   \* bound: syncs
    MaxOwn      \* bound: times a user puts a copy there

ASSUME ValueAssumption ==
    /\ {Absent, Emptied, Own} \cap Nat = {}
    /\ Absent # Emptied /\ Own \notin {Absent, Emptied}
    /\ \A names \in SUBSET Name : names # Absent /\ names # Emptied
ASSUME BoundAssumption ==
    MaxChanges \in Nat /\ MaxGiven \in Nat /\ MaxOwn \in Nat

VARIABLES
    upstream, \* name -> version on GitHub, or Absent
    local,    \* name -> version of the copy, or Absent, Emptied or Own
    manifest, \* names in the manifest, or Absent or Emptied
    changes, given, owned, \* changes, syncs and copies by users so far
    pc,       \* process -> its next step
    listing,  \* process -> names GitHub listed
    previous, \* process -> names it read from the manifest
    done,     \* process -> names it has written
    name, version, \* process -> what it is writing
    since,    \* process -> history: upstream when its sync was given
    managed,  \* history: names any sync has listed
    lost,     \* history: names that a sync which ended early had listed and no
              \* manifest had then; until a successful sync lists them
    overlapped \* history: two syncs ran at the same time

storeVars == <<local, manifest>>
countVars == <<changes, given, owned>>
readVars  == <<listing, previous, done, name, version>>
historyVars == <<since, managed, lost, overlapped>>
vars == <<upstream, storeVars, countVars, pc, readVars, historyVars>>

Version == 0 .. MaxChanges
Ended == {"idle", "failed", "synced"}

Init ==
    /\ upstream \in [Name -> {Absent, 0}]
    /\ local = [n \in Name |-> Absent] /\ manifest = Absent
    /\ changes = 0 /\ given = 0 /\ owned = 0
    /\ pc = [p \in Process |-> "idle"]
    /\ listing = [p \in Process |-> {}]
    /\ previous = [p \in Process |-> {}]
    /\ done = [p \in Process |-> {}]
    /\ name = [p \in Process |-> Absent]
    /\ version = [p \in Process |-> 0]
    /\ since = [p \in Process |-> upstream]
    /\ managed = {} /\ lost = {} /\ overlapped = FALSE

-----------------------------------------------------------------------------
(* Others.                                                                  *)

\* A commit upstream adds, changes or removes an entry.
Change(n) ==
    /\ changes < MaxChanges
    /\ changes' = changes + 1
    /\ \E v \in {changes + 1} \cup ({Absent} \ {upstream[n]}) :
          upstream' = [upstream EXCEPT ![n] = v]
    /\ UNCHANGED <<storeVars, given, owned, pc, readVars, historyVars>>

\* A user drops in a directory of a name that is free.
PutOwn(n) ==
    /\ owned < MaxOwn /\ local[n] = Absent
    /\ owned' = owned + 1
    /\ local' = [local EXCEPT ![n] = Own]
    /\ UNCHANGED <<upstream, manifest, changes, given, pc, readVars, historyVars>>

-----------------------------------------------------------------------------
(* A sync.                                                                  *)

Goto(p, step) == pc' = [pc EXCEPT ![p] = step]
Busy(p) == pc[p] \notin Ended

\* Faulty forms of definitions are kept beside them: the checks replace the one
\* by the other to see that a property notices.

Launch(p) ==
    /\ ~Busy(p) /\ given < MaxGiven
    /\ given' = given + 1
    /\ Goto(p, "list")
    /\ since' = [since EXCEPT ![p] = upstream]
    /\ overlapped' = (overlapped \/ \E q \in Process : Busy(q))
    /\ UNCHANGED <<upstream, storeVars, changes, owned, readVars, managed, lost>>

\* list_template_names, the names validated.
List(p) ==
    /\ pc[p] = "list"
    /\ listing' = [listing EXCEPT ![p] = {n \in Name : upstream[n] # Absent}]
    /\ done' = [done EXCEPT ![p] = {}]
    /\ managed' = managed \cup listing'[p]
    /\ Goto(p, "manifest")
    /\ UNCHANGED <<upstream, storeVars, countVars, previous, name, version, since,
                   lost, overlapped>>

\* read_manifest: none, or one that cannot be read, counts as empty.
ManifestNames == IF manifest \in {Absent, Emptied} THEN {} ELSE manifest

ReadManifest(p) ==
    /\ pc[p] = "manifest"
    /\ previous' = [previous EXCEPT ![p] = ManifestNames]
    /\ Goto(p, "fetch")
    /\ UNCHANGED <<upstream, storeVars, countVars, listing, done, name, version,
                   historyVars>>

\* What there is to write: all that is listed, whether it is there or not.
UnfetchedAndMissing(p) == {n \in listing[p] \ done[p] : local[n] = Absent}
Unfetched(p) == listing[p] \ done[p]

\* fetch_template, then mkdir and the opening of the file.
Fetch(p) ==
    /\ pc[p] = "fetch"
    /\ \E n \in Unfetched(p) :
          /\ upstream[n] # Absent
          /\ name' = [name EXCEPT ![p] = n]
          /\ version' = [version EXCEPT ![p] = upstream[n]]
    /\ Goto(p, "open")
    /\ UNCHANGED <<upstream, storeVars, countVars, listing, previous, done, historyVars>>

Open(p) ==
    /\ pc[p] = "open"
    /\ local' = [local EXCEPT ![name[p]] = Emptied]
    /\ Goto(p, "write")
    /\ UNCHANGED <<upstream, manifest, countVars, readVars, historyVars>>

Write(p) ==
    /\ pc[p] = "write"
    /\ local' = [local EXCEPT ![name[p]] = version[p]]
    /\ done' = [done EXCEPT ![p] = @ \cup {name[p]}]
    /\ Goto(p, "fetch")
    /\ UNCHANGED <<upstream, manifest, countVars, listing, previous, name, version,
                   historyVars>>

FetchedAll(p) ==
    /\ pc[p] = "fetch" /\ Unfetched(p) = {}
    /\ Goto(p, "prune")
    /\ UNCHANGED <<upstream, storeVars, countVars, readVars, historyVars>>

\* What is pruned.
Unlisted(p) == {n \in Name : local[n] # Absent} \ listing[p]
NewlyListed(p) == listing[p] \ previous[p]
Removed(p) == previous[p] \ listing[p]

Prune(p) ==
    /\ pc[p] = "prune"
    /\ \E n \in Removed(p) :
          /\ local[n] # Absent
          /\ local' = [local EXCEPT ![n] = Absent]
    /\ UNCHANGED <<upstream, manifest, countVars, pc, readVars, historyVars>>

\* write_manifest.
OpenManifest(p) ==
    /\ pc[p] = "prune" /\ \A n \in Removed(p) : local[n] = Absent
    /\ manifest' = Emptied
    /\ Goto(p, "writeManifest")
    /\ UNCHANGED <<upstream, local, countVars, readVars, historyVars>>

WriteManifest(p) ==
    /\ pc[p] = "writeManifest"
    /\ manifest' = listing[p]
    /\ Goto(p, "synced")
    /\ lost' = lost \ listing[p]
    /\ UNCHANGED <<upstream, local, countVars, readVars, since, managed, overlapped>>

\* A request or a file access fails (the request for a name that is gone
\* upstream always does), or dvt is killed: the sync ends where it is.  What it
\* listed and no manifest has is forgotten: all of it, if the manifest is emptied.
EndEarly(p) ==
    /\ Busy(p)
    /\ Goto(p, "failed")
    /\ lost' = IF pc[p] = "list" THEN lost ELSE lost \cup (listing[p] \ ManifestNames)
    /\ UNCHANGED <<upstream, storeVars, countVars, readVars, since, managed, overlapped>>

Sync(p) ==
    \/ List(p) \/ ReadManifest(p) \/ Fetch(p) \/ Open(p) \/ Write(p)
    \/ FetchedAll(p) \/ Prune(p) \/ OpenManifest(p) \/ WriteManifest(p)

Next ==
    \/ \E p \in Process : Launch(p) \/ Sync(p) \/ EndEarly(p)
    \/ \E n \in Name : Change(n) \/ PutOwn(n)

Spec == Init /\ [][Next]_vars

-----------------------------------------------------------------------------
\* The values the variables take; a sync that prunes has written all that it
\* listed.
TypeOK ==
    /\ upstream \in [Name -> Version \cup {Absent}]
    /\ local \in [Name -> Version \cup {Absent, Emptied, Own}]
    /\ manifest \in {Absent, Emptied} \/ manifest \subseteq Name
    /\ changes \in 0 .. MaxChanges /\ given \in 0 .. MaxGiven /\ owned \in 0 .. MaxOwn
    /\ pc \in [Process -> Ended \cup {"list", "manifest", "fetch", "open", "write",
                                      "prune", "writeManifest"}]
    /\ listing \in [Process -> SUBSET Name] /\ previous \in [Process -> SUBSET Name]
    /\ done \in [Process -> SUBSET Name]
    /\ name \in [Process -> Name \cup {Absent}] /\ version \in [Process -> Version]
    /\ since \in [Process -> [Name -> Version \cup {Absent}]]
    /\ managed \subseteq Name /\ lost \subseteq Name /\ overlapped \in BOOLEAN
    /\ \A p \in Process :
          pc[p] \in {"prune", "writeManifest"} => done[p] = listing[p]

\* "a hand-added custom template directory was never in any manifest dvt wrote,
\* so it's never a pruning candidate" (sync_templates): whatever syncs race,
\* fail or are killed, what a user has put under a name that no sync has ever
\* listed stays as it is.
OwnIsSafe ==
    [][\A n \in Name : local[n] = Own /\ n \notin managed' => local'[n] = Own]_vars

\* After a successful sync every name it listed has a whole copy, not older
\* than the entry was when the sync was given - also after earlier ones that
\* failed half-way or were killed while they wrote.  Unless two syncs overlap.
SyncFreshens ==
    [][\A p \in Process :
          pc[p] # "synced" /\ pc'[p] = "synced" /\ ~overlapped =>
              \A n \in listing[p] :
                  /\ local[n] \in Version
                  /\ since[p][n] # Absent => local[n] >= since[p][n]]_vars

\* After a successful sync no copy is left that dvt fetched and GitHub did not
\* list - but for forgotten names: those a sync that ended early had listed for
\* the first time, and, if it ended while the manifest was emptied, all it had
\* listed, also what a successful sync had recorded.  Unless two syncs overlap.
SyncPrunes ==
    [][\A p \in Process :
          pc[p] # "synced" /\ pc'[p] = "synced" /\ ~overlapped =>
              \A n \in Name :
                  local[n] \in Version \cup {Emptied} => n \in listing[p] \cup lost]_vars
=============================================================================

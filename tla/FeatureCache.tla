----------------------------- MODULE FeatureCache -----------------------------
(***************************************************************************)
(* The cache of pulled features: pull_feature and what it calls            *)
(* (dvt/src/devtemplate/features/pull.py, features/oci.py), as used by     *)
(* `dvt up`, which pulls the features it needs and copies them into a      *)
(* build context (build.py), and by `dvt sync` (cli.py), which deletes the *)
(* cache and pulls everything again.  Several dvt processes share one      *)
(* cache directory and there are no locks.                                 *)
(*                                                                         *)
(* A feature's directory is the set of its files and the version they are  *)
(* of; a tag at the registry moves from version to version.  Extraction,   *)
(* the deletion of a tree and the copying of one go file by file; a rename *)
(* is one step.  The tries for a token and a manifest are one fetch, which *)
(* may fail; those of fetch_and_extract_layer, which leave traces, are     *)
(* counted.                                                                *)
(***************************************************************************)
EXTENDS Integers, FiniteSets

CONSTANTS
    Process,
    Ref,        \* features
    File,       \* files of a feature
    None,       \* no directory, no ref
    MaxVersion, \* bound: versions a tag moves through
    MaxGiven,   \* bound: commands
    MaxKills    \* bound: processes killed

ASSUME AbsentAssumption ==
    /\ None \notin Ref /\ None \notin 0 .. MaxVersion
    /\ None \notin [files : SUBSET File, version : 0 .. MaxVersion]
\* Every feature has its devcontainer-feature.json.
ASSUME FileAssumption == File # {}
ASSUME BoundAssumption ==
    MaxVersion \in Nat /\ MaxGiven \in Nat /\ MaxKills \in Nat

Attempts == 3 \* stop_after_attempt

VARIABLES
    tag,      \* ref -> version its tag names at the registry
    there,    \* the cache directory exists
    dest,     \* ref -> its directory in the cache, or None
    stray,    \* temporary directories that no process will touch again: the
              \* number of commands there had been when each was left
    given, kills, \* commands and kills so far
    pc,       \* process -> its next step
    cmd,      \* process -> "up" or "sync"
    needs,    \* process -> refs of its command
    wanted,   \* process -> those it has still to pull, or then to copy
    ref,      \* process -> the ref it is pulling or copying
    version,  \* process -> version of the manifest it fetched
    tries,    \* process -> attempts at the layer so far
    tmp,      \* process -> files in its temporary directory, or None
    doomed,   \* process -> refs whose directories `sync` found in the cache
    entries,  \* process -> files a copy has listed and not copied
    copied,   \* process -> <<ref, file, version>> in its build context
    since,    \* process -> history: tag when its command was given
    disturbed \* history: a `sync` ran beside another command, or was killed or
              \* failed while it deleted

cacheVars == <<there, dest, stray>>
pullVars  == <<needs, wanted, ref, version, tries, tmp>>
copyVars  == <<entries, copied>>
vars == <<tag, cacheVars, given, kills, pc, cmd, pullVars, doomed, copyVars, since,
          disturbed>>

Directory == [files : SUBSET File, version : 0 .. MaxVersion]
Ended == {"idle", "failed", "built", "synced"}
Clearing == {"clear", "delete"}

Init ==
    /\ tag = [r \in Ref |-> 0]
    /\ there = FALSE /\ stray = {}
    /\ dest = [r \in Ref |-> None]
    /\ given = 0 /\ kills = 0
    /\ pc = [p \in Process |-> "idle"]
    /\ cmd = [p \in Process |-> "up"]
    /\ needs = [p \in Process |-> {}]
    /\ wanted = [p \in Process |-> {}]
    /\ ref = [p \in Process |-> None]
    /\ version = [p \in Process |-> 0]
    /\ tries = [p \in Process |-> 0]
    /\ tmp = [p \in Process |-> None]
    /\ doomed = [p \in Process |-> {}]
    /\ entries = [p \in Process |-> {}]
    /\ copied = [p \in Process |-> {}]
    /\ since = [p \in Process |-> tag]
    /\ disturbed = FALSE

-----------------------------------------------------------------------------
Goto(p, step) == pc' = [pc EXCEPT ![p] = step]

\* Faulty forms of definitions are kept beside them: the checks replace the one
\* by the other to see that a property notices.

\* An upstream release moves the tag.
Release(r) ==
    /\ tag[r] < MaxVersion
    /\ tag' = [tag EXCEPT ![r] = @ + 1]
    /\ UNCHANGED <<cacheVars, given, kills, pc, cmd, pullVars, doomed, copyVars,
                   since, disturbed>>

Busy(q) == pc[q] \notin Ended
Disturbs(c) == \E q \in Process : Busy(q) /\ "sync" \in {c, cmd[q]}

\* Where `sync` starts: with clear_pulled_features.
NoClear == "registries"
FirstStep == "clear"

Launch(p) ==
    /\ ~Busy(p) /\ given < MaxGiven
    /\ given' = given + 1
    /\ \E c \in {"up", "sync"} :
          /\ disturbed' = (disturbed \/ Disturbs(c))
          /\ cmd' = [cmd EXCEPT ![p] = c]
          /\ \E refs \in SUBSET Ref \ {{}} :
                /\ c = "sync" => refs = Ref
                /\ needs' = [needs EXCEPT ![p] = refs]
                /\ wanted' = [wanted EXCEPT ![p] = refs]
          /\ Goto(p, IF c = "sync" THEN FirstStep ELSE "pull")
    /\ copied' = [copied EXCEPT ![p] = {}]
    /\ since' = [since EXCEPT ![p] = tag]
    /\ UNCHANGED <<tag, cacheVars, kills, ref, version, tries, tmp, doomed,
                   entries>>

-----------------------------------------------------------------------------
(* dvt sync: clear_pulled_features, the registries, then every ref.         *)

\* rmtree lists the cache directory.
Clear(p) ==
    /\ pc[p] = "clear"
    /\ doomed' = [doomed EXCEPT ![p] = {r \in Ref : dest[r] # None}]
    /\ Goto(p, IF there THEN "delete" ELSE "registries")
    /\ UNCHANGED <<tag, cacheVars, given, kills, cmd, pullVars, copyVars, since,
                   disturbed>>

DeleteFile(p) ==
    /\ pc[p] = "delete"
    /\ \E r \in doomed[p] :
          /\ dest[r] # None
          /\ \E f \in dest[r].files : dest' = [dest EXCEPT ![r].files = @ \ {f}]
    /\ UNCHANGED <<tag, there, stray, given, kills, pc, cmd, pullVars, doomed,
                   copyVars, since, disturbed>>

DeleteDirectory(p) ==
    /\ pc[p] = "delete"
    /\ \E r \in doomed[p] :
          /\ dest[r] # None => dest[r].files = {}
          /\ dest' = [dest EXCEPT ![r] = None]
          /\ doomed' = [doomed EXCEPT ![p] = @ \ {r}]
    /\ UNCHANGED <<tag, there, stray, given, kills, pc, cmd, pullVars, copyVars,
                   since, disturbed>>

\* The temporary directory of another process goes too, used or not.
DeleteTemporary(p) ==
    /\ pc[p] = "delete"
    /\ \E q \in Process : tmp[q] # None /\ tmp' = [tmp EXCEPT ![q] = None]
    /\ UNCHANGED <<tag, cacheVars, given, kills, pc, cmd, needs, wanted, ref,
                   version, tries,
                   doomed, copyVars, since, disturbed>>

\* The rmdir at the end; it raises, and ends the command, if anything has been
\* put there meanwhile or the directory is gone.
DeleteCache(p) ==
    /\ pc[p] = "delete" /\ doomed[p] = {}
    /\ IF there /\ \A r \in Ref, q \in Process : dest[r] = None /\ tmp[q] = None
       THEN there' = FALSE /\ stray' = {} /\ Goto(p, "registries")
       ELSE Goto(p, "failed") /\ UNCHANGED <<there, stray>>
    /\ UNCHANGED <<tag, dest, given, kills, cmd, pullVars, doomed, copyVars,
                   since, disturbed>>

\* Another process took away, or put back, what rmtree had listed, or the system
\* refuses.
DeleteRaises(p) ==
    /\ pc[p] = "delete"
    /\ disturbed' = TRUE
    /\ Goto(p, "failed")
    /\ UNCHANGED <<tag, cacheVars, given, kills, cmd, pullVars, doomed, copyVars,
                   since>>

\* sync_templates and sync_images, a failure of which ends the command.
Registries(p) ==
    /\ pc[p] = "registries"
    /\ \/ Goto(p, "pull")
       \/ Goto(p, "failed")
    /\ UNCHANGED <<tag, cacheVars, given, kills, cmd, pullVars, doomed, copyVars,
                   since, disturbed>>

-----------------------------------------------------------------------------
(* pull_feature.                                                            *)

\* What follows a pull that succeeded (with r out of the way) or failed.
Pulled(p) ==
    /\ wanted' = [wanted EXCEPT ![p] = @ \ {ref[p]}]
    /\ Goto(p, "pull")
Failed(p) ==
    IF cmd[p] = "sync" THEN Pulled(p) ELSE Goto(p, "failed") /\ UNCHANGED wanted

Lookup(p) ==
    /\ pc[p] = "pull"
    /\ \E r \in wanted[p] :
          /\ ref' = [ref EXCEPT ![p] = r]
          /\ IF dest[r] # None
             THEN wanted' = [wanted EXCEPT ![p] = @ \ {r}] /\ UNCHANGED pc
             ELSE Goto(p, "fetch") /\ UNCHANGED wanted
    /\ UNCHANGED <<tag, cacheVars, given, kills, cmd, needs, version, tries, tmp,
                   doomed, copyVars, since, disturbed>>

\* get_token, fetch_manifest, first_layer_digest: the digest fixes the version.
Fetch(p) ==
    /\ pc[p] = "fetch"
    /\ \/ /\ version' = [version EXCEPT ![p] = tag[ref[p]]]
          /\ tries' = [tries EXCEPT ![p] = 0]
          /\ Goto(p, "download") /\ UNCHANGED wanted
       \/ Failed(p) /\ UNCHANGED <<version, tries>>
    /\ UNCHANGED <<tag, cacheVars, given, kills, cmd, needs, ref, tmp, doomed,
                   copyVars, since, disturbed>>

\* An attempt at fetch_and_extract_layer fails.
TryOnceMore(p) ==
    /\ tries' = [tries EXCEPT ![p] = @ + 1]
    /\ IF tries[p] < Attempts THEN Goto(p, "download") /\ UNCHANGED wanted
       ELSE Failed(p)
TryAgain(p) ==
    /\ tries' = [tries EXCEPT ![p] = @ + 1]
    /\ IF tries[p] + 1 < Attempts THEN Goto(p, "download") /\ UNCHANGED wanted
       ELSE Failed(p)

\* The blob, then mkdir and mkdtemp, any of which may fail.
Download(p) ==
    /\ pc[p] = "download"
    /\ \/ /\ there' = TRUE
          /\ tmp' = [tmp EXCEPT ![p] = {}]
          /\ Goto(p, "extract") /\ UNCHANGED <<wanted, tries>>
       \/ TryAgain(p) /\ (there' = TRUE \/ UNCHANGED there) /\ UNCHANGED tmp
    /\ UNCHANGED <<tag, dest, stray, given, kills, cmd, needs, ref, version,
                   doomed, copyVars, since, disturbed>>

Begun(p) == tmp[p] # {}
Extracted(p) == tmp[p] = File

ExtractFile(p) ==
    /\ pc[p] = "extract" /\ tmp[p] # None
    /\ \E f \in File \ tmp[p] : tmp' = [tmp EXCEPT ![p] = @ \cup {f}]
    /\ UNCHANGED <<tag, cacheVars, given, kills, pc, cmd, needs, wanted, ref,
                   version, tries,
                   doomed, copyVars, since, disturbed>>

\* The temporary directory, if there still is one, is left where it is.
LeaveTemporary(p) ==
    /\ stray' = IF tmp[p] = None THEN stray ELSE stray \cup {given}
    /\ tmp' = [tmp EXCEPT ![p] = None]

\* A bad archive, a full disk, or the directory is gone.  rmtree removes it, or
\* part of it: its errors are ignored.
ExtractFails(p) ==
    /\ pc[p] = "extract"
    /\ \/ LeaveTemporary(p)
       \/ tmp' = [tmp EXCEPT ![p] = None] /\ UNCHANGED stray
    /\ TryAgain(p)
    /\ UNCHANGED <<tag, there, dest, given, kills, cmd, needs, ref, version,
                   doomed, copyVars, since, disturbed>>

\* rename(2) replaces an empty directory but no other.
NeverOccupied(r) == FALSE
Occupied(r) == dest[r] # None /\ dest[r].files # {}

Rename(p) ==
    /\ pc[p] = "extract" /\ tmp[p] # None /\ Extracted(p)
    /\ ~Occupied(ref[p])
    /\ dest' = [dest EXCEPT ![ref[p]] = [files |-> tmp[p], version |-> version[p]]]
    /\ tmp' = [tmp EXCEPT ![p] = None]
    /\ Pulled(p)
    /\ UNCHANGED <<tag, there, stray, given, kills, cmd, needs, ref, version,
                   tries, doomed, copyVars, since, disturbed>>

\* Another process was faster, or the system refuses: outside the try block, so
\* that the temporary directory stays.
RenameFails(p) ==
    /\ pc[p] = "extract" /\ tmp[p] # None /\ Extracted(p)
    /\ LeaveTemporary(p)
    /\ TryAgain(p)
    /\ UNCHANGED <<tag, there, dest, given, kills, cmd, needs, ref, version,
                   doomed, copyVars, since, disturbed>>

\* All refs are done: `sync` ends, `up` goes on to build_image.
AllPulled(p) ==
    /\ pc[p] = "pull" /\ wanted[p] = {}
    /\ IF cmd[p] = "sync" THEN Goto(p, "synced") /\ UNCHANGED wanted
       ELSE Goto(p, "build") /\ wanted' = [wanted EXCEPT ![p] = needs[p]]
    /\ UNCHANGED <<tag, cacheVars, given, kills, cmd, needs, ref, version, tries,
                   tmp,
                   doomed, copyVars, since, disturbed>>

-----------------------------------------------------------------------------
(* build_image: copytree of each feature, then the engine builds.           *)

\* copytree lists a directory before it copies.
ListFeature(p) ==
    /\ pc[p] = "build" /\ entries[p] = {}
    /\ \E r \in wanted[p] :
          /\ ref' = [ref EXCEPT ![p] = r]
          /\ wanted' = [wanted EXCEPT ![p] = @ \ {r}]
          /\ IF dest[r] = None
             THEN Goto(p, "failed") /\ UNCHANGED entries
             ELSE entries' = [entries EXCEPT ![p] = dest[r].files] /\ UNCHANGED pc
    /\ UNCHANGED <<tag, cacheVars, given, kills, cmd, needs, version, tries, tmp,
                   doomed, copied, since, disturbed>>

CopyFile(p) ==
    /\ pc[p] = "build"
    /\ \E f \in entries[p] :
          IF dest[ref[p]] # None /\ f \in dest[ref[p]].files
          THEN /\ entries' = [entries EXCEPT ![p] = @ \ {f}]
               /\ copied' = [copied EXCEPT ![p] =
                                 @ \cup {<<ref[p], f, dest[ref[p]].version>>}]
               /\ UNCHANGED pc
          ELSE Goto(p, "failed") /\ entries' = [entries EXCEPT ![p] = {}]
               /\ UNCHANGED copied
    /\ UNCHANGED <<tag, cacheVars, given, kills, cmd, pullVars, doomed, since,
                   disturbed>>

\* The engine builds, or fails to.
Build(p) ==
    /\ pc[p] = "build" /\ wanted[p] = {} /\ entries[p] = {}
    /\ \/ Goto(p, "built")
       \/ Goto(p, "failed")
    /\ UNCHANGED <<tag, cacheVars, given, kills, cmd, pullVars, doomed, copyVars,
                   since, disturbed>>

-----------------------------------------------------------------------------
Kill(p) ==
    /\ Busy(p) /\ kills < MaxKills
    /\ disturbed' = (disturbed \/ pc[p] \in Clearing)
    /\ kills' = kills + 1
    /\ Goto(p, "idle")
    /\ LeaveTemporary(p)
    /\ entries' = [entries EXCEPT ![p] = {}]
    /\ UNCHANGED <<tag, there, dest, given, cmd, needs, wanted, ref, version, tries,
                   doomed, copied, since>>

PullStep(p) ==
    \/ Lookup(p) \/ Fetch(p) \/ Download(p)
    \/ ExtractFile(p) \/ ExtractFails(p) \/ Rename(p) \/ RenameFails(p)
    \/ AllPulled(p)

SyncStep(p) ==
    \/ Clear(p) \/ DeleteFile(p) \/ DeleteDirectory(p) \/ DeleteTemporary(p)
    \/ DeleteCache(p) \/ DeleteRaises(p) \/ Registries(p)

BuildStep(p) == ListFeature(p) \/ CopyFile(p) \/ Build(p)

Next ==
    \/ \E p \in Process :
          Launch(p) \/ SyncStep(p) \/ PullStep(p) \/ BuildStep(p) \/ Kill(p)
    \/ \E r \in Ref : Release(r)

Spec == Init /\ [][Next]_vars

-----------------------------------------------------------------------------
\* The values the variables take.
TypeOK ==
    /\ tag \in [Ref -> 0 .. MaxVersion]
    /\ there \in BOOLEAN /\ stray \subseteq 0 .. MaxGiven
    /\ dest \in [Ref -> Directory \cup {None}]
    /\ given \in 0 .. MaxGiven /\ kills \in 0 .. MaxKills
    /\ pc \in [Process -> Ended \cup Clearing \cup
                          {"registries", "pull", "fetch", "download", "extract", "build"}]
    /\ cmd \in [Process -> {"up", "sync"}]
    /\ needs \in [Process -> SUBSET Ref] /\ wanted \in [Process -> SUBSET Ref]
    /\ ref \in [Process -> Ref \cup {None}]
    /\ version \in [Process -> 0 .. MaxVersion]
    /\ tries \in [Process -> 0 .. Attempts]
    /\ tmp \in [Process -> (SUBSET File) \cup {None}]
    /\ doomed \in [Process -> SUBSET Ref]
    /\ entries \in [Process -> SUBSET File]
    /\ copied \in [Process -> SUBSET (Ref \X File \X (0 .. MaxVersion))]
    /\ disturbed \in BOOLEAN
    /\ since \in [Process -> [Ref -> 0 .. MaxVersion]]
    /\ ~there => \A r \in Ref, p \in Process : dest[r] = None /\ tmp[p] = None

\* "A later call for the same ref can't mistake a poisoned partial extraction
\* for a valid cache hit" (oci.py): what pull_feature takes for a hit is a whole
\* feature, whatever pulls were killed, failed or raced.  While no `sync` has
\* been disturbed.  It does not speak of load_cached_specs, which reads every
\* directory of the cache, temporary ones that were left included.
HitIsWhole ==
    ~disturbed /\ (\A p \in Process : pc[p] \notin Clearing) =>
        \A r \in Ref : dest[r] # None => dest[r].files = File

\* An image is built from all files of each feature it needs, and from one
\* version of each, although the copy is made file by file while other
\* processes pull.  While no `sync` has been disturbed.
BuildIsWhole ==
    \A p \in Process : pc[p] = "built" /\ ~disturbed =>
        \A r \in needs[p] : \E v \in 0 .. MaxVersion :
            {c \in copied[p] : c[1] = r} = {r} \X File \X {v}

\* When `sync` has succeeded no feature is older than what its tag named when
\* the command was given, and the temporary directories that earlier commands
\* left are gone: what remains, if anything, failed pulls of its own have left.
\* While no `sync` has been disturbed.
SyncRefreshes ==
    [][\A p \in Process :
          pc[p] # "synced" /\ pc'[p] = "synced" /\ ~disturbed =>
              /\ \A r \in Ref : dest[r] # None => dest[r].version >= since[p][r]
              /\ stray \subseteq {given}]_vars

-----------------------------------------------------------------------------
\* What WholeFeatures sees: whole directories, and what ended commands built.
cacheSeen ==
    [r \in Ref |-> IF disturbed \/ dest[r] = None \/ dest[r].files # File
                   THEN None ELSE dest[r].version]

imageSeen ==
    [p \in Process |-> IF ~disturbed /\ pc[p] = "built" THEN copied[p] ELSE {}]

Whole == INSTANCE WholeFeatures WITH
            cache <- cacheSeen, image <- imageSeen, spoiled <- disturbed

\* Though files are extracted, deleted and copied one by one and no lock is
\* held, features come and go whole and an image is made of the cache as it is
\* at one moment: that of WholeFeatures.
ImplementsWholeFeatures == Whole!Spec
=============================================================================

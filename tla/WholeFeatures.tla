---------------------------- MODULE WholeFeatures ----------------------------
(***************************************************************************)
(* What `dvt` promises about the cache of pulled features and the images   *)
(* built from it, without saying how a feature gets there or into a build  *)
(* context: features come and go whole, and an image has all files of the  *)
(* features its command needs, as the cache holds them at one moment.      *)
(* That is so until a `sync` is disturbed, by a command beside it or by    *)
(* its own end while it clears the cache; nothing is promised then.        *)
(* FeatureCache, where files are extracted, deleted and copied one by one  *)
(* by several processes without locks, implements this module.             *)
(***************************************************************************)
EXTENDS Integers

CONSTANTS Process, Ref, File, None

VARIABLES tag,     \* feature -> the version published last
          cache,   \* feature -> the version the cache holds, or None
          needs,   \* process -> features its command needs
          image,   \* process -> what its command has built: <<feature, file, version>>
          spoiled  \* a `sync` has been disturbed

wholeVars == <<tag, cache, needs, image, spoiled>>

Nothing == [r \in Ref |-> None]
NoImages == [p \in Process |-> {}]

Init ==
    /\ tag = [r \in Ref |-> 0]
    /\ cache = Nothing
    /\ needs \in [Process -> SUBSET Ref]
    /\ image = NoImages
    /\ spoiled = FALSE

Release(r) ==
    /\ tag' = [tag EXCEPT ![r] = @ + 1]
    /\ UNCHANGED <<cache, needs, image, spoiled>>

\* A command is given.
Ask(p) ==
    /\ \E refs \in SUBSET Ref : needs' = [needs EXCEPT ![p] = refs]
    /\ image' = [image EXCEPT ![p] = {}]
    /\ UNCHANGED <<tag, cache, spoiled>>

\* A feature appears in the cache, in a version its tag has or had.
Publish(r) ==
    /\ ~spoiled
    /\ cache[r] = None
    /\ \E v \in 0 .. tag[r] : cache' = [cache EXCEPT ![r] = v]
    /\ UNCHANGED <<tag, needs, image, spoiled>>

Drop(r) ==
    /\ cache' = [cache EXCEPT ![r] = None]
    /\ UNCHANGED <<tag, needs, image, spoiled>>

\* An image is built, from the cache as it is now.
Build(p) ==
    /\ ~spoiled
    /\ \A r \in needs[p] : cache[r] # None
    /\ image' = [image EXCEPT ![p] = {<<r, f, cache[r]>> : r \in needs[p], f \in File}]
    /\ UNCHANGED <<tag, cache, needs, spoiled>>

Spoil ==
    /\ spoiled' = TRUE
    /\ cache' = Nothing /\ image' = NoImages
    /\ needs' \in [Process -> SUBSET Ref]
    /\ UNCHANGED tag

Next ==
    \/ \E r \in Ref : Release(r) \/ Publish(r) \/ Drop(r)
    \/ \E p \in Process : Ask(p) \/ Build(p)
    \/ Spoil

Spec == Init /\ [][Next]_wholeVars
=============================================================================

---------------------------- MODULE InstallOrder ----------------------------
(***************************************************************************)
(* What `dvt` promises about the order in which devcontainer features are  *)
(* installed, without saying how the order is found: once the set of       *)
(* features and the features each one must follow are fixed, a feature is  *)
(* installed only after everything it must follow, and the installation is *)
(* refused only if some features wait for one another.                     *)
(* FeatureGraph, the model of feature_graph.py, implements this module.    *)
(***************************************************************************)
EXTENDS Functions, Sequences

CONSTANT Feature

VARIABLES needs,      \* chosen feature -> the chosen features it must follow
          installed,  \* the features installed so far, in order
          outcome

orderVars == <<needs, installed, outcome>>

Init ==
    /\ needs = [f \in {} |-> {}]
    /\ installed = <<>>
    /\ outcome = "open"

\* The chosen features and their requirements become known, once and for all.
Fix ==
    /\ outcome = "open"
    /\ \E S \in SUBSET Feature : needs' \in [S -> SUBSET S]
    /\ \A f \in DOMAIN needs' : f \notin needs'[f]
    /\ outcome' = "fixed"
    /\ UNCHANGED installed

\* Some feature could not be fetched or read.
Fail ==
    /\ outcome = "open"
    /\ outcome' = "failed"
    /\ UNCHANGED <<needs, installed>>

Install(f) ==
    /\ outcome = "fixed"
    /\ f \in DOMAIN needs \ Range(installed)
    /\ needs[f] \subseteq Range(installed)
    /\ installed' = Append(installed, f)
    /\ UNCHANGED <<needs, outcome>>

Complete ==
    /\ outcome = "fixed"
    /\ Range(installed) = DOMAIN needs
    /\ outcome' = "complete"
    /\ UNCHANGED <<needs, installed>>

\* Refusing is allowed only when some of the features that are still missing
\* each wait for another one of them.
Refuse ==
    /\ outcome = "fixed"
    /\ \E K \in SUBSET (DOMAIN needs \ Range(installed)) :
          K # {} /\ \A f \in K : needs[f] \cap K # {}
    /\ outcome' = "refused"
    /\ UNCHANGED <<needs, installed>>

Next ==
    \/ Fix
    \/ Fail
    \/ \E f \in Feature : Install(f)
    \/ Complete
    \/ Refuse

Spec == Init /\ [][Next]_orderVars
=============================================================================

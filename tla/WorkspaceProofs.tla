---------------------------- MODULE WorkspaceProofs ----------------------------
(***************************************************************************)
(* Workspace's type invariant and its two properties of concurrent         *)
(* commands, for every number of processes, commands, names and folders    *)
(* and whatever users edit meanwhile.                                      *)
(*                                                                         *)
(* OnlyOwnersDestroy and StartsWhatItChecked are about single steps that   *)
(* act on a container by its id, on the strength of labels read earlier.   *)
(* What makes them hold is Inv: a command that is about to act has made    *)
(* its checks on the snapshot it holds (PlaceInv), ids are never used      *)
(* again (IdInv), and so a container that still has the snapshot's id has  *)
(* the snapshot's labels (SnapshotInv).                                    *)
(***************************************************************************)
EXTENDS Workspace, TLAPS

\* What a command has established before the step it is about to take.
Place(p) ==
    /\ pc[p] \in Step => cmd[p] \in Command
    /\ pc[p] \in Step \ {"resolve"} => target[p] \in Name
    /\ pc[p] \in {"resolve", "fallback", "find"} => existing[p] = None
    /\ pc[p] \in {"drift", "resume"} => existing[p] # None
    /\ pc[p] = "load" /\ existing[p] # None =>
          cmd[p].op = "rebuild" /\ existing[p].folder = Home(p)
    /\ pc[p] \in {"teardown", "build"} => config[p] \in Config \ Refused
    /\ pc[p] = "teardown" =>
          /\ existing[p] # None
          /\ cmd[p].op = "rebuild" /\ existing[p].folder = Home(p)
    /\ pc[p] = "remove" => cmd[p].op = "delete"

PlaceInv == \A p \in Process : Place(p)

\* No container has an id that is still to be given.
IdInv ==
    /\ \A n \in Name : box[n] # None => box[n].id <= created
    /\ \A p \in Process : existing[p] # None => existing[p].id <= created

\* Two states of one container: dvt never changes what it was made with.
SameContainer(b, c) ==
    c.id = b.id /\ c.folder = b.folder /\ c.config = b.config /\ c.image = b.image

SnapshotInv ==
    \A p \in Process :
        /\ target[p] \in Name /\ box[target[p]] # None /\ existing[p] # None
        /\ box[target[p]].id = existing[p].id
        => SameContainer(existing[p], box[target[p]])

Inv == TypeOK /\ PlaceInv /\ IdInv /\ SnapshotInv

-----------------------------------------------------------------------------
LEMMA InitInv == Init => Inv
<1>. SUFFICES ASSUME Init PROVE Inv
  OBVIOUS
<1>1. Foreign \in Container /\ Built \subseteq Container
  BY DEF Foreign, Built, Container
<1>2. box \in [Name -> Container \cup {None}]
  BY <1>1 DEF Init
<1>3. image \in [Name -> Config \cup {None}]
  <2>. SUFFICES ASSUME NEW n \in Name, box[n] \in Built
                PROVE box[n].image \in Config
    BY DEF Init
  <2>. QED
    BY DEF Built
<1>4. ssh \in (SUBSET Name) \cup {NoFile}
  BY DEF Init
<1>5. \A p \in Process : pc[p] = "idle" /\ pc[p] \notin Step /\ existing[p] = None
  BY DEF Init, Step
<1>6. TypeOK
  <2>1. pc \in [Process -> Step \cup Ended]
    BY DEF Init, Ended
  <2>2. created \in Nat /\ launched \in 0 .. MaxCommands
    BY BoundAssumption DEF Init
  <2>4. overlapped \in BOOLEAN
    BY DEF Init
  <2>3. /\ disk \in [Folder -> Config \cup {NoConfig}]
        /\ cmd \in [Process -> Command \cup {None}]
        /\ target \in [Process -> Name \cup {NoName}]
        /\ existing \in [Process -> Container \cup {None}]
        /\ config \in [Process -> Config \cup {NoConfig}]
        /\ kept \in [Process -> SUBSET Name]
    BY DEF Init
  <2>. QED
    BY <1>2, <1>3, <1>4, <2>1, <2>2, <2>3, <2>4 DEF TypeOK
<1>7. PlaceInv
  BY <1>5 DEF PlaceInv, Place
<1>8. IdInv
  <2>. SUFFICES ASSUME NEW n \in Name, box[n] # None PROVE box[n].id <= created
    BY <1>5 DEF IdInv
  <2>1. box[n] = Foreign \/ box[n] \in Built
    BY DEF Init
  <2>2. box[n].id = 0
    BY <2>1 DEF Foreign, Built
  <2>. QED
    BY <2>2 DEF Init
<1>9. SnapshotInv
  BY <1>5 DEF SnapshotInv
<1>. QED
  BY <1>6, <1>7, <1>8, <1>9 DEF Inv

-----------------------------------------------------------------------------
(* What a step does to the containers, and what a process learns of them.    *)

Marks(p) ==
    /\ target[p] \in Name /\ box[target[p]] # None /\ created' = created
    /\ \E c \in Container :
          /\ SameContainer(box[target[p]], c)
          /\ box' = [box EXCEPT ![target[p]] = c]

Destroys(p) ==
    /\ target[p] \in Name /\ box[target[p]] # None /\ created' = created
    /\ box' = [box EXCEPT ![target[p]] = None]
    /\ Removes(p, target[p])

Creates(p) ==
    /\ target[p] \in Name /\ box[target[p]] = None /\ created' = created + 1
    /\ \E c \in Container :
          /\ c.id = created + 1
          /\ box' = [box EXCEPT ![target[p]] = c]
          /\ existing' = [existing EXCEPT ![p] = c]

\* The one container a process knows is kept, forgotten, found or created.
Knows(p) ==
    \/ existing' = existing /\ (target' = target \/ existing[p] = None)
    \/ existing' = [existing EXCEPT ![p] = None]
    \/ /\ existing' = [existing EXCEPT ![p] = box[target[p]]] /\ target' = target
       /\ box' = box /\ created' = created /\ target[p] \in Name
    \/ Creates(p) /\ target' = target

OthersKeepTarget(p) == \A q \in Process \ {p} : target'[q] = target[q]

LEMMA AliveIsTheOne ==
    ASSUME TypeOK, PlaceInv, SnapshotInv, NEW p \in Process,
           pc[p] \in Step \ {"resolve"}, existing[p] # None, Alive(p)
    PROVE  /\ target[p] \in Name /\ box[target[p]] \in Container
           /\ SameContainer(existing[p], box[target[p]])
  BY DEF TypeOK, PlaceInv, Place, SnapshotInv, Alive

LEMMA MarkedIsTheSame ==
    ASSUME NEW b \in Container, NEW r \in BOOLEAN, NEW d \in BOOLEAN
    PROVE  /\ [b EXCEPT !.running = r] \in Container
           /\ SameContainer(b, [b EXCEPT !.running = r])
           /\ [b EXCEPT !.ready = d] \in Container
           /\ SameContainer(b, [b EXCEPT !.ready = d])
           /\ [b EXCEPT !.running = r, !.ready = d] \in Container
           /\ SameContainer(b, [b EXCEPT !.running = r, !.ready = d])
  BY DEF Container, SameContainer


\* Every step of a command leaves the containers alone or marks, destroys or
\* creates the one of its target, and it does so to the one it knows.
LEMMA StepOnContainers ==
    ASSUME Inv, NEW p \in Process, Proceed(p)
    PROVE  /\ \/ box' = box /\ created' = created
              \/ Marks(p) \/ Destroys(p) \/ Creates(p)
           /\ Knows(p) /\ OthersKeepTarget(p)
<1>. USE DEF Inv, TypeOK
<1>1. CASE Resolve(p)
  <2>1. existing[p] = None
    BY <1>1 DEF Resolve, PlaceInv, Place
  <2>. QED
    BY <1>1, <2>1 DEF Resolve, Knows, OthersKeepTarget, engineVars
<1>2. CASE Fallback(p)
  BY <1>2 DEF Fallback, Knows, OthersKeepTarget, engineVars, localVars
<1>3. CASE Find(p)
  BY <1>3 DEF Find, Knows, OthersKeepTarget, engineVars, PlaceInv, Place, Step
<1>4. CASE CheckDrift(p)
  BY <1>4 DEF CheckDrift, Knows, OthersKeepTarget, engineVars, localVars
<1>5. CASE Resume(p)
  <2>1. Knows(p) /\ OthersKeepTarget(p) /\ created' = created
    BY <1>5 DEF Resume, Knows, OthersKeepTarget, localVars
  <2>2. ASSUME Alive(p), box' = [box EXCEPT ![target[p]].running = TRUE]
        PROVE  Marks(p)
    <3>1. existing[p] # None /\ pc[p] \in Step \ {"resolve"}
      BY <1>5 DEF Resume, PlaceInv, Place, Step
    <3>. QED
      BY <2>1, <2>2, <3>1, AliveIsTheOne, MarkedIsTheSame DEF Marks, Alive
  <2>. QED
    BY <1>5, <2>1, <2>2 DEF Resume
<1>6. CASE Load(p)
  BY <1>6 DEF Load, Knows, OthersKeepTarget, engineVars
<1>7. CASE Teardown(p)
  <2>1. Knows(p) /\ OthersKeepTarget(p) /\ created' = created
    BY <1>7 DEF Teardown, Knows, OthersKeepTarget, localVars
  <2>2. CASE Alive(p)
    <3>1. /\ pc[p] \in Step \ {"resolve"} /\ existing[p] # None
          /\ cmd[p].op = "rebuild" /\ existing[p].folder = Home(p)
          /\ config[p] \in Config \ Refused
      BY <1>7 DEF Teardown, PlaceInv, Place, Step
    <3>2. pc'[p] # pc[p]
      BY <1>7, <2>2 DEF Teardown, Goto
    <3>3. SameContainer(existing[p], box[target[p]]) /\ target[p] \in Name
      BY <2>2, <3>1, AliveIsTheOne
    <3>4. Removes(p, target[p])
      BY <3>1, <3>2, <3>3 DEF Removes, SameContainer
    <3>. QED
      BY <1>7, <2>1, <2>2, <3>3, <3>4 DEF Teardown, Destroys, Alive
  <2>. QED
    BY <1>7, <2>1, <2>2 DEF Teardown
<1>8. CASE Build(p)
  BY <1>8 DEF Build, Knows, OthersKeepTarget, localVars
<1>9. CASE Create(p)
  <2>1. target[p] \in Name
    BY <1>9 DEF Create, PlaceInv, Place, Step
  <2>2. target' = target
    BY <1>9 DEF Create
  <2>3. CASE Creates(p)
    BY <2>2, <2>3 DEF Knows, OthersKeepTarget
  <2>4. CASE UNCHANGED <<box, created, existing>>
    BY <2>2, <2>4 DEF Knows, OthersKeepTarget
  <2>5. ASSUME ~UNCHANGED <<box, created, existing>> PROVE Creates(p)
    <3>. DEFINE new == [id |-> created + 1, folder |-> Home(p),
                        config |-> Labelled(p), image |-> image[target[p]],
                        running |-> FALSE, ready |-> FALSE]
    <3>1. /\ image[target[p]] # None /\ box[target[p]] = None
          /\ created' = created + 1
          /\ box' = [box EXCEPT ![target[p]] = new]
          /\ existing' = [existing EXCEPT ![p] = new]
      BY <1>9, <2>5 DEF Create
    <3>2. Home(p) \in Folder
      BY <1>9, CommandAssumption DEF Create, PlaceInv, Place, Step, Home
    <3>3. new \in Container
      BY <2>1, <3>1, <3>2 DEF Container, Labelled
    <3>. QED
      BY <2>1, <3>1, <3>3 DEF Creates
  <2>. QED
    BY <2>3, <2>4, <2>5
<1>10. CASE Start(p)
  <2>1. Knows(p) /\ OthersKeepTarget(p) /\ created' = created
    BY <1>10 DEF Start, Knows, OthersKeepTarget, localVars
  <2>2. CASE Alive(p)
    <3>1. target[p] \in Name /\ box[target[p]] # None
      BY <1>10, <2>2 DEF Start, PlaceInv, Place, Step, Alive
    <3>. QED
      BY <1>10, <2>1, <2>2, <3>1, MarkedIsTheSame DEF Start, Marks
  <2>. QED
    BY <1>10, <2>1, <2>2 DEF Start
<1>11. CASE Lifecycle(p)
  <2>1. Knows(p) /\ OthersKeepTarget(p) /\ created' = created
    BY <1>11 DEF Lifecycle, Knows, OthersKeepTarget, localVars
  <2>2. CASE Alive(p) /\ box[target[p]].running
    <3>1. target[p] \in Name /\ box[target[p]] # None
      BY <1>11, <2>2 DEF Lifecycle, PlaceInv, Place, Step, Alive
    <3>. QED
      BY <1>11, <2>1, <2>2, <3>1, MarkedIsTheSame DEF Lifecycle, Marks
  <2>. QED
    BY <1>11, <2>1, <2>2 DEF Lifecycle
<1>12. CASE Stop(p)
  <2>1. Knows(p) /\ OthersKeepTarget(p) /\ created' = created
    BY <1>12 DEF Stop, Knows, OthersKeepTarget, localVars
  <2>2. CASE Alive(p)
    <3>1. target[p] \in Name /\ box[target[p]] # None
      BY <1>12, <2>2 DEF Stop, PlaceInv, Place, Step, Alive
    <3>. QED
      BY <1>12, <2>1, <2>2, <3>1, MarkedIsTheSame DEF Stop, Marks
  <2>. QED
    BY <1>12, <2>1, <2>2 DEF Stop
<1>13. CASE Remove(p)
  <2>1. Knows(p) /\ OthersKeepTarget(p) /\ created' = created
    BY <1>13 DEF Remove, Knows, OthersKeepTarget, localVars
  <2>2. CASE Alive(p)
    <3>1. target[p] \in Name /\ cmd[p].op = "delete" /\ pc[p] \in Step
      BY <1>13 DEF Remove, PlaceInv, Place, Step
    <3>2. pc'[p] # pc[p]
      BY <1>13, <2>2 DEF Remove, Goto
    <3>. QED
      BY <1>13, <2>1, <2>2, <3>1, <3>2 DEF Remove, Destroys, Alive, Removes
  <2>. QED
    BY <1>13, <2>1, <2>2 DEF Remove
<1>14. CASE SshRead(p) \/ SshRewrite(p) \/ SshAppend(p) \/ EngineFails(p)
  BY <1>14 DEF SshRead, SshRewrite, SshAppend, EngineFails, Knows,
               OthersKeepTarget, engineVars, localVars
<1>. QED
  BY <1>1, <1>2, <1>3, <1>4, <1>5, <1>6, <1>7, <1>8, <1>9, <1>10, <1>11,
     <1>12, <1>13, <1>14 DEF Proceed


-----------------------------------------------------------------------------
(* The invariant is kept.                                                    *)

LEMMA TypesOfContainers ==
    ASSUME Inv, NEW p \in Process, Proceed(p)
    PROVE  /\ box' \in [Name -> Container \cup {None}] /\ created' \in Nat
           /\ existing' \in [Process -> Container \cup {None}]
<1>1. /\ \/ box' = box /\ created' = created
         \/ Marks(p) \/ Destroys(p) \/ Creates(p)
      /\ Knows(p)
  BY StepOnContainers
<1>2. box' \in [Name -> Container \cup {None}] /\ created' \in Nat
  BY <1>1 DEF Inv, TypeOK, Marks, Destroys, Creates
<1>3. existing' \in [Process -> Container \cup {None}]
  BY <1>1 DEF Inv, TypeOK, Knows, Creates
<1>. QED
  BY <1>2, <1>3

LEMMA TypesOfProceeding ==
    ASSUME Inv, NEW p \in Process, Proceed(p)
    PROVE  TypeOK'
<1>. USE DEF Inv, TypeOK
<1>1. /\ box' \in [Name -> Container \cup {None}] /\ created' \in Nat
      /\ existing' \in [Process -> Container \cup {None}]
  BY TypesOfContainers
<1>2. /\ disk' = disk /\ launched' = launched /\ cmd' = cmd
      /\ overlapped' = overlapped
  BY DEF Proceed, Resolve, Fallback, Find, CheckDrift, Resume, Load, Teardown,
         Build, Create, Start, Lifecycle, Stop, Remove, SshRead, SshRewrite,
         SshAppend, EngineFails, history, localVars
<1>3. pc' \in [Process -> Step \cup Ended]
  <2>1. \E step \in Step \cup Ended : Goto(p, step)
    <3>1. CASE Find(p)
      <4>1. cmd[p].op \in Operation
        BY <3>1, CommandAssumption DEF Find, PlaceInv, Place, Step
      <4>2. AfterFind(p, box[target[p]]) \in Step \cup Ended
        BY <4>1 DEF AfterFind, Operation, Step, Ended
      <4>. QED
        BY <3>1, <4>2 DEF Find
    <3>2. CASE SshRead(p) \/ SshRewrite(p) \/ SshAppend(p)
      BY <3>2 DEF SshRead, AfterClean, SshRewrite, SshAppend, Step, Ended
    <3>3. CASE Resolve(p) \/ Fallback(p) \/ CheckDrift(p) \/ Resume(p) \/ Load(p)
      BY <3>3 DEF Resolve, Fallback, CheckDrift, Resume, Load, Step, Ended
    <3>4. CASE ~Find(p) /\ ~SshRead(p) /\ ~SshRewrite(p) /\ ~SshAppend(p)
               /\ ~(Resolve(p) \/ Fallback(p) \/ CheckDrift(p) \/ Resume(p) \/ Load(p))
      BY <3>4 DEF Proceed, Teardown, Build, Create, Start, Lifecycle, Stop,
                  Remove, EngineFails, Step, Ended
    <3>. QED
      BY <3>1, <3>2, <3>3, <3>4
  <2>. QED
    BY <2>1 DEF Goto
<1>4. image' \in [Name -> Config \cup {None}]
  <2>1. CASE Teardown(p)
    <3>1. target[p] \in Name
      BY <2>1 DEF Teardown, PlaceInv, Place, Step
    <3>. QED
      BY <2>1, <3>1 DEF Teardown
  <2>2. CASE Build(p)
    <3>1. config[p] \in Config
      BY <2>2 DEF Build, PlaceInv, Place
    <3>. QED
      BY <2>2, <3>1 DEF Build
  <2>3. CASE ~Teardown(p) /\ ~Build(p)
    BY <2>3 DEF Proceed, Resolve, Fallback, Find, CheckDrift, Resume, Load,
         Create, Start, Lifecycle, Stop, Remove, SshRead, SshRewrite,
         SshAppend, EngineFails, engineVars
  <2>. QED
    BY <2>1, <2>2, <2>3
<1>5. target' \in [Process -> Name \cup {NoName}]
  <2>1. CASE Resolve(p)
    <3>1. Home(p) \in Folder
      BY <2>1, CommandAssumption DEF Resolve, PlaceInv, Place, Step, Home
    <3>. QED
      BY <2>1, <3>1, DirectoryAssumption DEF Resolve, NamesOf
  <2>2. CASE ~Resolve(p)
    BY <2>2 DEF Proceed, Fallback, Find, CheckDrift, Resume, Load, Teardown,
         Build, Create, Start, Lifecycle, Stop, Remove, SshRead, SshRewrite,
         SshAppend, EngineFails, localVars
  <2>. QED
    BY <2>1, <2>2
<1>6. config' \in [Process -> Config \cup {NoConfig}]
  <2>1. CASE Load(p)
    <3>1. Home(p) \in Folder
      BY <2>1, CommandAssumption DEF Load, PlaceInv, Place, Step, Home
    <3>. QED
      BY <2>1, <3>1 DEF Load
  <2>2. CASE ~Load(p)
    BY <2>2 DEF Proceed, Resolve, Fallback, Find, CheckDrift, Resume, Teardown,
         Build, Create, Start, Lifecycle, Stop, Remove, SshRead, SshRewrite,
         SshAppend, EngineFails, localVars
  <2>. QED
    BY <2>1, <2>2
<1>7. /\ ssh' \in (SUBSET Name) \cup {NoFile}
      /\ kept' \in [Process -> SUBSET Name]
  <2>1. CASE SshRead(p)
    BY <2>1 DEF SshRead, Without
  <2>2. CASE SshRewrite(p)
    BY <2>2 DEF SshRewrite, localVars
  <2>3. CASE SshAppend(p)
    <3>1. target[p] \in Name
      BY <2>3 DEF SshAppend, PlaceInv, Place, Step
    <3>. QED
      BY <2>3, <3>1 DEF SshAppend, localVars
  <2>4. CASE ~SshRead(p) /\ ~SshRewrite(p) /\ ~SshAppend(p)
    BY <2>4 DEF Proceed, Resolve, Fallback, Find, CheckDrift, Resume, Load,
         Teardown, Build, Create, Start, Lifecycle, Stop, Remove, EngineFails,
         localVars
  <2>. QED
    BY <2>1, <2>2, <2>3, <2>4
<1>. QED
  BY <1>1, <1>2, <1>3, <1>4, <1>5, <1>6, <1>7


LEMMA PlaceOfProceeding ==
    ASSUME Inv, NEW p \in Process, Proceed(p)
    PROVE  PlaceInv'
<1>. USE DEF Inv, TypeOK
<1>1. \A q \in Process : Place(q)
  BY DEF PlaceInv
<1>2. \A q \in Process \ {p} : Place(q)'
  <2>. SUFFICES ASSUME NEW q \in Process \ {p} PROVE Place(q)'
    OBVIOUS
  <2>1. /\ pc'[q] = pc[q] /\ cmd'[q] = cmd[q] /\ target'[q] = target[q]
        /\ config'[q] = config[q]
    BY DEF Proceed, Resolve, Fallback, Find, CheckDrift, Resume, Load, Teardown,
           Build, Create, Start, Lifecycle, Stop, Remove, SshRead, SshRewrite,
           SshAppend, EngineFails, Goto, localVars
  <2>2. existing'[q] = existing[q]
    BY StepOnContainers DEF Knows, Creates
  <2>. QED
    BY <1>1, <2>1, <2>2 DEF Place, Home
<1>3. cmd' = cmd
  BY DEF Proceed, Resolve, Fallback, Find, CheckDrift, Resume, Load, Teardown,
         Build, Create, Start, Lifecycle, Stop, Remove, SshRead, SshRewrite,
         SshAppend, EngineFails, localVars
<1>4. cmd[p] \in Command /\ cmd[p].op \in Operation
  BY <1>1, CommandAssumption
     DEF Proceed, Place, Step, Resolve, Fallback, Find, CheckDrift, Resume,
         Load, Teardown, Build, Create, Start, Lifecycle, Stop, Remove, SshRead,
         SshRewrite, SshAppend, EngineFails, EngineCall
<1>5. Place(p)'
  <2>. USE <1>1, <1>3, <1>4 DEF Place, Home
  <2>1. CASE Resolve(p)
    <3>1. target'[p] \in Name \/ pc'[p] = "failed"
      BY <2>1, DirectoryAssumption, CommandAssumption DEF Resolve, NamesOf, Goto
    <3>. QED
      BY <2>1, <3>1 DEF Resolve, Goto, Step
  <2>2. CASE Fallback(p)
    BY <2>2 DEF Fallback, Goto, Step, localVars
  <2>3. CASE Find(p)
    <3>1. target[p] \in Name /\ target' = target /\ existing'[p] = box[target[p]]
      BY <2>3 DEF Find, Step
    <3>2. pc'[p] = AfterFind(p, box[target[p]])
      BY <2>3 DEF Find, Goto
    <3>3. /\ pc'[p] \in {"failed", "stop", "remove", "load", "drift", "resume"}
          /\ pc'[p] \in {"drift", "resume"} => box[target[p]] # None
          /\ pc'[p] = "load" /\ box[target[p]] # None =>
                cmd[p].op = "rebuild" /\ box[target[p]].folder = Home(p)
          /\ pc'[p] = "remove" => cmd[p].op = "delete"
      BY <3>2 DEF AfterFind, MayRebuild, Operation
    <3>. QED
      BY <3>1, <3>3 DEF Step
  <2>4. CASE CheckDrift(p)
    BY <2>4 DEF CheckDrift, Goto, Step, localVars
  <2>5. CASE Resume(p)
    BY <2>5 DEF Resume, Goto, Step, localVars
  <2>6. CASE Load(p)
    <3>1. Home(p) \in Folder
      BY <2>6, CommandAssumption DEF Load
    <3>. QED
      BY <2>6, <3>1 DEF Load, Accepted, Goto, Step
  <2>7. CASE Teardown(p)
    BY <2>7 DEF Teardown, Goto, Step, localVars
  <2>8. CASE Build(p) \/ Create(p) \/ Start(p) \/ Lifecycle(p)
    BY <2>8 DEF Build, Create, Start, Lifecycle, Goto, Step, localVars
  <2>9. CASE Stop(p) \/ Remove(p)
    BY <2>9 DEF Stop, Remove, Goto, Step, localVars
  <2>10. CASE SshRead(p) \/ SshRewrite(p) \/ SshAppend(p)
    BY <2>10 DEF SshRead, AfterClean, SshRewrite, SshAppend, Goto, Step, localVars
  <2>11. CASE EngineFails(p)
    BY <2>11 DEF EngineFails, Goto, Step, localVars
  <2>. QED
    BY <2>1, <2>2, <2>3, <2>4, <2>5, <2>6, <2>7, <2>8, <2>9, <2>10, <2>11
       DEF Proceed
<1>. QED
  BY <1>2, <1>5 DEF PlaceInv

LEMMA IdsOfProceeding ==
    ASSUME Inv, NEW p \in Process, Proceed(p)
    PROVE  IdInv' /\ SnapshotInv'
<1>. USE DEF Inv, TypeOK
<1>1. /\ \/ box' = box /\ created' = created
         \/ Marks(p) \/ Destroys(p) \/ Creates(p)
      /\ Knows(p) /\ OthersKeepTarget(p)
  BY StepOnContainers
<1>2. \A n \in Name : box[n] # None => box[n].id \in Nat /\ box[n].id <= created
  BY DEF IdInv, Container
<1>3. \A q \in Process : existing[q] # None =>
          existing[q].id \in Nat /\ existing[q].id <= created
  BY DEF IdInv, Container
<1>4. created \in Nat /\ created' \in Nat /\ created <= created'
  BY <1>1 DEF Marks, Destroys, Creates
<1>5. \A n \in Name : box'[n] # None =>
          \/ box[n] # None /\ SameContainer(box[n], box'[n])
          \/ Creates(p) /\ n = target[p] /\ box'[n].id = created + 1
  BY <1>1 DEF Marks, Destroys, Creates, SameContainer
<1>6. \A q \in Process : existing'[q] # None =>
          \/ existing'[q] = existing[q] /\ target'[q] = target[q]
          \/ /\ q = p /\ target'[q] = target[q] /\ target[q] \in Name
             /\ existing'[q] = box'[target[q]]
  BY <1>1 DEF Knows, Creates, OthersKeepTarget
<1>7. \A n \in Name : box'[n] # None => box'[n].id <= created'
  BY <1>2, <1>4, <1>5 DEF Creates, SameContainer
<1>8. \A q \in Process : existing'[q] # None => existing'[q].id <= created'
  BY <1>3, <1>4, <1>6, <1>7
<1>9. SnapshotInv'
  <2>. SUFFICES ASSUME NEW q \in Process, target'[q] \in Name,
                       box'[target'[q]] # None, existing'[q] # None,
                       box'[target'[q]].id = existing'[q].id
                PROVE  SameContainer(existing'[q], box'[target'[q]])
    BY DEF SnapshotInv, SameContainer
  <2>1. CASE existing'[q] = existing[q] /\ target'[q] = target[q]
    <3>1. box'[target[q]].id # created + 1
      BY <1>3, <2>1
    <3>2. box[target[q]] # None /\ SameContainer(box[target[q]], box'[target[q]])
      BY <1>5, <2>1, <3>1
    <3>. QED
      BY <2>1, <3>2 DEF SnapshotInv, SameContainer
  <2>2. CASE target'[q] = target[q] /\ existing'[q] = box'[target[q]]
    BY <2>2 DEF SameContainer
  <2>. QED
    BY <1>6, <2>1, <2>2
<1>. QED
  BY <1>7, <1>8, <1>9 DEF IdInv


LEMMA InvOfLaunch ==
    ASSUME Inv, NEW p \in Process, Launch(p)
    PROVE  Inv'
<1>. USE DEF Inv, TypeOK
<1>1. PICK c \in Command :
         /\ cmd' = [cmd EXCEPT ![p] = c] /\ target' = [target EXCEPT ![p] = c.name]
         /\ Goto(p, IF c.name = NoName THEN "resolve" ELSE "find")
  BY DEF Launch
<1>2. c.name \in Name \cup {NoName}
  BY CommandAssumption
<1>3. /\ UNCHANGED <<box, image, created, disk, ssh>>
      /\ existing' = [existing EXCEPT ![p] = None]
      /\ config' = [config EXCEPT ![p] = NoConfig]
      /\ kept' = [kept EXCEPT ![p] = {}]
  BY DEF Launch, engineVars
<1>4. TypeOK'
  <2>1. pc' \in [Process -> Step \cup Ended]
    BY <1>1 DEF Goto, Step
  <2>2. launched' \in 0 .. MaxCommands
    BY BoundAssumption DEF Launch
  <2>3. overlapped' \in BOOLEAN
    BY DEF Launch
  <2>4. /\ cmd' \in [Process -> Command \cup {None}]
        /\ target' \in [Process -> Name \cup {NoName}]
    BY <1>1, <1>2
  <2>5. /\ existing' \in [Process -> Container \cup {None}]
        /\ config' \in [Process -> Config \cup {NoConfig}]
        /\ kept' \in [Process -> SUBSET Name]
    BY <1>3
  <2>. QED
    BY <1>3, <2>1, <2>2, <2>3, <2>4, <2>5
<1>5. PlaceInv'
  <2>. SUFFICES ASSUME NEW q \in Process PROVE Place(q)'
    BY DEF PlaceInv
  <2>1. CASE q = p
    BY <1>1, <1>2, <1>3, <2>1 DEF Place, Goto, Step
  <2>2. CASE q # p
    <3>1. Place(q)
      BY DEF PlaceInv
    <3>2. /\ pc'[q] = pc[q] /\ cmd'[q] = cmd[q] /\ target'[q] = target[q]
          /\ existing'[q] = existing[q] /\ config'[q] = config[q]
      BY <1>1, <1>3, <2>2 DEF Goto
    <3>. QED
      BY <3>1, <3>2 DEF Place, Home
  <2>. QED
    BY <2>1, <2>2
<1>6. IdInv' /\ SnapshotInv'
  <2>1. \A q \in Process : existing'[q] # None =>
            existing'[q] = existing[q] /\ target'[q] = target[q]
    BY <1>1, <1>3
  <2>. QED
    BY <1>3, <2>1 DEF IdInv, SnapshotInv, SameContainer
<1>. QED
  BY <1>4, <1>5, <1>6

\* A user's edit, a killed process, and no step at all.
LEMMA InvOfTheRest ==
    ASSUME Inv,
           \/ \E p \in Process : Crash(p)
           \/ \E f \in Folder : Edit(f)
           \/ UNCHANGED vars
    PROVE  Inv'
<1>. USE DEF Inv, TypeOK
<1>1. UNCHANGED <<box, image, created, ssh, launched, overlapped, cmd, target,
                  existing, config, kept>>
  BY DEF Crash, Edit, vars, engineVars, history, localVars
<1>2. disk' \in [Folder -> Config \cup {NoConfig}]
  BY DEF Crash, Edit, vars
<1>3. \A q \in Process : pc'[q] = pc[q] \/ pc'[q] = "idle"
  BY DEF Crash, Edit, vars, Goto
<1>4. pc' \in [Process -> Step \cup Ended]
  BY DEF Crash, Edit, vars, Goto, Ended
<1>5. PlaceInv'
  <2>. SUFFICES ASSUME NEW q \in Process PROVE Place(q)'
    BY DEF PlaceInv
  <2>1. Place(q)
    BY DEF PlaceInv
  <2>. QED
    BY <1>1, <1>3, <2>1 DEF Place, Home, Step
<1>6. IdInv' /\ SnapshotInv'
  BY <1>1 DEF IdInv, SnapshotInv, SameContainer
<1>. QED
  BY <1>1, <1>2, <1>4, <1>5, <1>6

LEMMA InvNext == Inv /\ [Next]_vars => Inv'
<1>. SUFFICES ASSUME Inv, [Next]_vars PROVE Inv'
  OBVIOUS
<1>1. ASSUME NEW p \in Process, Launch(p) PROVE Inv'
  BY <1>1, InvOfLaunch
<1>2. ASSUME NEW p \in Process, Proceed(p) PROVE Inv'
  BY <1>2, TypesOfProceeding, PlaceOfProceeding, IdsOfProceeding DEF Inv
<1>. QED
  BY <1>1, <1>2, InvOfTheRest DEF Next

LEMMA Invariance == Spec => []Inv
  BY InitInv, InvNext, PTL DEF Spec

-----------------------------------------------------------------------------
\* Every variable keeps its type, whatever commands run and wherever they stop:
\* in particular no image is ever built from a devcontainer.json that could not
\* be read.
THEOREM TypeCorrect == Spec => []TypeOK
<1>1. Inv => TypeOK
  BY DEF Inv
<1>. QED
  BY <1>1, Invariance, PTL

\* A container goes only by `delete`, or by a --rebuild from its own folder that
\* has an accepted config: for any number of commands, at any pace.
THEOREM OwnersDestroy == Spec => OnlyOwnersDestroy
<1>. DEFINE Kept == \A n \in Name :
          box[n] # None /\ (box'[n] = None \/ box'[n].id # box[n].id) =>
              \E p \in Process : Removes(p, n)
<1>1. Inv /\ [Next]_vars => [Kept]_vars
  <2>. SUFFICES ASSUME Inv, Next, NEW n \in Name, box[n] # None,
                       box'[n] = None \/ box'[n].id # box[n].id
                PROVE  \E p \in Process : Removes(p, n)
    OBVIOUS
  <2>1. PICK p \in Process : Proceed(p)
    BY DEF Next, Launch, Crash, Edit, engineVars
  <2>2. box \in [Name -> Container \cup {None}]
    BY DEF Inv, TypeOK
  <2>3. ~Marks(p) /\ ~Creates(p) /\ box' # box
    <3>1. ASSUME Marks(p) PROVE FALSE
      BY <2>2, <3>1, NoneAssumption DEF Marks, SameContainer
    <3>2. ASSUME Creates(p) PROVE FALSE
      BY <2>2, <3>2 DEF Creates
    <3>3. ASSUME box' = box PROVE FALSE
      BY <3>3
    <3>. QED
      BY <3>1, <3>2, <3>3
  <2>4. Destroys(p)
    BY <2>1, <2>3, StepOnContainers
  <2>5. n = target[p]
    BY <2>2, <2>4 DEF Destroys
  <2>. QED
    BY <2>4, <2>5 DEF Destroys
<1>. QED
  BY <1>1, Invariance, PTL DEF Spec, OnlyOwnersDestroy

\* What a plain `up` starts is the container it has compared with the
\* devcontainer.json, whoever stops, removes or rebuilds it meanwhile.
THEOREM ChecksThenStarts == Spec => StartsWhatItChecked
<1>. DEFINE Checked == \A p \in Process :
          pc[p] = "resume" /\ pc'[p] # pc[p] /\ box' # box =>
              /\ box[target[p]].id = existing[p].id
              /\ box[target[p]].config = existing[p].config
              /\ box[target[p]].folder = existing[p].folder
<1>1. Inv /\ [Next]_vars => [Checked]_vars
  <2>. SUFFICES ASSUME Inv, Next, NEW p \in Process,
                       pc[p] = "resume", pc'[p] # pc[p], box' # box
                PROVE  SameContainer(existing[p], box[target[p]])
    BY DEF SameContainer
  <2>1. PICK q \in Process : Proceed(q)
    BY DEF Next, Launch, Crash, Edit, engineVars
  <2>2. q = p
    BY <2>1 DEF Inv, TypeOK, Goto, Proceed, Resolve, Fallback, Find, CheckDrift,
         Resume, Load, Teardown, Build, Create, Start, Lifecycle, Stop, Remove,
         SshRead, SshRewrite, SshAppend, EngineFails
  <2>3. Resume(p)
    BY <2>1, <2>2 DEF Proceed, Resolve, Fallback, Find, CheckDrift, Load,
         Teardown, Build, Create, Start, Lifecycle, Stop, Remove, SshRead,
         SshRewrite, SshAppend, EngineFails, engineVars
  <2>4. Alive(p)
    BY <2>3 DEF Resume
  <2>5. existing[p] # None /\ pc[p] \in Step \ {"resolve"}
    BY DEF Inv, PlaceInv, Place, Step
  <2>. QED
    BY <2>4, <2>5, AliveIsTheOne DEF Inv
<1>. QED
  BY <1>1, Invariance, PTL DEF Spec, StartsWhatItChecked

-----------------------------------------------------------------------------
(* What `dvt up` and `dvt delete` deliver while no two commands overlap,    *)
(* however many commands failed or were killed before.  The properties are  *)
(* about the last step of a command, whose success rests on what its        *)
(* earlier steps did or saw.  AloneInv carries that along: until two        *)
(* commands overlap, the one that runs finds everything as it left it.      *)

SshStep == {"sshRead", "sshRewrite", "sshAppend"}

\* The container was made here, by this command, from the config it loaded.
MadeOf(p, c) ==
    c.folder = Home(p) /\ c.config = config[p] /\ c.image = config[p]

\* The container a command is about to act on, and the tag it builds under.
BoxAsLeft(p) ==
    LET b == box[target[p]]
    IN  /\ pc[p] \in {"drift", "resume", "load", "teardown"} => existing[p] = b
        /\ pc[p] \in {"build", "create"} => b = None
        /\ pc[p] = "create" => image[target[p]] = config[p]
        /\ pc[p] \in {"start", "lifecycle"} => b # None /\ MadeOf(p, b)
        /\ pc[p] = "lifecycle" => b.running
        /\ pc[p] \in SshStep /\ IsUp(p) =>
              /\ b # None /\ b.running
              /\ config[p] # NoConfig => MadeOf(p, b) /\ b.ready
        /\ pc[p] \in SshStep /\ ~IsUp(p) => b = None

\* Which steps a command takes, and when it has a config of its own.
Course(p) ==
    /\ pc[p] \in {"resolve", "fallback", "find", "drift", "resume"} =>
          config[p] = NoConfig
    /\ pc[p] = "stop" => cmd[p].op = "stop"
    /\ pc[p] \in {"drift", "resume", "load", "teardown", "build", "create",
                  "start", "lifecycle", "sshAppend"} => IsUp(p)

\* The blocks about to be written back are those of the others.
SshAsLeft(p) ==
    pc[p] = "sshRewrite" => ssh # NoFile /\ kept[p] = ssh \ {target[p]}

\* A name that was not given is that of a workspace of the folder, or free.
NameIsOurs(p) ==
    cmd[p].name = NoName /\ pc[p] \in Step \ {"resolve", "fallback"} =>
        box[target[p]] = None \/ box[target[p]].folder = Home(p)

AsLeft(p) == Course(p) /\ BoxAsLeft(p) /\ SshAsLeft(p) /\ NameIsOurs(p)

Alone == \A p, q \in Process : pc[p] \in Step /\ pc[q] \in Step => p = q

AloneInv == Inv /\ (~overlapped => Alone /\ \A p \in Process : AsLeft(p))

-----------------------------------------------------------------------------
LEMMA NothingToLeave ==
    ASSUME NEW p \in Process, pc[p] \notin Step
    PROVE  AsLeft(p)
  BY DEF AsLeft, Course, BoxAsLeft, SshAsLeft, NameIsOurs, Step, SshStep

LEMMA NothingLeft ==
    ASSUME NEW p \in Process, pc'[p] \notin Step
    PROVE  AsLeft(p)'
  BY DEF AsLeft, Course, BoxAsLeft, SshAsLeft, NameIsOurs, Step, SshStep

LEMMA InitAlone == Init => AloneInv
<1>. SUFFICES ASSUME Init PROVE AloneInv
  OBVIOUS
<1>1. \A p \in Process : pc[p] \notin Step
  BY DEF Init, Step
<1>. QED
  BY <1>1, InitInv, NothingToLeave DEF AloneInv, Alone

\* What a step of one process leaves of the others' local state.
LEMMA OthersWait ==
    ASSUME Inv, NEW p \in Process, Proceed(p)
    PROVE  /\ pc[p] \in Step /\ cmd' = cmd /\ overlapped' = overlapped
           /\ \A q \in Process \ {p} : pc'[q] = pc[q]
<1>1. pc[p] \in Step
  BY DEF Proceed, Resolve, Fallback, Find, CheckDrift, Resume, Load, Teardown,
         Build, Create, Start, Lifecycle, Stop, Remove, SshRead, SshRewrite,
         SshAppend, EngineFails, EngineCall, Step
<1>2. cmd' = cmd /\ overlapped' = overlapped
  BY DEF Proceed, Resolve, Fallback, Find, CheckDrift, Resume, Load, Teardown,
         Build, Create, Start, Lifecycle, Stop, Remove, SshRead, SshRewrite,
         SshAppend, EngineFails, history, localVars
<1>3. \A q \in Process \ {p} : pc'[q] = pc[q]
  BY DEF Inv, TypeOK, Proceed, Resolve, Fallback, Find, CheckDrift, Resume, Load,
         Teardown, Build, Create, Start, Lifecycle, Stop, Remove, SshRead,
         SshRewrite, SshAppend, EngineFails, Goto
<1>. QED
  BY <1>1, <1>2, <1>3

LEMMA MarkedAsSaid ==
    ASSUME NEW b \in Container
    PROVE  /\ [b EXCEPT !.running = TRUE].running
           /\ [b EXCEPT !.ready = TRUE].ready
           /\ [b EXCEPT !.ready = TRUE].running = b.running
  BY DEF Container

\* One command's step leaves things as its next step expects them.
LEMMA LeftForTheNext ==
    ASSUME Inv, NEW p \in Process, Proceed(p), AsLeft(p)
    PROVE  AsLeft(p)'
<1>. USE DEF Inv, TypeOK
<1>1. cmd' = cmd /\ pc[p] \in Step
  BY OthersWait
<1>2. /\ Place(p) /\ cmd[p] \in Command
      /\ cmd[p].op \in Operation /\ Home(p) \in Folder
  BY <1>1, CommandAssumption DEF PlaceInv, Place, Home
<1>3. pc[p] # "resolve" =>
          target[p] \in Name /\ box[target[p]] \in Container \cup {None}
  BY <1>1, <1>2 DEF Place
<1>. USE <1>1, <1>2, <1>3, NoneAssumption
     DEF AsLeft, Course, BoxAsLeft, SshAsLeft, NameIsOurs, Place, IsUp, Home,
         MadeOf, Step, SshStep
<1>4. CASE pc'[p] = "failed"
  BY <1>4
<1>5. CASE Resolve(p) /\ pc'[p] # "failed"
  <2>1. /\ UNCHANGED <<box, image, ssh, config, existing, kept>>
        /\ pc'[p] \in {"find", "fallback"}
        /\ pc'[p] = "find" => target'[p] \in NamesOf(Home(p))
    BY <1>5 DEF Resolve, Goto, engineVars
  <2>. QED
    BY <1>5, <2>1 DEF NamesOf, Resolve
<1>6. CASE Fallback(p) /\ pc'[p] # "failed"
  <2>1. UNCHANGED <<box, image, ssh, config, existing, kept, target>>
    BY <1>6 DEF Fallback, engineVars, localVars
  <2>2. pc[p] = "fallback" /\ pc'[p] = "find" /\ ~Taken(p)
    BY <1>6 DEF Fallback, Goto
  <2>. QED
    BY <2>1, <2>2 DEF Taken
<1>7. CASE Find(p)
  <2>1. UNCHANGED <<box, image, ssh, config, kept, target>>
    BY <1>7 DEF Find, engineVars
  <2>2. /\ pc[p] = "find" /\ existing'[p] = box[target[p]]
        /\ pc'[p] = AfterFind(p, box[target[p]])
    BY <1>7 DEF Find, Goto
  <2>3. /\ pc'[p] \in {"failed", "stop", "remove", "load", "drift", "resume"}
        /\ pc'[p] = "stop" => cmd[p].op = "stop"
        /\ pc'[p] \in {"load", "drift", "resume"} => cmd[p].op \in {"up", "rebuild"}
    BY <2>2 DEF AfterFind, Operation
  <2>. QED
    BY <2>1, <2>2, <2>3
<1>8. CASE CheckDrift(p)
  <2>1. UNCHANGED <<box, image, ssh, config, existing, kept, target>>
    BY <1>8 DEF CheckDrift, engineVars, localVars
  <2>2. pc[p] = "drift" /\ pc'[p] \in {"resume", "failed"}
    BY <1>8 DEF CheckDrift, Goto
  <2>. QED
    BY <2>1, <2>2
<1>9. CASE Resume(p) /\ pc'[p] # "failed"
  <2>1. UNCHANGED <<image, ssh, config, existing, kept, target>>
    BY <1>9 DEF Resume, localVars
  <2>2. pc[p] = "resume" /\ pc'[p] = "sshRead" /\ existing[p] = box[target[p]]
    BY <1>9 DEF Resume, Goto
  <2>3. box[target[p]] # None
    BY <2>2
  <2>4. /\ box'[target[p]] \in Container /\ box'[target[p]].running
        /\ box'[target[p]].folder = box[target[p]].folder
    <3>1. CASE existing[p].running /\ box' = box
      BY <2>2, <2>3, <3>1
    <3>2. CASE box' = [box EXCEPT ![target[p]].running = TRUE]
      BY <2>2, <2>3, <3>2, MarkedIsTheSame, MarkedAsSaid DEF SameContainer
    <3>. QED
      BY <1>9, <3>1, <3>2 DEF Resume, Goto
  <2>. QED
    BY <2>1, <2>2, <2>3, <2>4
<1>10. CASE Load(p) /\ pc'[p] # "failed"
  <2>1. UNCHANGED <<box, image, ssh, existing, kept, target>>
    BY <1>10 DEF Load, engineVars
  <2>2. /\ pc[p] = "load"
        /\ pc'[p] = IF existing[p] = None THEN "build" ELSE "teardown"
    BY <1>10 DEF Load, Goto
  <2>. QED
    BY <2>1, <2>2
<1>11. CASE Teardown(p) /\ pc'[p] # "failed"
  <2>1. UNCHANGED <<ssh, config, existing, kept, target>>
    BY <1>11 DEF Teardown, localVars
  <2>2. /\ pc[p] = "teardown" /\ pc'[p] = "build"
        /\ box' = [box EXCEPT ![target[p]] = None]
    BY <1>11 DEF Teardown, Goto
  <2>. QED
    BY <2>1, <2>2
<1>12. CASE Build(p)
  <2>1. UNCHANGED <<box, ssh, config, existing, kept, target>>
    BY <1>12 DEF Build, localVars
  <2>2. /\ pc[p] = "build" /\ pc'[p] = "create"
        /\ image' = [image EXCEPT ![target[p]] = config[p]]
    BY <1>12 DEF Build, Goto
  <2>. QED
    BY <2>1, <2>2
<1>13. CASE Create(p) /\ pc'[p] # "failed"
  <2>1. UNCHANGED <<image, ssh, config, kept, target>>
    BY <1>13 DEF Create
  <2>2. /\ pc[p] = "create" /\ pc'[p] = "start"
        /\ box'[target[p]] = [id |-> created + 1, folder |-> Home(p),
                              config |-> config[p], image |-> image[target[p]],
                              running |-> FALSE, ready |-> FALSE]
    BY <1>13 DEF Create, Goto, Labelled
  <2>3. config[p] \in Config \cup {NoConfig} /\ image[target[p]] \in Config
    BY <1>13, <2>2 DEF Create, Goto
  <2>4. box'[target[p]] \in Container
    BY <2>2, <2>3 DEF Container
  <2>5. box'[target[p]] # None
    BY <2>4
  <2>6. /\ box'[target[p]].folder = Home(p) /\ box'[target[p]].config = config[p]
        /\ box'[target[p]].image = config[p]
    BY <2>2
  <2>7. Course(p)' /\ SshAsLeft(p)'
    BY <2>1, <2>2
  <2>8. BoxAsLeft(p)'
    BY <2>1, <2>2, <2>5, <2>6
  <2>9. NameIsOurs(p)'
    BY <2>1, <2>2, <2>6
  <2>. QED
    BY <2>7, <2>8, <2>9
<1>14. CASE Start(p) /\ pc'[p] # "failed"
  <2>1. UNCHANGED <<image, ssh, config, existing, kept, target>>
    BY <1>14 DEF Start, localVars
  <2>2. /\ pc[p] = "start" /\ pc'[p] = "lifecycle"
        /\ box' = [box EXCEPT ![target[p]].running = TRUE]
    BY <1>14 DEF Start, Goto
  <2>3. /\ box'[target[p]] \in Container /\ box'[target[p]].running
        /\ SameContainer(box[target[p]], box'[target[p]])
    BY <2>2, MarkedIsTheSame, MarkedAsSaid
  <2>. QED
    BY <2>1, <2>2, <2>3 DEF SameContainer
<1>15. CASE Lifecycle(p) /\ pc'[p] # "failed"
  <2>1. UNCHANGED <<image, ssh, config, existing, kept, target>>
    BY <1>15 DEF Lifecycle, localVars
  <2>2. /\ pc[p] = "lifecycle" /\ pc'[p] = "sshRead"
        /\ box' = [box EXCEPT ![target[p]].ready = TRUE]
    BY <1>15 DEF Lifecycle, Goto
  <2>3. /\ box'[target[p]] \in Container
        /\ box'[target[p]].running /\ box'[target[p]].ready
        /\ SameContainer(box[target[p]], box'[target[p]])
    BY <2>2, MarkedIsTheSame, MarkedAsSaid
  <2>. QED
    BY <2>1, <2>2, <2>3 DEF SameContainer
<1>16. CASE Stop(p)
  <2>1. pc'[p] \notin Step
    BY <1>16 DEF Stop, Goto
  <2>. QED
    BY <2>1
<1>17. CASE Remove(p) /\ pc'[p] # "failed"
  <2>1. UNCHANGED <<image, ssh, config, existing, kept, target>>
    BY <1>17 DEF Remove, localVars
  <2>2. /\ pc[p] = "remove" /\ pc'[p] = "sshRead"
        /\ box' = [box EXCEPT ![target[p]] = None]
    BY <1>17 DEF Remove, Goto
  <2>. QED
    BY <2>1, <2>2
<1>18. CASE SshRead(p)
  <2>1. UNCHANGED <<box, image, ssh, config, existing, target>>
    BY <1>18 DEF SshRead, engineVars
  <2>2. /\ pc[p] = "sshRead"
        /\ \/ pc'[p] = "sshAppend" /\ IsUp(p)
           \/ pc'[p] = "ok"
           \/ pc'[p] = "sshRewrite" /\ ssh # NoFile /\ kept'[p] = ssh \ {target[p]}
    BY <1>18 DEF SshRead, AfterClean, Without, Goto
  <2>. QED
    BY <2>1, <2>2
<1>19. CASE SshRewrite(p)
  <2>1. UNCHANGED <<box, image, config, existing, target>>
    BY <1>19 DEF SshRewrite, engineVars, localVars
  <2>2. /\ pc[p] = "sshRewrite"
        /\ \/ pc'[p] = "sshAppend" /\ IsUp(p)
           \/ pc'[p] = "ok"
    BY <1>19 DEF SshRewrite, AfterClean, Goto
  <2>. QED
    BY <2>1, <2>2
<1>20. CASE SshAppend(p)
  <2>1. pc'[p] \notin Step
    BY <1>20 DEF SshAppend, Goto
  <2>. QED
    BY <2>1
<1>21. CASE EngineFails(p)
  BY <1>4, <1>21 DEF EngineFails, Goto
<1>. QED
  BY <1>4, <1>5, <1>6, <1>7, <1>8, <1>9, <1>10, <1>11, <1>12, <1>13, <1>14,
     <1>15, <1>16, <1>17, <1>18, <1>19, <1>20, <1>21 DEF Proceed

LEMMA NextAlone == AloneInv /\ [Next]_vars => AloneInv'
<1>. SUFFICES ASSUME AloneInv, [Next]_vars PROVE AloneInv'
  OBVIOUS
<1>1. Inv /\ Inv'
  BY InvNext DEF AloneInv
<1>. SUFFICES ASSUME ~overlapped' PROVE Alone' /\ \A p \in Process : AsLeft(p)'
  BY <1>1 DEF AloneInv
<1>2. ~overlapped
  BY OthersWait, <1>1 DEF Next, Launch, Crash, Edit, history, vars
<1>3. Alone /\ \A p \in Process : AsLeft(p)
  BY <1>2 DEF AloneInv
<1>4. ASSUME NEW p \in Process, Launch(p)
      PROVE  Alone' /\ \A q \in Process : AsLeft(q)'
  <2>1. \A q \in Process : pc[q] \notin Step
    BY <1>4 DEF Launch
  <2>2. \A q \in Process \ {p} : pc'[q] \notin Step
    BY <1>1, <1>4, <2>1 DEF Launch, Goto, Inv, TypeOK
  <2>3. PICK c \in Command :
           /\ cmd' = [cmd EXCEPT ![p] = c]
           /\ Goto(p, IF c.name = NoName THEN "resolve" ELSE "find")
    BY <1>4 DEF Launch
  <2>4. /\ cmd'[p] = c /\ config'[p] = NoConfig
        /\ pc'[p] = IF c.name = NoName THEN "resolve" ELSE "find"
    BY <1>1, <1>4, <2>3 DEF Launch, Goto, Inv, TypeOK
  <2>5. AsLeft(p)'
    BY <2>4 DEF AsLeft, Course, BoxAsLeft, SshAsLeft, NameIsOurs, SshStep
  <2>. QED
    BY <2>2, <2>5, NothingLeft DEF Alone
<1>5. ASSUME NEW p \in Process, Proceed(p)
      PROVE  Alone' /\ \A q \in Process : AsLeft(q)'
  <2>1. \A q \in Process \ {p} : pc'[q] \notin Step
    BY <1>1, <1>3, <1>5, OthersWait DEF Alone
  <2>2. AsLeft(p)'
    BY <1>1, <1>3, <1>5, LeftForTheNext
  <2>. QED
    BY <2>1, <2>2, NothingLeft DEF Alone
<1>6. ASSUME \/ \E p \in Process : Crash(p)
             \/ \E f \in Folder : Edit(f)
             \/ UNCHANGED vars
      PROVE  Alone' /\ \A q \in Process : AsLeft(q)'
  <2>1. UNCHANGED <<box, image, ssh, cmd, target, existing, config, kept>>
    BY <1>6 DEF Crash, Edit, vars, engineVars, localVars
  <2>2. \A q \in Process : pc'[q] = pc[q] \/ pc'[q] \notin Step
    BY <1>1, <1>6 DEF Crash, Edit, vars, Goto, Inv, TypeOK, Step
  <2>3. \A q \in Process : pc'[q] = pc[q] => AsLeft(q)'
    BY <1>3, <2>1 DEF AsLeft, Course, BoxAsLeft, SshAsLeft, NameIsOurs, MadeOf,
                      IsUp, Home
  <2>. QED
    BY <1>3, <2>2, <2>3, NothingLeft DEF Alone
<1>. QED
  BY <1>4, <1>5, <1>6 DEF Next

LEMMA AlwaysAlone == Spec => []AloneInv
  BY InitAlone, NextAlone, PTL DEF Spec

-----------------------------------------------------------------------------
\* Only a process itself, or who kills it, takes it from one step to another.
LEMMA OwnStep ==
    ASSUME Inv, Next, NEW p \in Process, pc[p] \in Step, pc'[p] # pc[p]
    PROVE  Proceed(p) \/ (Crash(p) /\ pc'[p] = "idle")
<1>1. PICK q \in Process : Launch(q) \/ Proceed(q) \/ Crash(q)
  BY DEF Next, Edit
<1>2. q = p
  BY <1>1, OthersWait DEF Launch, Crash, Goto, Inv, TypeOK
<1>3. ~Launch(p)
  BY DEF Launch, Step, Ended
<1>. QED
  BY <1>1, <1>2, <1>3 DEF Crash, Goto, Inv, TypeOK

\* A command that succeeds ends with one of these steps.
LEMMA LastStep ==
    ASSUME Inv, Next, NEW p \in Process, pc[p] \in Step, pc'[p] = "ok"
    PROVE  Stop(p) \/ SshRead(p) \/ SshRewrite(p) \/ SshAppend(p)
<1>1. pc'[p] # pc[p]
  BY DEF Step
<1>2. Proceed(p)
  BY <1>1, OwnStep
<1>3. cmd[p].op \in Operation
  BY CommandAssumption DEF Inv, PlaceInv, Place
<1>4. ~Find(p)
  BY <1>3 DEF Find, AfterFind, Goto, Operation, Inv, TypeOK
<1>. QED
  BY <1>2, <1>4 DEF Proceed, Resolve, Fallback, CheckDrift, Resume, Load,
         Teardown, Build, Create, Start, Lifecycle, Remove, EngineFails, Goto,
         Inv, TypeOK

\* An `up` that succeeds while commands run one at a time leaves its workspace
\* running with its block in ~/.ssh/config; a container it made has the image
\* and the labels of the config it loaded, and its lifecycle commands.
THEOREM UpDelivered == Spec => UpDelivers
<1>. DEFINE Delivered == \A p \in Process :
          Succeeds(p) /\ IsUp(p) =>
              LET delivered == box'[target[p]]
              IN  /\ delivered # None /\ delivered.running
                  /\ ssh' # NoFile /\ target[p] \in ssh'
                  /\ config[p] # NoConfig =>
                        /\ delivered.image = config[p]
                        /\ delivered.config = config[p]
                        /\ delivered.folder = Home(p)
                        /\ delivered.ready
<1>1. AloneInv /\ [Next]_vars => [Delivered]_vars
  <2>. SUFFICES ASSUME AloneInv, Next, NEW p \in Process, Succeeds(p), IsUp(p)
                PROVE  LET delivered == box'[target[p]]
                       IN  /\ delivered # None /\ delivered.running
                           /\ ssh' # NoFile /\ target[p] \in ssh'
                           /\ config[p] # NoConfig =>
                                 /\ delivered.image = config[p]
                                 /\ delivered.config = config[p]
                                 /\ delivered.folder = Home(p)
                                 /\ delivered.ready
    OBVIOUS
  <2>1. Inv /\ AsLeft(p) /\ pc[p] \in Step /\ pc'[p] = "ok"
    BY DEF AloneInv, Succeeds
  <2>2. SshAppend(p)
    <3>1. ~Stop(p)
      BY <2>1 DEF AsLeft, Course, Stop, IsUp
    <3>2. ~SshRead(p) /\ ~SshRewrite(p)
      BY <2>1 DEF SshRead, SshRewrite, AfterClean, Goto, Inv, TypeOK
    <3>. QED
      BY <2>1, <3>1, <3>2, LastStep
  <2>3. /\ pc[p] = "sshAppend" /\ box' = box
        /\ target[p] \in ssh' /\ ssh' \in SUBSET Name
    <3>1. pc[p] = "sshAppend" /\ box' = box
      BY <2>2 DEF SshAppend, engineVars
    <3>2. target[p] \in Name
      BY <2>1, <3>1 DEF Inv, PlaceInv, Place, Step
    <3>. QED
      BY <2>1, <2>2, <3>1, <3>2 DEF SshAppend, Inv, TypeOK
  <2>. QED
    BY <2>1, <2>3, FileAssumption DEF AsLeft, BoxAsLeft, SshStep, MadeOf
<1>. QED
  BY <1>1, AlwaysAlone, PTL DEF Spec, UpDelivers

\* A `delete` that succeeds while commands run one at a time leaves neither its
\* container nor its block, and the blocks of all other workspaces.
THEOREM DeleteLeft == Spec => DeleteLeavesNothing
<1>. DEFINE Gone == \A p \in Process :
          Succeeds(p) /\ cmd[p].op = "delete" =>
              /\ box'[target[p]] = None
              /\ ssh' # NoFile => ssh' = ssh \ {target[p]}
<1>1. AloneInv /\ [Next]_vars => [Gone]_vars
  <2>. SUFFICES ASSUME AloneInv, Next, NEW p \in Process, Succeeds(p),
                       cmd[p].op = "delete"
                PROVE  /\ box'[target[p]] = None
                       /\ ssh' # NoFile => ssh' = ssh \ {target[p]}
    OBVIOUS
  <2>1. Inv /\ AsLeft(p) /\ pc[p] \in Step /\ pc'[p] = "ok" /\ ~IsUp(p)
    BY DEF AloneInv, Succeeds, IsUp
  <2>2. SshRead(p) \/ SshRewrite(p)
    <3>1. ~Stop(p)
      BY <2>1 DEF AsLeft, Course, Stop
    <3>2. ~SshAppend(p)
      BY <2>1 DEF AsLeft, Course, SshAppend
    <3>. QED
      BY <2>1, <3>1, <3>2, LastStep
  <2>3. pc[p] \in SshStep /\ box' = box
    BY <2>2 DEF SshRead, SshRewrite, SshStep, engineVars
  <2>4. ssh' # NoFile => ssh' = ssh \ {target[p]}
    <3>1. CASE SshRead(p)
      BY <2>1, <3>1 DEF SshRead, Goto, Inv, TypeOK
    <3>2. CASE SshRewrite(p)
      BY <2>1, <3>2 DEF SshRewrite, AsLeft, SshAsLeft
    <3>. QED
      BY <2>2, <3>1, <3>2
  <2>. QED
    BY <2>1, <2>3, <2>4 DEF AsLeft, BoxAsLeft
<1>. QED
  BY <1>1, AlwaysAlone, PTL DEF Spec, DeleteLeavesNothing

\* While commands run one at a time, one without a name changes no container
\* of another folder, though the name is looked up twice on the way.
THEOREM StaysHome == Spec => InferredNameStaysHome
<1>. DEFINE Stays == \A p \in Process :
          /\ pc[p] \in Step /\ pc'[p] # pc[p]
          /\ cmd[p].name = NoName /\ ~overlapped
          => \A n \in Name : box[n] # None /\ box'[n] # box[n] =>
                                 box[n].folder = Home(p)
<1>1. AloneInv /\ [Next]_vars => [Stays]_vars
  <2>. SUFFICES ASSUME AloneInv, Next, NEW p \in Process, NEW n \in Name,
                       pc[p] \in Step, pc'[p] # pc[p], cmd[p].name = NoName,
                       ~overlapped, box[n] # None, box'[n] # box[n]
                PROVE  box[n].folder = Home(p)
    OBVIOUS
  <2>1. Inv /\ AsLeft(p)
    BY DEF AloneInv
  <2>2. Proceed(p)
    BY <2>1, OwnStep DEF Crash, engineVars
  <2>3. n = target[p]
    BY <2>1, <2>2, StepOnContainers DEF Marks, Destroys, Creates, Inv, TypeOK
  <2>4. pc[p] \notin {"resolve", "fallback"}
    BY <2>2 DEF Proceed, Resolve, Fallback, Find, CheckDrift, Resume, Load,
         Teardown, Build, Create, Start, Lifecycle, Stop, Remove, SshRead,
         SshRewrite, SshAppend, EngineFails, engineVars
  <2>. QED
    BY <2>1, <2>3, <2>4 DEF AsLeft, NameIsOurs
<1>. QED
  BY <1>1, AlwaysAlone, PTL DEF Spec, InferredNameStaysHome
=============================================================================

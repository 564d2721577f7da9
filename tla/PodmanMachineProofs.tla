-------------------------- MODULE PodmanMachineProofs --------------------------
(***************************************************************************)
(* PodmanMachine's type invariant, that machines are created, started and  *)
(* given GPU support only as asked and where it counts, and that commands  *)
(* fail only for a cause: for every number of commands, machines, polls    *)
(* and pings, and of changes by users.                                     *)
(*                                                                         *)
(* The first properties are about what a step does to machines on the      *)
(* strength of a setting that was looked at some calls earlier, or of a    *)
(* machine that was named then: PlaceInv says what each place of a command *)
(* knows of itself.  The last is about machines that others may change     *)
(* between two calls: KnowsInv says what a command knows of them as long   *)
(* as nobody else is at work.                                              *)
(***************************************************************************)
EXTENDS PodmanMachine, TLAPS

\* Places of a command that has named a machine, and those of one that has a
\* client.
Named     == {"init", "initializing", "starting", "poll", "inspect", "ping",
              "gpu", "installing"}
Connected == {"ping", "gpu", "installing"}

Place(p) ==
    /\ pc[p] \in Pending => cmd[p] \in Command
    /\ pc[p] \in Pending \ {"docker"} => cmd[p].runtime # "docker"
    /\ pc[p] \in {"init", "initializing"} => cmd[p].auto_init /\ name[p] = DvtMachine
    /\ pc[p] = "start" => cmd[p].auto_start
    /\ pc[p] \in Named => name[p] \in Machine
    /\ pc[p] \in Connected => client[p] = name[p]
    /\ pc[p] = "docker" => client[p] = None
    /\ pc[p] \in Ended => client[p] = None

PlaceInv == \A p \in Process : Place(p)

Inv == TypeOK /\ PlaceInv

-----------------------------------------------------------------------------
\* What every step of a command leaves alone, and of the other commands'.
Own(p) ==
    /\ UNCHANGED <<launched, meddled>>
    /\ \A q \in Process \ {p} :
          /\ pc'[q] = pc[q] /\ cmd'[q] = cmd[q] /\ name'[q] = name[q]
          /\ client'[q] = client[q] /\ tries'[q] = tries[q]

\* An error ends the command, whichever it is.
LEMMA RefusedOrFailed ==
    ASSUME NEW p \in Process
    PROVE  /\ Refuse(p) \in {"refused", "failed"}
           /\ Refuse(p) = "failed" => cmd[p].runtime = "auto"
  BY DEF Refuse

LEMMA InitInv == Init => Inv
<1>. SUFFICES ASSUME Init PROVE Inv
  OBVIOUS
<1>1. TypeOK
  <2>1. launched \in 0 .. MaxCommands /\ meddled \in 0 .. MaxMeddling
    BY BoundAssumption DEF Init
  <2>2. pc \in [Process -> Pending \cup Ended]
    BY DEF Init, Ended
  <2>3. /\ cmd \in [Process -> Command \cup {None}]
        /\ name \in [Process -> Machine \cup {None, NoSuchMachine}]
        /\ client \in [Process -> Machine \cup {None}]
    BY DEF Init
  <2>4. tries \in [Process -> 0 .. MaxPolls + MaxPings]
    BY BoundAssumption DEF Init
  <2>5. /\ machine \in [Machine -> {"absent", "half", "stopped", "booting", "up"}]
        /\ default \in Machine \cup {None}
        /\ api \subseteq Machine /\ cdi \subseteq Machine /\ excused \subseteq Process
    BY DEF Init, Present
  <2>. QED
    BY <2>1, <2>2, <2>3, <2>4, <2>5 DEF TypeOK
<1>2. PlaceInv
  BY DEF Init, PlaceInv, Place, Pending, Named, Connected
<1>. QED
  BY <1>1, <1>2 DEF Inv

\* Where a command goes and what it forgets when it ends.
LEMMA OnlyMoves ==
    ASSUME TypeOK, NEW p \in Process, NEW step \in Pending \cup Ended, Only(p, step)
    PROVE  /\ pc' = [pc EXCEPT ![p] = step] /\ Own(p)
           /\ pc' \in [Process -> Pending \cup Ended]
           /\ cmd' \in [Process -> Command \cup {None}]
           /\ name' \in [Process -> Machine \cup {None, NoSuchMachine}]
           /\ client' \in [Process -> Machine \cup {None}]
           /\ tries' \in [Process -> 0 .. MaxPolls + MaxPings]
           /\ step \notin Ended => UNCHANGED localVars
           /\ step \in Ended => client'[p] = None
<1>. USE DEF TypeOK, Only, Goto
<1>1. 0 \in 0 .. MaxPolls + MaxPings
  BY BoundAssumption
<1>2. CASE step \in Ended
  BY <1>1, <1>2 DEF Own, boundVars, localVars
<1>3. CASE step \notin Ended
  BY <1>3 DEF Own, boundVars, localVars
<1>. QED
  BY <1>2, <1>3


-----------------------------------------------------------------------------
\* What one step of a command, or its end, makes of its own state.
LocalTypes ==
    /\ pc \in [Process -> Pending \cup Ended]
    /\ cmd \in [Process -> Command \cup {None}]
    /\ name \in [Process -> Machine \cup {None, NoSuchMachine}]
    /\ client \in [Process -> Machine \cup {None}]
    /\ tries \in [Process -> 0 .. MaxPolls + MaxPings]

\* A step that goes from one place to another with what the command knows.
LEMMA MovesInPlace ==
    ASSUME Inv, NEW p \in Process, NEW step \in Pending \cup Ended, Only(p, step),
           Busy(p),
           step \notin {"docker", "init"},
           step \in {"list", "look"} => cmd[p].runtime # "docker",
           pc[p] = "docker" => step \in {"list"} \cup Ended,
           step = "initializing" => pc[p] = "init",
           step = "start" => cmd[p].auto_start,
           step \in Named => name[p] \in Machine,
           step \in Connected => pc[p] \in Connected
    PROVE  LocalTypes' /\ Own(p) /\ Place(p)'
<1>1. /\ pc' = [pc EXCEPT ![p] = step] /\ Own(p) /\ LocalTypes'
      /\ step \notin Ended => UNCHANGED localVars
      /\ step \in Ended => client'[p] = None
  BY OnlyMoves DEF Inv, LocalTypes
<1>2. pc'[p] = step
  BY <1>1 DEF Inv, TypeOK
<1>3. Place(p) /\ pc[p] \in Pending
  BY DEF Inv, PlaceInv, Busy
<1>4. CASE step \in Ended
  BY <1>1, <1>2, <1>4 DEF Place, Ended, Pending, Named, Connected
<1>5. CASE step \notin Ended
  <2>1. UNCHANGED localVars
    BY <1>1, <1>5
  <2>. QED
    BY <1>1, <1>2, <1>3, <1>5, <2>1 DEF Place, localVars, Connected
<1>. QED
  BY <1>4, <1>5

\* connection_url and the client for it.
LEMMA ConnectsInPlace ==
    ASSUME Inv, NEW p \in Process, Connect(p), pc[p] \in {"look", "inspect"},
           name[p] \in Machine
    PROVE  LocalTypes' /\ Own(p) /\ Place(p)'
<1>. USE DEF Inv, TypeOK
<1>1. LocalTypes' /\ Own(p)
  BY DEF Connect, Goto, LocalTypes, Own, boundVars, Pending
<1>2. pc'[p] = "ping" /\ client'[p] = name[p] /\ UNCHANGED <<cmd, name>>
  BY DEF Connect, Goto
<1>3. Place(p)
  BY DEF PlaceInv
<1>. QED
  BY <1>1, <1>2, <1>3 DEF Place, Pending, Named, Connected, Ended

LEMMA StepsInPlace ==
    ASSUME Inv, NEW p \in Process, Proceed(p) \/ Crash(p)
    PROVE  LocalTypes' /\ Own(p) /\ Place(p)'
<1>. DEFINE Good == LocalTypes' /\ Own(p) /\ Place(p)'
<1>0. /\ TypeOK /\ Place(p)
      /\ DvtMachine \in Machine /\ Present \subseteq Machine
  BY MachineAssumption DEF Inv, PlaceInv, Present
<1>1. ASSUME TryDocker(p) PROVE Good
  <2>1. PICK step \in {"ok", "refused", "list"} :
           Only(p, step) /\ (step = "list" => cmd[p].runtime # "docker")
    BY <1>1 DEF TryDocker
  <2>2. Busy(p) /\ step \in Pending \cup Ended /\ pc[p] = "docker"
    BY <1>1 DEF TryDocker, Busy, Pending, Ended
  <2>. QED
    BY <2>1, <2>2, MovesInPlace DEF Named, Connected, Ended
<1>2. ASSUME List(p) PROVE Good
  <2>1. pc[p] = "list" /\ cmd[p].runtime # "docker" /\ cmd[p] \in Command
    BY <1>0, <1>2 DEF List, Place, Pending
  <2>2. CASE Only(p, Refuse(p))
    BY <2>1, <2>2, RefusedOrFailed, MovesInPlace DEF Busy, Pending, Ended, Named, Connected
  <2>3. ASSUME name' = [name EXCEPT ![p] = DvtMachine], cmd[p].auto_init,
               Goto(p, "init"), UNCHANGED <<boundVars, cmd, client, tries>>
        PROVE  Good
    <3>1. LocalTypes' /\ Own(p)
      BY <1>0, <2>3 DEF TypeOK, Goto, LocalTypes, Own, boundVars, Pending
    <3>2. pc'[p] = "init" /\ name'[p] = DvtMachine
      BY <1>0, <2>3 DEF TypeOK, Goto
    <3>. QED
      BY <1>0, <2>1, <2>3, <3>1, <3>2 DEF Place, Pending, Named, Connected, Ended
  <2>4. ASSUME NEW m \in Present,
               name' = [name EXCEPT ![p] = NameOf(Listed(m))],
               Goto(p, "look"), UNCHANGED <<boundVars, cmd, client, tries>>
        PROVE  Good
    <3>1. NameOf(Listed(m)) \in Machine
      BY <1>0 DEF NameOf, Listed
    <3>2. LocalTypes' /\ Own(p)
      BY <1>0, <2>4, <3>1 DEF TypeOK, Goto, LocalTypes, Own, boundVars, Pending
    <3>3. pc'[p] = "look"
      BY <1>0, <2>4 DEF TypeOK, Goto
    <3>. QED
      BY <1>0, <2>1, <2>4, <3>2, <3>3 DEF Place, Pending, Named, Connected, Ended
  <2>. QED
    BY <1>2, <2>2, <2>3, <2>4 DEF List
<1>3. ASSUME InitBegins(p) PROVE Good
  <2>1. Only(p, "initializing") \/ Only(p, "failed")
    BY <1>3 DEF InitBegins
  <2>2. pc[p] = "init" /\ name[p] \in Machine
    BY <1>0, <1>3 DEF InitBegins, Place, Named
  <2>. QED
    BY <2>1, <2>2, MovesInPlace DEF Busy, Pending, Ended, Named, Connected
<1>4. ASSUME InitEnds(p) PROVE Good
  <2>1. Only(p, AfterInit(p)) /\ pc[p] = "initializing" /\ name[p] \in Machine
    BY <1>0, <1>4 DEF InitEnds, Place, Named
  <2>2. \/ AfterInit(p) = "start" /\ cmd[p].auto_start
        \/ AfterInit(p) \in {"refused", "failed"}
    BY RefusedOrFailed DEF AfterInit
  <2>. QED
    BY <2>1, <2>2, MovesInPlace DEF Busy, Pending, Ended, Named, Connected
<1>5. ASSUME Look(p) PROVE Good
  <2>1. pc[p] = "look"
    BY <1>5 DEF Look
  <2>2. /\ AfterLook(p) \in {"failed", "ping", "start", "refused"}
        /\ AfterLook(p) = "ping" => name[p] \in Machine
        /\ AfterLook(p) = "start" => cmd[p].auto_start
    BY <1>0, RefusedOrFailed DEF AfterLook
  <2>3. CASE AfterLook(p) # "ping"
    <3>1. Only(p, AfterLook(p))
      BY <1>5, <2>3 DEF Look
    <3>. QED
      BY <2>1, <2>2, <2>3, <3>1, MovesInPlace
         DEF Busy, Pending, Ended, Named, Connected
  <2>4. CASE AfterLook(p) = "ping"
    BY <1>5, <2>1, <2>2, <2>4, ConnectsInPlace DEF Look
  <2>. QED
    BY <2>3, <2>4
<1>6. ASSUME StartBegins(p) PROVE Good
  <2>1. pc[p] = "start"
    BY <1>6 DEF StartBegins
  <2>2. (Only(p, "starting") /\ name[p] \in Machine) \/ Only(p, "failed")
    BY <1>6 DEF StartBegins
  <2>. QED
    BY <2>1, <2>2, MovesInPlace DEF Busy, Pending, Ended, Named, Connected
<1>7. ASSUME StartEnds(p) PROVE Good
  <2>1. pc[p] = "starting" /\ name[p] \in Machine
    BY <1>0, <1>7 DEF StartEnds, Place, Named
  <2>2. Only(p, "poll") \/ Only(p, "failed")
    BY <1>7 DEF StartEnds
  <2>. QED
    BY <2>1, <2>2, MovesInPlace DEF Busy, Pending, Ended, Named, Connected
<1>8. ASSUME Poll(p) PROVE Good
  <2>1. pc[p] = "poll" /\ tries[p] < MaxPolls /\ UNCHANGED <<boundVars, cmd, name, client>>
    BY <1>8 DEF Poll
  <2>2. \/ pc' = [pc EXCEPT ![p] = "inspect"] /\ tries' = [tries EXCEPT ![p] = 0]
        \/ pc' = pc /\ tries' = [tries EXCEPT ![p] = @ + 1]
    BY <1>8 DEF Poll, Goto
  <2>3. 0 \in 0 .. MaxPolls + MaxPings /\ tries[p] + 1 \in 0 .. MaxPolls + MaxPings
    BY <1>0, <2>1, BoundAssumption DEF TypeOK
  <2>4. LocalTypes' /\ Own(p)
    BY <1>0, <2>1, <2>2, <2>3 DEF TypeOK, LocalTypes, Own, boundVars, Pending
  <2>5. pc'[p] \in {"poll", "inspect"}
    BY <1>0, <2>1, <2>2 DEF TypeOK
  <2>. QED
    BY <1>0, <2>1, <2>4, <2>5 DEF Place, Pending, Named, Connected, Ended
<1>9. ASSUME GiveUpWaiting(p) PROVE Good
  BY <1>9, MovesInPlace DEF GiveUpWaiting, Busy, Pending, Ended, Named, Connected
<1>10. ASSUME Inspect(p) PROVE Good
  <2>1. pc[p] = "inspect"
    BY <1>10 DEF Inspect
  <2>2. CASE name[p] \in Present
    BY <1>0, <1>10, <2>1, <2>2, ConnectsInPlace DEF Inspect
  <2>3. CASE name[p] \notin Present
    <3>1. Only(p, "failed")
      BY <1>10, <2>3 DEF Inspect
    <3>. QED
      BY <2>1, <3>1, MovesInPlace DEF Busy, Pending, Ended, Named, Connected
  <2>. QED
    BY <2>2, <2>3
<1>11. ASSUME Ping(p) PROVE Good
  <2>1. pc[p] = "ping" /\ name[p] \in Machine
    BY <1>0, <1>11 DEF Ping, Place, Named
  <2>2. CASE Only(p, "gpu") \/ Only(p, "ok") \/ Only(p, "failed")
    BY <2>1, <2>2, MovesInPlace DEF Busy, Pending, Ended, Named, Connected
  <2>3. ASSUME tries[p] + 1 < MaxPings, tries' = [tries EXCEPT ![p] = @ + 1],
               UNCHANGED <<pc, boundVars, cmd, name, client, excused>>
        PROVE  Good
    <3>1. tries[p] + 1 \in 0 .. MaxPolls + MaxPings
      BY <1>0, <2>3, BoundAssumption DEF TypeOK
    <3>. QED
      BY <1>0, <2>3, <3>1 DEF TypeOK, LocalTypes, Own, boundVars, Place
  <2>. QED
    BY <1>11, <2>2, <2>3 DEF Ping
<1>12. ASSUME CheckGpu(p) PROVE Good
  <2>1. pc[p] = "gpu" /\ name[p] \in Machine
    BY <1>0, <1>12 DEF CheckGpu, Place, Named
  <2>2. Only(p, "failed") \/ Only(p, "ok") \/ Only(p, "installing")
    BY <1>12 DEF CheckGpu
  <2>. QED
    BY <2>1, <2>2, MovesInPlace DEF Busy, Pending, Ended, Named, Connected
<1>13. ASSUME InstallEnds(p) PROVE Good
  <2>1. pc[p] = "installing" /\ (Only(p, "failed") \/ Only(p, "ok"))
    BY <1>13 DEF InstallEnds
  <2>. QED
    BY <2>1, MovesInPlace DEF Busy, Pending, Ended, Named, Connected
<1>14. ASSUME CallFails(p) PROVE Good
  <2>1. /\ pc[p] \in Pending
        /\ \/ Only(p, "list") /\ pc[p] = "docker" /\ cmd[p].runtime = "auto"
           \/ Only(p, "failed")
    BY <1>14 DEF CallFails, Limited
  <2>. QED
    BY <2>1, MovesInPlace DEF Busy, Pending, Ended, Named, Connected
<1>15. ASSUME Crash(p) PROVE Good
  BY <1>15, MovesInPlace DEF Crash, Busy, Pending, Ended, Named, Connected
<1>. QED
  BY <1>1, <1>2, <1>3, <1>4, <1>5, <1>6, <1>7, <1>8, <1>9, <1>10, <1>11,
     <1>12, <1>13, <1>14, <1>15 DEF Proceed


-----------------------------------------------------------------------------
\* What one step makes of the machines.
HostTypes ==
    /\ machine \in [Machine -> {"absent", "half", "stopped", "booting", "up"}]
    /\ default \in Machine \cup {None}
    /\ api \subseteq Machine /\ cdi \subseteq Machine /\ excused \subseteq Process

LEMMA HostsKeepType ==
    ASSUME Inv, NEW p \in Process, Proceed(p) \/ Crash(p)
    PROVE  HostTypes'
<1>. USE DEF Inv, TypeOK, HostTypes
<1>1. /\ Place(p) /\ DvtMachine \in Machine
  BY MachineAssumption DEF PlaceInv
<1>2. CASE InitBegins(p) \/ InitEnds(p) \/ StartBegins(p)
  BY <1>1, <1>2 DEF InitBegins, InitEnds, StartBegins
<1>3. CASE CallFails(p) \/ Crash(p)
  <2>1. \A S \in LeftInstalling(p) : S \subseteq Machine
    BY <1>1 DEF LeftInstalling, GpuMachine, Place, Named
  <2>. QED
    BY <1>3, <2>1 DEF CallFails, Crash, Excuse
<1>4. CASE InstallEnds(p)
  BY <1>1, <1>4 DEF InstallEnds, GpuMachine, Place, Named
<1>5. CASE \/ TryDocker(p) \/ List(p) \/ Look(p) \/ StartEnds(p) \/ Poll(p)
           \/ GiveUpWaiting(p) \/ Inspect(p) \/ Ping(p) \/ CheckGpu(p)
  BY <1>5 DEF TryDocker, List, Look, StartEnds, Poll, GiveUpWaiting, Inspect,
              Ping, CheckGpu, Excuse, hostVars
<1>. QED
  BY <1>2, <1>3, <1>4, <1>5 DEF Proceed

LEMMA InvOfSteps ==
    ASSUME Inv, NEW p \in Process, Proceed(p) \/ Crash(p)
    PROVE  Inv'
<1>1. LocalTypes' /\ Own(p) /\ Place(p)' /\ HostTypes'
  BY StepsInPlace, HostsKeepType
<1>2. launched' \in 0 .. MaxCommands /\ meddled' \in 0 .. MaxMeddling
  BY <1>1 DEF Own, Inv, TypeOK
<1>3. \A q \in Process : Place(q)'
  BY <1>1 DEF Inv, PlaceInv, Place, Own
<1>. QED
  BY <1>1, <1>2, <1>3 DEF Inv, PlaceInv, TypeOK, LocalTypes, HostTypes

LEMMA InvOfLaunch ==
    ASSUME Inv, NEW p \in Process, Launch(p)
    PROVE  Inv'
<1>. USE DEF Inv, TypeOK
<1>1. PICK c \in Command :
         /\ cmd' = [cmd EXCEPT ![p] = c]
         /\ Goto(p, IF c.runtime = "podman" THEN "list" ELSE "docker")
  BY DEF Launch
<1>2. UNCHANGED <<machine, default, api, cdi, meddled, name, client, tries>>
  BY DEF Launch, hostVars
<1>3. Place(p) /\ pc[p] \in Ended
  BY DEF PlaceInv, Launch, Busy
<1>4. excused' \subseteq Process
  BY DEF Launch
<1>5. launched' \in 0 .. MaxCommands
  BY BoundAssumption DEF Launch
<1>6. /\ pc' \in [Process -> Pending \cup Ended]
      /\ cmd' \in [Process -> Command \cup {None}]
  BY <1>1 DEF Goto, Pending
<1>7. Place(p)'
  BY <1>1, <1>2, <1>3 DEF Place, Goto, Pending, Named, Connected, Ended
<1>8. \A q \in Process \ {p} : Place(q)'
  BY <1>1, <1>2 DEF PlaceInv, Place, Goto
<1>. QED
  BY <1>2, <1>4, <1>5, <1>6, <1>7, <1>8 DEF PlaceInv

LEMMA InvOfOutside ==
    ASSUME Inv, Outside \/ UNCHANGED vars
    PROVE  Inv'
<1>. USE DEF Inv, TypeOK
<1>1. UNCHANGED <<launched, pc, localVars>>
  BY DEF Outside, BootEnds, ApiOpens, Meddle, vars, localVars, boundVars
<1>2. PlaceInv'
  BY <1>1 DEF PlaceInv, Place, localVars
<1>3. HostTypes' /\ meddled' \in 0 .. MaxMeddling
  <2>1. CASE Meddle
    BY <2>1, BoundAssumption DEF Meddle, Present, HostTypes
  <2>2. ASSUME NEW m \in Machine, BootEnds(m) PROVE HostTypes' /\ meddled' = meddled
    BY <2>2 DEF BootEnds, HostTypes, boundVars
  <2>3. ASSUME NEW m \in Machine, ApiOpens(m) PROVE HostTypes' /\ meddled' = meddled
    BY <2>3 DEF ApiOpens, HostTypes, boundVars
  <2>4. CASE UNCHANGED vars
    BY <2>4 DEF vars, HostTypes
  <2>. QED
    BY <2>1, <2>2, <2>3, <2>4 DEF Outside
<1>. QED
  BY <1>1, <1>2, <1>3 DEF HostTypes, localVars

LEMMA InvNext == Inv /\ [Next]_vars => Inv'
  BY InvOfSteps, InvOfLaunch, InvOfOutside DEF Next

LEMMA Invariance == Spec => []Inv
  BY InitInv, InvNext, PTL DEF Spec

-----------------------------------------------------------------------------
\* Every variable keeps its type; in particular no client is ever made for a
\* machine of a name that podman only displays.
THEOREM TypeCorrect == Spec => []TypeOK
<1>1. Inv => TypeOK
  BY DEF Inv
<1>. QED
  BY <1>1, Invariance, PTL

\* No command creates or starts a machine that its settings do not let it,
\* however many commands and users are at work.
THEOREM AsAsked == Spec => OnlyAsAsked
<1>. DEFINE Asked == \A m \in Machine :
          meddled' = meddled /\ machine'[m] # machine[m] =>
              /\ machine'[m] = "half" =>
                    \E p \in Process : pc'[p] # pc[p] /\ cmd[p].auto_init
                                      /\ cmd[p].runtime # "docker"
              /\ machine'[m] = "booting" =>
                    \E p \in Process : pc'[p] # pc[p] /\ cmd[p].auto_start
                                      /\ cmd[p].runtime # "docker"
<1>1. Inv /\ [Next]_vars => [Asked]_vars
  <2>. SUFFICES ASSUME Inv, Next, NEW m \in Machine, meddled' = meddled,
                       machine'[m] # machine[m]
                PROVE  /\ machine'[m] = "half" =>
                            \E p \in Process : pc'[p] # pc[p] /\ cmd[p].auto_init
                                              /\ cmd[p].runtime # "docker"
                       /\ machine'[m] = "booting" =>
                            \E p \in Process : pc'[p] # pc[p] /\ cmd[p].auto_start
                                              /\ cmd[p].runtime # "docker"
    OBVIOUS
  <2>. USE DEF Inv, TypeOK
  <2>1. CASE Outside
    <3>1. ~Meddle
      BY DEF Meddle
    <3>. QED
      BY <2>1, <3>1 DEF Outside, BootEnds, ApiOpens
  <2>2. ASSUME NEW p \in Process, InitBegins(p)
        PROVE  /\ machine'[m] # "booting" /\ pc'[p] # pc[p]
               /\ cmd[p].auto_init /\ cmd[p].runtime # "docker"
    BY <2>2 DEF InitBegins, Only, Goto, PlaceInv, Place, Pending
  <2>3. ASSUME NEW p \in Process, StartBegins(p)
        PROVE  /\ machine'[m] # "half" /\ pc'[p] # pc[p]
               /\ cmd[p].auto_start /\ cmd[p].runtime # "docker"
    BY <2>3 DEF StartBegins, Only, Goto, PlaceInv, Place, Pending
  <2>4. ASSUME NEW p \in Process, InitEnds(p) PROVE machine'[m] \notin {"half", "booting"}
    BY <2>4 DEF InitEnds
  <2>5. ASSUME NEW p \in Process, Launch(p) \/ Proceed(p) \/ Crash(p),
               ~InitBegins(p), ~StartBegins(p), ~InitEnds(p)
        PROVE  FALSE
    BY <2>5 DEF Launch, Crash, Proceed, TryDocker, List, Look, StartEnds, Poll,
         GiveUpWaiting, Inspect, Ping, CheckGpu, InstallEnds, CallFails, hostVars
  <2>. QED
    BY <2>1, <2>2, <2>3, <2>4, <2>5 DEF Next
<1>. QED
  BY <1>1, Invariance, PTL DEF Spec, OnlyAsAsked

\* The GPU file is in the machine that the image will be built in.
THEOREM GpuInPlace == Spec => GpuWhereItBuilds
<1>. DEFINE Built == \A p \in Process :
          Busy(p) /\ pc'[p] = "ok" /\ cmd[p].gpu /\ client[p] # None =>
              client[p] \in cdi'
<1>1. Inv /\ [Next]_vars => [Built]_vars
  <2>. SUFFICES ASSUME Inv, Next, NEW p \in Process, Busy(p), pc'[p] = "ok",
                       cmd[p].gpu, client[p] # None
                PROVE  client[p] \in cdi'
    OBVIOUS
  <2>. USE DEF Inv, TypeOK
  <2>1. Place(p) /\ pc[p] # "ok"
    BY DEF PlaceInv, Busy, Pending
  <2>2. PICK q \in Process : Launch(q) \/ Proceed(q) \/ Crash(q)
    BY <2>1 DEF Next, Outside, BootEnds, ApiOpens, Meddle
  <2>3. q = p
    <3>1. CASE Launch(q)
      BY <2>1, <3>1 DEF Launch, Goto
    <3>2. CASE Proceed(q) \/ Crash(q)
      BY <2>1, <3>2, StepsInPlace DEF Own
    <3>. QED
      BY <2>2, <3>1, <3>2
  <2>4. TryDocker(p) \/ Ping(p) \/ CheckGpu(p) \/ InstallEnds(p)
    BY <2>1, <2>2, <2>3, RefusedOrFailed
       DEF Launch, Crash, Proceed, List, InitBegins, InitEnds, AfterInit, Look,
           AfterLook, Connect, StartBegins, StartEnds, Poll, GiveUpWaiting,
           Inspect, CallFails, Only, Goto
  <2>5. CASE TryDocker(p)
    BY <2>1, <2>5 DEF TryDocker, Place
  <2>6. CASE Ping(p)
    BY <2>1, <2>6 DEF Ping, Only, Goto
  <2>7. CASE CheckGpu(p)
    BY <2>1, <2>7 DEF CheckGpu, Only, Goto, GpuMachine, Place, Connected, hostVars
  <2>8. CASE InstallEnds(p)
    BY <2>1, <2>8 DEF InstallEnds, Only, Goto, GpuMachine, Place, Connected
  <2>. QED
    BY <2>4, <2>5, <2>6, <2>7, <2>8
<1>. QED
  BY <1>1, Invariance, PTL DEF Spec, GpuWhereItBuilds
-----------------------------------------------------------------------------
(* Why a command fails.  A command that nothing has come in the way of is    *)
(* the only one at work, so what it saw of its machine some calls ago still   *)
(* holds: KnowsInv says, place by place, what that is.                        *)

\* Places at which readiness checks or pings may have been counted.
Counting == {"poll", "ping", "gpu", "installing"}

Known(p) ==
    /\ pc[p] = "init" => machine[DvtMachine] = "absent"
    /\ pc[p] = "initializing" => machine[DvtMachine] = "half"
    /\ pc[p] = "look" => name[p] \in Present
    /\ pc[p] = "start" =>
          name[p] \in Machine /\ machine[name[p]] \in {"half", "stopped", "booting"}
    /\ pc[p] = "starting" => machine[name[p]] \in {"booting", "up"}
    /\ pc[p] \in {"poll", "inspect"} \cup Connected => machine[name[p]] = "up"
    /\ pc[p] = "poll" /\ tries[p] > 0 => name[p] # default

Alone(p) == \A q \in Process \ {p} : ~Busy(q)

KnowsInv ==
    /\ \A p \in Process : Busy(p) /\ p \notin excused => Alone(p) /\ Known(p)
    /\ \A p \in Process : pc[p] \notin Counting => tries[p] = 0

\* What a command may fail for without anything in its way.
Cause(p) ==
    \/ cmd[p].runtime = "auto" /\ Forbidden(p)
    \/ pc[p] = "poll" /\ name[p] # default
    \/ pc[p] = "start" /\ machine[name[p]] \in {"half", "booting"}

LEMMA InitKnows == Init => KnowsInv
  BY DEF Init, KnowsInv, Busy, Pending

LEMMA OnlySteps ==
    ASSUME TypeOK, NEW p \in Process, NEW step \in Pending \cup Ended, Only(p, step)
    PROVE  /\ pc'[p] = step
           /\ step \in Ended => tries'[p] = 0
           /\ step \notin Ended => UNCHANGED <<name, tries>>
  BY DEF TypeOK, Only, Goto, localVars

\* A step excuses commands, never the opposite, and only a command at work
\* takes one.
LEMMA StepsExcuse ==
    ASSUME NEW p \in Process, Proceed(p) \/ Crash(p)
    PROVE  Busy(p) /\ excused \subseteq excused'
  BY DEF Proceed, Crash, TryDocker, List, InitBegins, InitEnds, Look, StartBegins,
         StartEnds, Poll, GiveUpWaiting, Inspect, Ping, CheckGpu, InstallEnds,
         CallFails, Excuse, Busy, Pending, Limited

\* Steps count only where checks or pings are counted.
LEMMA StepsCount ==
    ASSUME Inv, KnowsInv, NEW p \in Process, Proceed(p) \/ Crash(p)
    PROVE  pc'[p] \notin Counting => tries'[p] = 0
<1>. SUFFICES ASSUME pc'[p] \notin Counting PROVE tries'[p] = 0
  OBVIOUS
<1>1. TypeOK /\ (pc[p] \notin Counting => tries[p] = 0)
  BY DEF Inv, KnowsInv
<1>2. ASSUME NEW step \in Pending \cup Ended, Only(p, step),
             pc[p] \notin Counting \/ step \in Ended \cup Counting
      PROVE  tries'[p] = 0
  BY <1>1, <1>2, OnlySteps
<1>3. CASE Connect(p)
  BY <1>1, <1>3 DEF Connect, Goto, Counting, TypeOK
<1>4. CASE TryDocker(p) \/ CallFails(p) \/ Crash(p)
  BY <1>2, <1>4 DEF TryDocker, CallFails, Crash, Counting, Pending, Ended
<1>5. CASE List(p) \/ InitBegins(p) \/ InitEnds(p)
  <2>1. pc[p] \notin Counting
    BY <1>5 DEF List, InitBegins, InitEnds, Counting
  <2>2. (\E step \in Pending \cup Ended : Only(p, step)) \/ UNCHANGED tries
    BY <1>5, RefusedOrFailed DEF List, InitBegins, InitEnds, AfterInit, Pending, Ended
  <2>. QED
    BY <1>1, <1>2, <2>1, <2>2
<1>6. CASE Look(p) \/ StartBegins(p) \/ StartEnds(p) \/ Inspect(p)
  <2>1. pc[p] \notin Counting
    BY <1>6 DEF Look, StartBegins, StartEnds, Inspect, Counting
  <2>2. (\E step \in Pending \cup Ended : Only(p, step)) \/ Connect(p)
    BY <1>6, RefusedOrFailed
       DEF Look, AfterLook, StartBegins, StartEnds, Inspect, Pending, Ended
  <2>. QED
    BY <1>2, <1>3, <2>1, <2>2
<1>7. CASE Poll(p)
  BY <1>1, <1>7 DEF Poll, Goto, Counting, TypeOK
<1>8. CASE Ping(p)
  BY <1>2, <1>8 DEF Ping, Counting, Pending, Ended
<1>9. CASE GiveUpWaiting(p) \/ CheckGpu(p) \/ InstallEnds(p)
  BY <1>2, <1>9 DEF GiveUpWaiting, CheckGpu, InstallEnds, Counting, Pending, Ended
<1>. QED
  BY <1>4, <1>5, <1>6, <1>7, <1>8, <1>9 DEF Proceed

\* What a command knows that nothing comes in the way of, and why it fails.
LEMMA StepsKnow ==
    ASSUME Inv, KnowsInv, NEW p \in Process, Proceed(p) \/ Crash(p), p \notin excused'
    PROVE  /\ Busy(p)' => Known(p)'
           /\ pc'[p] = "failed" => Cause(p)
<1>. DEFINE Good == /\ Busy(p)' => Known(p)'
                    /\ pc'[p] = "failed" => Cause(p)
<1>1. /\ TypeOK /\ Place(p) /\ Known(p) /\ Busy(p)
      /\ pc[p] \notin Counting => tries[p] = 0
      /\ DvtMachine \in Machine /\ Present \subseteq Machine
  BY StepsExcuse, MachineAssumption DEF Inv, PlaceInv, KnowsInv, Present
<1>2. ASSUME NEW step \in {"ok", "refused", "idle"}, Only(p, step) PROVE Good
  <2>1. pc'[p] = step
    BY <1>1, <1>2, OnlySteps DEF Ended
  <2>. QED
    BY <2>1 DEF Busy, Pending
<1>3. ASSUME NEW step \in {"list", "docker"}, Only(p, step) PROVE Good
  <2>1. pc'[p] = step
    BY <1>1, <1>3, OnlySteps DEF Pending
  <2>. QED
    BY <2>1 DEF Known, Connected
<1>4. ASSUME Only(p, "failed"), Cause(p) PROVE Good
  <2>1. pc'[p] = "failed"
    BY <1>1, <1>4, OnlySteps DEF Ended
  <2>. QED
    BY <1>4, <2>1 DEF Busy, Pending
<1>5. ASSUME Connect(p), machine[name[p]] = "up", UNCHANGED hostVars PROVE Good
  BY <1>1, <1>5 DEF Connect, Goto, TypeOK, Known, Connected, hostVars
<1>6. CASE TryDocker(p)
  BY <1>2, <1>3, <1>6 DEF TryDocker
<1>21. ASSUME Only(p, Refuse(p)), Forbidden(p) PROVE Good
  BY <1>2, <1>4, <1>21, RefusedOrFailed DEF Cause
<1>7. CASE List(p)
  <2>1. CASE Present = {} /\ ~cmd[p].auto_init /\ Only(p, Refuse(p))
    BY <1>7, <1>21, <2>1 DEF List, Forbidden
  <2>2. CASE Present = {} /\ Goto(p, "init")
    <3>1. pc'[p] = "init" /\ machine' = machine
      BY <1>1, <1>7, <2>2 DEF TypeOK, Goto, List, hostVars
    <3>. QED
      BY <1>1, <2>2, <3>1 DEF Known, Connected, Present
  <2>3. ASSUME NEW m \in Present, name' = [name EXCEPT ![p] = NameOf(Listed(m))],
               Goto(p, "look")
        PROVE  Good
    <3>1. pc'[p] = "look" /\ name'[p] = m /\ machine' = machine
      BY <1>1, <1>7, <2>3 DEF TypeOK, Goto, List, hostVars, NameOf, Listed
    <3>. QED
      BY <3>1 DEF Known, Connected, Present
  <2>. QED
    BY <1>7, <2>1, <2>2, <2>3 DEF List
<1>8. CASE InitBegins(p)
  <2>1. pc[p] = "init" /\ machine[DvtMachine] = "absent"
    BY <1>1, <1>8 DEF InitBegins, Known
  <2>2. /\ machine' = [machine EXCEPT ![DvtMachine] = "half"]
        /\ Only(p, "initializing")
    BY <1>8, <2>1 DEF InitBegins
  <2>3. pc'[p] = "initializing" /\ machine'[DvtMachine] = "half"
    BY <1>1, <2>2, OnlySteps DEF Pending, TypeOK
  <2>. QED
    BY <2>3 DEF Known, Connected
<1>9. CASE InitEnds(p)
  <2>1. pc[p] = "initializing" /\ name[p] = DvtMachine
    BY <1>1, <1>9 DEF InitEnds, Place
  <2>2. CASE ~cmd[p].auto_start
    BY <1>9, <1>21, <2>2 DEF InitEnds, AfterInit, Forbidden
  <2>3. CASE cmd[p].auto_start
    <3>1. /\ pc'[p] = "start" /\ name'[p] = DvtMachine
          /\ machine'[DvtMachine] = "stopped"
      BY <1>1, <1>9, <2>1, <2>3, OnlySteps
         DEF InitEnds, AfterInit, Pending, Ended, TypeOK
    <3>. QED
      BY <1>1, <3>1 DEF Known, Connected
  <2>. QED
    BY <2>2, <2>3
<1>10. CASE Look(p)
  <2>1. pc[p] = "look" /\ name[p] \in Present /\ UNCHANGED hostVars
    BY <1>1, <1>10 DEF Look, Known
  <2>2. CASE machine[name[p]] = "up"
    BY <1>5, <1>10, <2>1, <2>2 DEF Look, AfterLook
  <2>3. CASE machine[name[p]] # "up" /\ ~cmd[p].auto_start
    <3>1. AfterLook(p) = Refuse(p) /\ Refuse(p) # "ping"
      BY <2>1, <2>3, RefusedOrFailed DEF AfterLook
    <3>. QED
      BY <1>10, <1>21, <2>1, <2>3, <3>1 DEF Look, Forbidden
  <2>4. CASE machine[name[p]] # "up" /\ cmd[p].auto_start
    <3>1. pc'[p] = "start" /\ name' = name /\ machine' = machine
      BY <1>1, <1>10, <2>1, <2>4, OnlySteps
         DEF Look, AfterLook, Pending, Ended, hostVars
    <3>2. machine[name[p]] \in {"half", "stopped", "booting"}
      BY <1>1, <2>1, <2>4 DEF Present, TypeOK
    <3>. QED
      BY <1>1, <2>1, <3>1, <3>2 DEF Known, Connected
  <2>. QED
    BY <2>2, <2>3, <2>4
<1>11. CASE StartBegins(p)
  <2>1. /\ pc[p] = "start" /\ name[p] \in Machine
        /\ machine[name[p]] \in {"half", "stopped", "booting"}
    BY <1>1, <1>11 DEF StartBegins, Known
  <2>2. CASE machine[name[p]] = "stopped"
    <3>1. /\ pc'[p] = "starting" /\ name' = name
          /\ machine'[name[p]] = "booting"
      BY <1>1, <1>11, <2>1, <2>2, OnlySteps DEF StartBegins, Pending, Ended, TypeOK
    <3>. QED
      BY <3>1 DEF Known, Connected
  <2>3. CASE machine[name[p]] # "stopped"
    BY <1>4, <1>11, <2>1, <2>3 DEF StartBegins, Cause
  <2>. QED
    BY <2>2, <2>3
<1>12. CASE StartEnds(p)
  <2>1. /\ pc[p] = "starting" /\ machine[name[p]] = "up" /\ tries[p] = 0
        /\ Only(p, "poll") /\ UNCHANGED hostVars
    BY <1>1, <1>12 DEF StartEnds, Known, Counting
  <2>2. pc'[p] = "poll" /\ UNCHANGED <<name, tries>> /\ machine' = machine
    BY <1>1, <2>1, OnlySteps DEF Pending, Ended, hostVars
  <2>. QED
    BY <2>1, <2>2 DEF Known, Connected
<1>13. CASE Poll(p)
  <2>1. pc[p] = "poll" /\ machine[name[p]] = "up" /\ name[p] \in Machine
    BY <1>1, <1>13 DEF Poll, Known, Place, Named
  <2>2. UNCHANGED <<machine, default, name>>
    BY <1>13 DEF Poll, hostVars
  <2>3. CASE Polled
    <3>1. pc'[p] = "inspect"
      BY <1>1, <1>13, <2>3 DEF Poll, Goto, TypeOK
    <3>. QED
      BY <2>1, <2>2, <3>1 DEF Known, Connected
  <2>4. CASE ~Polled
    <3>1. pc' = pc
      BY <1>13, <2>4 DEF Poll
    <3>2. name[p] # default
      BY <2>1, <2>4, MachineAssumption DEF Polled
    <3>. QED
      BY <2>1, <2>2, <3>1, <3>2 DEF Known, Connected
  <2>. QED
    BY <2>3, <2>4
<1>14. CASE GiveUpWaiting(p)
  BY <1>1, <1>4, <1>14 DEF GiveUpWaiting, Known, Cause
<1>15. CASE Inspect(p)
  <2>1. /\ pc[p] = "inspect" /\ name[p] \in Machine /\ machine[name[p]] = "up"
        /\ UNCHANGED hostVars
    BY <1>1, <1>15 DEF Inspect, Known, Place, Named
  <2>. QED
    BY <1>5, <1>15, <2>1 DEF Inspect, Present
<1>16. CASE Ping(p)
  <2>1. pc[p] = "ping" /\ machine[name[p]] = "up" /\ UNCHANGED hostVars
    BY <1>1, <1>16 DEF Ping, Known, Connected
  <2>2. CASE Only(p, "ok")
    BY <1>2, <2>2
  <2>3. CASE Only(p, "gpu")
    <3>1. pc'[p] = "gpu" /\ name' = name /\ machine' = machine
      BY <1>1, <2>1, <2>3, OnlySteps DEF Pending, Ended, hostVars
    <3>. QED
      BY <2>1, <3>1 DEF Known, Connected
  <2>4. CASE UNCHANGED <<pc, name>>
    BY <2>1, <2>4 DEF Known, Connected, hostVars
  <2>. QED
    BY <1>16, <2>2, <2>3, <2>4 DEF Ping, Excuse
<1>17. CASE CheckGpu(p)
  <2>1. /\ pc[p] = "gpu" /\ machine[name[p]] = "up" /\ UNCHANGED hostVars
        /\ Only(p, "ok") \/ Only(p, "installing")
    BY <1>1, <1>17 DEF CheckGpu, GpuMachine, Known, Connected
  <2>2. CASE Only(p, "installing")
    <3>1. pc'[p] = "installing" /\ name' = name /\ machine' = machine
      BY <1>1, <2>1, <2>2, OnlySteps DEF Pending, Ended, hostVars
    <3>. QED
      BY <2>1, <3>1 DEF Known, Connected
  <2>. QED
    BY <1>2, <2>1, <2>2
<1>18. CASE InstallEnds(p)
  BY <1>1, <1>2, <1>18 DEF InstallEnds, GpuMachine, Known, Connected
<1>19. CASE CallFails(p)
  BY <1>19 DEF CallFails, Excuse
<1>20. CASE Crash(p)
  BY <1>2, <1>20 DEF Crash
<1>. QED
  BY <1>6, <1>7, <1>8, <1>9, <1>10, <1>11, <1>12, <1>13, <1>14, <1>15, <1>16,
     <1>17, <1>18, <1>19, <1>20 DEF Proceed

LEMMA KnowsOfSteps ==
    ASSUME Inv, KnowsInv, NEW p \in Process, Proceed(p) \/ Crash(p)
    PROVE  KnowsInv'
<1>1. Own(p) /\ Busy(p) /\ excused \subseteq excused'
  BY StepsInPlace, StepsExcuse
<1>2. \A q \in Process \ {p} : pc'[q] = pc[q] /\ tries'[q] = tries[q]
  BY <1>1 DEF Own
<1>3. ASSUME NEW q \in Process, Busy(q)', q \notin excused'
      PROVE  Alone(q)' /\ Known(q)'
  <2>1. CASE q = p
    <3>1. Known(p)'
      BY <1>3, <2>1, StepsKnow
    <3>2. Alone(p)
      BY <1>1, <1>3, <2>1 DEF KnowsInv
    <3>. QED
      BY <1>2, <2>1, <3>1, <3>2 DEF Alone, Busy
  <2>2. CASE q # p
    <3>1. Busy(q) /\ q \notin excused
      BY <1>1, <1>2, <1>3, <2>2 DEF Busy
    <3>2. ~Busy(p)
      BY <2>2, <3>1 DEF KnowsInv, Alone
    <3>. QED
      BY <1>1, <3>2
  <2>. QED
    BY <2>1, <2>2
<1>4. ASSUME NEW q \in Process, pc'[q] \notin Counting PROVE tries'[q] = 0
  <2>1. CASE q = p
    BY <1>4, <2>1, StepsCount
  <2>2. CASE q # p
    BY <1>2, <1>4, <2>2 DEF KnowsInv
  <2>. QED
    BY <2>1, <2>2
<1>. QED
  BY <1>3, <1>4 DEF KnowsInv

LEMMA KnowsOfLaunch ==
    ASSUME Inv, KnowsInv, NEW p \in Process, Launch(p)
    PROVE  KnowsInv' /\ pc'[p] # "failed" /\ \A q \in Process \ {p} : pc'[q] = pc[q]
<1>1. /\ pc \in [Process -> Pending \cup Ended] /\ ~Busy(p)
      /\ UNCHANGED <<machine, default, name, tries>>
  BY DEF Inv, TypeOK, Launch, hostVars
<1>2. pc'[p] \in {"list", "docker"} /\ \A q \in Process \ {p} : pc'[q] = pc[q]
  BY <1>1 DEF Launch, Goto
<1>3. ASSUME NEW q \in Process, Busy(q)', q \notin excused'
      PROVE  Alone(q)' /\ Known(q)'
  <2>1. q = p
    BY <1>2, <1>3 DEF Launch, Busy
  <2>2. Alone(p)
    BY <1>3, <2>1 DEF Launch, Alone
  <2>. QED
    BY <1>2, <2>1, <2>2 DEF Alone, Busy, Known, Connected
<1>4. \A q \in Process : pc'[q] \notin Counting => tries'[q] = 0
  BY <1>1, <1>2 DEF KnowsInv, Counting, Busy, Pending
<1>. QED
  BY <1>2, <1>3, <1>4 DEF KnowsInv

LEMMA KnowsOfOutside ==
    ASSUME Inv, KnowsInv, Outside \/ UNCHANGED vars
    PROVE  KnowsInv' /\ pc' = pc
<1>1. UNCHANGED <<pc, name, tries>>
  BY DEF Outside, BootEnds, ApiOpens, Meddle, vars, localVars
<1>2. excused \subseteq excused'
  BY DEF Outside, BootEnds, ApiOpens, Meddle, vars
<1>3. ASSUME NEW p \in Process, Busy(p)', p \notin excused'
      PROVE  Alone(p)' /\ Known(p)'
  <2>1. Busy(p) /\ Alone(p) /\ Known(p)
    BY <1>1, <1>2, <1>3 DEF KnowsInv, Busy
  <2>2. Alone(p)'
    BY <1>1, <2>1 DEF Alone, Busy
  <2>3. CASE Meddle
    BY <1>3, <2>1, <2>3 DEF Meddle
  <2>4. ASSUME NEW m \in Machine, BootEnds(m) PROVE Known(p)'
    <3>1. PICK state \in {"up", "stopped"} :
             /\ machine' = [machine EXCEPT ![m] = state]
             /\ excused' = excused \cup
                   {q \in Process : name[q] = m /\ (state = "stopped" \/ pc[q] = "start")}
      BY <2>4 DEF BootEnds
    <3>2. machine[m] = "booting" /\ default' = default
      BY <2>4 DEF BootEnds
    <3>3. name[p] = m => state = "up" /\ pc[p] # "start"
      BY <1>3, <3>1
    <3>4. \A n \in Machine : machine'[n] = IF n = m THEN state ELSE machine[n]
      BY <3>1 DEF Inv, TypeOK
    <3>5. pc[p] \in Named \cup {"look", "start"} => name[p] \in Machine
      BY <2>1 DEF Inv, PlaceInv, Place, Known, Present
    <3>. QED
      BY <1>1, <2>1, <3>2, <3>3, <3>4, <3>5, MachineAssumption
         DEF Known, Present, Named, Connected
  <2>5. CASE UNCHANGED <<machine, default>>
    BY <1>1, <2>1, <2>2, <2>5 DEF Known, Present, Connected
  <2>. QED
    BY <2>2, <2>3, <2>4, <2>5 DEF Outside, ApiOpens, vars
<1>. QED
  BY <1>1, <1>3 DEF KnowsInv

LEMMA KnowsNext == Inv /\ KnowsInv /\ [Next]_vars => KnowsInv'
  BY KnowsOfSteps, KnowsOfLaunch, KnowsOfOutside DEF Next

\* A command that is not told what to set fails only for a cause outside it, or
\* under `auto` for a setting it is not told of, or for a machine half made or
\* coming up, or for one that is not the default: whatever number of commands
\* and users are at work, and wherever their calls take effect.
THEOREM FailureHasCause == Spec => FailsForCause
<1>. DEFINE Caused == \A p \in Process :
          pc[p] # "failed" /\ pc'[p] = "failed" =>
              \/ p \in excused'
              \/ cmd[p].runtime = "auto" /\ Forbidden(p)
              \/ pc[p] = "poll" /\ name[p] # default
              \/ pc[p] = "start" /\ machine[name[p]] \in {"half", "booting"}
<1>1. Inv /\ KnowsInv /\ [Next]_vars => [Caused]_vars
  <2>. SUFFICES ASSUME Inv, KnowsInv, Next, NEW p \in Process, pc[p] # "failed",
                       pc'[p] = "failed", p \notin excused'
                PROVE  Cause(p)
    BY DEF Cause
  <2>1. PICK q \in Process : Launch(q) \/ Proceed(q) \/ Crash(q)
    BY KnowsOfOutside DEF Next
  <2>2. Proceed(q) \/ Crash(q)
    BY <2>1, KnowsOfLaunch
  <2>3. q = p
    BY <2>2, StepsInPlace DEF Own
  <2>. QED
    BY <2>2, <2>3, StepsKnow
<1>. QED
  BY <1>1, InitInv, InvNext, InitKnows, KnowsNext, PTL DEF Spec, FailsForCause
-----------------------------------------------------------------------------
(* How far a command is from its end.                                        *)

\* Places a command has yet to come to, itself included: it never goes back to
\* an earlier one, though Docker, a machine that is there and one that runs
\* spare it some.
Ahead(step) ==
    CASE step = "docker"       -> 12
      [] step = "list"         -> 11
      [] step = "init"         -> 10
      [] step = "initializing" -> 9
      [] step = "look"         -> 8
      [] step = "start"        -> 7
      [] step = "starting"     -> 6
      [] step = "poll"         -> 5
      [] step = "inspect"      -> 4
      [] step = "ping"         -> 3
      [] step = "gpu"          -> 2
      [] step = "installing"   -> 1
      [] OTHER                 -> 0

\* A step brings it to a later place, or leaves it where it is with one check or
\* ping less to make.
Nearer(p) ==
    \/ Ahead(pc'[p]) < Ahead(pc[p])
    \/ /\ pc'[p] = pc[p] /\ tries'[p] = tries[p] + 1
       /\ tries'[p] <= MaxPolls + MaxPings

LEMMA OnlyNearer ==
    ASSUME TypeOK, NEW p \in Process, NEW step \in Pending \cup Ended, Only(p, step),
           Ahead(step) < Ahead(pc[p])
    PROVE  Nearer(p)
  BY OnlySteps DEF Nearer

LEMMA StepsNearer ==
    ASSUME Inv, NEW p \in Process, Proceed(p) \/ Crash(p)
    PROVE  Nearer(p)
<1>. USE DEF Inv
<1>1. CASE TryDocker(p)
  BY <1>1, OnlyNearer DEF TryDocker, Ahead, Pending, Ended
<1>2. CASE List(p)
  <2>1. CASE Only(p, Refuse(p))
    BY <1>2, <2>1, RefusedOrFailed, OnlyNearer DEF List, Ahead, Pending, Ended
  <2>2. CASE Goto(p, "init") \/ Goto(p, "look")
    BY <1>2, <2>2 DEF List, Goto, TypeOK, Nearer, Ahead
  <2>. QED
    BY <1>2, <2>1, <2>2 DEF List
<1>3. CASE InitBegins(p) \/ StartBegins(p) \/ GiveUpWaiting(p)
  BY <1>3, OnlyNearer DEF InitBegins, StartBegins, GiveUpWaiting, Ahead, Pending, Ended
<1>4. CASE InitEnds(p)
  BY <1>4, RefusedOrFailed, OnlyNearer DEF InitEnds, AfterInit, Ahead, Pending, Ended
<1>5. ASSUME Connect(p), pc[p] \in {"look", "inspect"} PROVE Nearer(p)
  BY <1>5 DEF Connect, Goto, TypeOK, Nearer, Ahead
<1>6. CASE Look(p)
  <2>1. CASE AfterLook(p) = "ping"
    BY <1>5, <1>6, <2>1 DEF Look
  <2>2. CASE AfterLook(p) # "ping"
    <3>1. Only(p, AfterLook(p)) /\ AfterLook(p) \in {"failed", "start", "refused"}
      BY <1>6, <2>2, RefusedOrFailed DEF Look, AfterLook
    <3>. QED
      BY <1>6, <3>1, OnlyNearer DEF Look, Ahead, Pending, Ended
  <2>. QED
    BY <2>1, <2>2
<1>7. CASE StartEnds(p)
  BY <1>7, OnlyNearer DEF StartEnds, Ahead, Pending, Ended
<1>8. CASE Poll(p)
  <2>1. CASE Polled
    BY <1>8, <2>1 DEF Poll, Goto, TypeOK, Nearer, Ahead
  <2>2. CASE ~Polled
    BY <1>8, <2>2, BoundAssumption DEF Poll, TypeOK, Nearer
  <2>. QED
    BY <2>1, <2>2
<1>9. CASE Inspect(p)
  <2>1. pc[p] = "inspect" /\ (Connect(p) \/ Only(p, "failed"))
    BY <1>9 DEF Inspect
  <2>. QED
    BY <1>5, <2>1, OnlyNearer DEF Ahead, Pending, Ended
<1>10. CASE Ping(p)
  <2>1. pc[p] = "ping"
    BY <1>10 DEF Ping
  <2>2. CASE Only(p, "gpu") \/ Only(p, "ok") \/ Only(p, "failed")
    BY <2>1, <2>2, OnlyNearer DEF Ahead, Pending, Ended
  <2>3. CASE /\ tries[p] + 1 < MaxPings /\ tries' = [tries EXCEPT ![p] = @ + 1]
             /\ UNCHANGED pc
    BY <2>3, BoundAssumption DEF TypeOK, Nearer
  <2>. QED
    BY <1>10, <2>2, <2>3 DEF Ping
<1>11. CASE CheckGpu(p) \/ InstallEnds(p)
  BY <1>11, OnlyNearer DEF CheckGpu, InstallEnds, Ahead, Pending, Ended
<1>12. CASE CallFails(p) \/ Crash(p)
  <2>1. /\ pc[p] \in Pending
        /\ \/ Only(p, "list") /\ pc[p] = "docker"
           \/ Only(p, "failed") \/ Only(p, "idle")
    BY <1>12 DEF CallFails, Crash, Limited, Busy
  <2>2. Ahead(pc[p]) > 0 /\ Ahead("failed") = 0 /\ Ahead("idle") = 0
    BY <2>1 DEF Ahead, Pending
  <2>3. Ahead("docker") = 12 /\ Ahead("list") = 11
    BY DEF Ahead
  <2>. QED
    BY <2>1, <2>2, <2>3, OnlyNearer DEF Pending, Ended
<1>. QED
  BY <1>1, <1>2, <1>3, <1>4, <1>6, <1>7, <1>8, <1>9, <1>10, <1>11, <1>12
     DEF Proceed

\* Whatever a command finds, each of its steps brings it nearer to its end, and
\* nobody else's step takes it back: it makes no more than a fixed number of them.
StepsLeadOn ==
    [][\A p \in Process :
          Busy(p) => Nearer(p) \/ (pc'[p] = pc[p] /\ tries'[p] = tries[p])]_vars

THEOREM CommandsGetOn == Spec => StepsLeadOn
<1>. DEFINE On == \A p \in Process :
          Busy(p) => Nearer(p) \/ (pc'[p] = pc[p] /\ tries'[p] = tries[p])
<1>1. Inv /\ [Next]_vars => [On]_vars
  <2>. SUFFICES ASSUME Inv, Next, NEW p \in Process, Busy(p)
                PROVE  Nearer(p) \/ (pc'[p] = pc[p] /\ tries'[p] = tries[p])
    OBVIOUS
  <2>1. CASE Outside
    BY <2>1 DEF Outside, BootEnds, ApiOpens, Meddle, localVars
  <2>2. ASSUME NEW q \in Process, Launch(q)
        PROVE  pc'[p] = pc[p] /\ tries'[p] = tries[p]
    <3>1. q # p
      BY <2>2 DEF Launch
    <3>. QED
      BY <2>2, <3>1 DEF Launch, Goto, Inv, TypeOK
  <2>3. ASSUME NEW q \in Process, Proceed(q) \/ Crash(q)
        PROVE  Nearer(p) \/ (pc'[p] = pc[p] /\ tries'[p] = tries[p])
    <3>1. CASE q = p
      BY <2>3, <3>1, StepsNearer
    <3>2. CASE q # p
      BY <2>3, <3>2, StepsInPlace DEF Own
    <3>. QED
      BY <3>1, <3>2
  <2>. QED
    BY <2>1, <2>2, <2>3 DEF Next
<1>. QED
  BY <1>1, Invariance, PTL DEF Spec, StepsLeadOn
=============================================================================

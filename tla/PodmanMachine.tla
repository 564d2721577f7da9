---------------------------- MODULE PodmanMachine ----------------------------
(***************************************************************************)
(* How a dvt command finds its container engine on Windows                 *)
(* (dvt/src/devtemplate/runtime.py, podman_machine.py; the GPU step of     *)
(* workspace/up.py): it tries Docker, then Podman's machines, virtual      *)
(* machines that it may create and start on the way, each by a call of the *)
(* podman program that is cut off after a time limit.                      *)
(*                                                                         *)
(* Several commands run at a time, users create, start, stop and remove    *)
(* machines meanwhile, and a machine goes on with what it was told when    *)
(* the command that told it has given up.  Time is not counted: a time     *)
(* limit may strike whenever its call is pending, and the number of        *)
(* readiness checks within the 60 s of wait_until_ready is MaxPolls.       *)
(***************************************************************************)
EXTENDS Integers

CONSTANTS
    Process,     \* dvt commands, one at a time each
    Machine,     \* machines Podman may have
    DvtMachine,  \* DEFAULT_MACHINE_NAME, the one dvt creates
    Command,     \* settings and needs of the commands: see CommandAssumption
    None, NoSuchMachine, \* no machine; a name that no machine has
    MaxPolls,    \* bound: `podman ps` calls until the deadline has passed
    MaxPings,    \* pings of the engine's API: stop_after_attempt(3)
    MaxCommands, \* bound: commands started in a behaviour
    MaxMeddling  \* bound: machines users start, stop or remove by themselves

\* What a command has set: DVT_RUNTIME, the two switches (both off for `dvt
\* info`, whatever the settings), and whether it will build for a GPU.
ASSUME CommandAssumption ==
    Command \subseteq [runtime : {"auto", "docker", "podman"},
                       auto_init : BOOLEAN, auto_start : BOOLEAN, gpu : BOOLEAN]
ASSUME MachineAssumption ==
    DvtMachine \in Machine /\ None \notin Machine /\ NoSuchMachine \notin Machine
ASSUME BoundAssumption ==
    MaxPolls \in Nat \ {0} /\ MaxPings \in Nat \ {0}
    /\ MaxCommands \in Nat /\ MaxMeddling \in Nat

VARIABLES
    machine,  \* machine -> absent, half (init was cut off), stopped, booting, up
    default,  \* the machine of podman's default connection, or None
    api,      \* machines whose Docker-compatible API accepts connections
    cdi,      \* machines with /etc/cdi/nvidia.yaml
    launched, meddled, \* commands started, machines changed by users so far
    pc, cmd,  \* process -> its next step; its command
    name,     \* process -> the machine it works with
    client,   \* process -> the machine whose API its client talks to, or None
    tries,    \* process -> readiness checks or pings so far
    excused   \* processes something outside dvt has come in the way of

hostVars  == <<machine, default, api, cdi>>
boundVars == <<launched, meddled>>
localVars == <<cmd, name, client, tries>>
vars == <<machine, default, api, cdi, launched, meddled, pc, cmd, name,
          client, tries, excused>>

\* refused: an error that tells the user which setting or command is missing;
\* failed: any other.
Ended == {"idle", "ok", "failed", "refused"}

\* Steps that wait for a call with a time limit to return.
Pending == {"docker", "list", "init", "initializing", "look", "start",
            "starting", "poll", "inspect", "ping", "gpu", "installing"}

Busy(p) == pc[p] \in Pending
Present == {m \in Machine : machine[m] # "absent"}

Init ==
    /\ machine \in [Machine -> {"absent", "half", "stopped", "up"}]
    /\ \A m \in Machine : machine[m] = "half" => m = DvtMachine
    /\ default \in Present \cup {None} /\ (default = None <=> Present = {})
    /\ api = {m \in Machine : machine[m] = "up"}
    /\ cdi \in SUBSET {m \in Machine : machine[m] \in {"stopped", "up"}}
    /\ launched = 0 /\ meddled = 0
    /\ pc = [p \in Process |-> "idle"]
    /\ cmd = [p \in Process |-> None]
    /\ name = [p \in Process |-> None]
    /\ client = [p \in Process |-> None]
    /\ tries = [p \in Process |-> 0]
    /\ excused = {}

-----------------------------------------------------------------------------
Goto(p, step) == pc' = [pc EXCEPT ![p] = step]
Excuse(p) == excused' = excused \cup {p}

\* A process goes to its next step and keeps what it knows, until it ends.
Only(p, step) ==
    /\ Goto(p, step)
    /\ IF step \in Ended
       THEN /\ cmd' = [cmd EXCEPT ![p] = None]
            /\ name' = [name EXCEPT ![p] = None]
            /\ client' = [client EXCEPT ![p] = None]
            /\ tries' = [tries EXCEPT ![p] = 0]
       ELSE UNCHANGED localVars
    /\ UNCHANGED boundVars

\* A setting forbids to create or start a machine.  `auto` drops the error that
\* names the setting (try_podman): no runtime was found, the user is told.
Refuse(p) == IF cmd[p].runtime = "auto" THEN "failed" ELSE "refused"

\* get_client.  Commands that run at a time may come in each other's way.
Launch(p) ==
    /\ ~Busy(p)
    /\ launched < MaxCommands
    /\ launched' = launched + 1
    /\ \E c \in Command :
          /\ cmd' = [cmd EXCEPT ![p] = c]
          /\ Goto(p, IF c.runtime = "podman" THEN "list" ELSE "docker")
    /\ LET others == {q \in Process \ {p} : Busy(q)}
       IN  excused' = IF others = {} THEN excused \ {p}
                      ELSE excused \cup others \cup {p}
    /\ UNCHANGED <<hostVars, meddled, name, client, tries>>

\* try_docker: an engine that does not answer is no error of `auto`.
TryDocker(p) ==
    /\ pc[p] = "docker"
    /\ \E answers \in BOOLEAN :
          Only(p, IF answers THEN "ok"
                  ELSE IF cmd[p].runtime = "docker" THEN "refused" ELSE "list")
    /\ UNCHANGED <<hostVars, excused>>

\* connection_url, of the API of the machine inspected, and the client for it.
Connect(p) ==
    /\ client' = [client EXCEPT ![p] = name[p]]
    /\ Goto(p, "ping")
    /\ UNCHANGED <<boundVars, cmd, name, tries>>

\* ensure_machine_ready takes the first machine that `podman machine list`
\* shows, in whatever order; podman marks the default one with a star.
Listed(m) == [name |-> m, star |-> m = default]
NameAsShown(entry) == IF entry.star THEN NoSuchMachine ELSE entry.name
TheEntry(entry) == entry
NameOf(entry) == entry.name

List(p) ==
    /\ pc[p] = "list"
    /\ \/ /\ Present = {} /\ ~cmd[p].auto_init
          /\ Only(p, Refuse(p))
       \/ /\ Present = {} /\ cmd[p].auto_init
          /\ name' = [name EXCEPT ![p] = DvtMachine]
          /\ Goto(p, "init")
          /\ UNCHANGED <<boundVars, cmd, client, tries>>
       \/ \E m \in Present :
             /\ name' = [name EXCEPT ![p] = NameOf(Listed(m))]
             /\ Goto(p, "look")
             /\ UNCHANGED <<boundVars, cmd, client, tries>>
    /\ UNCHANGED <<hostVars, excused>>

\* init_machine: podman creates the machine, unless there is one of that name
\* by now, and prepares it for minutes.  The first machine becomes the default.
InitBegins(p) ==
    /\ pc[p] = "init"
    /\ IF machine[DvtMachine] = "absent"
       THEN /\ machine' = [machine EXCEPT ![DvtMachine] = "half"]
            /\ Only(p, "initializing")
       ELSE Only(p, "failed") /\ UNCHANGED machine
    /\ UNCHANGED <<default, api, cdi, excused>>

StartsAnyway(p) == "start"
AfterInit(p) == IF cmd[p].auto_start THEN "start" ELSE Refuse(p)

InitEnds(p) ==
    /\ pc[p] = "initializing" /\ machine[DvtMachine] = "half"
    /\ machine' = [machine EXCEPT ![DvtMachine] = "stopped"]
    /\ default' = IF default = None THEN DvtMachine ELSE default
    /\ Only(p, AfterInit(p))
    /\ UNCHANGED <<api, cdi, excused>>

\* inspect_machine.  A machine that is coming up is not running yet.
AfterLook(p) ==
    IF name[p] \notin Present THEN "failed"
    ELSE IF machine[name[p]] = "up" THEN "ping"
    ELSE IF cmd[p].auto_start THEN "start" ELSE Refuse(p)

Look(p) ==
    /\ pc[p] = "look"
    /\ \/ AfterLook(p) # "ping" /\ Only(p, AfterLook(p))
       \/ AfterLook(p) = "ping" /\ Connect(p)
    /\ UNCHANGED <<hostVars, excused>>

\* start_machine: an error unless the machine is whole and stopped.
StartBegins(p) ==
    /\ pc[p] = "start"
    /\ IF name[p] \in Machine /\ machine[name[p]] = "stopped"
       THEN /\ machine' = [machine EXCEPT ![name[p]] = "booting"]
            /\ Only(p, "starting")
       ELSE Only(p, "failed") /\ UNCHANGED machine
    /\ UNCHANGED <<default, api, cdi, excused>>

\* It returns when the machine is up, or reports that it did not come up.
StartEnds(p) ==
    /\ pc[p] = "starting" /\ machine[name[p]] # "booting"
    /\ Only(p, IF machine[name[p]] = "up" THEN "poll" ELSE "failed")
    /\ UNCHANGED <<hostVars, excused>>

\* wait_until_ready: `podman ps` asks the default machine, which need not be the
\* one that was started.  The time may be up after any check that said no.
Polled == IF default = None THEN FALSE ELSE machine[default] = "up"

Poll(p) ==
    /\ pc[p] = "poll" /\ tries[p] < MaxPolls
    /\ IF Polled
       THEN /\ Goto(p, "inspect")
            /\ tries' = [tries EXCEPT ![p] = 0]
       ELSE /\ tries' = [tries EXCEPT ![p] = @ + 1]
            /\ UNCHANGED pc
    /\ UNCHANGED <<hostVars, boundVars, cmd, name, client, excused>>

GiveUpWaiting(p) ==
    /\ pc[p] = "poll" /\ tries[p] > 0
    /\ Only(p, "failed")
    /\ UNCHANGED <<hostVars, excused>>

\* inspect_and_connect.
Inspect(p) ==
    /\ pc[p] = "inspect"
    /\ IF name[p] \in Present THEN Connect(p) ELSE Only(p, "failed")
    /\ UNCHANGED <<hostVars, excused>>

\* ping_client: the API may accept connections a little later than `podman ps`
\* succeeds; after the last attempt that is too late.
Ping(p) ==
    /\ pc[p] = "ping"
    /\ \/ /\ client[p] \in api
          /\ Only(p, IF cmd[p].gpu THEN "gpu" ELSE "ok")
          /\ UNCHANGED excused
       \/ /\ client[p] \notin api /\ tries[p] + 1 < MaxPings
          /\ tries' = [tries EXCEPT ![p] = @ + 1]
          /\ UNCHANGED <<pc, boundVars, cmd, name, client, excused>>
       \/ /\ client[p] \notin api /\ tries[p] + 1 >= MaxPings
          /\ Only(p, "failed")
          /\ Excuse(p)
    /\ UNCHANGED hostVars

\* ensure_gpu_support, with the machine of the handle: check_gpu_cdi_ready ...
GpuMachineByDefault(p) == DvtMachine
GpuMachine(p) == name[p]

CheckGpu(p) ==
    /\ pc[p] = "gpu"
    /\ Only(p, IF machine[GpuMachine(p)] # "up" THEN "failed"
               ELSE IF GpuMachine(p) \in cdi THEN "ok" ELSE "installing")
    /\ UNCHANGED <<hostVars, excused>>

\* ... and install_nvidia_toolkit, whose last command writes the file.
InstallEnds(p) ==
    /\ pc[p] = "installing"
    /\ IF machine[GpuMachine(p)] = "up"
       THEN cdi' = cdi \cup {GpuMachine(p)} /\ Only(p, "ok")
       ELSE Only(p, "failed") /\ UNCHANGED cdi
    /\ UNCHANGED <<machine, default, api, excused>>

\* Any call may fail, or exceed its time limit: `auto` takes both for an engine
\* that does not answer, everything else ends the command.  What was begun stays
\* as it is: a machine half made, or coming up; a GPU file that is written after
\* all.
LimitedButForStart == Pending \ {"starting"}
Limited == Pending

LeftInstalling(p) ==
    IF pc[p] = "installing" /\ machine[GpuMachine(p)] = "up"
    THEN {cdi, cdi \cup {GpuMachine(p)}} ELSE {cdi}

CallFails(p) ==
    /\ pc[p] \in Limited
    /\ Only(p, IF pc[p] = "docker" /\ cmd[p].runtime = "auto" THEN "list"
               ELSE "failed")
    /\ Excuse(p)
    /\ cdi' \in LeftInstalling(p)
    /\ UNCHANGED <<machine, default, api>>

\* The process is killed, and podman with it.
Crash(p) ==
    /\ Busy(p)
    /\ Only(p, "idle")
    /\ cdi' \in LeftInstalling(p)
    /\ UNCHANGED <<machine, default, api, excused>>

-----------------------------------------------------------------------------
(* The machines, and users' own podman commands.                             *)

BootEnds(m) ==
    /\ machine[m] = "booting"
    /\ \E state \in {"up", "stopped"} :
          /\ machine' = [machine EXCEPT ![m] = state]
          /\ excused' = excused \cup
                {p \in Process : name[p] = m /\ (state = "stopped" \/ pc[p] = "start")}
    /\ UNCHANGED <<default, api, cdi, boundVars, pc, localVars>>

ApiOpens(m) ==
    /\ machine[m] = "up" /\ m \notin api
    /\ api' = api \cup {m}
    /\ UNCHANGED <<machine, default, cdi, boundVars, pc, localVars,
                   excused>>

\* A user starts, stops or removes a machine, or makes another the default.
Meddle ==
    /\ meddled < MaxMeddling
    /\ meddled' = meddled + 1
    /\ excused' = excused \cup {p \in Process : Busy(p)}
    /\ \/ \E m \in Present, state \in {"absent", "stopped", "booting"} :
             /\ state = "booting" => machine[m] = "stopped"
             /\ state = "stopped" => machine[m] = "up"
             /\ machine' = [machine EXCEPT ![m] = state]
             /\ api' = api \ {m}
             /\ cdi' = IF state = "absent" THEN cdi \ {m} ELSE cdi
             /\ LET left == Present \ (IF state = "absent" THEN {m} ELSE {})
                IN  IF default \in left THEN UNCHANGED default
                    ELSE default' \in IF left = {} THEN {None} ELSE left
       \/ /\ default' \in Present \ {default}
          /\ UNCHANGED <<machine, api, cdi>>
    /\ UNCHANGED <<launched, pc, localVars>>

-----------------------------------------------------------------------------
\* What a command does by itself; every call returns or is cut off in the end.
Proceed(p) ==
    \/ TryDocker(p) \/ List(p)
    \/ InitBegins(p) \/ InitEnds(p)
    \/ Look(p) \/ StartBegins(p) \/ StartEnds(p)
    \/ Poll(p) \/ GiveUpWaiting(p) \/ Inspect(p) \/ Ping(p)
    \/ CheckGpu(p) \/ InstallEnds(p)
    \/ CallFails(p)

Outside ==
    \/ \E m \in Machine : BootEnds(m) \/ ApiOpens(m)
    \/ Meddle

Next ==
    \/ \E p \in Process : Launch(p) \/ Proceed(p) \/ Crash(p)
    \/ Outside

Spec == Init /\ [][Next]_vars /\ \A p \in Process : WF_vars(Proceed(p))

-----------------------------------------------------------------------------
TypeOK ==
    /\ machine \in [Machine -> {"absent", "half", "stopped", "booting", "up"}]
    /\ default \in Machine \cup {None}
    /\ api \subseteq Machine /\ cdi \subseteq Machine
    /\ launched \in 0 .. MaxCommands /\ meddled \in 0 .. MaxMeddling
    /\ pc \in [Process -> Pending \cup Ended]
    /\ cmd \in [Process -> Command \cup {None}]
    /\ name \in [Process -> Machine \cup {None, NoSuchMachine}]
    /\ client \in [Process -> Machine \cup {None}]
    /\ tries \in [Process -> 0 .. MaxPolls + MaxPings]
    /\ excused \subseteq Process

\* "Refuse to auto-create one unless auto_init is set", "`dvt info` never waits
\* for a stopped Podman machine to start": whatever a command finds and whenever
\* its calls take effect, a machine is created only for a command that may
\* create one and started only for one that may start one, and never for a
\* command that has been told to use Docker.
OnlyAsAsked ==
    [][\A m \in Machine :
          meddled' = meddled /\ machine'[m] # machine[m] =>
              /\ machine'[m] = "half" =>
                    \E p \in Process : pc'[p] # pc[p] /\ cmd[p].auto_init
                                      /\ cmd[p].runtime # "docker"
              /\ machine'[m] = "booting" =>
                    \E p \in Process : pc'[p] # pc[p] /\ cmd[p].auto_start
                                      /\ cmd[p].runtime # "docker"]_vars

\* Where a command ends at once because a setting forbids it to go on.
Forbidden(p) ==
    \/ pc[p] = "list" /\ Present = {} /\ ~cmd[p].auto_init
    \/ pc[p] \in {"look", "initializing"} /\ ~cmd[p].auto_start

\* A command that fails, and is not told what to set, fails for a cause outside
\* it: a call that failed or was cut off, an API that was slow, another command
\* or a user at work on the machines meanwhile.  The code has three exceptions,
\* and no test has them: an `auto` command that a setting held up, which is told
\* of no setting; one that waits for the default machine after starting another;
\* one that finds a machine that an earlier command left half made or coming up.
FailsForCause ==
    [][\A p \in Process :
          pc[p] # "failed" /\ pc'[p] = "failed" =>
              \/ p \in excused'
              \/ cmd[p].runtime = "auto" /\ Forbidden(p)
              \/ pc[p] = "poll" /\ name[p] # default
              \/ pc[p] = "start" /\ machine[name[p]] \in {"half", "booting"}]_vars

\* An `up` that goes on to build for a GPU has the GPU file in the machine that
\* its client builds in, whichever machines were listed, made or removed since.
GpuWhereItBuilds ==
    [][\A p \in Process :
          Busy(p) /\ pc'[p] = "ok" /\ cmd[p].gpu /\ client[p] # None =>
              client[p] \in cdi']_vars

\* Every command gets its engine or an error in the end, though machines may
\* never come up: each call has a time limit.
EveryCommandEnds == \A p \in Process : Busy(p) ~> ~Busy(p)
=============================================================================

------------------------------ MODULE Workspace ------------------------------
(***************************************************************************)
(* The life of dvt workspaces: `dvt up [--rebuild]`, `dvt stop` and        *)
(* `dvt delete` (dvt/src/devtemplate/cli.py, workspace/, container.py,     *)
(* ssh.py), run by several dvt processes at a time over                    *)
(*                                                                         *)
(*   - one container engine: containers are found by their dvt.workspace   *)
(*     label and are named dvt-<name>, so there is one per workspace name; *)
(*     each also carries the folder and the devcontainer.json it was built *)
(*     from as labels.  The engine tags one image per workspace name;      *)
(*   - the devcontainer.json of each project folder, which users edit;     *)
(*   - one ~/.ssh/config, kept here as the set of names with a Host block. *)
(*                                                                         *)
(* A command is a sequence of engine calls and file accesses, one action   *)
(* for each; a process acts on what it read earlier (`existing`, `config`, *)
(* `kept`) while others run.  Any engine call may fail and any process may *)
(* be killed between two steps.                                            *)
(***************************************************************************)
EXTENDS Integers

CONSTANTS
    Process,      \* terminals in which dvt runs, one command at a time each
    Name,         \* workspace names
    Folder,       \* project folders
    Config,       \* contents of a devcontainer.json
    Refused,      \* those refuse_unsupported rejects or that name no image
    Unrunnable,   \* those whose mounts, runArgs or ports run_container rejects
    Command,      \* the commands users give: see CommandAssumption
    DirectoryName, \* folder -> its last path segment, the default name
    NoName, NoFolder, NoConfig, None, NoFile, \* absent values
    MaxCommands   \* bound: commands started in a behaviour

Operation == {"up", "rebuild", "stop", "delete"}

ASSUME CommandAssumption ==
    Command \subseteq [op : Operation, name : Name \cup {NoName}, folder : Folder]
ASSUME DirectoryAssumption == DirectoryName \in [Folder -> Name]
ASSUME ConfigAssumption ==
    Refused \subseteq Config /\ Unrunnable \subseteq Config
ASSUME AbsentAssumption ==
    NoName \notin Name /\ NoFolder \notin Folder /\ NoConfig \notin Config
ASSUME FileAssumption == \A names \in SUBSET Name : names # NoFile
ASSUME BoundAssumption == MaxCommands \in Nat

VARIABLES
    box,      \* name -> the container labelled with it, or None
    image,    \* name -> the config dvt/<name>:latest was built from, or None
    created,  \* containers created so far; the last one's id
    disk,     \* folder -> its devcontainer.json, or NoConfig if not readable
    ssh,      \* names with a Host block in ~/.ssh/config, or NoFile
    launched, \* commands started so far
    overlapped, \* history: whether two commands have ever run at a time, for
                \* the properties that hold for one command at a time
    pc, cmd,  \* process -> its next step; its command
    target,   \* process -> the workspace name it acts on
    existing, \* process -> the container object it holds: a snapshot
    config,   \* process -> the devcontainer.json it loaded to build from
    kept      \* process -> the Host blocks it is about to write back

engineVars == <<box, image, created>>
history    == <<launched, overlapped>>
localVars  == <<cmd, target, existing, config, kept>>
vars == <<box, image, created, disk, ssh, launched, overlapped, pc, cmd,
          target, existing, config, kept>>

\* A container: running says whether its main process runs, ready whether the
\* lifecycle commands due since it was last started have all succeeded.  An
\* image is what it was built from.
Container == [id : Nat, folder : Folder \cup {NoFolder},
              config : Config \cup {NoConfig}, image : Config \cup {NoConfig},
              running : BOOLEAN, ready : BOOLEAN]

ASSUME NoneAssumption == None \notin Container

\* Containers with a dvt.workspace label that dvt did not build: no labels to
\* compare a folder or a config with.
Foreign == [id |-> 0, folder |-> NoFolder, config |-> NoConfig,
            image |-> NoConfig, running |-> FALSE, ready |-> FALSE]

\* Workspaces an earlier `dvt up` has completed, stopped since or not.
Built == {[id |-> 0, folder |-> f, config |-> c, image |-> c,
           running |-> r, ready |-> r] :
              f \in Folder, c \in Config \ (Refused \cup Unrunnable),
              r \in BOOLEAN}

Ended == {"idle", "ok", "failed"}
Step ==
    {"resolve", "fallback", "find", "drift", "resume", "load", "teardown",
     "build", "create", "start", "lifecycle", "sshRead", "sshRewrite",
     "sshAppend", "stop", "remove"}

\* Steps that call the engine.
EngineCall ==
    {"resolve", "fallback", "find", "teardown", "build", "create", "start",
     "lifecycle", "stop", "remove"}

Init ==
    /\ box \in [Name -> {None, Foreign} \cup Built]
    /\ image = [n \in Name |->
                   IF box[n] \in Built THEN box[n].image ELSE None]
    /\ created = 0
    /\ disk \in [Folder -> Config \cup {NoConfig}]
    /\ ssh \in {NoFile, {n \in Name : box[n] \in Built}}
    /\ launched = 0
    /\ overlapped = FALSE
    /\ pc = [p \in Process |-> "idle"]
    /\ cmd = [p \in Process |-> None]
    /\ target = [p \in Process |-> NoName]
    /\ existing = [p \in Process |-> None]
    /\ config = [p \in Process |-> NoConfig]
    /\ kept = [p \in Process |-> {}]

-----------------------------------------------------------------------------
Goto(p, step) == pc' = [pc EXCEPT ![p] = step]

IsUp(p) == cmd[p].op \in {"up", "rebuild"}
Home(p) == cmd[p].folder

\* Faulty forms of definitions are kept beside them: the checks replace the one
\* by the other to see that a property notices.

\* The container object still names a container of the engine: by its id.
AliveByName(p) == box[target[p]] # None
Alive(p) == box[target[p]] # None /\ box[target[p]].id = existing[p].id

\* names_by_folder: the workspaces built from a folder.
NamesOf(f) == {n \in Name : box[n] # None /\ box[n].folder = f}

\* A user types a command.
Launch(p) ==
    /\ pc[p] \in Ended
    /\ launched < MaxCommands
    /\ launched' = launched + 1
    /\ overlapped' = (overlapped \/ \E q \in Process : pc[q] \in Step)
    /\ \E c \in Command :
          /\ cmd' = [cmd EXCEPT ![p] = c]
          /\ target' = [target EXCEPT ![p] = c.name]
          /\ Goto(p, IF c.name = NoName THEN "resolve" ELSE "find")
    /\ existing' = [existing EXCEPT ![p] = None]
    /\ config' = [config EXCEPT ![p] = NoConfig]
    /\ kept' = [kept EXCEPT ![p] = {}]
    /\ UNCHANGED <<engineVars, disk, ssh>>

\* A user edits or removes a devcontainer.json, at any time.
Edit(f) ==
    /\ \E c \in (Config \cup {NoConfig}) \ {disk[f]} :
          disk' = [disk EXCEPT ![f] = c]
    /\ UNCHANGED <<engineVars, ssh, history, pc, localVars>>

\* The name was omitted: the one workspace of this folder; for `up` none means
\* the directory's own name, more than one is refused.
Resolve(p) ==
    /\ pc[p] = "resolve"
    /\ LET names == NamesOf(Home(p))
       IN  \/ /\ \E n \in names : names = {n} /\ target' = [target EXCEPT ![p] = n]
              /\ Goto(p, "find")
           \/ /\ names = {} /\ IsUp(p)
              /\ target' = [target EXCEPT ![p] = DirectoryName[Home(p)]]
              /\ Goto(p, "fallback")
           \/ /\ IF names = {} THEN ~IsUp(p) ELSE \A n \in names : names # {n}
              /\ Goto(p, "failed")
              /\ UNCHANGED target
    /\ UNCHANGED <<engineVars, disk, ssh, history, cmd, existing, config, kept>>

\* resolve_for_up refuses a fallback name that another folder's workspace has.
TakenByAnother(p) ==
    box[target[p]] # None /\ box[target[p]].folder \notin {NoFolder, Home(p)}

Taken(p) == box[target[p]] # None /\ box[target[p]].folder # Home(p)

Fallback(p) ==
    /\ pc[p] = "fallback"
    /\ Goto(p, IF Taken(p) THEN "failed" ELSE "find")
    /\ UNCHANGED <<engineVars, disk, ssh, history, localVars>>

\* find_workspace_container, and the choice each command makes on what it
\* found.  The labels and the status are those of this moment from here on.
MayRebuildUnlabelled(p, found) ==
    found = None \/ found.folder \in {NoFolder, Home(p)}

MayRebuild(p, found) == found = None \/ found.folder = Home(p)

AfterFind(p, found) ==
    CASE cmd[p].op \in {"stop", "delete"} ->
             IF found = None THEN "failed"
             ELSE IF cmd[p].op = "stop" THEN "stop" ELSE "remove"
      [] cmd[p].op = "up" ->
             IF found = None THEN "load"
             ELSE IF found.folder \in {NoFolder, Home(p)} THEN "drift"
                                                          ELSE "resume"
      [] cmd[p].op = "rebuild" ->
             IF MayRebuild(p, found) THEN "load" ELSE "failed"

Find(p) ==
    /\ pc[p] = "find"
    /\ existing' = [existing EXCEPT ![p] = box[target[p]]]
    /\ Goto(p, AfterFind(p, box[target[p]]))
    /\ UNCHANGED <<engineVars, disk, ssh, history, cmd, target, config, kept>>

\* `up` on an existing container: refused if the devcontainer.json can be read
\* and is not the one in the container's label.
CheckDrift(p) ==
    /\ pc[p] = "drift"
    /\ LET now == disk[Home(p)]
       IN  Goto(p, IF now # NoConfig /\ now # existing[p].config
                   THEN "failed" ELSE "resume")
    /\ UNCHANGED <<engineVars, disk, ssh, history, localVars>>

\* resume_existing: started unless the status read by Find was running.
Resume(p) ==
    /\ pc[p] = "resume"
    /\ \/ /\ existing[p].running
          /\ Goto(p, "sshRead")
          /\ UNCHANGED box
       \/ /\ ~existing[p].running /\ Alive(p)
          /\ box' = [box EXCEPT ![target[p]].running = TRUE]
          /\ Goto(p, "sshRead")
       \/ /\ ~existing[p].running \* gone, or the start fails
          /\ Goto(p, "failed")
          /\ UNCHANGED box
    /\ UNCHANGED <<image, created, disk, ssh, history, localVars>>

\* load_config, refuse_unsupported and the check for an image.
MissingIsFine(now) == now \notin Refused
Accepted(now) == now \notin Refused \cup {NoConfig}

Load(p) ==
    /\ pc[p] = "load"
    /\ LET now == disk[Home(p)]
       IN  IF Accepted(now)
           THEN /\ config' = [config EXCEPT ![p] = now]
                /\ Goto(p, IF existing[p] = None THEN "build" ELSE "teardown")
           ELSE Goto(p, "failed") /\ UNCHANGED config
    /\ UNCHANGED <<engineVars, disk, ssh, history, cmd, target, existing, kept>>

\* rebuild_teardown: the container has to go, the image tag may stay.
Teardown(p) ==
    /\ pc[p] = "teardown"
    /\ IF Alive(p)
       THEN /\ box' = [box EXCEPT ![target[p]] = None]
            /\ \E tag \in {None, image[target[p]]} :
                  image' = [image EXCEPT ![target[p]] = tag]
            /\ Goto(p, "build")
       ELSE Goto(p, "failed") /\ UNCHANGED <<box, image>>
    /\ UNCHANGED <<created, disk, ssh, history, localVars>>

\* The features are pulled and the image is built and tagged dvt/<name>.
Build(p) ==
    /\ pc[p] = "build"
    /\ image' = [image EXCEPT ![target[p]] = config[p]]
    /\ Goto(p, "create")
    /\ UNCHANGED <<box, created, disk, ssh, history, localVars>>

\* run_container, up to the creation of the container: the config may turn out
\* to be unrunnable, the tag may be gone and the container name taken.
ConfigReadAgain(p) == disk[Home(p)]
Labelled(p) == config[p]

Create(p) ==
    /\ pc[p] = "create"
    /\ IF \/ config[p] \in Unrunnable
          \/ image[target[p]] = None
          \/ box[target[p]] # None
       THEN Goto(p, "failed") /\ UNCHANGED <<box, created, existing>>
       ELSE LET new == [id |-> created + 1, folder |-> Home(p),
                        config |-> Labelled(p), image |-> image[target[p]],
                        running |-> FALSE, ready |-> FALSE]
            IN  /\ created' = created + 1
                /\ box' = [box EXCEPT ![target[p]] = new]
                /\ existing' = [existing EXCEPT ![p] = new]
                /\ Goto(p, "start")
    /\ UNCHANGED <<image, disk, ssh, history, cmd, target, config, kept>>

\* run_container, second half: the new container is started.
Start(p) ==
    /\ pc[p] = "start"
    /\ IF Alive(p)
       THEN /\ box' = [box EXCEPT ![target[p]].running = TRUE]
            /\ Goto(p, "lifecycle")
       ELSE Goto(p, "failed") /\ UNCHANGED box
    /\ UNCHANGED <<image, created, disk, ssh, history, localVars>>

\* postCreateCommand and postStartCommand, run inside the container.
Lifecycle(p) ==
    /\ pc[p] = "lifecycle"
    /\ IF Alive(p) /\ box[target[p]].running
       THEN /\ box' = [box EXCEPT ![target[p]].ready = TRUE]
            /\ Goto(p, "sshRead")
       ELSE Goto(p, "failed") /\ UNCHANGED box
    /\ UNCHANGED <<image, created, disk, ssh, history, localVars>>

Stop(p) ==
    /\ pc[p] = "stop"
    /\ IF Alive(p)
       THEN /\ box' = [box EXCEPT ![target[p]].running = FALSE,
                               ![target[p]].ready = FALSE]
            /\ Goto(p, "ok")
       ELSE Goto(p, "failed") /\ UNCHANGED box
    /\ UNCHANGED <<image, created, disk, ssh, history, localVars>>

Remove(p) ==
    /\ pc[p] = "remove"
    /\ IF Alive(p)
       THEN /\ box' = [box EXCEPT ![target[p]] = None]
            /\ Goto(p, "sshRead")
       ELSE Goto(p, "failed") /\ UNCHANGED box
    /\ UNCHANGED <<image, created, disk, ssh, history, localVars>>

\* remove_ssh_config_entry reads the file, if there is one ...
WithoutDefaultName(p) == ssh \ {DirectoryName[Home(p)]}
Without(p) == ssh \ {target[p]}

AfterCleanPlainUp(p) == IF cmd[p].op = "up" THEN "sshAppend" ELSE "ok"
AfterClean(p) == IF IsUp(p) THEN "sshAppend" ELSE "ok"

SshRead(p) ==
    /\ pc[p] = "sshRead"
    /\ IF ssh = NoFile
       THEN /\ Goto(p, AfterClean(p))
            /\ UNCHANGED kept
       ELSE /\ kept' = [kept EXCEPT ![p] = Without(p)]
            /\ Goto(p, "sshRewrite")
    /\ UNCHANGED <<engineVars, disk, ssh, history, cmd, target, existing, config>>

\* ... and writes back what it read without this workspace's block,
SshRewrite(p) ==
    /\ pc[p] = "sshRewrite"
    /\ ssh' = kept[p]
    /\ Goto(p, AfterClean(p))
    /\ UNCHANGED <<engineVars, disk, history, localVars>>

\* to which write_ssh_config_entry appends the block.
SshAppend(p) ==
    /\ pc[p] = "sshAppend"
    /\ ssh' = (IF ssh = NoFile THEN {} ELSE ssh) \cup {target[p]}
    /\ Goto(p, "ok")
    /\ UNCHANGED <<engineVars, disk, history, localVars>>

\* The engine, a registry, or a lifecycle command reports an error.
EngineFails(p) ==
    /\ pc[p] \in EngineCall
    /\ Goto(p, "failed")
    /\ UNCHANGED <<engineVars, disk, ssh, history, localVars>>

\* The process is killed between two steps.
Crash(p) ==
    /\ pc[p] \in Step
    /\ Goto(p, "idle")
    /\ UNCHANGED <<engineVars, disk, ssh, history, localVars>>

\* What the process does by itself once a command is given.
Proceed(p) ==
    \/ Resolve(p) \/ Fallback(p) \/ Find(p)
    \/ CheckDrift(p) \/ Resume(p)
    \/ Load(p) \/ Teardown(p) \/ Build(p) \/ Create(p) \/ Start(p)
    \/ Lifecycle(p)
    \/ Stop(p) \/ Remove(p)
    \/ SshRead(p) \/ SshRewrite(p) \/ SshAppend(p)
    \/ EngineFails(p)

Next ==
    \/ \E p \in Process : Launch(p) \/ Proceed(p) \/ Crash(p)
    \/ \E f \in Folder : Edit(f)

Spec == Init /\ [][Next]_vars

-----------------------------------------------------------------------------
TypeOK ==
    /\ box \in [Name -> Container \cup {None}]
    /\ image \in [Name -> Config \cup {None}]
    /\ created \in Nat
    /\ disk \in [Folder -> Config \cup {NoConfig}]
    /\ ssh \in (SUBSET Name) \cup {NoFile}
    /\ launched \in 0 .. MaxCommands
    /\ overlapped \in BOOLEAN
    /\ pc \in [Process -> Step \cup Ended]
    /\ cmd \in [Process -> Command \cup {None}]
    /\ target \in [Process -> Name \cup {NoName}]
    /\ existing \in [Process -> Container \cup {None}]
    /\ config \in [Process -> Config \cup {NoConfig}]
    /\ kept \in [Process -> SUBSET Name]

\* "A workspace is only ever rebuilt from its own project's folder ... A plain
\* `up` never destroys anything": a container disappears only by `dvt delete`,
\* or by a --rebuild run from the folder in that very container's label, with
\* a config that was loaded and accepted - however stale what the process knew.
Removes(p, n) ==
    /\ pc[p] \in Step /\ pc'[p] # pc[p] /\ target[p] = n
    /\ \/ cmd[p].op = "delete"
       \/ /\ cmd[p].op = "rebuild"
          /\ box[n].folder = Home(p)
          /\ config[p] \in Config \ Refused

OnlyOwnersDestroy ==
    [][\A n \in Name :
          box[n] # None /\ (box'[n] = None \/ box'[n].id # box[n].id) =>
              \E p \in Process : Removes(p, n)]_vars

\* A plain `up` never changes a container into one that its own folder's
\* devcontainer.json did not agree with when it looked: the container it starts
\* is the one it compared, not a successor under the same name.
StartsWhatItChecked ==
    [][\A p \in Process :
          pc[p] = "resume" /\ pc'[p] # pc[p] /\ box' # box =>
              /\ box[target[p]].id = existing[p].id
              /\ box[target[p]].config = existing[p].config
              /\ box[target[p]].folder = existing[p].folder]_vars

\* The step by which a command reports success, no two having ever overlapped.
Succeeds(p) == pc[p] \in Step /\ pc'[p] = "ok" /\ ~overlapped

\* When `up` reports success its workspace runs, the block for it is in
\* ~/.ssh/config, and a container it has built is from an image of the config
\* it loaded, says so in its label, and has had its lifecycle commands.  One
\* command at a time only.
UpDelivers ==
    [][\A p \in Process :
          Succeeds(p) /\ IsUp(p) =>
              LET delivered == box'[target[p]]
              IN  /\ delivered # None /\ delivered.running
                  /\ ssh' # NoFile /\ target[p] \in ssh'
                  /\ config[p] # NoConfig =>
                        /\ delivered.image = config[p]
                        /\ delivered.config = config[p]
                        /\ delivered.folder = Home(p)
                        /\ delivered.ready]_vars

\* When `delete` reports success neither the container nor the block is left,
\* and the blocks of the other workspaces are.  One command at a time only.
DeleteLeavesNothing ==
    [][\A p \in Process :
          Succeeds(p) /\ cmd[p].op = "delete" =>
              /\ box'[target[p]] = None
              /\ ssh' # NoFile => ssh' = ssh \ {target[p]}]_vars

\* A command given without a name changes only workspaces of its own folder.
\* One command at a time only.
InferredNameStaysHome ==
    [][\A p \in Process :
          /\ pc[p] \in Step /\ pc'[p] # pc[p]
          /\ cmd[p].name = NoName /\ ~overlapped
          => \A n \in Name : box[n] # None /\ box'[n] # box[n] =>
                                 box[n].folder = Home(p)]_vars

-----------------------------------------------------------------------------
(* What the documentation says and the code does not do: each of these is    *)
(* violated by a run of its own (see README.md).                              *)

\* "only `--rebuild` does, and only after its own validation has already
\* succeeded" (commands.md): what a --rebuild removes can be built again, as far
\* as the devcontainer.json tells.  run_container's checks come too late.
RebuildValidatesFirst ==
    [][\A p \in Process :
          pc[p] = "teardown" /\ pc'[p] = "build" =>
              config[p] \notin Refused \cup Unrunnable]_vars
=============================================================================

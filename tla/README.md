# Specifications of `dvt`

`dvt` is a command line program that builds and runs devcontainer workspaces. A project lists
*features* in its `devcontainer.json`; `dvt up` pulls them, bakes them into an image, runs a
container from it and makes it reachable by ssh; other commands stop, delete and enter it, forward
ports into it, and keep local copies of the registries the features and images come from. This
directory holds TLA+ modules for the parts of it where the order of steps matters, the TLC runs
that check them on small instances, and TLAPS proofs, for every instance, of most of what the runs check.

Paths below are relative to `dvt/src/devtemplate/` in the repository.

## The system

`dvt` has no daemon and no lock: each command is a process of its own, and processes meet in what
they share.

| Component | State it keeps | Operations | What is hard |
|---|---|---|---|
| feature graph (`feature_graph.py`) | local to one call | `resolve_feature_graph`, `_find_cycle` | closure and order of an arbitrary graph, cycles, the error report |
| workspace lifecycle (`cli.py`, `workspace/`, `container.py`, `ssh.py`) | containers and images in the engine, labels, `~/.ssh/config` | `up`, `up --rebuild`, `stop`, `delete` | acting on what was read before; failures and kills between steps; several processes |
| port forwarding (`forward.py`) | listeners, tracking lists, descriptors | `build_forwarder`, `close`, acceptor, bridge and pump threads | threads, descriptor reuse, blocked system calls, closing while accepting |
| ssh session server (`sshd/`, `pty/`) | one connection, one session, its tasks and threads | `run_stdio_server`, `handle_process`, `bridge_to_ssh_process` | tasks and threads that end in any order, a client that vanishes, output before status |
| feature cache (`features/`) | one directory per pulled ref | `pull_feature`, `clear_pulled_features`, the copy in `build_image` | concurrent pulls, half-done extraction, deletion under readers |
| registry sync (`store.py`, `images.py`, `github.py`) | copies and a manifest per registry | `sync_templates`, `sync_images` | partial syncs, pruning by an old manifest, files of the user's own beside them |
| feature layering (`commands/feature.py`, `merge.py`, `sidecar.py`, `commands/init.py`) | `devcontainer.json` and its sidecar | `init`, `feature add`, `feature remove` | un-merging, hand edits in between, two files written one after the other |
| container runtime (`runtime.py`, `podman_machine.py`, `workspace/up.py`'s GPU step) | Podman's machines, on Windows | `get_client`: detect, create, start, wait, ping; GPU support | calls cut off that leave something begun, machines that change between two calls |
| bounded socketpair (`net.py`) | none of its own | `bounded_socketpair` | an attempt that does not return, the last that fails after a shell was spawned |
| stdio transport (`sshd/stdio.py`) | two threads and a socket | bridge stdio to a socket | blocked reads |
| image build (`build.py`) | a scratch directory | `build_image` | copies from the cache while it changes |
| the rest (`commands/info.py`, `describe.py`, `config.py`, `fuzzy.py`, `models.py`, `cli_output_schemas.py`, ...) | none | views, parsing, messages | nothing that a model checker would find |

How they meet: each command gets its engine from the runtime; `up` calls the resolver, which calls
`pull_feature` for each ref (the cache), then `build_image` (which copies out of the cache), then
the engine, then the ssh config. `sync` clears the cache, syncs both registries and pulls everything
again. `feature add` reads the registry's copies. An ssh client runs `dvt ssh --stdio` through the
`Host` block that `up` wrote; `dvt forward` runs a relay in the container for each connection.

What makes each correct: the resolver pulls exactly the closure, once each, and finds a stable order
that respects the edges, or a real cycle; a command changes only the workspaces it may, and leaves
what it reports; every connection speaks with its own relay and `close` leaves nothing; machines are
created and started only as asked; a client is shown all output before the status, and session and
server end; nothing half-done is taken for a cached feature; a sync never touches what a user added
and leaves no stale copy; `remove` gives back what the file would be without the feature.

## The modules

| Module | Models | Constants of note |
|---|---|---|
| `InstallOrder` | abstract: what is promised about the order of installation | `Feature` |
| `FeatureGraph` | `feature_graph.py`, and that it implements `InstallOrder` | `Ref`, `FeatureSpecs`, `Listings` |
| `FeatureGraphProofs` | theorems about it | |
| `Workspace` | `up`, `up --rebuild`, `stop`, `delete` by several processes | `Process`, `Name`, `Folder`, `Config`, `Command` |
| `WorkspaceProofs` | theorems about any interleaving of commands, and about commands one at a time | |
| `PodmanMachine` | how a command gets its engine on Windows | `Process`, `Machine`, `Command`, `MaxPolls`, `MaxPings` |
| `PodmanMachineProofs` | theorems about it | |
| `PortForward` | one `PortForwarder` with all its threads | `Specs`, `Conn`, `Fd`, `Senders`, `Answering` |
| `PortForwardProofs` | theorems about it | |
| `SshSession` | the ssh server with one session, plain or on a pty | `Kinds`, `PlainLead`, `PtyLead`, `Attempts` |
| `SshSessionProofs` | theorems about it | |
| `WholeFeatures` | abstract: what is promised about the cache and the images built from it | `Process`, `Ref`, `File` |
| `FeatureCache` | pull, build and clear by several processes, and that it implements `WholeFeatures` | `Process`, `Ref`, `File` |
| `FeatureCacheProofs` | theorems about it | |
| `RegistrySync` | `sync_templates` and `sync_images` by several processes | `Process`, `Name` |
| `RegistrySyncProofs` | theorems about it | |
| `FeatureLayers` | `init`, `add`, `remove`, and users who edit | `Field` and its kinds, `Feature`, `Template` |
| `FeatureLayersProofs` | theorems about it, and about the merges | |
| `MC...` | the values of the constants for TLC | |

Each module's head comment says which steps are atomic. A definition that models code has the name
the code has where TLA+ allows it; `PROJECT.json` maps each to its lines. Beside some definitions
stands a *faulty form* (`ReadyButForInstallsAfter` beside `Ready`): a plausible bug in the code it
models. With the faulty form in its place TLC finds the property violated, so that every property is
known to depend on the code it is about. Faulty forms are used for nothing else.

### FeatureGraph and InstallOrder

One action for each iteration of each loop of `resolve_feature_graph`: `Normalise` an entry of the
listing, `Pull` the head of the worklist (or `PullFails`), `VisitDependency`, `Place` the first
ready feature, and for `_find_cycle` one `Walk` step or `CycleFound`. Refs are naturals, because the
code visits `dependsOn` entries and the edges of the walk in sorted order; what a feature declares
is chosen when it is pulled, so a run covers every registry of the size. Features' options, ids and
environment are left out; the id breaks ties of the priority key, and the theorem `TotalPriority`
shows that there are none. Under the refinement mapping `InstallOrder` sees the requirements when
the graph is complete, the features placed so far, and the outcome.

### Workspace

One action for each engine call or access to a file: `Resolve` and the fallback's test, `Find`,
`CheckDrift`, `Resume`, `Load`, `Teardown`, `Build`, `Create`, `Start`, `Lifecycle`, `SshRead`,
`SshRewrite`, `SshAppend`, `Stop`, `Remove`. A process keeps what it read (`existing`, `config`,
`kept`) as the code does and acts on it later. `EngineFails` and `Crash` may end a command at any
step, `Edit` changes a `devcontainer.json` at any time. Initially there may be any mixture of
workspaces an earlier `up` completed and containers with a `dvt.workspace` label that dvt did not
build. Abstractions: a config is a value that is either fine, rejected by `refuse_unsupported`
(`Refused`, empty in the runs, where an unreadable file takes the same path) or rejected by
`run_container` (`Unrunnable`, in `workspace_rebuild_validates` only: elsewhere that is one more failure
of `Create`); the ssh config is the set of names with a block, rewritten in one
step after it was read in another; a container stops only by `dvt stop`; an image is the config it
was built from; fuzzy matching of names is left out. `overlapped` is history: it says whether two
commands have ever run at a time, for the properties that hold only if none have.

### PodmanMachine

`get_client` as one process calls it: `TryDocker`, `List`, `InitBegins` and `InitEnds`, `Look`,
`StartBegins` and `StartEnds`, `Poll`, `Inspect`, `Ping`, and for an `up` that builds for a GPU
`CheckGpu` and `InstallEnds`. A machine is absent, half made, stopped, coming up (`booting`) or up, and
its API opens some time after it is up. A command ends `refused` when it tells the user which setting
or command is missing, and `failed` otherwise: under `auto` the error that names the setting is
dropped (`try_podman`), and the user reads only that no runtime was found (`Refuse`). Creating and starting have a beginning and an end of their
own, because `CallFails` (an error, or a time limit that cut the call off) and `Crash` leave what was
begun: a machine half made, a machine coming up. Time itself is not counted: a limit may strike
whenever its call is pending. Which machine the list shows first is not determined, and `podman ps`
asks the default machine, as in the code. `Meddle` is a user's own podman command. `excused` is
history: the commands that a failed call, another command or a user has come in the way of.
Abstractions: detection elsewhere than on Windows is one lookup of a socket path and is left out, as is
the text of what podman prints; a podman program that outlives the dvt that called it is not modelled,
but for what it leaves.

### PortForward

The main thread builds, serves and closes; an acceptor per listener; per connection a bridge and its
two pumps. What happens under `self._lock` is one step; elsewhere each call that another thread can
come between is one. Descriptor numbers are explicit and shared by pipes and accepted sockets: `owner`
says what a number names now, `inFd` and `outFd` which numbers the pumps still hold, and a closed
number may be given out again - any free number, where Linux gives the lowest. An up pump whose number
has been given out again writes to whatever it names: another relay's pipe (`UpWrite`), or straight
to another client (`UpStrays`). Closing a socket does not wake a thread blocked on it, be it in
`accept`, `recv` or `sendall`; the read of a relay's output and the `sendall` that follows are two
steps, and the second returns when the client has read, or fails when it is gone. A bridge that finds
`close` begun only tells its relay to terminate: `Register` leaves the pipes open or not, as the
`Popen` object is kept for a later one to clean up (`Cleaned`) or goes at once. A chunk of data is
known by its connection. Listening sockets have numbers that no pump holds, and are left out, as is
the exit of the process after `close`, with which its daemon threads end.

### SshSession

The server's main task, the session task, the client pump, the output pumps or the pty's reader and
writer threads with the socketpair between them, and the executor thread in `waitpid`. Steps of one
task between two awaits are one action. Output is counted in bytes so that a read may end inside a
character; `Decoded` is the incremental decoder. The join of the pty threads has a timeout, so that
`Join` may go on whether or not they ended. Closing the master does not wake a thread that reads it,
and the terminal lives on for as long as that read does (`TerminalGone`): the shell is hung up only
after, or when the process ends. A reader that was just between two reads gets an error
(`PtyReaderLate`), but need not have been. The socketpair and the terminal are taken to hold what is
sent through them, so that a write does not block. Client and shell are the environment. One connection has
one session; the transport below the connection (`stdio.py`) is not modelled. `Start` and `Pair` make
the two socketpairs in up to `Attempts` attempts of `bounded_socketpair`, any of which may fail; when
the last one fails the server returns an error, or the session ends though its shell was spawned.

### FeatureCache and WholeFeatures

A feature's directory is the set of its files with their version. Extraction, deletion of a tree and
copying go file by file, a rename is one step that replaces an empty directory and fails on any
other. The retries of `fetch_and_extract_layer`, which leave traces, are counted; those of the token
and manifest requests are one outcome. `Release` moves a tag at the registry. Whether the registries
sync is an outcome here (`Registries`); `RegistrySync` models how. `stray` holds the temporary
directories that were left, each as the number of the latest command at the time: by a kill, by a
rename that fails, which stands outside the `try`, or by an `rmtree` whose errors are ignored. The
module has the test for a hit of `pull_feature`; `load_cached_specs`, which shows the features that
are cached and reads every directory, those that were left included, is not modelled.

`WholeFeatures` knows nothing of files on their way: a feature appears in the cache in one step
(`Publish`), in a version its tag has or had and only where there is none, it goes in one step
(`Drop`), and an image is all files of the features its command needs, in the versions the cache
holds at that moment (`Build`). Under the refinement mapping it sees a directory when all its files are
there (`cacheSeen`) and what a command has copied when it has built (`imageSeen`). Once a `sync` is
disturbed it sees an empty cache and no images: nothing is promised then.

### RegistrySync

One store: both syncs are the same algorithm. A write empties its file (or makes its directory)
before it has content, the manifest too; `EndEarly` is any failure or kill. `Change` is a commit on
GitHub, `PutOwn` a user's own template. A name that is not well-formed makes the listing fail. `lost`
is history: the names that dvt may have written and no manifest has, because the sync that listed them
ended before it wrote its own - and when it ended with the manifest emptied, that is all it listed.

### FeatureLayers

`add` and `remove` read both files, write `devcontainer.json`, then the sidecar: three steps, with
edits and a kill in between. Configs are functions from fields to values, and `MergeLayer` has the
rule of each kind of field: replaced, named commands united, maps united, arrays without and with
repetition. The properties do not use it: `Expected` states for all layers of a field at once what
it should hold, and `LayersExplainFile` compares. A command that refuses writes nothing and is no
step. Arrays in the user's `mounts` and `forwardPorts` have no repeated items (`Unrepeated`): `add`
would keep a repetition and `remove` drop it when it computes the field anew, so that such a field is
not given back quite as written. Overlays may repeat theirs. Two `dvt` commands at once on one
project are not modelled.

## The runs

| Run | Question | Bounds and why they are enough |
|---|---|---|
| `feature_graph` | Does every resolution end in the right closure and a stable, sound order, or in a real cycle, and implement `InstallOrder`? | 3 refs, 2 listed, 2 `dependsOn` entries and one `installsAfter`: diamonds, chains, rings of two and three, self-loops, refs reached twice. The proofs cover the rest. |
| `workspace_commands` | What survives any interleaving of commands, and what do `up`, `--rebuild` and `delete` deliver one at a time? | 2 processes, 2 names, 2 folders of one directory name, 1 good config (a folder may also have none), 2 commands, failed or killed anywhere, from every initial population. Two commands suffice for one to act on what the other changed; the proofs cover any number, and more configs. |
| `podman_machine` | May a command do what it does to machines, when does it fail, does it end? | 2 processes, dvt's machine and one of the user's in any state, 2 polls, 2 pings, 2 commands of four settings, 1 change by a user: each call may be the last in time, and each machine may change between any two calls. |
| `forward_pair` | What does `close` leave, what an ended bridge, and whose answers does a client hear? | 1 listener, 2 connections, 6 descriptor numbers: as many as both connections need at once, and any that is free may be the next; one client sends a chunk and the other's relay answers one, so that a chunk that strays and an answer that might can meet. |
| `forward_ends` | Does every bridge end? | 2 listeners, 1 connection, 3 descriptor numbers, a chunk each way; liveness, without symmetry. |
| `ssh_session` | Is all output shown before the status, is the status recorded, do session and server end? | both kinds, the three attempts at each socketpair, 2 bytes a stream, 2 client events (keys, window changes, EOF), plain output split inside a character. |
| `feature_cache` | Is a cache hit whole, does `sync` leave nothing old, do features come and go whole and images show the cache as it is at one moment (`WholeFeatures`)? | 2 processes, 1 ref of 2 files, 1 move of the tag, 3 commands, 1 kill, all 3 tries: two pulls race while a third command follows. |
| `registry_sync` | Is a user's own copy safe, is a sync fresh and does it prune? | 2 processes, 2 names, 3 syncs, 1 change upstream, 1 copy by the user; any number of failures and kills. |
| `feature_layers` | Is the file always the user's fields under the applied overlays? | 3 features that meet in one field of each kind, one of them with two templates, 5 commands or edits, 1 kill. |
| `workspace_rebuild_validates` | violation, see below | 1 process, 1 name |
| `forward_bytes_cross` | violation, see below | 2 connections, one chunk |
| `ssh_half_character` | violation, see below | one pty session, one two-byte character |

Symmetry is declared in runs without liveness, over values the module only compares. The `VIEW` of
`workspace_commands` drops what a command held when it ended: no action reads it before `Launch` sets
it anew, and the properties speak of a process within a command only. That of `forward_pair` drops which
free number is which (what counts is what a pump's number names, and which pumps hold the same one),
what a connection did that no thread listens to any more, and who heard what, but for answers that
strayed: no step depends on these, nor does an invariant of the run. Deadlock is
checked in `feature_graph`, whose behaviours end by stuttering at a result; elsewhere commands, clients
and kills are bounded and a system with nothing left to do stops, so `CHECK_DEADLOCK` is off.

**Fairness.** `FeatureGraph` is one sequential function: weak fairness of its next step.
`PortForward` assumes weak fairness of every thread's step - the OS schedules runnable threads - and
that a relay that lives reads its input, and exits when that is closed or when told to; nothing is
assumed of `recv` in the up pump, which may block for ever, nor of clients, which need neither send
nor read nor leave: a `sendall` is sure to return only once its client is gone. `SshSession` assumes it
of every task and thread, and that a shell whose terminal has hung up exits; not of the client, of a
shell's output, or of a read of a closed terminal. `PodmanMachine` assumes
it of each command's next step: each `podman` call is given a time limit and the engine's client has
one by default, so that every call returns or is cut off; nothing is assumed of the machines, which
may never come up. `Workspace`, `FeatureCache`, `RegistrySync` and `FeatureLayers` have safety
properties only.

**Conditions in properties.** Where the code promises something only under a condition, the property
says so: `UpDelivers`, `DeleteLeavesNothing` and `InferredNameStaysHome` hold while no two commands have
overlapped (`overlapped`), and so say nothing of what two commands at once do to each other: of that
only `OnlyOwnersDestroy` and `StartsWhatItChecked` speak; `FailsForCause` names what may be the cause
(`excused`) and the three exceptions of the code, an unnamed setting under `auto`, a machine that is not
the default one, a machine half made or coming up; `BridgesEnd` excepts a client that neither reads nor
leaves, `ServerEnds` a silent shell whose terminal is being read (`Stuck`), and `BridgesLeaveNothing`
the pipes of a bridge that came too late; `HitIsWhole` and `SyncRefreshes` hold, and `WholeFeatures`
promises something, while no `sync` ran beside another command or ended while it deleted (`disturbed`);
`SyncFreshens` and `SyncPrunes` while no two syncs overlapped, the latter but for forgotten names
(`lost`); `LayersExplainFile` while no command was killed or disturbed by an edit (`torn`), and for the
fields the documentation guarantees: edited before the first feature, or touched by none since.
`ssh_session` has no pty output split inside a character (`PtyLead = {}`): that case is
`ssh_half_character`.

## What the code does and the documentation does not say

Three runs end in a violation:

- `workspace_rebuild_validates`: `commands.md` promises that `--rebuild` destroys "only after its own
  validation has already succeeded". `rebuild_teardown` (`workspace/up.py:136`) removes the container
  after `refuse_unsupported`, but `run_container` checks mounts, `runArgs` and ports later.
- `forward_bytes_cross`: `_bridge` joins the down pump only, then closes `in_fd`; the up pump may
  still hold the number and write what its client sent to the relay that was given it next, or, since
  accepted sockets have numbers too, straight to another client.
- `ssh_half_character`: `PosixPtyProcess.read` returns `""` for a read that ends inside a character;
  the reader takes that for the end and the session shows nothing more.

Others were met while modelling; the modules have the steps, and no run checks the statement the code
does not keep:

- Two concurrent `up`s of one name build under one tag: a container may carry the label of one config
  and the image of the other (`UpDelivers` without its condition), and `up` without a name may
  resume another folder's workspace that appeared after the test (`InferredNameStaysHome`
  without its).
- Two commands that rewrite `~/.ssh/config` can lose one another's block.
- A workspace that was stopped, or whose lifecycle commands failed, is resumed without running them.
- If `listen()` fails, the ports bound before stay open with their acceptors: it stands outside the
  `try` that closes them (`forward.py:227`), while the docstring (`forward.py:366`) says "On failure
  nothing is left open". An acceptor blocked in `accept()` takes one more connection after `close`;
  one whose `accept` raises ends, whatever the error, with its port still open.
- A down pump in `sendall()` to a client that does not read is woken by nothing: not by `close`, which
  closes the socket object only, nor by the end of the relay. Its bridge stays (`BridgesEnd` without
  its exception).
- A bridge that finds `close` begun tells its relay to terminate and neither waits for it nor closes
  its pipes (`BridgesLeaveNothing` without its exception).
- A pty session whose output pump finds its client gone goes on to wait for the shell in an executor
  thread. Cancelled there, it closes the master, but its reader may be in a read of it, which keeps the
  terminal: the shell is not hung up, `waitpid` does not return, and the process stays for as long as
  the shell is silent (`ServerEnds` without its exception).
- A session cancelled because its client vanished records no exit code; the server returns 0 as if
  there had been no session.
- `wait_until_ready` asks `podman ps`, which speaks to the default machine: a machine that was started
  but is not the default one is waited for in vain, or not long enough.
- A machine that `podman machine init` had no time to finish is found first by the next command, which
  fails to start it; so does a command that finds a machine coming up.
- Under `auto` a command that `DVT_PODMAN_MACHINE_AUTO_INIT` or `..._AUTO_START` holds up does not say
  so: the error that names the setting is dropped, the user reads "No container runtime found".
- A `sync` killed while it clears the cache leaves directories that later count as hits.
- A rename that fails leaves its temporary directory in the cache, once for each of three attempts;
  the views of cached features (`load_cached_specs`) read what it holds.
- A sync that fails before it writes its manifest is the only one that knows of the names it listed for
  the first time, and one killed while it writes it of all: once such a name is removed upstream its
  copy stays, though `commands.md` (line 66) says of `dvt sync` that it "prunes any previously-synced
  feature or image that's been removed upstream" (`SyncPrunes` without its exception).
- `feature add` killed between its writes and given again makes the feature part of the baseline, so
  that `remove` no longer reverts it.
- A sync that began before another ended may prune what the other has just fetched.

## What is proved

`FeatureGraphProofs`, for every set of refs, every listing and every content of the features:

- the inductive invariant `Inv`: types; the worklist has no repetition and nothing pulled
  (`WorklistInv`); discovery numbers exist, differ and lie below the counter (`NumberingInv`); what is
  known, waiting or being visited is just what is reachable (`ClosureInv`); the order so far is sound
  and stable (`OrderInv`); and when the cycle walk runs every remaining ref has a remaining predecessor
  and the path follows edges without repetition (`WalkInv`). None of the properties is inductive alone:
  that the order is stable needs that the priority is total, which needs the numbering, which needs
  the worklist;
- from it `TypeCorrect`, `PulledOnce`, `TotalPriority`, `ResolvesClosure`, `OrderIsSound`,
  `StableOrder`, `WalkNeverBacksUp`, `ReportedCycle`;
- `Refinement`: each initial state maps to one of `InstallOrder` and each step to a step or a stutter;
- `NeverStuck` and `StepsLeaveLess`, the two facts that termination rests on: no loop is left without a
  step and without a result - some free ref is first in the priority, the walk has a least edge to
  follow - and each step ends its loop or leaves strictly fewer entries, refs to pull, refs to place or
  refs the walk has not met. With a finite set of refs and weak fairness that is `Terminates`.

`PulledOnce`, `TotalPriority`, `OrderIsSound` and `WalkNeverBacksUp` state parts of `Inv`, and
`NeverStuck` and `StepsLeaveLess` consequences of it, that no run checks by themselves.

`WorkspaceProofs`, for any number of processes, commands, names and folders, and whatever is edited,
failed or killed: `TypeCorrect`, `OwnersDestroy` and `ChecksThenStarts`. Both properties are about one
step that acts on a container by its id, on the strength of labels read steps before. `Inv` says that
a command about to act has made its checks on the snapshot it holds (`PlaceInv`), that ids are never
given twice (`IdInv`), and therefore that a container with the snapshot's id has the snapshot's labels
(`SnapshotInv`).

For the same instances also `UpDelivered`, `DeleteLeft` and `StaysHome`, on what a command leaves when
it succeeds and no two have overlapped. They are about a command's last step, but
what it leaves was done or seen by earlier ones; `AloneInv` says, for each place of a command, what
the container, the tag, the blocks and the name it works with are then, until two commands overlap.

`PodmanMachineProofs`, for any number of commands, machines, polls and pings: `TypeCorrect`, `AsAsked`,
`GpuInPlace`, `FailureHasCause` and `CommandsGetOn`. A setting is tested some calls before the machine is created or
started, and the machine is named some calls before the client is made and GPU support is installed;
`PlaceInv` says what each place of a command knows of both. Why a command fails needs more, since
others may change a machine between two calls: `KnowsInv` says that a command which nothing has come
in the way of is the only one at work and, place by place, that its machine is still as it last found
it, and that a readiness check has failed only if the machine is not the default one.
`CommandsGetOn` is what `EveryCommandEnds` rests on: each step of a command brings it to a later place,
or leaves it there with one of finitely many checks and pings used up, and nobody else's step takes it
back.

`PortForwardProofs`, for any number of listeners, connections and descriptor numbers: `TypeCorrect`,
`CloseIsComplete`, `OwnAnswers` and `BridgesCleanUp`. The invariant follows a connection through its
bridge: the bridge's place says whether socket, relay, descriptors and list entries exist (`LifeInv`,
`PipesInv`); a number the down pump may read still names its own relay's output, since only the bridge
closes it and only after the join (`OutInv`); and when `close` copies a list nothing joins that list
any more (`CloseInv`). For the number the *up* pump holds `OutInv` has no counterpart, which is what
`forward_bytes_cross` shows. So `OwnAnswers` is about what down pumps hand on, and does not say that a
client hears its own relay alone.

`FeatureCacheProofs`, for any number of processes, features, files, releases and kills: `TypeCorrect`,
`HitsAreWhole`, `BuildsAreWhole`, `SyncsRefresh` and `WholeRefinement`. Until a `sync` is disturbed it is the only command
that runs (`Alone`), and it alone takes anything out of the cache: so a directory that lacks files is
one it is deleting (`WholeInv`), what an `up` has copied is what the cache holds but for the entries
still listed (`BuildInv`), and a `sync` finds only what it pulled itself, and the directories left are of its own failed attempts
(`SyncInv`). For the
refinement `FromInv` adds where things come from: what is being downloaded is a version the tag has or
had, and what was copied belongs to features the command needs. Then a rename onto nothing, or onto
a directory that is empty, is `Publish`, the deletion of a first file is `Drop`, the end of a build is
`Build`, and every other step of a pull, a build or a `sync` is a stutter. `BuildsAreWhole` (an image
has all files of each feature, in one version) is the consequence that can be read off one state.

`SshSessionProofs`, for any number of bytes, keys and attempts: `TypeCorrect`, which includes that no
key is given to the shell twice and for which the keys that wait in the sequence are counted;
`StatusRecorded`; and `OutputFirst`, under the hypothesis `PtyLead = {}` that no read of a terminal ends
inside a character - without it the statement is false, see `ssh_half_character`. The invariant
orders the ends: while the client is there a pump that has ended has shown everything (`OpenInv`), the
session goes on only when all have, and a status is told only then (`TellsInv`).

`RegistrySyncProofs`, for any number of processes, names, syncs and changes: `TypeCorrect`, which
includes that a sync prunes only when it has written all it listed; `OwnSafe`, that a copy a user
made under a name no sync has listed is never touched; `Freshened` and `Pruned`, on what a sync leaves
that no other overlapped. The invariant behind the first two says that what a sync is about to write
is on its own list, and that all a sync may touch - its list, what it read from the manifest, the
manifest itself - has been listed at some time. For the others it adds that versions only
grow (`VersionInv`), that what the sync has done so far is whole and fresh (`FreshInv`), and that every
fetched copy is on its list, in the manifest it read or among the forgotten names (`TrackedInv`).

`FeatureLayersProofs`, for any fields of any kinds, features, templates, files, edits and kills, in
two parts.

- About data: `MergeLayerKeysHolds`, that merging a list of layers one after the other, as
  `merge_layer_keys` does, comes to what `Expected` says of all of them at once. The lemmas behind it
  say of each kind of field what one more layer adds to it (`ExpectedAppend`), what leaving a layer
  out takes away (`HoldsDropped`), and that repetitions are dropped alike whichever way the items are
  joined (`DistinctConcat`). They are by induction over the layers. The library's induction theorems
  take an operator, so induction is over a set of naturals (`Induct`), which follows from the least
  counterexample; and the definitions these proofs are about are indexed by sets of layers.
- About the commands: `TypeCorrect`, `LayersExplain`, `InitKeptAsWritten` and `RemoveRepeats`. None is
  inductive: that the file is explained says nothing of a command that has read it and is to write, nor
  of a file that a killed `remove` has written without telling the sidecar. `Inv` adds what a command
  at work has read (`ReadOK`) and is to write (`WrittenOK`); that the file is always the user's fields
  under the overlays of the sidecar, *some of which may be thinned*, deprived of the fields that a
  killed `remove` computed anew (`LaidOK`), and none while nothing was killed; and that "init" agrees
  with the user where nothing was edited since (`InitOK`). `remove` given again finds its overlay still
  listed, and what it computes from "init" and the others restores the fields that were thinned.
  TLC has checked this invariant on the instance of `feature_layers`.

The proofs assume what the modules' `ASSUME`s say, which TLC evaluates in every run: refs are naturals,
specs and listings are made of refs, commands are records of their settings, bounds are naturals (some
of them not zero), a feature has at least one file (its `devcontainer-feature.json`), and the values
that stand for something absent are none of the values they are compared with; the kinds of fields are
disjoint, as the sets at the head of `merge.py` are, templates, files and edits hold values of the
kind their field has, and users' arrays have no repetition, see above. No fairness is used.

Only model-checked:

- termination and progress (`Terminates`, `BridgesEnd`, `SessionEnds`, `ServerEnds`, `KeysArrive`,
  `EveryCommandEnds`): liveness under fairness and `ENABLED` are beyond this prover. For `Terminates` and
  `EveryCommandEnds` the safety facts that they rest on are proved, see above;
- the three statements that the code does not keep.

Every other property of the runs has a theorem.

No module declares a recursive operator.

## Not modelled

- `sshd/stdio.py`: two byte pumps between the process's stdio and a socket, below `SshSession`'s
  connection. What can go wrong there, an end of either side at any time, is what the model's
  connection does.
- `pty/windows.py`: the behaviour of a library that is not in the repository, behind the protocol of
  `pty/posix.py`.
- The lines of `~/.ssh/config`: the file is a set of whole blocks here. The scan drops what follows a
  BEGIN marker without an END, which `dvt` itself never writes.
- Engine detection elsewhere than on Windows (`runtime.py`): one lookup of a socket path.
- `dvt image set` and `unset`: one write to one file; `resolve_image_ref`: a lookup by name.
- Of `SshSession`: terminal resizing, several sessions on a connection, the ssh protocol.
- Two `dvt` commands at once on one project's `devcontainer.json` and sidecar.
- Read-only views, output formats, parsing of ports, mounts and refs, fuzzy matching, the schema, the
  Dockerfile text, settings from the environment: they keep no state that steps could disturb.
- The features' install scripts, image Dockerfiles and workflows, which run elsewhere.

## Plan

Everything planned in the order of importance is written: `FeatureGraph` with `InstallOrder`,
`Workspace`, `PortForward`, `SshSession`, `FeatureLayers`, `FeatureCache` with `WholeFeatures`,
`RegistrySync`, `PodmanMachine`, and a proof module for each. What would add most next:

1. `SshConfig`: the lines of `~/.ssh/config` and the scan for markers, in place of the set of names.
2. The stdio bridge below `SshSession`'s connection.
3. An abstract specification of `PortForward`: one relay per connection.

## Running it

    tlc -config feature_graph.cfg MCFeatureGraph.tla
    tlapm FeatureGraphProofs.tla

and so for each run of `PROJECT.json`, which names the module of each configuration. The passing runs
take between a few seconds and three minutes each, the proofs a few minutes in all.

------------------------------ MODULE SshSession ------------------------------
(***************************************************************************)
(* `dvt ssh --stdio`: the SSH server run_stdio_server (dvt/src/devtemplate/*)
(* sshd/server.py) runs for one client, with the one session it bridges to *)
(* a shell in the container: over plain pipes (sshd/session.py) or, if the *)
(* client asked for a pty, over a host pseudo-terminal (pty/bridge.py and  *)
(* pty/posix.py).                                                          *)
(*                                                                         *)
(* Concurrent parts: the server's main task; the session task; the client  *)
(* pump task; for a plain session one pump task per output stream; for a   *)
(* pty session a reader and a writer thread joined to the event loop by a  *)
(* socketpair, and the output pump that is the session task itself.  Steps *)
(* of one task between two awaits are one action.  The socketpairs, the    *)
(* server's own and the pty session's, may fail to come about (net.py).    *)
(*                                                                         *)
(* Output is counted in bytes, so that a read may end inside a character;  *)
(* input in keys.  Client and shell are the environment.                   *)
(*                                                                         *)
(* Faulty forms of some definitions, which a property has to refuse, are   *)
(* kept just before the true one; Next does not use them.                  *)
(***************************************************************************)
EXTENDS Integers, Sequences, Functions

CONSTANTS
    Kinds,    \* sessions the client may ask for, of "plain" and "pty"
    PlainLead, PtyLead, \* positions of bytes that begin a two-byte character
    Attempts, \* of bounded_socketpair
    MaxBytes, \* bound: bytes the shell writes to each stream
    MaxTyped  \* bound: what the client sends

ASSUME KindsAssumption == Kinds \subseteq {"plain", "pty"}
ASSUME AttemptsAssumption == Attempts \in Nat \ {0}
ASSUME BoundAssumption == MaxBytes \in Nat /\ MaxTyped \in Nat

Stream   == {"out", "err"}
ExitCode == {"0", "1"}
Failed   == "255" \* EXIT_SESSION_FAILED
NoCode   == "none"

VARIABLES
    conn,      \* the client's connection: open or lost
    typed,     \* what the client sent and the client pump has not read
    sent, keys, \* how much it sent; how many keys of it
    status,    \* the exit status the client was told
    shell,     \* none, running, or its exit code
    written,   \* stream -> bytes the shell wrote
    fed,       \* keys the shell was given
    stdinOpen, \* the shell's stdin, or its terminal, is open on dvt's side
    kind,      \* of the session
    session,   \* the session task's place
    cancelled, \* it was cancelled
    taken,     \* stream -> bytes read from the shell
    passed,    \* pty: bytes the reader thread has put into the socketpair
    shown,     \* stream -> bytes written to the client
    pump,      \* stream -> its output pump
    reader, writer, \* pty: the two threads
    inPair,    \* pty: keys in the socketpair
    pairShut,  \* pty: the socketpair's input direction is shut
    clientPump,
    server,    \* the main task's place
    codes,     \* the entry of exit_codes
    executor,  \* pty: a thread of the executor is in waitpid
    attempts   \* those of the bounded_socketpair call under way

clientVars == <<conn, typed, sent, keys, status>>
shellVars  == <<shell, written, fed, stdinOpen>>
outVars    == <<taken, passed, shown, pump, reader>>
inVars     == <<writer, inPair, pairShut, clientPump>>
taskVars   == <<kind, session, cancelled>>
serverVars == <<server, codes, executor, attempts>>
vars == <<clientVars, shellVars, outVars, inVars, taskVars, serverVars>>

Init ==
    /\ conn = "open" /\ typed = <<>> /\ sent = 0 /\ keys = 0
    /\ status = NoCode
    /\ shell = "none" /\ fed = 0 /\ stdinOpen = FALSE
    /\ written = [s \in Stream |-> 0]
    /\ kind = "none" /\ session = "none" /\ cancelled = FALSE
    /\ taken = [s \in Stream |-> 0] /\ passed = 0
    /\ shown = [s \in Stream |-> 0]
    /\ pump = [s \in Stream |-> "off"] /\ reader = "off"
    /\ writer = "off" /\ inPair = 0 /\ pairShut = FALSE /\ clientPump = "off"
    /\ server = "starting" /\ codes = NoCode /\ executor = FALSE
    /\ attempts = 0

-----------------------------------------------------------------------------
Exited  == shell \in ExitCode
Streams == IF kind = "pty" THEN {"out"} ELSE Stream

\* What an incremental decoder has returned after n bytes: a character that
\* has only begun is held back.
Lead == IF kind = "pty" THEN PtyLead ELSE PlainLead
Decoded(n) == IF n \in Lead THEN n - 1 ELSE n

\* process.exit(): nothing if the client is gone.
Tell(code) == status' = IF conn = "open" THEN code ELSE status

\* The code goes into exit_codes, for run_stdio_server to return.
NotRecorded(code) == UNCHANGED codes
Record(code) == codes' = code

\* bounded_socketpair: an attempt fails, with an OSError or by not returning in
\* time, and another is made; after the last it raises.
AttemptLeft == attempts + 1 < Attempts
AttemptFails == AttemptLeft /\ attempts' = attempts + 1
PairMade == attempts' = 0
PairRefused == ~AttemptLeft /\ attempts' = 0

\* run_stdio_server makes its pair before there is an event loop; without one
\* the command ends with an error.
Start ==
    /\ server = "starting"
    /\ \/ PairMade /\ server' = "serving" /\ UNCHANGED codes
       \/ AttemptFails /\ UNCHANGED <<server, codes>>
       \/ PairRefused /\ server' = "returned" /\ Record("1")
    /\ UNCHANGED <<clientVars, shellVars, outVars, inVars, taskVars, executor>>

Open ==
    /\ server = "serving" /\ conn = "open" /\ session = "none"
    /\ kind' \in Kinds
    /\ session' = "spawn"
    /\ UNCHANGED <<clientVars, shellVars, outVars, inVars, cancelled, serverVars>>

\* The pumps, and for a pty the threads, are started.
StartPumps ==
    /\ session' = "pump"
    /\ pump' = [s \in Stream |-> IF s \in Streams THEN "run" ELSE "off"]
    /\ reader' = IF kind = "pty" THEN "run" ELSE "off"
    /\ writer' = IF kind = "pty" THEN "run" ELSE "off"
    /\ clientPump' = "run"

\* The shell runs; a pty session still needs its socketpair.
Spawn ==
    /\ session = "spawn"
    /\ shell' = "running" /\ stdinOpen' = TRUE
    /\ IF kind = "pty"
       THEN session' = "pair" /\ UNCHANGED <<pump, reader, writer, clientPump>>
       ELSE StartPumps
    /\ UNCHANGED <<clientVars, written, fed, kind, cancelled, taken, passed,
                   shown, inPair, pairShut, serverVars>>

\* The call blocks the event loop.  If it raises, handle_process fails with the
\* shell running: nobody reaps it or closes its terminal.
Pair ==
    /\ session = "pair"
    /\ \/ PairMade /\ StartPumps /\ UNCHANGED <<codes, status>>
       \/ /\ AttemptFails
          /\ UNCHANGED <<session, pump, reader, writer, clientPump, codes, status>>
       \/ /\ PairRefused
          /\ session' = "failed" /\ Record(Failed) /\ Tell(Failed)
          /\ UNCHANGED <<pump, reader, writer, clientPump>>
    /\ UNCHANGED <<conn, typed, sent, keys, shellVars, kind, cancelled, taken,
                   passed, shown, inPair, pairShut, server, executor>>

\* handle_process raises, process_factory reports it.
SpawnFails ==
    /\ session = "spawn"
    /\ session' = "failed"
    /\ Record(Failed)
    /\ Tell(Failed)
    /\ UNCHANGED <<conn, typed, sent, keys, shellVars, outVars, inVars, kind,
                   cancelled, server, executor, attempts>>

-----------------------------------------------------------------------------
(* From the shell to the client.                                            *)

\* pump_process_to_client: a read that ends inside a character writes less
\* than it read; the end of the stream flushes the rest; a client that is
\* gone ends the pump.
PlainPump(s) ==
    /\ kind = "plain" /\ pump[s] = "run"
    /\ \/ \E n \in taken[s] + 1 .. written[s] :
             /\ taken' = [taken EXCEPT ![s] = n]
             /\ \/ /\ conn = "open"
                   /\ shown' = [shown EXCEPT ![s] = Decoded(n)]
                   /\ UNCHANGED pump
                \/ /\ conn = "lost" /\ Decoded(n) > shown[s]
                   /\ pump' = [pump EXCEPT ![s] = "ended"]
                   /\ UNCHANGED shown
                \/ /\ conn = "lost" /\ Decoded(n) = shown[s]
                   /\ UNCHANGED <<shown, pump>>
       \/ /\ Exited /\ taken[s] = written[s]
          /\ pump' = [pump EXCEPT ![s] = "ended"]
          /\ shown' = IF conn = "open" THEN [shown EXCEPT ![s] = taken[s]]
                                       ELSE shown
          /\ UNCHANGED taken
    /\ UNCHANGED <<clientVars, shellVars, passed, reader, inVars, taskVars,
                   serverVars>>

\* pump_pty_to_socket over PosixPtyProcess.read: an empty text is taken for
\* the end, whether the shell has exited or only begun a character.
EndsReading(n) == Decoded(n) = Decoded(taken["out"])

\* Closing the master does not wake a read of it: that read ends when the shell
\* exits (EIO) or writes, and what it wrote then goes nowhere, for the
\* socketpair is closed too.
PtyReader ==
    /\ reader = "run"
    /\ \/ \E n \in taken["out"] + 1 .. written["out"] :
             /\ stdinOpen
             /\ taken' = [taken EXCEPT !["out"] = n]
             /\ passed' = Decoded(n)
             /\ reader' = IF EndsReading(n) THEN "ended" ELSE "run"
       \/ /\ IF taken["out"] = written["out"] THEN Exited ELSE ~stdinOpen
          /\ reader' = "ended"
          /\ UNCHANGED <<taken, passed>>
    /\ UNCHANGED <<clientVars, shellVars, shown, pump, inVars, taskVars,
                   serverVars>>

\* A reader that was between two reads when the master was closed gets EBADF.
PtyReaderLate ==
    /\ reader = "run" /\ ~stdinOpen
    /\ reader' = "ended"
    /\ UNCHANGED <<clientVars, shellVars, taken, passed, shown, pump, inVars,
                   taskVars, serverVars>>

\* pump_pty_to_client, part of the session task.
PtyPump ==
    /\ kind = "pty" /\ session = "pump" /\ pump["out"] = "run"
    /\ \/ \E n \in shown["out"] + 1 .. passed :
             IF conn = "open"
             THEN shown' = [shown EXCEPT !["out"] = n] /\ UNCHANGED pump
             ELSE pump' = [pump EXCEPT !["out"] = "ended"] /\ UNCHANGED shown
       \/ /\ reader = "ended" /\ shown["out"] = passed
          /\ pump' = [pump EXCEPT !["out"] = "ended"]
          /\ UNCHANGED shown
    /\ UNCHANGED <<clientVars, shellVars, taken, passed, reader, inVars,
                   taskVars, serverVars>>

-----------------------------------------------------------------------------
(* From the client to the shell.                                            *)

\* The pump's loop is over: the shell's stdin, or the socketpair, is shut.
ShutInput ==
    /\ clientPump' = "ended"
    /\ IF kind = "pty" THEN pairShut' = TRUE /\ UNCHANGED stdinOpen
                       ELSE stdinOpen' = FALSE /\ UNCHANGED pairShut

\* Of what is read, channel events (a resize, a signal) are not input and not
\* its end.
AllButItsEnd(item) == item # "eof"
IsInput(item) == item = "key"
EndsInputAtEvent(item) == item \in {"eof", "event"}
EndsInput(item) == item = "eof"

ClientPump ==
    /\ clientPump = "run"
    /\ \/ /\ typed # <<>>
          /\ typed' = Tail(typed)
          /\ IF EndsInput(Head(typed)) \/ (kind = "plain" /\ Exited)
             THEN ShutInput /\ UNCHANGED <<fed, inPair>>
             ELSE /\ UNCHANGED <<clientPump, pairShut, stdinOpen>>
                  /\ IF ~IsInput(Head(typed)) THEN UNCHANGED <<fed, inPair>>
                     ELSE IF kind = "plain"
                          THEN fed' = fed + 1 /\ UNCHANGED inPair
                          ELSE inPair' = inPair + 1 /\ UNCHANGED fed
       \/ /\ typed = <<>> /\ conn = "lost"
          /\ ShutInput
          /\ UNCHANGED <<typed, fed, inPair>>
    /\ UNCHANGED <<conn, sent, keys, status, shell, written, outVars, writer,
                   taskVars, serverVars>>

\* pump_socket_to_pty: until the socketpair is shut or the terminal is gone.
PtyWriter ==
    /\ writer = "run"
    /\ \/ /\ inPair > 0
          /\ inPair' = inPair - 1
          /\ IF Exited \/ ~stdinOpen THEN writer' = "ended" /\ UNCHANGED fed
                                     ELSE fed' = fed + 1 /\ UNCHANGED writer
       \/ /\ inPair = 0 /\ pairShut
          /\ writer' = "ended"
          /\ UNCHANGED <<inPair, fed>>
    /\ UNCHANGED <<clientVars, shell, written, stdinOpen, outVars, pairShut,
                   clientPump, taskVars, serverVars>>

-----------------------------------------------------------------------------
(* The session's end.                                                       *)

\* All output pumps have to end: gather.
OutEnded == pump["out"] = "ended"
ShellEnded == Exited
AllEnded == \A s \in Streams : pump[s] = "ended"
OutputAndInputEnded == AllEnded /\ clientPump = "ended"
OutputEnded == AllEnded

Drained ==
    /\ session = "pump" /\ OutputEnded
    /\ session' = "wait"
    /\ executor' = (kind = "pty")
    /\ UNCHANGED <<clientVars, shellVars, outVars, inVars, kind, cancelled,
                   server, codes, attempts>>

Reaped ==
    /\ session = "wait" /\ Exited
    /\ session' = "settle"
    /\ executor' = FALSE
    /\ UNCHANGED <<clientVars, shellVars, outVars, inVars, kind, cancelled,
                   server, codes, attempts>>

\* The finally clause: the client pump is cancelled.  A pty's shuts its end of
\* the socketpair even so; a plain one's leaves the shell's stdin open.
StopClientPump ==
    /\ session = "settle"
    /\ session' = IF kind = "pty" THEN "join" ELSE "report"
    /\ clientPump' = "ended"
    /\ pairShut' = (kind = "pty")
    /\ UNCHANGED <<clientVars, shellVars, outVars, writer, inPair, kind,
                   cancelled, serverVars>>

\* The threads are joined, DRAIN_TIMEOUT at most, and the sockets and the master
\* are closed, whether or not the reader is still in a read.
Join ==
    /\ session = "join"
    /\ session' = "report"
    /\ stdinOpen' = FALSE
    /\ UNCHANGED <<clientVars, shell, written, fed, outVars, inVars, kind,
                   cancelled, serverVars>>

\* handle_process returns, process_factory records the code; or it leaves by
\* CancelledError, which process_factory does not catch.
Report ==
    /\ session = "report"
    /\ IF cancelled
       THEN session' = "cancelled" /\ UNCHANGED <<codes, status>>
       ELSE session' = "done" /\ Record(shell) /\ Tell(shell)
    /\ UNCHANGED <<conn, typed, sent, keys, shellVars, outVars, inVars, kind,
                   cancelled, server, executor, attempts>>

SessionEnded == session \in {"none", "done", "failed", "cancelled"}

\* conn.wait_closed() returns, main ends, and asyncio.run cancels what is left:
\* a session that waits, but not one in its finally clause.
OutsideTheWait == {"spawn", "pump"}
Cancellable == {"spawn", "pump", "wait"}

Closed ==
    /\ server = "serving" /\ conn = "lost" /\ session # "pair"
    /\ server' = "closing"
    /\ IF session \in Cancellable
       THEN /\ cancelled' = TRUE
            /\ session' = IF session = "spawn" THEN "cancelled" ELSE "settle"
            /\ pump' = [s \in Stream |-> IF pump[s] = "run" THEN "ended"
                                                           ELSE pump[s]]
       ELSE UNCHANGED <<cancelled, session, pump>>
    /\ UNCHANGED <<clientVars, shellVars, taken, passed, shown, reader, inVars,
                   kind, codes, executor, attempts>>

\* The loop's executor is joined - asyncio.run gives that up after 300 s, but the
\* interpreter joins the same thread again at its exit - and the process ends,
\* with its daemon threads and whatever it still held open.
Return ==
    /\ server = "closing" /\ SessionEnded
    /\ executor => Exited
    /\ server' = "returned"
    /\ stdinOpen' = FALSE
    /\ UNCHANGED <<clientVars, shell, written, fed, outVars, inVars, taskVars,
                   codes, executor, attempts>>

Result == IF codes = NoCode THEN "0" ELSE codes

-----------------------------------------------------------------------------
(* The client and the shell.                                                *)

Send ==
    /\ conn = "open" /\ session = "pump" /\ sent < MaxTyped
    /\ "eof" \notin Range(typed) /\ clientPump = "run"
    /\ sent' = sent + 1
    /\ \E item \in {"key", "event", "eof"} :
          /\ typed' = Append(typed, item)
          /\ keys' = IF item = "key" THEN keys + 1 ELSE keys
    /\ UNCHANGED <<conn, status, shellVars, outVars, inVars, taskVars, serverVars>>

\* The client leaves, because it was told the status or at any other moment.
Vanish ==
    /\ conn = "open"
    /\ conn' = "lost"
    /\ UNCHANGED <<typed, sent, keys, status, shellVars, outVars, inVars, taskVars,
                   serverVars>>

ShellWrites ==
    /\ shell = "running"
    /\ \E s \in Streams : /\ written[s] < MaxBytes
                          /\ written' = [written EXCEPT ![s] = @ + 1]
    /\ UNCHANGED <<clientVars, shell, fed, stdinOpen, outVars, inVars, taskVars,
                   serverVars>>

ShellExits ==
    /\ shell = "running"
    /\ shell' \in ExitCode
    /\ UNCHANGED <<clientVars, written, fed, stdinOpen, outVars, inVars,
                   taskVars, serverVars>>

\* A terminal is gone when its master is closed and no read of it is under way,
\* which the end of the process brings about too; its shell is hung up.
TerminalGone == ~stdinOpen /\ (reader # "run" \/ server = "returned")
ShellHangsUp == kind = "pty" /\ TerminalGone /\ ShellExits

SessionStep ==
    \/ Spawn \/ SpawnFails \/ Pair \/ PtyPump
    \/ Drained \/ Reaped \/ StopClientPump \/ Join \/ Report

Running ==
    \/ SessionStep \/ PtyReader \/ PtyReaderLate \/ PtyWriter \/ ClientPump
    \/ \E s \in Stream : PlainPump(s)
    \/ Start \/ Closed \/ Return

Next ==
    \/ Open \/ (server # "returned" /\ Running)
    \/ Send \/ Vanish \/ ShellWrites \/ ShellExits

\* Every task and thread runs; a hung-up shell exits; a client owes nothing, and
\* a reader need not have been between two reads.
Fairness ==
    /\ WF_vars(SessionStep) /\ WF_vars(Start) /\ WF_vars(Closed) /\ WF_vars(Return)
    /\ WF_vars(PtyReader) /\ WF_vars(PtyWriter) /\ WF_vars(ClientPump)
    /\ \A s \in Stream : WF_vars(PlainPump(s))
    /\ WF_vars(ShellHangsUp)

Spec == Init /\ [][Next]_vars /\ Fairness

-----------------------------------------------------------------------------
\* The values the variables take.
TypeOK ==
    /\ conn \in {"open", "lost"} /\ status \in ExitCode \cup {Failed, NoCode}
    /\ typed \in Seq({"key", "event", "eof"})
    /\ sent \in 0 .. MaxTyped /\ keys \in 0 .. sent
    /\ fed \in 0 .. keys /\ inPair \in 0 .. keys - fed
    /\ shell \in {"none", "running"} \cup ExitCode /\ stdinOpen \in BOOLEAN
    /\ written \in [Stream -> 0 .. MaxBytes]
    /\ \A s \in Stream : taken[s] \in 0 .. written[s]
    /\ passed \in 0 .. taken["out"]
    /\ \A s \in Stream : shown[s] \in 0 .. taken[s]
    /\ pump \in [Stream -> {"off", "run", "ended"}]
    /\ {reader, writer, clientPump} \subseteq {"off", "run", "ended"}
    /\ pairShut \in BOOLEAN /\ cancelled \in BOOLEAN /\ executor \in BOOLEAN
    /\ kind \in Kinds \cup {"none"}
    /\ attempts \in 0 .. Attempts - 1
    /\ session \in {"none", "spawn", "pair", "pump", "wait", "settle", "join", "report",
                    "done", "failed", "cancelled"}
    /\ server \in {"starting", "serving", "closing", "returned"}
    /\ codes \in ExitCode \cup {Failed, NoCode}

\* "both must drain fully before the exit status is reported": a client told
\* the shell's status has been shown all the shell wrote, on both streams.
OutputBeforeStatus ==
    status \in ExitCode => \A s \in Streams : shown[s] = written[s]

\* The status the client was told is the process's own exit code: it is
\* recorded before the connection can finish closing.
StatusIsRecorded ==
    server = "returned" /\ status # NoCode => Result = status

\* A session ends once its shell has exited, although the client sends nothing
\* more and never ends its input.
SessionEnds == Exited ~> SessionEnded

\* The thread in waitpid keeps the process, a thread in a read of the terminal
\* keeps the shell from being hung up, and the shell says nothing.
Stuck ==
    /\ server = "closing" /\ session = "cancelled" /\ executor
    /\ reader = "run" /\ taken["out"] = written["out"] /\ shell = "running"

\* When the client vanishes the server process ends, in whatever state the
\* session was - even one that failed and left its shell running - and a shell
\* on a terminal does not outlive it.  The one exception: a pty session whose
\* output pump found the client gone by itself, and so waits for the shell when
\* it is cancelled, is stuck for as long as the shell is silent.
ServerEnds ==
    conn = "lost" ~>
        \/ server = "returned" /\ (kind = "pty" => shell # "running")
        \/ []Stuck

\* What is typed reaches the shell, whatever channel events (a resize, a
\* signal) came before it, unless the shell exits or the client leaves.
KeysArrive == keys > fed ~> keys = fed \/ shell # "running" \/ conn = "lost"

-----------------------------------------------------------------------------
(* What the documentation says and the code does not do.                    *)

\* PtyProcess.read returns "" "once the process has exited and all its output
\* has been drained" (pty/spawn.py): the reader thread does not end before.
\* PosixPtyProcess.read also returns it for a read of half a character.
PtyReadToTheEnd ==
    reader = "ended" /\ ~cancelled => Exited /\ taken["out"] = written["out"]
=============================================================================

----------------------------- MODULE PortForward -----------------------------
(***************************************************************************)
(* `dvt forward` and -L: one PortForwarder (dvt/src/devtemplate/forward.py)*)
(* from build_forwarder's binding of the listeners to the end of close().  *)
(*                                                                         *)
(* Its threads: the main thread, which builds and later closes; an         *)
(* acceptor for each listener; and for each accepted connection a bridge,  *)
(* which spawns a relay inside the container and two pumps, up (socket to  *)
(* relay) and down (relay to socket).  A section under self._lock is one   *)
(* step; outside it each call that another thread can come between is.     *)
(*                                                                         *)
(* Two facts of the operating system matter.  The pumps name the relay's   *)
(* pipes by descriptor NUMBER, and a closed number is given out again, to  *)
(* a pipe or to an accepted socket.  And closing a socket does not wake a  *)
(* thread blocked on it: until the call returns a listener still accepts   *)
(* and a connection stays open.  Clients and relays are the environment;   *)
(* data is counted in chunks, each known by the connection it belongs to.  *)
(***************************************************************************)
EXTENDS Integers, FiniteSets

CONSTANTS
    Specs,     \* number of ForwardSpecs, at least one
    Conn,      \* connections clients may make
    Fd,        \* descriptor numbers
    NoFd,      \* a descriptor number that names nothing
    None,      \* no owner
    Senders, Answering, \* bounds: connections on which clients send, and on
                        \* which relays answer
    MaxSent, MaxAnswers \* bounds: chunks sent each way on a connection

ASSUME SpecsAssumption == Specs \in Nat \ {0}
ASSUME ChunkAssumption == MaxSent \in Nat /\ MaxAnswers \in Nat
ASSUME AbsentAssumption ==
    NoFd \notin Fd /\ None \notin Conn \X {"in", "out", "sock"}

Listener == 1 .. Specs

VARIABLES
    main,      \* the main thread's place
    built,     \* listeners bound, listening and given an acceptor so far
    listeners, \* those whose socket object is open
    acceptor,  \* listener -> its thread's place
    closed,    \* self._closed
    children,  \* connections whose relay and socket are in the tracking lists
    todo,      \* what close() has copied from a list and not dealt with yet
    client,    \* connection -> what its client did; via its listener
    via,
    inbox,     \* connection -> chunks in the socket not yet received
    sent,      \* connection -> chunks its client sent
    bridge,    \* connection -> its bridge's place
    sock,      \* connection -> whether its socket object is open
    relay,     \* connection -> its relay process
    owner,     \* descriptor -> whose pipe or socket it names, or None
    inFd,      \* connection -> in_fd, the number the up pump writes to
    outFd,     \* connection -> out_fd, the number the down pump reads from
    up, down,  \* connection -> its pumps' places
    answers,   \* connection -> chunks its relay produced
    toRelay,   \* connection -> the connections whose chunks its relay got
    toClient,  \* connection -> the connections whose relay's answers were
               \* given to sendall() for its client
    overheard  \* connection -> the connections whose chunks were written,
               \* past any relay, to its client's socket

mainVars   == <<main, built, listeners, todo>>
clientVars == <<client, via, inbox, sent>>
fdVars     == <<owner, inFd, outFd>>
heardVars  == <<answers, toRelay, toClient, overheard>>
pumpVars   == <<up, down, heardVars>>
vars == <<mainVars, acceptor, closed, children, clientVars, bridge, sock,
          relay, fdVars, pumpVars>>

Init ==
    /\ main = "build" /\ built = 0
    /\ listeners = {} /\ todo = {}
    /\ acceptor = [l \in Listener |-> "off"]
    /\ closed = FALSE
    /\ children = {}
    /\ client = [c \in Conn |-> "away"]
    /\ via = [c \in Conn |-> 0]
    /\ inbox = [c \in Conn |-> 0]
    /\ sent = [c \in Conn |-> 0]
    /\ bridge = [c \in Conn |-> "off"]
    /\ sock = [c \in Conn |-> "none"]
    /\ relay = [c \in Conn |-> "none"]
    /\ owner = [f \in Fd |-> None]
    /\ inFd = [c \in Conn |-> NoFd]
    /\ outFd = [c \in Conn |-> NoFd]
    /\ up = [c \in Conn |-> "off"]
    /\ down = [c \in Conn |-> "off"]
    /\ answers = [c \in Conn |-> 0]
    /\ toRelay = [c \in Conn |-> {}]
    /\ toClient = [c \in Conn |-> {}]
    /\ overheard = [c \in Conn |-> {}]

-----------------------------------------------------------------------------
(* The main thread: build_forwarder, then close().                          *)

\* Faulty forms of definitions are kept beside them: the checks replace the one
\* by the other to see that a property notices.
OneTooMany(n) == n = Specs + 1
AllBuilt(n) == n = Specs

\* One turn of _bind_all's loop: bind, listen, start the acceptor.
Bind ==
    /\ main = "build" /\ ~AllBuilt(built)
    /\ built' = built + 1
    /\ listeners' = listeners \cup {built'}
    /\ acceptor' = [acceptor EXCEPT ![built'] = "check"]
    /\ main' = IF AllBuilt(built') THEN "serve" ELSE "build"
    /\ UNCHANGED <<todo, closed, children, clientVars, bridge, sock, relay,
                   fdVars, pumpVars>>

\* The port is taken: the new socket and the whole forwarder are closed first.
BindFails ==
    /\ main = "build"
    /\ main' = "close"
    /\ UNCHANGED <<built, listeners, todo, acceptor, closed, children,
                   clientVars, bridge, sock, relay, fdVars, pumpVars>>

\* listen() raises: it stands outside the try, nothing is closed.
ListenFails ==
    /\ main = "build"
    /\ main' = "raised"
    /\ UNCHANGED <<built, listeners, todo, acceptor, closed, children,
                   clientVars, bridge, sock, relay, fdVars, pumpVars>>

\* Ctrl-C, or the command -L was given for ends: close() is called.
Interrupt ==
    /\ main = "serve"
    /\ main' = "close"
    /\ UNCHANGED <<built, listeners, todo, acceptor, closed, children,
                   clientVars, bridge, sock, relay, fdVars, pumpVars>>

SetClosed ==
    /\ main = "close"
    /\ closed' = TRUE
    /\ main' = "listeners"
    /\ UNCHANGED <<built, listeners, todo, acceptor, children, clientVars,
                   bridge, sock, relay, fdVars, pumpVars>>

CloseListeners ==
    /\ main = "listeners"
    /\ IF listeners # {}
       THEN /\ \E l \in listeners : listeners' = listeners \ {l}
            /\ UNCHANGED <<main, todo>>
       ELSE /\ main' = "children" /\ todo' = children
            /\ UNCHANGED listeners
    /\ UNCHANGED <<built, acceptor, closed, children, clientVars, bridge, sock,
                   relay, fdVars, pumpVars>>

\* proc.terminate(): a signal, nothing to a relay that is no more.
Terminated(c) == [relay EXCEPT ![c] = IF @ = "running" THEN "told" ELSE @]

TerminateChildren ==
    /\ main = "children"
    /\ IF todo # {}
       THEN \E c \in todo :
               /\ relay' = Terminated(c)
               /\ todo' = todo \ {c}
               /\ UNCHANGED main
       ELSE /\ main' = "conns" /\ todo' = children
            /\ UNCHANGED relay
    /\ UNCHANGED <<built, listeners, acceptor, closed, children, clientVars,
                   bridge, sock, fdVars, pumpVars>>

\* Closing a file or socket object twice closes its descriptor once.
CloseOnlyOut(c, end) ==
    [f \in Fd |-> IF end = "out" /\ owner[f] = <<c, end>> THEN None ELSE owner[f]]

CloseEnd(c, end) ==
    [f \in Fd |-> IF owner[f] = <<c, end>> THEN None ELSE owner[f]]

\* The last connection closed, the acceptors are joined: for two seconds each
\* at most, so the end does not depend on them.
CloseConns ==
    /\ main = "conns"
    /\ IF todo # {}
       THEN \E c \in todo :
               /\ sock' = [sock EXCEPT ![c] = "closed"]
               /\ owner' = CloseEnd(c, "sock")
               /\ todo' = todo \ {c}
               /\ UNCHANGED main
       ELSE /\ main' = IF AllBuilt(built) THEN "closed" ELSE "raised"
            /\ UNCHANGED <<sock, owner, todo>>
    /\ UNCHANGED <<built, listeners, acceptor, closed, children, clientVars,
                   bridge, relay, inFd, outFd, pumpVars>>

MainStep == SetClosed \/ CloseListeners \/ TerminateChildren \/ CloseConns

-----------------------------------------------------------------------------
(* The acceptors.                                                           *)

\* The kernel accepts connections for a socket while it is open and while a
\* thread is blocked in accept() on it.
Listening(l) == l \in listeners \/ acceptor[l] = "accept"

\* `while not self._closed` and the call of accept() on the socket object.
CheckClosed(l) ==
    /\ acceptor[l] = "check"
    /\ acceptor' = [acceptor EXCEPT ![l] =
                       IF closed \/ l \notin listeners THEN "ended"
                                                       ELSE "accept"]
    /\ UNCHANGED <<mainVars, closed, children, clientVars, bridge, sock, relay,
                   fdVars, pumpVars>>

Accept(l) ==
    /\ acceptor[l] = "accept"
    /\ \E c \in Conn :
          /\ client[c] \in {"queued", "gone"} /\ via[c] = l
          /\ sock[c] = "none"
          /\ sock' = [sock EXCEPT ![c] = "open"]
          /\ bridge' = [bridge EXCEPT ![c] = "spawn"]
          /\ \E f \in Fd : /\ owner[f] = None
                           /\ owner' = [owner EXCEPT ![f] = <<c, "sock">>]
    /\ acceptor' = [acceptor EXCEPT ![l] = "check"]
    /\ UNCHANGED <<mainVars, closed, children, clientVars, relay, inFd, outFd,
                   pumpVars>>

\* accept() raises, as when no number is free or the client gave up: whatever
\* the error, the thread returns and its listener is served no more.
AcceptFails(l) ==
    /\ acceptor[l] = "accept"
    /\ acceptor' = [acceptor EXCEPT ![l] = "ended"]
    /\ UNCHANGED <<mainVars, closed, children, clientVars, bridge, sock, relay,
                   fdVars, pumpVars>>

-----------------------------------------------------------------------------
(* The bridges.                                                             *)

\* What every Popen does first, _cleanup(): it drops the dead among the Popen
\* objects that were never waited for, and so closes their pipes.
Cleaned ==
    [f \in Fd |-> IF \E d \in Conn :
                        /\ bridge[d] = "ended" /\ relay[d] = "dead"
                        /\ owner[f] \in {<<d, "in">>, <<d, "out">>}
                  THEN None ELSE owner[f]]

\* Popen: a relay with both its pipes on free descriptors.
Spawn(c) ==
    /\ bridge[c] = "spawn"
    /\ \E i, o \in {f \in Fd : Cleaned[f] = None} :
          /\ i # o
          /\ owner' = [Cleaned EXCEPT ![i] = <<c, "in">>, ![o] = <<c, "out">>]
          /\ inFd' = [inFd EXCEPT ![c] = i]
          /\ outFd' = [outFd EXCEPT ![c] = o]
    /\ relay' = [relay EXCEPT ![c] = "running"]
    /\ bridge' = [bridge EXCEPT ![c] = "register"]
    /\ UNCHANGED <<mainVars, acceptor, closed, children, clientVars, sock,
                   pumpVars>>

SpawnFails(c) ==
    /\ bridge[c] = "spawn"
    /\ sock' = [sock EXCEPT ![c] = "closed"]
    /\ owner' = [f \in Fd |-> IF owner[f] = <<c, "sock">> THEN None
                                                         ELSE Cleaned[f]]
    /\ bridge' = [bridge EXCEPT ![c] = "ended"]
    /\ UNCHANGED <<mainVars, acceptor, closed, children, clientVars, relay,
                   inFd, outFd, pumpVars>>

\* Under the lock: tracked and pumped, unless close() has begun.  Then the
\* relay is told to terminate, the socket closed, and nobody waits: the pipes
\* go with the Popen object, which is dropped at once if the relay has died by
\* now (or on Windows) and else kept for a later Popen to clean up.
NotChecked == FALSE
TooLate == closed

Register(c) ==
    /\ bridge[c] = "register"
    /\ IF TooLate
       THEN /\ relay' = Terminated(c)
            /\ sock' = [sock EXCEPT ![c] = "closed"]
            /\ \E gone \in {{"sock"}, {"sock", "in", "out"}} :
                  owner' = [f \in Fd |-> IF \E end \in gone : owner[f] = <<c, end>>
                                         THEN None ELSE owner[f]]
            /\ bridge' = [bridge EXCEPT ![c] = "ended"]
            /\ inFd' = [inFd EXCEPT ![c] = NoFd]
            /\ outFd' = [outFd EXCEPT ![c] = NoFd]
            /\ UNCHANGED <<children, up, down>>
       ELSE /\ children' = children \cup {c}
            /\ up' = [up EXCEPT ![c] = "recv"]
            /\ down' = [down EXCEPT ![c] = "copy"]
            /\ bridge' = [bridge EXCEPT ![c] = "join"]
            /\ UNCHANGED <<relay, sock, fdVars>>
    /\ UNCHANGED <<mainVars, acceptor, closed, clientVars, heardVars>>

\* t2.join(); terminate and wait, kill if need be: the relay is no more; and
\* proc.stdout is closed, which no other thread uses by now.
UpJoined(c) == up[c] = "ended"
BothJoined(c) == up[c] = "ended" /\ down[c] = "ended"
DownJoined(c) == down[c] = "ended"

Join(c) ==
    /\ bridge[c] = "join" /\ DownJoined(c)
    /\ relay' = [relay EXCEPT ![c] = "dead"]
    /\ owner' = CloseEnd(c, "out")
    /\ bridge' = [bridge EXCEPT ![c] = "closeIn"]
    /\ UNCHANGED <<mainVars, acceptor, closed, children, clientVars, sock,
                   inFd, outFd, pumpVars>>

CloseIn(c) ==
    /\ bridge[c] = "closeIn"
    /\ owner' = CloseEnd(c, "in")
    /\ bridge' = [bridge EXCEPT ![c] = "closeConn"]
    /\ UNCHANGED <<mainVars, acceptor, closed, children, clientVars, sock,
                   relay, inFd, outFd, pumpVars>>

CloseConn(c) ==
    /\ bridge[c] = "closeConn"
    /\ sock' = [sock EXCEPT ![c] = "closed"]
    /\ owner' = CloseEnd(c, "sock")
    /\ bridge' = [bridge EXCEPT ![c] = "forget"]
    /\ UNCHANGED <<mainVars, acceptor, closed, children, clientVars, relay,
                   inFd, outFd, pumpVars>>

\* Under the lock.
Forget(c) ==
    /\ bridge[c] = "forget"
    /\ children' = children \ {c}
    /\ bridge' = [bridge EXCEPT ![c] = "ended"]
    /\ UNCHANGED <<mainVars, acceptor, closed, clientVars, sock, relay,
                   fdVars, pumpVars>>

BridgeStep(c) ==
    \/ Spawn(c) \/ SpawnFails(c) \/ Register(c)
    \/ Join(c) \/ CloseIn(c) \/ CloseConn(c) \/ Forget(c)

-----------------------------------------------------------------------------
(* The pumps.                                                               *)

UpGoes(c, place) == up' = [up EXCEPT ![c] = place]

\* conn.recv() is called: an error if the socket object is closed.
UpRecv(c) ==
    /\ up[c] = "recv"
    /\ UpGoes(c, IF sock[c] = "open" THEN "blocked" ELSE "close")
    /\ UNCHANGED <<mainVars, acceptor, closed, children, clientVars, bridge,
                   sock, relay, fdVars, down, heardVars>>

\* It returns a chunk, or nothing once the client has hung up.
UpReceived(c) ==
    /\ up[c] = "blocked"
    /\ \/ /\ inbox[c] > 0
          /\ inbox' = [inbox EXCEPT ![c] = @ - 1]
          /\ UpGoes(c, "write")
       \/ /\ inbox[c] = 0 /\ client[c] = "gone"
          /\ UpGoes(c, "close")
          /\ UNCHANGED inbox
    /\ UNCHANGED <<mainVars, acceptor, closed, children, client, via, sent,
                   bridge, sock, relay, fdVars, down, heardVars>>

\* os.write(in_fd): to whatever the number names now.  A relay that lives
\* reads; what is no pipe to write to, or one nobody reads, is an error.
Strays(c) == \E d \in Conn : owner[inFd[c]] = <<d, "sock">>

UpWrite(c) ==
    /\ up[c] = "write" /\ ~Strays(c)
    /\ LET to == {d \in Conn : owner[inFd[c]] = <<d, "in">>
                                /\ relay[d] \in {"running", "told"}}
       IN  /\ toRelay' = [d \in Conn |-> IF d \in to THEN toRelay[d] \cup {c}
                                                   ELSE toRelay[d]]
           /\ UpGoes(c, IF to # {} THEN "recv" ELSE "close")
    /\ UNCHANGED <<mainVars, acceptor, closed, children, clientVars, bridge,
                   sock, relay, fdVars, down, answers, toClient, overheard>>

\* It names an accepted socket: that client hears the chunk, unless its down
\* pump has shut the socket for writing or the client is gone.
UpStrays(c) ==
    /\ up[c] = "write"
    /\ \E d \in Conn :
          /\ owner[inFd[c]] = <<d, "sock">>
          /\ \/ /\ down[d] # "ended"
                /\ overheard' = [overheard EXCEPT ![d] = @ \cup {c}]
                /\ UpGoes(c, "recv")
             \/ /\ down[d] = "ended" \/ client[d] = "gone"
                /\ UpGoes(c, "close")
                /\ UNCHANGED overheard
    /\ UNCHANGED <<mainVars, acceptor, closed, children, clientVars, bridge,
                   sock, relay, fdVars, down, answers, toRelay, toClient>>

\* finally: proc_stdin.close(), through the file object.
UpClose(c) ==
    /\ up[c] = "close"
    /\ owner' = CloseEnd(c, "in")
    /\ UpGoes(c, "ended")
    /\ inFd' = [inFd EXCEPT ![c] = NoFd] \* nothing refers to it any more
    /\ UNCHANGED <<mainVars, acceptor, closed, children, clientVars, bridge,
                   sock, relay, outFd, down, heardVars>>

DownGoes(c, place) ==
    /\ down' = [down EXCEPT ![c] = place]
    /\ outFd' = [outFd EXCEPT ![c] = IF place = "ended" THEN NoFd ELSE @]

\* os.read(out_fd) returns a chunk that relay produced, and conn.sendall() is
\* called: an error if the socket object is closed.
DownRead(c) ==
    /\ down[c] = "copy"
    /\ \E d \in Conn :
          /\ owner[outFd[c]] = <<d, "out">>
          /\ d \in Answering /\ answers[d] < MaxAnswers
          /\ answers' = [answers EXCEPT ![d] = @ + 1]
          /\ IF sock[c] = "open"
             THEN /\ toClient' = [toClient EXCEPT ![c] = @ \cup {d}]
                  /\ DownGoes(c, "send")
             ELSE /\ DownGoes(c, "ended")
                  /\ UNCHANGED toClient
    /\ UNCHANGED <<mainVars, acceptor, closed, children, clientVars, bridge,
                   sock, relay, owner, inFd, up, toRelay, overheard>>

\* sendall() has sent it all.  It blocks for as long as the client does not
\* read: neither close() nor the end of the relay wakes it.
Sent(c) ==
    /\ down[c] = "send"
    /\ DownGoes(c, "copy")
    /\ UNCHANGED <<mainVars, acceptor, closed, children, clientVars, bridge,
                   sock, relay, owner, inFd, up, heardVars>>

\* It raises: the client is gone, or the socket object was closed before it
\* came to send the rest.
SendFails(c) ==
    /\ down[c] = "send"
    /\ client[c] = "gone" \/ sock[c] = "closed"
    /\ DownGoes(c, "ended")
    /\ UNCHANGED <<mainVars, acceptor, closed, children, clientVars, bridge,
                   sock, relay, owner, inFd, up, heardVars>>

\* os.read(out_fd) returns nothing: the relay's output has ended.
DownEnds(c) ==
    /\ down[c] = "copy"
    /\ \A d \in Conn : owner[outFd[c]] = <<d, "out">> => relay[d] = "dead"
    /\ DownGoes(c, "ended")
    /\ UNCHANGED <<mainVars, acceptor, closed, children, clientVars, bridge,
                   sock, relay, owner, inFd, up, heardVars>>

UpStep(c) == UpRecv(c) \/ UpReceived(c) \/ UpWrite(c) \/ UpClose(c)
SendReturns(c) == Sent(c) \/ SendFails(c)
DownStep(c) == DownRead(c) \/ SendReturns(c) \/ DownEnds(c)

-----------------------------------------------------------------------------
(* The environment: clients and relays.                                     *)

Connect(c) ==
    /\ client[c] = "away"
    /\ \E l \in Listener : Listening(l) /\ via' = [via EXCEPT ![c] = l]
    /\ client' = [client EXCEPT ![c] = "queued"]
    /\ UNCHANGED <<mainVars, acceptor, closed, children, inbox, sent, bridge,
                   sock, relay, fdVars, pumpVars>>

\* Only while some thread may yet notice: the socket is not yet accepted, or
\* it is open, or a pump blocks on it.
Heeded(c) ==
    /\ client[c] = "queued"
    /\ sock[c] # "closed" \/ up[c] = "blocked" \/ down[c] = "send"

Send(c) ==
    /\ Heeded(c) /\ sock[c] # "none" /\ up[c] \notin {"close", "ended"}
    /\ c \in Senders /\ sent[c] < MaxSent
    /\ sent' = [sent EXCEPT ![c] = @ + 1]
    /\ inbox' = [inbox EXCEPT ![c] = @ + 1]
    /\ UNCHANGED <<mainVars, acceptor, closed, children, client, via, bridge,
                   sock, relay, fdVars, pumpVars>>

HangUp(c) ==
    /\ Heeded(c)
    /\ client' = [client EXCEPT ![c] = "gone"]
    /\ UNCHANGED <<mainVars, acceptor, closed, children, via, inbox, sent,
                   bridge, sock, relay, fdVars, pumpVars>>

\* The service in the container closes, the relay fails or does as it was told.
RelayEnds(c) ==
    /\ relay[c] \in {"running", "told"}
    /\ relay' = [relay EXCEPT ![c] = "dead"]
    /\ UNCHANGED <<mainVars, acceptor, closed, children, clientVars, bridge,
                   sock, fdVars, pumpVars>>

\* Once its input has ended the service closes in the end, and a relay that was
\* told to terminate does.
RelayMustEnd(c) ==
    /\ relay[c] = "told" \/ \A f \in Fd : owner[f] # <<c, "in">>
    /\ RelayEnds(c)

Next ==
    \/ Bind \/ BindFails \/ ListenFails \/ Interrupt \/ MainStep
    \/ \E l \in Listener : CheckClosed(l) \/ Accept(l) \/ AcceptFails(l)
    \/ \E c \in Conn : BridgeStep(c) \/ UpStep(c) \/ UpStrays(c) \/ DownStep(c)
    \/ \E c \in Conn : Connect(c) \/ Send(c) \/ HangUp(c) \/ RelayEnds(c)

\* Every thread runs on when the call it is in returns.  Relays read, end after
\* their input and when told to.  Users owe nothing: a client need not read,
\* so a write to its socket need not return before it is gone.
Fairness ==
    /\ WF_vars(MainStep)
    /\ \A l \in Listener : WF_vars(CheckClosed(l) \/ Accept(l))
    /\ \A c \in Conn : /\ WF_vars(BridgeStep(c))
                       /\ WF_vars(UpStep(c))
                       /\ WF_vars(DownEnds(c))
                       /\ WF_vars(client[c] = "gone" /\ SendReturns(c))
                       /\ WF_vars(RelayMustEnd(c))

Spec == Init /\ [][Next]_vars /\ Fairness

-----------------------------------------------------------------------------
\* The values the variables take.
TypeOK ==
    /\ main \in {"build", "serve", "close", "listeners", "children", "conns",
                 "closed", "raised"}
    /\ built \in 0 .. Specs
    /\ listeners \subseteq 1 .. built
    /\ acceptor \in [Listener -> {"off", "check", "accept", "ended"}]
    /\ closed \in BOOLEAN
    /\ children \subseteq Conn /\ todo \subseteq Conn
    /\ client \in [Conn -> {"away", "queued", "gone"}]
    /\ via \in [Conn -> 0 .. Specs]
    /\ inbox \in [Conn -> 0 .. MaxSent] /\ sent \in [Conn -> 0 .. MaxSent]
    /\ bridge \in [Conn -> {"off", "spawn", "register", "join", "closeIn",
                            "closeConn", "forget", "ended"}]
    /\ sock \in [Conn -> {"none", "open", "closed"}]
    /\ relay \in [Conn -> {"none", "running", "told", "dead"}]
    /\ owner \in [Fd -> (Conn \X {"in", "out", "sock"}) \cup {None}]
    /\ inFd \in [Conn -> Fd \cup {NoFd}] /\ outFd \in [Conn -> Fd \cup {NoFd}]
    /\ up \in [Conn -> {"off", "recv", "blocked", "write", "close", "ended"}]
    /\ down \in [Conn -> {"off", "copy", "send", "ended"}]
    /\ answers \in [Conn -> 0 .. MaxAnswers]
    /\ toRelay \in [Conn -> SUBSET Conn] /\ toClient \in [Conn -> SUBSET Conn]
    /\ overheard \in [Conn -> SUBSET Conn]

\* What close() leaves when it has returned, however its steps fell between
\* those of acceptors and bridges: no socket object of a listener is open, a
\* tracked connection is closed, and a relay that still runs belongs to a
\* bridge that has yet to take the lock and will end it.
CloseReachesAll ==
    closed /\ main \in {"closed", "raised"} =>
        /\ listeners = {}
        /\ \A c \in children : sock[c] = "closed"
        /\ \A c \in Conn : relay[c] = "running" => bridge[c] = "register"

\* What a relay answers goes to its own connection's client alone, whatever
\* the up pumps write where: out_fd keeps naming this connection's pipe for as
\* long as the down pump reads it.
AnswersStayHome == \A c \in Conn : toClient[c] \subseteq {c}

\* When a bridge has ended no relay of its connection is left to run, no socket
\* and no entry in the tracking lists.  No number names its pipes either, but
\* for a bridge that came too late: it starts no pump, tells its relay to
\* terminate and waits for nothing.
BridgesLeaveNothing ==
    \A c \in Conn : bridge[c] = "ended" =>
        /\ relay[c] # "running"
        /\ sock[c] = "closed"
        /\ c \notin children
        /\ \A f \in Fd : /\ owner[f] # <<c, "sock">>
                         /\ owner[f] \in {<<c, "in">>, <<c, "out">>}
                               => closed /\ up[c] = "off"

\* After close(), and for a client that hung up, the bridge ends even if the
\* up pump never wakes up - unless its down pump is left for ever in sendall(),
\* with a client that neither reads nor leaves.
BridgesEnd ==
    \A c \in Conn :
        (bridge[c] # "off" /\ (closed \/ client[c] = "gone"))
            ~> \/ bridge[c] = "ended"
               \/ [](down[c] = "send" /\ client[c] = "queued")

-----------------------------------------------------------------------------
(* What the documentation says and the code does not do.                    *)

\* "for every accepted connection a byte-relay" (the module docstring): what a
\* client sends reaches its own relay or none, and no other client.  The bridge
\* closes in_fd without joining the up pump, which may then write to a number
\* given out again, to another relay's pipe or to another client's socket.
BytesStayHome ==
    \A c \in Conn : toRelay[c] \subseteq {c} /\ overheard[c] = {}
=============================================================================

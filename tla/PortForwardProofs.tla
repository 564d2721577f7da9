--------------------------- MODULE PortForwardProofs ---------------------------
(***************************************************************************)
(* PortForward's safety, for every number of listeners, connections and    *)
(* descriptors: its type invariant, what close() leaves, what an ended     *)
(* bridge leaves, and whose answers a client hears.                        *)
(*                                                                         *)
(* The argument follows a connection through its bridge.  The bridge's     *)
(* place says whether the socket, the relay, the descriptors and the entry *)
(* in the tracking lists exist, with the one exception of a bridge that    *)
(* came too late (LifeInv, PipesInv); a descriptor the down pump reads     *)
(* keeps naming its own relay's output because only the bridge closes it,  *)
(* and only after the join (OutInv); and close() takes its copies of the   *)
(* lists when, by the lock, nothing joins them any more (CloseInv).        *)
(***************************************************************************)
EXTENDS PortForward, TLAPS

\* Places of a bridge whose connection is in the tracking lists.
Tracked == {"join", "closeIn", "closeConn", "forget"}

Life(c) ==
    /\ inbox[c] <= sent[c]
    /\ bridge[c] = "off" <=> sock[c] = "none"
    /\ bridge[c] \in Tracked <=> c \in children
    /\ relay[c] = "running" => bridge[c] \in {"register", "join"}
    /\ bridge[c] \in {"forget", "ended"} => sock[c] = "closed"
    /\ down[c] \in {"copy", "send"} => bridge[c] = "join"
    /\ bridge[c] \in {"off", "spawn", "register"} => up[c] = "off"
    /\ c \in todo => bridge[c] # "off"

LifeInv == \A c \in Conn : Life(c)

\* Which descriptors name a connection's pipes and socket, by its bridge's place.
Late(c) == bridge[c] = "ended" /\ closed /\ up[c] = "off"

Pipes(c) ==
    \A f \in Fd :
        /\ owner[f] = <<c, "in">> =>
              bridge[c] \in {"register", "join", "closeIn"} \/ Late(c)
        /\ owner[f] = <<c, "out">> => bridge[c] \in {"register", "join"} \/ Late(c)
        /\ owner[f] = <<c, "sock">> => sock[c] = "open"

PipesInv == \A c \in Conn : Pipes(c)

\* As long as the down pump may read a number it names the relay's output.
Reads(c) ==
    bridge[c] = "register" \/ down[c] \in {"copy", "send"} =>
        outFd[c] \in Fd /\ owner[outFd[c]] = <<c, "out">>

OutInv == \A c \in Conn : Reads(c)

\* The stages of close().
Closing == {"listeners", "children", "conns", "closed"}
PastListeners == main \in {"children", "conns", "closed"} \/ (closed /\ main = "raised")
PastChildren == main \in {"conns", "closed"} \/ (closed /\ main = "raised")
PastConns == main = "closed" \/ (closed /\ main = "raised")

CloseInv ==
    /\ main \in Closing => closed
    /\ closed => main \in Closing \cup {"raised"}
    /\ PastListeners => listeners = {}
    /\ \A c \in Conn : relay[c] = "running" =>
          /\ main = "children" => bridge[c] = "register" \/ c \in todo
          /\ PastChildren => bridge[c] = "register"
    /\ \A c \in children :
          /\ main = "conns" => sock[c] = "closed" \/ c \in todo
          /\ PastConns => sock[c] = "closed"

Inv == TypeOK /\ LifeInv /\ PipesInv /\ OutInv /\ CloseInv /\ AnswersStayHome

-----------------------------------------------------------------------------
LEMMA InitInv == Init => Inv
<1>. SUFFICES ASSUME Init PROVE Inv
  OBVIOUS
<1>1. TypeOK
  <2>1. /\ built \in 0 .. Specs /\ via \in [Conn -> 0 .. Specs]
        /\ inbox \in [Conn -> 0 .. MaxSent] /\ sent \in [Conn -> 0 .. MaxSent]
        /\ answers \in [Conn -> 0 .. MaxAnswers]
    BY SpecsAssumption, ChunkAssumption DEF Init
  <2>2. /\ acceptor \in [Listener -> {"off", "check", "accept", "ended"}]
        /\ client \in [Conn -> {"away", "queued", "gone"}]
        /\ bridge \in [Conn -> {"off", "spawn", "register", "join", "closeIn",
                                "closeConn", "forget", "ended"}]
        /\ sock \in [Conn -> {"none", "open", "closed"}]
        /\ relay \in [Conn -> {"none", "running", "told", "dead"}]
        /\ owner \in [Fd -> (Conn \X {"in", "out", "sock"}) \cup {None}]
        /\ inFd \in [Conn -> Fd \cup {NoFd}] /\ outFd \in [Conn -> Fd \cup {NoFd}]
        /\ up \in [Conn -> {"off", "recv", "blocked", "write", "close", "ended"}]
        /\ down \in [Conn -> {"off", "copy", "send", "ended"}]
        /\ toRelay \in [Conn -> SUBSET Conn] /\ toClient \in [Conn -> SUBSET Conn]
        /\ overheard \in [Conn -> SUBSET Conn]
    BY DEF Init
  <2>. QED
    BY <2>1, <2>2 DEF Init, TypeOK
<1>2. LifeInv
  BY DEF Init, LifeInv, Life, Tracked
<1>3. PipesInv
  BY AbsentAssumption DEF Init, PipesInv, Pipes
<1>4. OutInv
  BY DEF Init, OutInv, Reads
<1>5. CloseInv
  BY DEF Init, CloseInv, Closing, PastListeners, PastChildren, PastConns
<1>6. AnswersStayHome
  BY DEF Init, AnswersStayHome
<1>. QED
  BY <1>1, <1>2, <1>3, <1>4, <1>5, <1>6 DEF Inv

-----------------------------------------------------------------------------
\* The types.
LEMMA UpdateInRange ==
    ASSUME NEW S, NEW T, NEW f \in [S -> T], NEW s \in S, NEW v \in T
    PROVE  [f EXCEPT ![s] = v] \in [S -> T]
  OBVIOUS

LEMMA TerminatedType ==
    ASSUME relay \in [Conn -> {"none", "running", "told", "dead"}], NEW c \in Conn
    PROVE  Terminated(c) \in [Conn -> {"none", "running", "told", "dead"}]
<1>. DEFINE new == IF relay[c] = "running" THEN "told" ELSE relay[c]
<1>1. new \in {"none", "running", "told", "dead"}
  OBVIOUS
<1>2. Terminated(c) = [relay EXCEPT ![c] = new]
  BY DEF Terminated
<1>. QED
  BY <1>1, <1>2, UpdateInRange, Zenon

LEMMA HeardMore ==
    ASSUME NEW h \in [Conn -> SUBSET Conn], NEW s \in Conn, NEW d \in Conn
    PROVE  [h EXCEPT ![s] = @ \cup {d}] \in [Conn -> SUBSET Conn]
<1>1. h[s] \cup {d} \in SUBSET Conn
  OBVIOUS
<1>. QED
  BY <1>1, UpdateInRange, Zenon

LEMMA TypeStep == Inv /\ [Next]_vars => TypeOK'
<1>. SUFFICES ASSUME Inv, [Next]_vars PROVE TypeOK'
  OBVIOUS
<1>. USE SpecsAssumption, ChunkAssumption, AbsentAssumption
<1>1. CASE UNCHANGED vars
  BY <1>1 DEF Inv, TypeOK, vars, mainVars, clientVars, fdVars, pumpVars, heardVars
<1>. USE DEF Inv, TypeOK, mainVars, clientVars, fdVars, pumpVars, heardVars, Listener
<1>2. CASE Bind
  BY <1>2 DEF Bind, AllBuilt
<1>3. CASE BindFails \/ ListenFails \/ Interrupt
  <2>1. /\ main' \in {"close", "raised"}
        /\ UNCHANGED <<built, listeners, todo, acceptor, closed, children, clientVars,
                       bridge, sock, relay, fdVars, pumpVars>>
    BY <1>3 DEF BindFails, ListenFails, Interrupt
  <2>. QED
    BY <2>1
<1>4. CASE SetClosed
  BY <1>4 DEF SetClosed
<1>5. CASE CloseListeners
  BY <1>5 DEF CloseListeners
<1>6. CASE TerminateChildren
  <2>1. CASE todo # {}
    <3>1. PICK c \in todo : relay' = Terminated(c) /\ todo' = todo \ {c} /\ main' = main
      BY <1>6, <2>1 DEF TerminateChildren
    <3>2. relay' \in [Conn -> {"none", "running", "told", "dead"}]
      BY <3>1, TerminatedType
    <3>. QED
      BY <1>6, <3>1, <3>2 DEF TerminateChildren
  <2>2. CASE todo = {}
    BY <1>6, <2>2 DEF TerminateChildren
  <2>. QED
    BY <2>1, <2>2
<1>7. CASE CloseConns
  <2>1. CASE todo # {}
    <3>1. PICK c \in todo : /\ sock' = [sock EXCEPT ![c] = "closed"]
                            /\ owner' = CloseEnd(c, "sock")
                            /\ todo' = todo \ {c} /\ main' = main
      BY <1>7, <2>1 DEF CloseConns
    <3>2. owner' \in [Fd -> (Conn \X {"in", "out", "sock"}) \cup {None}]
      BY <3>1 DEF CloseEnd
    <3>3. sock' \in [Conn -> {"none", "open", "closed"}]
      BY <3>1
    <3>. QED
      BY <1>7, <3>1, <3>2, <3>3 DEF CloseConns
  <2>2. CASE todo = {}
    <3>1. main' \in {"closed", "raised"} /\ UNCHANGED <<sock, owner, todo>>
      BY <1>7, <2>2 DEF CloseConns
    <3>. QED
      BY <1>7, <3>1 DEF CloseConns
  <2>. QED
    BY <2>1, <2>2
<1>8. ASSUME NEW l \in Listener, CheckClosed(l) PROVE TypeOK'
  BY <1>8 DEF CheckClosed
<1>9. ASSUME NEW l \in Listener, Accept(l) PROVE TypeOK'
  <2>1. PICK c \in Conn, f \in Fd :
              /\ sock' = [sock EXCEPT ![c] = "open"]
              /\ bridge' = [bridge EXCEPT ![c] = "spawn"]
              /\ owner' = [owner EXCEPT ![f] = <<c, "sock">>]
    BY <1>9 DEF Accept
  <2>2. owner' \in [Fd -> (Conn \X {"in", "out", "sock"}) \cup {None}]
    BY <2>1
  <2>. QED
    BY <1>9, <2>1, <2>2 DEF Accept
<1>27. ASSUME NEW l \in Listener, AcceptFails(l) PROVE TypeOK'
  BY <1>27 DEF AcceptFails
<1>10. ASSUME NEW c \in Conn, Spawn(c) PROVE TypeOK'
  <2>1. PICK i, o \in Fd :
              /\ owner' = [Cleaned EXCEPT ![i] = <<c, "in">>, ![o] = <<c, "out">>]
              /\ inFd' = [inFd EXCEPT ![c] = i] /\ outFd' = [outFd EXCEPT ![c] = o]
    BY <1>10 DEF Spawn
  <2>3. Cleaned \in [Fd -> (Conn \X {"in", "out", "sock"}) \cup {None}]
    BY DEF Cleaned
  <2>4. owner' \in [Fd -> (Conn \X {"in", "out", "sock"}) \cup {None}]
    BY <2>1, <2>3
  <2>2. inFd' \in [Conn -> Fd \cup {NoFd}] /\ outFd' \in [Conn -> Fd \cup {NoFd}]
    BY <2>1
  <2>. QED
    BY <1>10, <2>4, <2>2 DEF Spawn
<1>11. ASSUME NEW c \in Conn, SpawnFails(c) PROVE TypeOK'
  <2>1. owner' \in [Fd -> (Conn \X {"in", "out", "sock"}) \cup {None}]
    BY <1>11 DEF SpawnFails, Cleaned
  <2>. QED
    BY <1>11, <2>1 DEF SpawnFails
<1>12. ASSUME NEW c \in Conn, Register(c) PROVE TypeOK'
  <2>1. owner' \in [Fd -> (Conn \X {"in", "out", "sock"}) \cup {None}]
    <3>1. CASE TooLate
      <4>1. PICK gone \in {{"sock"}, {"sock", "in", "out"}} :
                owner' = [f \in Fd |-> IF \E end \in gone : owner[f] = <<c, end>>
                                       THEN None ELSE owner[f]]
        BY <1>12, <3>1 DEF Register
      <4>. QED
        BY <4>1
    <3>2. CASE ~TooLate
      BY <1>12, <3>2 DEF Register
    <3>. QED
      BY <3>1, <3>2
  <2>12. inFd' = inFd \/ inFd' = [inFd EXCEPT ![c] = NoFd]
    BY <1>12 DEF Register
  <2>13. outFd' = outFd \/ outFd' = [outFd EXCEPT ![c] = NoFd]
    BY <1>12 DEF Register
  <2>14. inFd' \in [Conn -> Fd \cup {NoFd}]
    BY <2>12
  <2>15. outFd' \in [Conn -> Fd \cup {NoFd}]
    BY <2>13
  <2>2. children' \subseteq Conn
    BY <1>12 DEF Register
  <2>9. sock' = sock \/ sock' = [sock EXCEPT ![c] = "closed"]
    BY <1>12 DEF Register
  <2>10. sock' \in [Conn -> {"none", "open", "closed"}]
    BY <2>9
  <2>3. relay' \in [Conn -> {"none", "running", "told", "dead"}]
    <3>1. relay' = relay \/ relay' = Terminated(c)
      BY <1>12 DEF Register
    <3>. QED
      BY <3>1, TerminatedType
  <2>5. up' = up \/ up' = [up EXCEPT ![c] = "recv"]
    BY <1>12 DEF Register
  <2>6. up' \in [Conn -> {"off", "recv", "blocked", "write", "close", "ended"}]
    BY <2>5
  <2>7. bridge' = [bridge EXCEPT ![c] = "ended"] \/ bridge' = [bridge EXCEPT ![c] = "join"]
    BY <1>12 DEF Register
  <2>8. down' = down \/ down' = [down EXCEPT ![c] = "copy"]
    BY <1>12 DEF Register
  <2>4. bridge' \in [Conn -> {"off", "spawn", "register", "join", "closeIn",
                             "closeConn", "forget", "ended"}]
    BY <2>7
  <2>11. down' \in [Conn -> {"off", "copy", "send", "ended"}]
    BY <2>8
  <2>. QED
    BY <1>12, <2>1, <2>2, <2>3, <2>4, <2>6, <2>10, <2>11, <2>14, <2>15 DEF Register
<1>13. ASSUME NEW c \in Conn, Join(c) PROVE TypeOK'
  BY <1>13 DEF Join, CloseEnd
<1>14. ASSUME NEW c \in Conn, CloseIn(c) PROVE TypeOK'
  BY <1>14 DEF CloseIn, CloseEnd
<1>15. ASSUME NEW c \in Conn, CloseConn(c) PROVE TypeOK'
  BY <1>15 DEF CloseConn, CloseEnd
<1>16. ASSUME NEW c \in Conn, Forget(c) PROVE TypeOK'
  BY <1>16 DEF Forget
<1>17. ASSUME NEW c \in Conn, UpRecv(c) PROVE TypeOK'
  BY <1>17 DEF UpRecv, UpGoes
<1>18. ASSUME NEW c \in Conn, UpReceived(c) PROVE TypeOK'
  <2>4. inbox[c] \in 0 .. MaxSent
    OBVIOUS
  <2>1. inbox' \in [Conn -> 0 .. MaxSent]
    <3>1. CASE inbox[c] = 0
      BY <1>18, <3>1 DEF UpReceived
    <3>2. CASE inbox[c] # 0
      <4>1. inbox' = [inbox EXCEPT ![c] = @ - 1]
        BY <1>18, <3>2 DEF UpReceived
      <4>. QED
        BY <2>4, <3>2, <4>1
    <3>. QED
      BY <3>1, <3>2
  <2>3. up' = [up EXCEPT ![c] = "write"] \/ up' = [up EXCEPT ![c] = "close"]
    BY <1>18 DEF UpReceived, UpGoes
  <2>2. up' \in [Conn -> {"off", "recv", "blocked", "write", "close", "ended"}]
    BY <2>3
  <2>. QED
    BY <1>18, <2>1, <2>2 DEF UpReceived
<1>19. ASSUME NEW c \in Conn, UpWrite(c) PROVE TypeOK'
  BY <1>19 DEF UpWrite, UpGoes
<1>20. ASSUME NEW c \in Conn, UpClose(c) PROVE TypeOK'
  BY <1>20 DEF UpClose, UpGoes, CloseEnd
<1>28. ASSUME NEW c \in Conn, UpStrays(c) PROVE TypeOK'
  <2>1. overheard' = overheard \/ \E d \in Conn :
            overheard' = [overheard EXCEPT ![d] = @ \cup {c}]
    BY <1>28 DEF UpStrays
  <2>2. overheard' \in [Conn -> SUBSET Conn]
    <3>1. overheard \in [Conn -> SUBSET Conn]
      OBVIOUS
    <3>2. ASSUME NEW d \in Conn
          PROVE  [overheard EXCEPT ![d] = @ \cup {c}] \in [Conn -> SUBSET Conn]
      BY <3>1, HeardMore, Zenon
    <3>3. CASE overheard' = overheard
      BY <3>1, <3>3
    <3>4. ASSUME NEW d \in Conn, overheard' = [overheard EXCEPT ![d] = @ \cup {c}]
          PROVE  overheard' \in [Conn -> SUBSET Conn]
      <4>1. [overheard EXCEPT ![d] = @ \cup {c}] \in [Conn -> SUBSET Conn]
        BY <3>2
      <4>. QED
        BY <3>4, <4>1
    <3>. QED
      BY <2>1, <3>3, <3>4
  <2>3. up' = [up EXCEPT ![c] = "recv"] \/ up' = [up EXCEPT ![c] = "close"]
    BY <1>28 DEF UpStrays, UpGoes
  <2>4. up' \in [Conn -> {"off", "recv", "blocked", "write", "close", "ended"}]
    BY <2>3
  <2>. QED
    BY <1>28, <2>2, <2>4 DEF UpStrays
<1>21. ASSUME NEW c \in Conn, DownRead(c) PROVE TypeOK'
  <2>1. answers' \in [Conn -> 0 .. MaxAnswers]
    BY <1>21 DEF DownRead
  <2>2. toClient' = toClient \/ \E d \in Conn :
            toClient' = [toClient EXCEPT ![c] = @ \cup {d}]
    BY <1>21 DEF DownRead
  <2>3. toClient' \in [Conn -> SUBSET Conn]
    <3>1. toClient \in [Conn -> SUBSET Conn]
      OBVIOUS
    <3>2. ASSUME NEW d \in Conn
          PROVE  [toClient EXCEPT ![c] = @ \cup {d}] \in [Conn -> SUBSET Conn]
      BY <3>1, HeardMore, Zenon
    <3>3. CASE toClient' = toClient
      BY <3>1, <3>3
    <3>4. ASSUME NEW d \in Conn, toClient' = [toClient EXCEPT ![c] = @ \cup {d}]
          PROVE  toClient' \in [Conn -> SUBSET Conn]
      <4>1. [toClient EXCEPT ![c] = @ \cup {d}] \in [Conn -> SUBSET Conn]
        BY <3>2
      <4>. QED
        BY <3>4, <4>1
    <3>. QED
      BY <2>2, <3>3, <3>4
  <2>4. \E place \in {"send", "ended"} : DownGoes(c, place)
    BY <1>21 DEF DownRead
  <2>5. down' \in [Conn -> {"off", "copy", "send", "ended"}]
    BY <2>4 DEF DownGoes
  <2>6. outFd' \in [Conn -> Fd \cup {NoFd}]
    BY <2>4 DEF DownGoes
  <2>. QED
    BY <1>21, <2>1, <2>3, <2>5, <2>6 DEF DownRead
<1>22. ASSUME NEW c \in Conn, DownEnds(c) \/ Sent(c) \/ SendFails(c) PROVE TypeOK'
  <2>1. \E place \in {"copy", "ended"} : DownGoes(c, place)
    BY <1>22 DEF DownEnds, Sent, SendFails
  <2>2. down' \in [Conn -> {"off", "copy", "send", "ended"}]
    BY <2>1 DEF DownGoes
  <2>3. outFd' \in [Conn -> Fd \cup {NoFd}]
    BY <2>1 DEF DownGoes
  <2>4. UNCHANGED <<mainVars, acceptor, closed, children, clientVars, bridge, sock, relay,
                    owner, inFd, up, heardVars>>
    BY <1>22 DEF DownEnds, Sent, SendFails
  <2>. QED
    BY <2>2, <2>3, <2>4
<1>23. ASSUME NEW c \in Conn, Connect(c) PROVE TypeOK'
  <2>1. client' = [client EXCEPT ![c] = "queued"]
        /\ \E l \in 1 .. Specs : via' = [via EXCEPT ![c] = l]
    BY <1>23 DEF Connect
  <2>2. via' \in [Conn -> 0 .. Specs] /\ client' \in [Conn -> {"away", "queued", "gone"}]
    BY <2>1
  <2>. QED
    BY <1>23, <2>2 DEF Connect
<1>24. ASSUME NEW c \in Conn, Send(c) PROVE TypeOK'
  <2>1. sent[c] + 1 \in 0 .. MaxSent /\ inbox[c] + 1 \in 0 .. MaxSent
    BY <1>24 DEF Send, LifeInv, Life
  <2>2. sent' \in [Conn -> 0 .. MaxSent] /\ inbox' \in [Conn -> 0 .. MaxSent]
    BY <1>24, <2>1 DEF Send
  <2>. QED
    BY <1>24, <2>2 DEF Send
<1>25. ASSUME NEW c \in Conn, HangUp(c) PROVE TypeOK'
  BY <1>25 DEF HangUp
<1>26. ASSUME NEW c \in Conn, RelayEnds(c) PROVE TypeOK'
  BY <1>26 DEF RelayEnds
<1>. QED
  BY <1>1, <1>2, <1>3, <1>4, <1>5, <1>6, <1>7, <1>8, <1>9, <1>10, <1>11, <1>12,
     <1>13, <1>14, <1>15, <1>16, <1>17, <1>18, <1>19, <1>20, <1>21, <1>22, <1>23,
     <1>24, <1>25, <1>26, <1>27, <1>28
  DEF Next, MainStep, BridgeStep, UpStep, DownStep, SendReturns

-----------------------------------------------------------------------------
\* A connection through its bridge.
LEMMA LifeStep == Inv /\ [Next]_vars => LifeInv'
<1>. SUFFICES ASSUME Inv, [Next]_vars, NEW d \in Conn PROVE Life(d)'
  BY DEF LifeInv
<1>1. TypeOK /\ Life(d) /\ d \in Conn
  BY DEF Inv, LifeInv
<1>. USE <1>1 DEF Life, mainVars, clientVars, fdVars, pumpVars, heardVars
<1>2. CASE UNCHANGED <<clientVars, bridge, sock, relay, children, up, down, todo>>
  BY <1>2
<1>3. CASE TerminateChildren
  BY <1>3 DEF TerminateChildren, Terminated, TypeOK, Tracked
<1>4. CASE CloseConns
  BY <1>4 DEF CloseConns, TypeOK
<1>5. ASSUME NEW l \in Listener, Accept(l) PROVE Life(d)'
  BY <1>5 DEF Accept, TypeOK, Tracked
<1>6. ASSUME NEW c \in Conn, Spawn(c) PROVE Life(d)'
  BY <1>6 DEF Spawn, TypeOK, Tracked
<1>7. ASSUME NEW c \in Conn, SpawnFails(c) PROVE Life(d)'
  BY <1>7 DEF SpawnFails, TypeOK, Tracked
<1>8. ASSUME NEW c \in Conn, Register(c) PROVE Life(d)'
  <2>1. CASE TooLate
    BY <1>8, <2>1 DEF Register, Terminated, TypeOK, Tracked
  <2>2. CASE ~TooLate
    BY <1>8, <2>2 DEF Register, TypeOK, Tracked
  <2>. QED
    BY <2>1, <2>2
<1>9. ASSUME NEW c \in Conn, Join(c) PROVE Life(d)'
  BY <1>9 DEF Join, DownJoined, TypeOK, Tracked
<1>10. ASSUME NEW c \in Conn, CloseIn(c) PROVE Life(d)'
  BY <1>10 DEF CloseIn, TypeOK, Tracked
<1>11. ASSUME NEW c \in Conn, CloseConn(c) PROVE Life(d)'
  BY <1>11 DEF CloseConn, TypeOK, Tracked
<1>12. ASSUME NEW c \in Conn, Forget(c) PROVE Life(d)'
  BY <1>12 DEF Forget, TypeOK, Tracked
<1>13. ASSUME NEW c \in Conn, UpReceived(c) PROVE Life(d)'
  BY <1>13 DEF UpReceived, UpGoes, TypeOK
<1>14. ASSUME NEW c \in Conn, DownRead(c) PROVE Life(d)'
  BY <1>14 DEF DownRead, DownGoes, TypeOK
<1>15. ASSUME NEW c \in Conn, DownEnds(c) \/ Sent(c) \/ SendFails(c) PROVE Life(d)'
  BY <1>15 DEF DownEnds, Sent, SendFails, DownGoes, TypeOK
<1>16. ASSUME NEW c \in Conn, Send(c) PROVE Life(d)'
  BY <1>16 DEF Send, TypeOK
<1>17. ASSUME NEW c \in Conn, RelayEnds(c) PROVE Life(d)'
  BY <1>17 DEF RelayEnds, TypeOK
<1>18. ASSUME NEW c \in Conn, UpRecv(c) \/ UpWrite(c) \/ UpStrays(c) \/ UpClose(c)
       PROVE Life(d)'
  BY <1>18 DEF UpRecv, UpWrite, UpStrays, UpClose, UpGoes, TypeOK
<1>21. ASSUME NEW c \in Conn, Connect(c) \/ HangUp(c) PROVE Life(d)'
  BY <1>21 DEF Connect, HangUp
<1>19. ASSUME NEW l \in Listener, CheckClosed(l) \/ AcceptFails(l) PROVE Life(d)'
  BY <1>19 DEF CheckClosed, AcceptFails
<1>20. CASE Bind \/ BindFails \/ ListenFails \/ Interrupt \/ SetClosed \/ CloseListeners
  BY <1>20 DEF Bind, BindFails, ListenFails, Interrupt, SetClosed, CloseListeners, Tracked
<1>. QED
  BY <1>2, <1>3, <1>4, <1>5, <1>6, <1>7, <1>8, <1>9, <1>10, <1>11, <1>12,
     <1>13, <1>14, <1>15, <1>16, <1>17, <1>18, <1>19, <1>20, <1>21
  DEF Next, MainStep, BridgeStep, UpStep, DownStep, SendReturns, vars

\* What closing an end leaves: it names nothing any more, and nothing is gained.
LEMMA CloseEndLeaves ==
    ASSUME NEW c \in Conn, NEW end, NEW f \in Fd, NEW d \in Conn,
           NEW e \in {"in", "out", "sock"}, CloseEnd(c, end)[f] = <<d, e>>
    PROVE  owner[f] = <<d, e>> /\ (d = c => e # end)
<1>1. None # <<d, e>>
  BY AbsentAssumption
<1>2. CloseEnd(c, end)[f] = IF owner[f] = <<c, end>> THEN None ELSE owner[f]
  BY DEF CloseEnd
<1>3. owner[f] = <<d, e>> /\ <<d, e>> # <<c, end>>
  BY <1>1, <1>2
<1>. QED
  BY <1>3

\* Nor does a Popen's cleanup give a number anything to name.
LEMMA CleanedLeaves ==
    ASSUME NEW f \in Fd, NEW d \in Conn, NEW e \in {"in", "out", "sock"},
           Cleaned[f] = <<d, e>>
    PROVE  owner[f] = <<d, e>>
<1>1. None # <<d, e>>
  BY AbsentAssumption
<1>2. Cleaned[f] \in {None, owner[f]}
  BY DEF Cleaned
<1>. QED
  BY <1>1, <1>2

\* Its descriptors.
LEMMA PipesStep == Inv /\ [Next]_vars => PipesInv'
<1>. SUFFICES ASSUME Inv, [Next]_vars, NEW d \in Conn PROVE Pipes(d)'
  BY DEF PipesInv
<1>1. TypeOK /\ Life(d) /\ Pipes(d) /\ d \in Conn
  BY DEF Inv, LifeInv, PipesInv
<1>. USE <1>1 DEF Pipes, Late, mainVars, clientVars, fdVars, pumpVars, heardVars
<1>2. CASE UNCHANGED <<bridge, owner, sock, closed, up>>
  BY <1>2
<1>3. ASSUME NEW l \in Listener, Accept(l) PROVE Pipes(d)'
  <2>1. PICK c \in Conn, f \in Fd :
              /\ sock[c] = "none" /\ sock' = [sock EXCEPT ![c] = "open"]
              /\ bridge' = [bridge EXCEPT ![c] = "spawn"]
              /\ owner' = [owner EXCEPT ![f] = <<c, "sock">>]
    BY <1>3 DEF Accept
  <2>2. UNCHANGED <<closed, up>>
    BY <1>3 DEF Accept
  <2>3. ASSUME NEW g \in Fd, NEW e \in {"in", "out", "sock"}, owner'[g] = <<d, e>>
        PROVE  owner[g] = <<d, e>> \/ (d = c /\ e = "sock")
    BY <2>1, <2>3 DEF TypeOK
  <2>4. bridge[c] = "off"
    BY <2>1 DEF Inv, LifeInv, Life
  <2>5. CASE d = c
    BY <2>1, <2>2, <2>3, <2>4, <2>5 DEF TypeOK
  <2>6. CASE d # c
    BY <2>1, <2>2, <2>3, <2>6 DEF TypeOK
  <2>. QED
    BY <2>5, <2>6
<1>4. ASSUME NEW c \in Conn, Spawn(c) PROVE Pipes(d)'
  <2>1. PICK i, o \in Fd :
              owner' = [Cleaned EXCEPT ![i] = <<c, "in">>, ![o] = <<c, "out">>]
    BY <1>4 DEF Spawn
  <2>2. /\ bridge' = [bridge EXCEPT ![c] = "register"] /\ bridge[c] = "spawn"
        /\ UNCHANGED <<sock, closed, up>>
    BY <1>4 DEF Spawn
  <2>3. ASSUME NEW f \in Fd, NEW end \in {"in", "out", "sock"}, owner'[f] = <<d, end>>
        PROVE  (d = c /\ end # "sock") \/ owner[f] = <<d, end>>
    <3>1. Cleaned \in [Fd -> (Conn \X {"in", "out", "sock"}) \cup {None}]
      BY DEF Cleaned, TypeOK
    <3>2. \/ owner'[f] = Cleaned[f]
          \/ owner'[f] = <<c, "in">> \/ owner'[f] = <<c, "out">>
      BY <2>1, <3>1
    <3>. QED
      BY <2>3, <3>2, CleanedLeaves
  <2>. QED
    BY <2>2, <2>3 DEF TypeOK
<1>5. ASSUME NEW c \in Conn, SpawnFails(c) PROVE Pipes(d)'
  <2>1. /\ bridge' = [bridge EXCEPT ![c] = "ended"] /\ bridge[c] = "spawn"
        /\ sock' = [sock EXCEPT ![c] = "closed"] /\ UNCHANGED <<closed, up>>
        /\ owner' = [f \in Fd |-> IF owner[f] = <<c, "sock">> THEN None ELSE Cleaned[f]]
    BY <1>5 DEF SpawnFails
  <2>2. ASSUME NEW f \in Fd, NEW e \in {"in", "out", "sock"}, owner'[f] = <<d, e>>
        PROVE  owner[f] = <<d, e>> /\ (d = c => e # "sock")
    <3>1. None # <<d, e>>
      BY AbsentAssumption
    <3>2. owner[f] # <<c, "sock">> /\ Cleaned[f] = <<d, e>>
      BY <2>1, <2>2, <3>1
    <3>. QED
      BY <3>2, CleanedLeaves
  <2>. QED
    BY <2>1, <2>2 DEF TypeOK
<1>6. ASSUME NEW c \in Conn, Register(c) PROVE Pipes(d)'
  <2>1. CASE TooLate
    <3>1. PICK gone \in {{"sock"}, {"sock", "in", "out"}} :
              owner' = [f \in Fd |-> IF \E end \in gone : owner[f] = <<c, end>>
                                     THEN None ELSE owner[f]]
      BY <1>6, <2>1 DEF Register
    <3>2. /\ bridge' = [bridge EXCEPT ![c] = "ended"] /\ bridge[c] = "register"
          /\ sock' = [sock EXCEPT ![c] = "closed"] /\ UNCHANGED <<closed, up>>
          /\ closed
      BY <1>6, <2>1 DEF Register, TooLate
    <3>3. up[c] = "off"
      BY <3>2 DEF Inv, LifeInv, Life
    <3>4. ASSUME NEW f \in Fd, NEW e \in {"in", "out", "sock"}, owner'[f] = <<d, e>>
          PROVE  owner[f] = <<d, e>> /\ (d = c => e # "sock")
      <4>1. None # <<d, e>>
        BY AbsentAssumption
      <4>2. ~(\E end \in gone : owner[f] = <<c, end>>) /\ owner[f] = <<d, e>>
        BY <3>1, <3>4, <4>1
      <4>. QED
        BY <4>2
    <3>. QED
      BY <3>2, <3>3, <3>4 DEF TypeOK
  <2>2. CASE ~TooLate
    <3>1. /\ bridge' = [bridge EXCEPT ![c] = "join"] /\ bridge[c] = "register"
          /\ up' = [up EXCEPT ![c] = "recv"] /\ UNCHANGED <<owner, sock, closed>>
      BY <1>6, <2>2 DEF Register
    <3>. QED
      BY <3>1 DEF TypeOK
  <2>. QED
    BY <2>1, <2>2
<1>7. ASSUME NEW c \in Conn, Join(c) PROVE Pipes(d)'
  <2>1. /\ bridge' = [bridge EXCEPT ![c] = "closeIn"] /\ bridge[c] = "join"
        /\ owner' = CloseEnd(c, "out") /\ UNCHANGED <<sock, closed, up>>
    BY <1>7 DEF Join
  <2>2. \A f \in Fd, e \in {"in", "out", "sock"} :
            owner'[f] = <<d, e>> => owner[f] = <<d, e>> /\ (d = c => e # "out")
    BY <2>1, CloseEndLeaves
  <2>. QED
    BY <2>1, <2>2 DEF TypeOK
<1>8. ASSUME NEW c \in Conn, CloseIn(c) PROVE Pipes(d)'
  <2>1. /\ bridge' = [bridge EXCEPT ![c] = "closeConn"] /\ bridge[c] = "closeIn"
        /\ owner' = CloseEnd(c, "in") /\ UNCHANGED <<sock, closed, up>>
    BY <1>8 DEF CloseIn
  <2>2. \A f \in Fd, e \in {"in", "out", "sock"} :
            owner'[f] = <<d, e>> => owner[f] = <<d, e>> /\ (d = c => e # "in")
    BY <2>1, CloseEndLeaves
  <2>. QED
    BY <2>1, <2>2 DEF TypeOK
<1>9. ASSUME NEW c \in Conn, UpClose(c) PROVE Pipes(d)'
  <2>1. /\ UNCHANGED <<bridge, sock, closed>> /\ owner' = CloseEnd(c, "in")
        /\ up[c] = "close" /\ up' = [up EXCEPT ![c] = "ended"]
    BY <1>9 DEF UpClose, UpGoes
  <2>2. \A f \in Fd, e \in {"in", "out", "sock"} :
            owner'[f] = <<d, e>> => owner[f] = <<d, e>>
    BY <2>1, CloseEndLeaves
  <2>3. up[d] = "off" => up'[d] = "off"
    BY <2>1 DEF TypeOK
  <2>. QED
    BY <2>1, <2>2, <2>3
<1>10. ASSUME NEW c \in Conn, CloseConn(c) PROVE Pipes(d)'
  <2>1. /\ bridge' = [bridge EXCEPT ![c] = "forget"] /\ bridge[c] = "closeConn"
        /\ sock' = [sock EXCEPT ![c] = "closed"]
        /\ owner' = CloseEnd(c, "sock") /\ UNCHANGED <<closed, up>>
    BY <1>10 DEF CloseConn
  <2>2. \A f \in Fd, e \in {"in", "out", "sock"} :
            owner'[f] = <<d, e>> => owner[f] = <<d, e>> /\ (d = c => e # "sock")
    BY <2>1, CloseEndLeaves
  <2>. QED
    BY <2>1, <2>2 DEF TypeOK
<1>11. ASSUME NEW c \in Conn, Forget(c) PROVE Pipes(d)'
  BY <1>11 DEF Forget, TypeOK
<1>12. CASE CloseConns
  <2>1. CASE todo # {}
    <3>1. PICK c \in todo : /\ sock' = [sock EXCEPT ![c] = "closed"]
                            /\ owner' = CloseEnd(c, "sock")
      BY <1>12, <2>1 DEF CloseConns
    <3>2. UNCHANGED <<bridge, closed, up>> /\ c \in Conn
      BY <1>12 DEF CloseConns, TypeOK
    <3>3. \A f \in Fd, e \in {"in", "out", "sock"} :
              owner'[f] = <<d, e>> => owner[f] = <<d, e>> /\ (d = c => e # "sock")
      BY <3>1, <3>2, CloseEndLeaves
    <3>. QED
      BY <3>1, <3>2, <3>3 DEF TypeOK
  <2>2. CASE todo = {}
    BY <1>2, <1>12, <2>2 DEF CloseConns
  <2>. QED
    BY <2>1, <2>2
<1>13. ASSUME NEW c \in Conn, UpRecv(c) \/ UpReceived(c) \/ UpWrite(c) \/ UpStrays(c)
       PROVE Pipes(d)'
  <2>1. /\ UNCHANGED <<bridge, owner, sock, closed>> /\ up[c] # "off"
        /\ \A b \in Conn : b # c => up'[b] = up[b]
    BY <1>13 DEF UpRecv, UpReceived, UpWrite, UpStrays, UpGoes, TypeOK
  <2>2. up[d] = "off" => up'[d] = "off"
    BY <2>1 DEF TypeOK
  <2>. QED
    BY <2>1, <2>2
<1>14. CASE SetClosed
  BY <1>14 DEF SetClosed
<1>15. CASE \E c \in Conn : DownStep(c) \/ Connect(c) \/ Send(c) \/ HangUp(c) \/ RelayEnds(c)
  BY <1>2, <1>15 DEF DownStep, SendReturns, DownRead, Sent, SendFails, DownEnds, Connect,
                     Send, HangUp, RelayEnds
<1>16. CASE \/ Bind \/ BindFails \/ ListenFails \/ Interrupt
            \/ CloseListeners \/ TerminateChildren
            \/ \E l \in Listener : CheckClosed(l) \/ AcceptFails(l)
  BY <1>2, <1>16 DEF Bind, BindFails, ListenFails, Interrupt, CloseListeners,
                     TerminateChildren, CheckClosed, AcceptFails
<1>. QED
  BY <1>2, <1>3, <1>4, <1>5, <1>6, <1>7, <1>8, <1>9, <1>10, <1>11, <1>12, <1>13,
     <1>14, <1>15, <1>16
  DEF Next, MainStep, BridgeStep, UpStep, vars

\* Closing one end leaves every other pipe's number alone.
LEMMA OthersStayOpen ==
    ASSUME NEW d \in Conn, NEW c \in Conn, NEW end, NEW f \in Fd,
           owner[f] = <<d, "out">>, d # c \/ end # "out"
    PROVE  CloseEnd(c, end)[f] = <<d, "out">>
<1>1. owner[f] # <<c, end>>
  OBVIOUS
<1>. QED
  BY <1>1 DEF CloseEnd

\* The number the down pump reads.
LEMMA OutStep == Inv /\ [Next]_vars => OutInv'
<1>. SUFFICES ASSUME Inv, [Next]_vars, NEW d \in Conn PROVE Reads(d)'
  BY DEF OutInv
<1>1. TypeOK /\ Life(d) /\ Reads(d) /\ d \in Conn
  BY DEF Inv, LifeInv, OutInv
<1>. USE <1>1 DEF Reads, mainVars, clientVars, fdVars, pumpVars, heardVars
<1>2. CASE UNCHANGED <<bridge, owner, outFd, down>>
  BY <1>2
<1>3. ASSUME NEW l \in Listener, Accept(l) PROVE Reads(d)'
  <2>1. PICK c \in Conn, f \in Fd :
              /\ owner[f] = None /\ owner' = [owner EXCEPT ![f] = <<c, "sock">>]
              /\ bridge' = [bridge EXCEPT ![c] = "spawn"]
    BY <1>3 DEF Accept
  <2>2. UNCHANGED <<outFd, down>>
    BY <1>3 DEF Accept
  <2>3. ASSUME NEW g \in Fd, owner[g] = <<d, "out">> PROVE owner'[g] = <<d, "out">>
    <3>1. None # <<d, "out">>
      BY AbsentAssumption
    <3>. QED
      BY <2>1, <2>3, <3>1 DEF TypeOK
  <2>4. bridge'[d] = "register" => bridge[d] = "register"
    BY <2>1 DEF TypeOK
  <2>. QED
    BY <2>2, <2>3, <2>4
<1>4. ASSUME NEW c \in Conn, Spawn(c) PROVE Reads(d)'
  <2>1. PICK i, o \in Fd :
              /\ Cleaned[i] = None /\ Cleaned[o] = None /\ i # o
              /\ owner' = [Cleaned EXCEPT ![i] = <<c, "in">>, ![o] = <<c, "out">>]
              /\ outFd' = [outFd EXCEPT ![c] = o]
    BY <1>4 DEF Spawn
  <2>2. bridge' = [bridge EXCEPT ![c] = "register"] /\ UNCHANGED down
    BY <1>4 DEF Spawn
  <2>5. Cleaned \in [Fd -> (Conn \X {"in", "out", "sock"}) \cup {None}]
    BY DEF Cleaned, TypeOK
  <2>3. CASE d = c
    BY <2>1, <2>3, <2>5 DEF TypeOK
  <2>4. CASE d # c
    <3>1. ASSUME NEW f \in Fd, owner[f] = <<d, "out">>, bridge[d] # "ended"
          PROVE  owner'[f] = <<d, "out">>
      <4>1. None # <<d, "out">>
        BY AbsentAssumption
      <4>2. Cleaned[f] = <<d, "out">>
        BY <3>1 DEF Cleaned
      <4>. QED
        BY <2>1, <2>5, <4>1, <4>2
    <3>2. bridge'[d] = bridge[d] /\ outFd'[d] = outFd[d]
      BY <2>1, <2>2, <2>4 DEF TypeOK
    <3>3. down[d] \in {"copy", "send"} => bridge[d] # "ended"
      BY DEF Life
    <3>. QED
      BY <2>2, <3>1, <3>2, <3>3
  <2>. QED
    BY <2>3, <2>4
<1>5. ASSUME NEW c \in Conn, SpawnFails(c) PROVE Reads(d)'
  <2>1. /\ bridge' = [bridge EXCEPT ![c] = "ended"] /\ UNCHANGED <<outFd, down>>
        /\ owner' = [f \in Fd |-> IF owner[f] = <<c, "sock">> THEN None ELSE Cleaned[f]]
    BY <1>5 DEF SpawnFails
  <2>2. ASSUME NEW f \in Fd, owner[f] = <<d, "out">>, bridge[d] # "ended"
        PROVE  owner'[f] = <<d, "out">>
    <3>1. Cleaned[f] = <<d, "out">>
      BY <2>2 DEF Cleaned
    <3>2. owner[f] # <<c, "sock">>
      BY <2>2
    <3>. QED
      BY <2>1, <3>1, <3>2
  <2>3. bridge'[d] = "register" => bridge[d] = "register"
    BY <2>1 DEF TypeOK
  <2>4. down[d] \in {"copy", "send"} => bridge[d] # "ended"
    BY DEF Life
  <2>. QED
    BY <2>1, <2>2, <2>3, <2>4
<1>6. ASSUME NEW c \in Conn, Register(c) PROVE Reads(d)'
  <2>1. CASE TooLate
    <3>1. PICK gone \in {{"sock"}, {"sock", "in", "out"}} :
              owner' = [f \in Fd |-> IF \E end \in gone : owner[f] = <<c, end>>
                                     THEN None ELSE owner[f]]
      BY <1>6, <2>1 DEF Register
    <3>2. /\ bridge' = [bridge EXCEPT ![c] = "ended"] /\ UNCHANGED down
          /\ bridge[c] = "register" /\ outFd' = [outFd EXCEPT ![c] = NoFd]
      BY <1>6, <2>1 DEF Register
    <3>3. d # c => bridge'[d] = bridge[d] /\ outFd'[d] = outFd[d]
      BY <3>2 DEF TypeOK
    <3>4. bridge'[c] = "ended" /\ down'[c] \notin {"copy", "send"}
      BY <3>2 DEF TypeOK, Inv, LifeInv, Life
    <3>5. d # c => \A f \in Fd : owner[f] = <<d, "out">> => owner'[f] = <<d, "out">>
      BY <3>1
    <3>. QED
      BY <3>2, <3>3, <3>4, <3>5
  <2>2. CASE ~TooLate
    <3>1. /\ bridge' = [bridge EXCEPT ![c] = "join"] /\ UNCHANGED <<owner, outFd>>
          /\ bridge[c] = "register" /\ down' = [down EXCEPT ![c] = "copy"]
      BY <1>6, <2>2 DEF Register
    <3>. QED
      BY <3>1 DEF TypeOK
  <2>. QED
    BY <2>1, <2>2
<1>7. ASSUME NEW c \in Conn, Join(c) PROVE Reads(d)'
  <2>1. /\ bridge' = [bridge EXCEPT ![c] = "closeIn"] /\ down[c] = "ended"
        /\ UNCHANGED <<down, outFd>> /\ owner' = CloseEnd(c, "out")
    BY <1>7 DEF Join, DownJoined
  <2>2. d = c => bridge'[d] # "register" /\ down'[d] \notin {"copy", "send"}
    BY <2>1 DEF TypeOK
  <2>3. d # c => bridge'[d] = bridge[d]
    BY <2>1 DEF TypeOK
  <2>. QED
    BY <2>1, <2>2, <2>3, OthersStayOpen
<1>8. ASSUME NEW c \in Conn, CloseIn(c) \/ CloseConn(c) PROVE Reads(d)'
  <2>1. /\ \E place \in {"closeConn", "forget"} : bridge' = [bridge EXCEPT ![c] = place]
        /\ UNCHANGED <<down, outFd>>
        /\ \E end \in {"in", "sock"} : owner' = CloseEnd(c, end)
    BY <1>8 DEF CloseIn, CloseConn
  <2>2. bridge'[d] = "register" => bridge[d] = "register"
    BY <2>1 DEF TypeOK
  <2>. QED
    BY <2>1, <2>2, OthersStayOpen
<1>9. ASSUME NEW c \in Conn, UpClose(c) PROVE Reads(d)'
  <2>1. UNCHANGED <<bridge, down, outFd>> /\ owner' = CloseEnd(c, "in")
    BY <1>9 DEF UpClose
  <2>. QED
    BY <2>1, OthersStayOpen
<1>10. CASE CloseConns
  <2>1. CASE todo # {}
    <3>1. PICK c \in todo : owner' = CloseEnd(c, "sock")
      BY <1>10, <2>1 DEF CloseConns
    <3>2. UNCHANGED <<bridge, down, outFd>> /\ c \in Conn
      BY <1>10 DEF CloseConns, TypeOK
    <3>. QED
      BY <3>1, <3>2, OthersStayOpen
  <2>2. CASE todo = {}
    BY <1>2, <1>10, <2>2 DEF CloseConns
  <2>. QED
    BY <2>1, <2>2
<1>11. ASSUME NEW c \in Conn, Forget(c) PROVE Reads(d)'
  BY <1>11 DEF Forget, TypeOK
<1>12. ASSUME NEW c \in Conn, DownStep(c) PROVE Reads(d)'
  <2>1. /\ UNCHANGED <<bridge, owner>> /\ down[c] \in {"copy", "send"}
        /\ \E place \in {"copy", "send", "ended"} : DownGoes(c, place)
    BY <1>12 DEF DownStep, SendReturns, DownRead, Sent, SendFails, DownEnds
  <2>2. PICK place \in {"copy", "send", "ended"} : DownGoes(c, place)
    BY <2>1
  <2>3. bridge[c] = "join"
    BY <2>1 DEF Inv, LifeInv, Life
  <2>4. CASE place = "ended"
    BY <2>1, <2>2, <2>3, <2>4 DEF DownGoes, TypeOK
  <2>5. CASE place # "ended"
    <3>1. outFd' = outFd
      BY <2>2, <2>5 DEF DownGoes, TypeOK
    <3>2. down'[d] \in {"copy", "send"} => down[d] \in {"copy", "send"}
      BY <2>1, <2>2 DEF DownGoes, TypeOK
    <3>. QED
      BY <2>1, <3>1, <3>2
  <2>. QED
    BY <2>4, <2>5
<1>14. CASE \E c \in Conn : UpRecv(c) \/ UpReceived(c) \/ UpWrite(c) \/ UpStrays(c)
                           \/ Connect(c) \/ Send(c) \/ HangUp(c) \/ RelayEnds(c)
  BY <1>2, <1>14 DEF UpRecv, UpReceived, UpWrite, UpStrays, Connect, Send, HangUp, RelayEnds
<1>15. CASE \/ Bind \/ BindFails \/ ListenFails \/ Interrupt
            \/ SetClosed \/ CloseListeners \/ TerminateChildren
            \/ \E l \in Listener : CheckClosed(l) \/ AcceptFails(l)
  BY <1>2, <1>15 DEF Bind, BindFails, ListenFails, Interrupt, SetClosed,
                     CloseListeners, TerminateChildren, CheckClosed, AcceptFails
<1>. QED
  BY <1>2, <1>3, <1>4, <1>5, <1>6, <1>7, <1>8, <1>9, <1>10, <1>11, <1>12, <1>14, <1>15
  DEF Next, MainStep, BridgeStep, UpStep, vars

-----------------------------------------------------------------------------
\* A client hears only its own relay.
LEMMA AnswersStep == Inv /\ [Next]_vars => AnswersStayHome'
<1>. SUFFICES ASSUME Inv, [Next]_vars PROVE AnswersStayHome'
  OBVIOUS
<1>1. CASE toClient' = toClient
  BY <1>1 DEF Inv, AnswersStayHome
<1>2. ASSUME NEW c \in Conn, DownRead(c) PROVE AnswersStayHome'
  <2>1. PICK d \in Conn : /\ owner[outFd[c]] = <<d, "out">>
                          /\ \/ toClient' = toClient
                             \/ toClient' = [toClient EXCEPT ![c] = @ \cup {d}]
    BY <1>2 DEF DownRead
  <2>2. owner[outFd[c]] = <<c, "out">>
    BY <1>2 DEF DownRead, Inv, OutInv, Reads
  <2>3. d = c
    BY <2>1, <2>2
  <2>. QED
    BY <2>1, <2>3 DEF Inv, TypeOK, AnswersStayHome
<1>3. CASE \E c \in Conn : BridgeStep(c) \/ UpStep(c) \/ UpStrays(c) \/ DownEnds(c)
                          \/ SendReturns(c)
                          \/ Connect(c) \/ Send(c) \/ HangUp(c) \/ RelayEnds(c)
  BY <1>1, <1>3 DEF BridgeStep, Spawn, SpawnFails, Register, Join, CloseIn, CloseConn, Forget,
                    UpStep, UpRecv, UpReceived, UpWrite, UpStrays, UpClose, DownEnds,
                    SendReturns, Sent, SendFails, Connect, Send, HangUp, RelayEnds, fdVars,
                    pumpVars, heardVars
<1>4. CASE \/ Bind \/ BindFails \/ ListenFails \/ Interrupt \/ MainStep
           \/ \E l \in Listener : CheckClosed(l) \/ Accept(l) \/ AcceptFails(l)
  BY <1>1, <1>4 DEF Bind, BindFails, ListenFails, Interrupt, MainStep, SetClosed,
                    CloseListeners, TerminateChildren, CloseConns, CheckClosed, Accept,
                    AcceptFails,
                    pumpVars, heardVars
<1>. QED
  BY <1>1, <1>2, <1>3, <1>4 DEF Next, DownStep, vars, pumpVars, heardVars

-----------------------------------------------------------------------------
\* close() against the acceptors and bridges that run on.
LEMMA CloseStep == Inv /\ [Next]_vars => CloseInv'
<1>. SUFFICES ASSUME Inv, [Next]_vars PROVE CloseInv'
  OBVIOUS
<1>1. TypeOK /\ CloseInv /\ \A c \in Conn : Life(c)
  BY DEF Inv, LifeInv
<1>. USE <1>1 DEF CloseInv, Closing, PastListeners, PastChildren, PastConns
<1>2. CASE UNCHANGED <<main, listeners, todo, closed, children, bridge, sock, relay>>
  BY <1>2
<1>3. CASE Bind
  BY <1>3 DEF Bind
<1>4. CASE BindFails \/ ListenFails \/ Interrupt
  BY <1>4 DEF BindFails, ListenFails, Interrupt
<1>5. CASE SetClosed
  BY <1>5 DEF SetClosed
<1>6. CASE CloseListeners
  <2>1. CASE listeners # {}
    BY <1>6, <2>1 DEF CloseListeners
  <2>2. CASE listeners = {}
    <3>1. /\ main' = "children" /\ main = "listeners" /\ todo' = children
          /\ UNCHANGED <<listeners, closed, children, bridge, sock, relay>>
      BY <1>6, <2>2 DEF CloseListeners
    <3>2. \A c \in Conn : relay[c] = "running" => bridge[c] = "register" \/ c \in children
      BY DEF Life, Tracked
    <3>. QED
      BY <2>2, <3>1, <3>2
  <2>. QED
    BY <2>1, <2>2
<1>7. CASE TerminateChildren
  <2>1. CASE todo # {}
    <3>1. PICK c \in todo : relay' = Terminated(c) /\ todo' = todo \ {c}
      BY <1>7, <2>1 DEF TerminateChildren
    <3>2. /\ main = "children"
          /\ UNCHANGED <<main, listeners, closed, children, bridge, sock>>
      BY <1>7, <2>1 DEF TerminateChildren
    <3>3. \A b \in Conn : relay'[b] = "running" => relay[b] = "running" /\ b # c
      BY <3>1 DEF TypeOK, Terminated
    <3>. QED
      BY <3>1, <3>2, <3>3
  <2>2. CASE todo = {}
    BY <1>7, <2>2 DEF TerminateChildren
  <2>. QED
    BY <2>1, <2>2
<1>8. CASE CloseConns
  <2>1. CASE todo # {}
    <3>1. PICK c \in todo : sock' = [sock EXCEPT ![c] = "closed"] /\ todo' = todo \ {c}
      BY <1>8, <2>1 DEF CloseConns
    <3>2. /\ main = "conns"
          /\ UNCHANGED <<main, listeners, closed, children, bridge, relay>>
      BY <1>8, <2>1 DEF CloseConns
    <3>3. \A b \in Conn : sock'[b] = IF b = c THEN "closed" ELSE sock[b]
      BY <3>1 DEF TypeOK
    <3>4. \A b \in children : sock'[b] = "closed" \/ b \in todo'
      BY <3>1, <3>2, <3>3 DEF TypeOK
    <3>. QED
      BY <3>2, <3>4
  <2>2. CASE todo = {}
    BY <1>8, <2>2 DEF CloseConns
  <2>. QED
    BY <2>1, <2>2
<1>9. ASSUME NEW l \in Listener, Accept(l) PROVE CloseInv'
  <2>1. PICK c \in Conn : /\ sock[c] = "none" /\ sock' = [sock EXCEPT ![c] = "open"]
                          /\ bridge' = [bridge EXCEPT ![c] = "spawn"]
    BY <1>9 DEF Accept
  <2>2. UNCHANGED <<main, listeners, todo, closed, children, relay>>
    BY <1>9 DEF Accept, mainVars
  <2>3. bridge[c] = "off" /\ relay[c] # "running" /\ c \notin children
    BY <2>1 DEF Life, Tracked
  <2>4. \A b \in Conn : b # c => sock'[b] = sock[b] /\ bridge'[b] = bridge[b]
    BY <2>1 DEF TypeOK
  <2>. QED
    BY <2>2, <2>3, <2>4 DEF TypeOK
<1>10. ASSUME NEW c \in Conn, Spawn(c) PROVE CloseInv'
  <2>1. /\ relay' = [relay EXCEPT ![c] = "running"]
        /\ bridge' = [bridge EXCEPT ![c] = "register"]
        /\ UNCHANGED <<main, listeners, todo, closed, children, sock>>
    BY <1>10 DEF Spawn, mainVars
  <2>. QED
    BY <2>1 DEF TypeOK
<1>11. ASSUME NEW c \in Conn, SpawnFails(c) PROVE CloseInv'
  <2>1. /\ bridge[c] = "spawn" /\ bridge' = [bridge EXCEPT ![c] = "ended"]
        /\ sock' = [sock EXCEPT ![c] = "closed"]
        /\ UNCHANGED <<main, listeners, todo, closed, children, relay>>
    BY <1>11 DEF SpawnFails, mainVars
  <2>2. relay[c] # "running"
    BY <2>1 DEF Life
  <2>. QED
    BY <2>1, <2>2 DEF TypeOK
<1>12. ASSUME NEW c \in Conn, Register(c) PROVE CloseInv'
  <2>1. CASE closed
    <3>1. /\ relay' = Terminated(c) /\ sock' = [sock EXCEPT ![c] = "closed"]
          /\ bridge' = [bridge EXCEPT ![c] = "ended"]
          /\ UNCHANGED <<main, listeners, todo, closed, children>>
      BY <1>12, <2>1 DEF Register, TooLate, mainVars
    <3>2. \A b \in Conn : relay'[b] = "running" => relay[b] = "running" /\ b # c
      BY <3>1 DEF TypeOK, Terminated
    <3>. QED
      BY <3>1, <3>2 DEF TypeOK
  <2>2. CASE ~closed
    BY <1>12, <2>2 DEF Register, TooLate, mainVars
  <2>. QED
    BY <2>1, <2>2
<1>13. ASSUME NEW c \in Conn, Join(c) PROVE CloseInv'
  <2>1. /\ relay' = [relay EXCEPT ![c] = "dead"] /\ bridge' = [bridge EXCEPT ![c] = "closeIn"]
        /\ UNCHANGED <<main, listeners, todo, closed, children, sock>>
    BY <1>13 DEF Join, mainVars
  <2>. QED
    BY <2>1 DEF TypeOK
<1>14. ASSUME NEW c \in Conn, CloseIn(c) PROVE CloseInv'
  <2>1. /\ bridge[c] = "closeIn" /\ bridge' = [bridge EXCEPT ![c] = "closeConn"]
        /\ UNCHANGED <<main, listeners, todo, closed, children, sock, relay>>
    BY <1>14 DEF CloseIn, mainVars
  <2>2. relay[c] # "running"
    BY <2>1 DEF Life
  <2>. QED
    BY <2>1, <2>2 DEF TypeOK
<1>15. ASSUME NEW c \in Conn, CloseConn(c) PROVE CloseInv'
  <2>1. /\ bridge[c] = "closeConn" /\ bridge' = [bridge EXCEPT ![c] = "forget"]
        /\ sock' = [sock EXCEPT ![c] = "closed"]
        /\ UNCHANGED <<main, listeners, todo, closed, children, relay>>
    BY <1>15 DEF CloseConn, mainVars
  <2>2. relay[c] # "running"
    BY <2>1 DEF Life
  <2>. QED
    BY <2>1, <2>2 DEF TypeOK
<1>16. ASSUME NEW c \in Conn, Forget(c) PROVE CloseInv'
  <2>1. /\ bridge[c] = "forget" /\ bridge' = [bridge EXCEPT ![c] = "ended"]
        /\ children' = children \ {c}
        /\ UNCHANGED <<main, listeners, todo, closed, sock, relay>>
    BY <1>16 DEF Forget, mainVars
  <2>2. relay[c] # "running"
    BY <2>1 DEF Life
  <2>. QED
    BY <2>1, <2>2 DEF TypeOK
<1>17. ASSUME NEW c \in Conn, RelayEnds(c) PROVE CloseInv'
  <2>1. /\ relay' = [relay EXCEPT ![c] = "dead"]
        /\ UNCHANGED <<main, listeners, todo, closed, children, bridge, sock>>
    BY <1>17 DEF RelayEnds, mainVars
  <2>. QED
    BY <2>1 DEF TypeOK
<1>18. CASE \/ \E l \in Listener : CheckClosed(l) \/ AcceptFails(l)
            \/ \E c \in Conn : UpStep(c) \/ UpStrays(c) \/ DownStep(c)
            \/ \E c \in Conn : Connect(c) \/ Send(c) \/ HangUp(c)
  BY <1>2, <1>18 DEF CheckClosed, AcceptFails, UpStep, UpRecv, UpReceived, UpWrite, UpStrays,
                     UpClose, DownStep, SendReturns, DownRead, Sent, SendFails, DownEnds,
                     Connect, Send, HangUp, mainVars
<1>. QED
  BY <1>2, <1>3, <1>4, <1>5, <1>6, <1>7, <1>8, <1>9, <1>10, <1>11, <1>12,
     <1>13, <1>14, <1>15, <1>16, <1>17, <1>18
  DEF Next, MainStep, BridgeStep, vars, mainVars

-----------------------------------------------------------------------------
LEMMA Invariance == Spec => []Inv
<1>1. Inv /\ [Next]_vars => Inv'
  <2>. SUFFICES ASSUME Inv, [Next]_vars PROVE Inv'
    OBVIOUS
  <2>. QED
    BY TypeStep, LifeStep, PipesStep, OutStep, AnswersStep, CloseStep DEF Inv
<1>. QED
  BY InitInv, <1>1, PTL DEF Spec

\* The variables of forward.py's threads keep their types, for any number of
\* listeners, connections and descriptors.
THEOREM TypeCorrect == Spec => []TypeOK
<1>1. Inv => TypeOK
  BY DEF Inv
<1>. QED
  BY <1>1, Invariance, PTL

\* However the steps of close() fall between those of acceptors and bridges, it
\* leaves no listener open, no tracked connection open, and no relay running
\* that its bridge will not end.
THEOREM CloseIsComplete == Spec => []CloseReachesAll
<1>1. Inv => CloseReachesAll
  BY DEF Inv, CloseInv, CloseReachesAll, PastListeners, PastChildren, PastConns
<1>. QED
  BY <1>1, Invariance, PTL

\* Whatever numbers are given out again, what a relay answers is sent to its own
\* connection's client and no other.
THEOREM OwnAnswers == Spec => []AnswersStayHome
<1>1. Inv => AnswersStayHome
  BY DEF Inv
<1>. QED
  BY <1>1, Invariance, PTL

\* A bridge that has ended leaves no relay to run, no socket and no list entry,
\* and no pipe unless close() had begun before it took the lock.
THEOREM BridgesCleanUp == Spec => []BridgesLeaveNothing
<1>1. Inv => BridgesLeaveNothing
  <2>. SUFFICES ASSUME Inv, NEW c \in Conn, bridge[c] = "ended"
                PROVE  /\ relay[c] # "running" /\ sock[c] = "closed" /\ c \notin children
                       /\ \A f \in Fd : /\ owner[f] # <<c, "sock">>
                                        /\ owner[f] \in {<<c, "in">>, <<c, "out">>}
                                              => closed /\ up[c] = "off"
    BY DEF BridgesLeaveNothing
  <2>1. Life(c) /\ Pipes(c)
    BY DEF Inv, LifeInv, PipesInv
  <2>. QED
    BY <2>1 DEF Life, Pipes, Late, Tracked
<1>. QED
  BY <1>1, Invariance, PTL
=============================================================================

---------------------------- MODULE MCPortForward ----------------------------
(* PortForward on small instances.  Where all connections send and answer     *)
(* alike they are interchangeable, and so are descriptor numbers.  The view   *)
(* leaves out what no later step and no invariant of the run depends on: *)
(* which number is which (what counts is what a pump's number names, and      *)
(* which pumps hold the same one), what a connection did that nobody listens  *)
(* to any more, and who got which chunk, but for the answers that went astray.*)
EXTENDS PortForward, TLC

Symmetry == Permutations(Conn) \cup Permutations(Fd)

Named(f) == IF f = NoFd THEN NoFd ELSE owner[f]

Client(c) ==
    IF sock[c] = "closed" /\ up[c] # "blocked" /\ down[c] # "send" THEN "done"
                                                                 ELSE client[c]
Incoming(c) ==
    IF up[c] \in {"close", "ended"} \/ (up[c] = "off" /\ bridge[c] = "ended")
    THEN <<>> ELSE <<inbox[c], sent[c]>>
Outgoing(c) ==
    IF down[c] = "ended" \/ bridge[c] = "ended" THEN <<>> ELSE <<answers[c]>>

View ==
    <<mainVars, acceptor, closed, children, via, bridge, sock, relay, up, down,
      [c \in Conn |-> <<Client(c), Incoming(c), Outgoing(c), toClient[c] \ {c},
                        Named(inFd[c]), Named(outFd[c])>>],
      {<<c, d>> \in Conn \X Conn : inFd[c] = inFd[d] /\ inFd[c] # NoFd},
      {owner[f] : f \in Fd}>>
=============================================================================

---------------------------- MODULE SshSessionProofs ----------------------------
(***************************************************************************)
(* Proofs about SshSession's safety, for any number of bytes, keys and     *)
(* attempts at a socketpair.  As long as the client is there nothing of    *)
(* the session ends before its output does: a pump that has ended has      *)
(* shown everything, and only then the session goes on to its finally      *)
(* clause.  Of a pty session that holds only if no read ends inside a      *)
(* character (PtyLead = {}); without it the status is still recorded.      *)
(*                                                                         *)
(* That no key is fed twice is a count: the keys that wait in a sequence   *)
(* are the positions that hold one, and Append and Tail change their       *)
(* number by the one they add or take.                                     *)
(***************************************************************************)
EXTENDS SshSession, FiniteSetTheorems, SequenceTheorems, TLAPS

Places == {"none", "spawn", "pair", "pump", "wait", "settle", "join", "report",
           "done", "failed", "cancelled"}
Draining == {"wait", "settle", "join", "report", "done"}
Before == {"none", "spawn", "pair", "failed"}

\* What the steps need to know of the variables' types.
Types ==
    /\ conn \in {"open", "lost"}
    /\ shell \in {"none", "running"} \cup ExitCode
    /\ taken \in [Stream -> Nat] /\ shown \in [Stream -> Nat]
    /\ written \in [Stream -> Nat] /\ passed \in Nat
    /\ pump \in [Stream -> {"off", "run", "ended"}]
    /\ reader \in {"off", "run", "ended"}
    /\ kind \in {"none", "plain", "pty"}
    /\ session \in Places
    /\ server \in {"starting", "serving", "closing", "returned"}

\* Nothing is told before the session's last step, and that step records it.
ToldInv ==
    /\ session \notin {"done", "failed"} => status = NoCode
    /\ status # NoCode => codes = status
    /\ server = "starting" => session = "none"

\* Who has been started.
StartedInv ==
    /\ session \in Before => reader = "off" /\ \A s \in Stream : pump[s] = "off"
    /\ session = "none" => kind = "none"
    /\ session # "none" => kind # "none"
    /\ reader # "off" => kind = "pty" /\ pump["out"] # "off"
    /\ server = "closing" \/ cancelled \/ session = "cancelled" => conn = "lost"
    /\ kind # "plain" => passed = taken["out"]

\* While the client is there.
OpenInv ==
    conn = "open" =>
        /\ \A s \in Stream : pump[s] = "ended" => Exited /\ shown[s] = written[s]
        /\ reader = "ended" => Exited /\ taken["out"] = written["out"]
        /\ kind = "pty" /\ pump["out"] = "ended" => reader = "ended"
        /\ kind = "pty" /\ session \in {"pair", "pump"} => stdinOpen
        /\ session \in Draining => AllEnded

\* When it was told that the shell has ended.
TellsInv ==
    status \in ExitCode =>
        /\ session = "done" /\ Exited
        /\ \A s \in Streams : pump[s] = "ended" /\ shown[s] = written[s]

Inv == Types /\ ToldInv
OutputInv == Inv /\ StartedInv /\ OpenInv /\ TellsInv

-----------------------------------------------------------------------------
\* Before anything runs nothing was told.
LEMMA Init1 == Init => Inv
  BY DEF Init, Inv, Types, ToldInv, Places

\* Whoever tells a status records it.
LEMMA Step1 == Inv /\ [Next]_vars => Inv'
<1>. SUFFICES ASSUME Inv, [Next]_vars PROVE Inv'
  OBVIOUS
<1>. USE DEF Inv, Types, ToldInv, Places, clientVars, shellVars, outVars, inVars, taskVars,
             serverVars, NoCode, Failed, ExitCode, Stream
<1>1. CASE UNCHANGED vars
  BY <1>1 DEF vars
<1>2. CASE Open
  BY <1>2, KindsAssumption DEF Open
<1>3. CASE Spawn
  BY <1>3 DEF Spawn, StartPumps
<1>4. CASE SpawnFails
  BY <1>4 DEF SpawnFails, Record, Tell
<1>5. CASE Pair
  BY <1>5 DEF Pair, StartPumps, Record, Tell
<1>6. CASE PtyPump
  BY <1>6 DEF PtyPump
<1>7. CASE Drained \/ Reaped \/ StopClientPump \/ Join
  BY <1>7 DEF Drained, Reaped, StopClientPump, Join
<1>8. CASE Report
  BY <1>8 DEF Report, Record, Tell
<1>9. CASE PtyReader \/ PtyReaderLate
  BY <1>9 DEF PtyReader, PtyReaderLate, Decoded
<1>10. CASE PtyWriter \/ ClientPump
  BY <1>10 DEF PtyWriter, ClientPump, ShutInput
<1>11. ASSUME NEW s \in Stream, PlainPump(s) PROVE Inv'
  BY <1>11 DEF PlainPump, Decoded
<1>12. CASE Start \/ Closed \/ Return
  BY <1>12 DEF Start, Closed, Return, Record, Cancellable
<1>13. CASE Send \/ Vanish \/ ShellExits
  BY <1>13 DEF Send, Vanish, ShellExits
<1>14. CASE ShellWrites
  BY <1>14 DEF ShellWrites, Streams
<1>. QED
  BY <1>1, <1>2, <1>3, <1>4, <1>5, <1>6, <1>7, <1>8, <1>9, <1>10, <1>11, <1>12, <1>13, <1>14
  DEF Next, Running, SessionStep

-----------------------------------------------------------------------------
\* Nothing was started.
LEMMA Init2 == Init => OutputInv
  BY Init1 DEF Init, OutputInv, StartedInv, OpenInv, TellsInv, Before, Draining, NoCode,
     ExitCode, Stream

\* No step ends a pump before its output while the client is there.
LEMMA Step2 ==
    ASSUME PtyLead = {}
    PROVE  OutputInv /\ [Next]_vars => OutputInv'
<1>. SUFFICES ASSUME OutputInv, [Next]_vars PROVE StartedInv' /\ OpenInv' /\ TellsInv'
  BY Step1 DEF OutputInv
<1>. USE DEF OutputInv, Inv, Types, ToldInv, StartedInv, OpenInv, TellsInv, Places, Before,
             Draining, Exited, AllEnded, Streams, clientVars, shellVars, outVars, inVars,
             taskVars, serverVars, NoCode, Failed, ExitCode, Stream
<1>1. CASE UNCHANGED vars
  BY <1>1 DEF vars
<1>2. CASE Open
  BY <1>2, KindsAssumption DEF Open
<1>3. CASE Spawn
  BY <1>3 DEF Spawn, StartPumps
<1>4. CASE SpawnFails
  BY <1>4 DEF SpawnFails, Record, Tell
<1>5. CASE Pair
  BY <1>5 DEF Pair, StartPumps, Record, Tell
<1>6. CASE PtyPump
  BY <1>6 DEF PtyPump
<1>7. CASE Drained \/ Reaped
  BY <1>7 DEF Drained, Reaped, OutputEnded
<1>8. CASE StopClientPump \/ Join
  BY <1>8 DEF StopClientPump, Join
<1>9. CASE Report
  BY <1>9 DEF Report, Record, Tell
<1>10. CASE PtyReader \/ PtyReaderLate
  BY <1>10 DEF PtyReader, PtyReaderLate, Decoded, EndsReading, Lead
<1>11. CASE PtyWriter \/ ClientPump
  BY <1>11 DEF PtyWriter, ClientPump, ShutInput
<1>12. ASSUME NEW s \in Stream, PlainPump(s) PROVE StartedInv' /\ OpenInv' /\ TellsInv'
  BY <1>12 DEF PlainPump
<1>13. CASE Start \/ Return
  BY <1>13 DEF Start, Return, Record
<1>14. CASE Closed
  BY <1>14 DEF Closed, Cancellable
<1>15. CASE Send \/ Vanish
  BY <1>15 DEF Send, Vanish
<1>16. CASE ShellExits
  BY <1>16 DEF ShellExits
<1>17. CASE ShellWrites
  BY <1>17 DEF ShellWrites
<1>. QED
  BY <1>1, <1>2, <1>3, <1>4, <1>5, <1>6, <1>7, <1>8, <1>9, <1>10, <1>11, <1>12, <1>13, <1>14,
     <1>15, <1>16, <1>17
  DEF Next, Running, SessionStep

-----------------------------------------------------------------------------
\* The keys in what the client pump has not read.
Waiting(q) == {i \in 1 .. Len(q) : q[i] = "key"}

Item == {"key", "event", "eof"}

\* There are finitely many.
LEMMA WaitingIsFinite ==
    ASSUME NEW q \in Seq(Item)
    PROVE  IsFiniteSet(Waiting(q)) /\ Cardinality(Waiting(q)) \in Nat
<1>1. Waiting(q) \in SUBSET (1 .. Len(q)) /\ IsFiniteSet(1 .. Len(q))
  BY FS_Interval DEF Waiting
<1>2. IsFiniteSet(Waiting(q))
  BY <1>1, FS_Subset
<1>. QED
  BY <1>2, FS_CardinalityType

\* Append adds what it appends.
LEMMA WaitingOfAppend ==
    ASSUME NEW q \in Seq(Item), NEW item \in Item
    PROVE  Cardinality(Waiting(Append(q, item))) =
               IF item = "key" THEN Cardinality(Waiting(q)) + 1 ELSE Cardinality(Waiting(q))
<1>1. Waiting(Append(q, item)) =
          IF item = "key" THEN Waiting(q) \cup {Len(q) + 1} ELSE Waiting(q)
  BY DEF Waiting
<1>2. Len(q) + 1 \notin Waiting(q)
  BY DEF Waiting
<1>. QED
  BY <1>1, <1>2, WaitingIsFinite, FS_AddElement

\* Tail takes away the head; the rest moves down by one.
LEMMA WaitingOfTail ==
    ASSUME NEW q \in Seq(Item), q # <<>>
    PROVE  Cardinality(Waiting(q)) = IF Head(q) = "key" THEN Cardinality(Waiting(Tail(q))) + 1
                                                        ELSE Cardinality(Waiting(Tail(q)))
<1>. DEFINE S == Waiting(Tail(q))
            T == Waiting(q) \ {1}
            f == [i \in S |-> i + 1]
<1>1. /\ Tail(q) \in Seq(Item) /\ Len(Tail(q)) = Len(q) - 1 /\ Len(q) \in Nat \ {0}
      /\ \A i \in 1 .. Len(q) - 1 : Tail(q)[i] = q[i + 1]
  BY HeadTailProperties
<1>2. f \in Bijection(S, T)
  <2>1. \A i \in S : f[i] \in T
    BY <1>1 DEF Waiting
  <2>2. \A i, j \in S : f[i] = f[j] => i = j
    BY DEF Waiting
  <2>3. \A j \in T : j - 1 \in S /\ f[j - 1] = j
    BY <1>1 DEF Waiting
  <2>. QED
    BY <2>1, <2>2, <2>3 DEF Bijection, Injection, Surjection, IsInjective
<1>3. Cardinality(T) = Cardinality(S)
  BY <1>1, <1>2, WaitingIsFinite, FS_Bijection DEF ExistsBijection
<1>4. 1 \in Waiting(q) <=> Head(q) = "key"
  BY <1>1 DEF Waiting
<1>5. Cardinality(T) = IF 1 \in Waiting(q) THEN Cardinality(Waiting(q)) - 1
                                           ELSE Cardinality(Waiting(q))
  BY WaitingIsFinite, FS_RemoveElement
<1>. QED
  BY <1>1, <1>3, <1>4, <1>5, WaitingIsFinite

\* What was typed as a key waits, is in the socketpair, was given to the shell
\* or thrown away.
InputTypes ==
    /\ typed \in Seq(Item)
    /\ sent \in Nat /\ keys \in Nat /\ fed \in Nat /\ inPair \in Nat
    /\ sent <= MaxTyped /\ keys <= sent
    /\ Cardinality(Waiting(typed)) + fed + inPair <= keys

\* What was shown was read, and what was read was written.
OutputTypes ==
    /\ kind \in {"none", "plain", "pty"}
    /\ written \in [Stream -> Nat] /\ taken \in [Stream -> Nat] /\ shown \in [Stream -> Nat]
    /\ passed \in Nat
    /\ \A s \in Stream : /\ shown[s] <= taken[s] /\ taken[s] <= written[s]
                         /\ written[s] <= MaxBytes
    /\ passed <= taken["out"]
    /\ kind # "plain" => shown["out"] <= passed
    /\ session = "none" => kind = "none"

\* Places and answers; a session is reaped before it reports.
OtherTypes ==
    /\ conn \in {"open", "lost"} /\ status \in ExitCode \cup {Failed, NoCode}
    /\ shell \in {"none", "running"} \cup ExitCode
    /\ pump \in [Stream -> {"off", "run", "ended"}]
    /\ reader \in {"off", "run", "ended"} /\ writer \in {"off", "run", "ended"}
    /\ clientPump \in {"off", "run", "ended"}
    /\ kind \in Kinds \cup {"none"}
    /\ session \in Places
    /\ server \in {"starting", "serving", "closing", "returned"}
    /\ codes \in ExitCode \cup {Failed, NoCode}
    /\ session \in {"settle", "join", "report"} /\ ~cancelled => Exited

FlagTypes ==
    /\ stdinOpen \in BOOLEAN /\ pairShut \in BOOLEAN
    /\ cancelled \in BOOLEAN /\ executor \in BOOLEAN

AttemptTypes == attempts \in 0 .. Attempts - 1

TypeInv == InputTypes /\ OutputTypes /\ OtherTypes /\ FlagTypes /\ AttemptTypes

\* Initially nothing has moved.
LEMMA InitTypes == Init => TypeInv
<1>. SUFFICES ASSUME Init PROVE TypeInv
  OBVIOUS
<1>1. InputTypes
  <2>1. Cardinality(Waiting(typed)) = 0
    <3>1. Waiting(typed) = {}
      BY DEF Init, Waiting
    <3>. QED
      BY <3>1, FS_EmptySet
  <2>. QED
    BY <2>1, BoundAssumption DEF Init, InputTypes
<1>2. OutputTypes
  BY BoundAssumption DEF Init, OutputTypes, Stream
<1>3. OtherTypes
  BY DEF Init, OtherTypes, Places, ExitCode, Failed, NoCode, Exited, Stream
<1>4. AttemptTypes
  BY AttemptsAssumption DEF Init, AttemptTypes
<1>5. FlagTypes
  BY DEF Init, FlagTypes
<1>. QED
  BY <1>1, <1>2, <1>3, <1>4, <1>5 DEF TypeInv

\* Only the client, its pump and the writer move keys.
LEMMA InputStep == InputTypes /\ [Next]_vars => InputTypes'
<1>. SUFFICES ASSUME InputTypes, [Next]_vars PROVE InputTypes'
  OBVIOUS
<1>1. Cardinality(Waiting(typed)) \in Nat
  BY WaitingIsFinite DEF InputTypes
<1>2. UNCHANGED <<typed, sent, keys, fed, inPair>> => InputTypes'
  BY DEF InputTypes
<1>3. CASE PtyWriter
  BY <1>1, <1>3 DEF PtyWriter, InputTypes, clientVars
<1>4. CASE ClientPump
  <2>1. ASSUME typed # <<>>, typed' = Tail(typed) PROVE InputTypes'
    <3>0. typed \in Seq(Item) /\ Tail(typed) \in Seq(Item)
      BY <2>1 DEF InputTypes
    <3>1. /\ Cardinality(Waiting(Tail(typed))) \in Nat
          /\ Cardinality(Waiting(typed)) = IF Head(typed) = "key"
                THEN Cardinality(Waiting(Tail(typed))) + 1 ELSE Cardinality(Waiting(Tail(typed)))
      BY <2>1, <3>0, WaitingOfTail, WaitingIsFinite
    <3>2. /\ UNCHANGED <<sent, keys>>
          /\ \/ UNCHANGED <<fed, inPair>>
             \/ Head(typed) = "key" /\ fed' = fed + 1 /\ inPair' = inPair
             \/ Head(typed) = "key" /\ inPair' = inPair + 1 /\ fed' = fed
      BY <1>4, <2>1 DEF ClientPump, IsInput
    <3>3. Cardinality(Waiting(typed))' = Cardinality(Waiting(Tail(typed))) /\ typed' \in Seq(Item)
      BY <2>1, <3>0
    <3>4. Cardinality(Waiting(typed))' + fed' + inPair' <= keys
      BY <1>1, <3>1, <3>2, <3>3 DEF InputTypes
    <3>. QED
      BY <3>2, <3>3, <3>4 DEF InputTypes
  <2>. QED
    BY <1>2, <1>4, <2>1 DEF ClientPump
<1>5. CASE Send
  <2>1. PICK item \in Item : /\ typed' = Append(typed, item)
                             /\ keys' = IF item = "key" THEN keys + 1 ELSE keys
    BY <1>5 DEF Send, Item
  <2>2. typed' \in Seq(Item)
    BY <2>1 DEF InputTypes
  <2>3. Cardinality(Waiting(typed')) = IF item = "key" THEN Cardinality(Waiting(typed)) + 1
                                                       ELSE Cardinality(Waiting(typed))
    BY <2>1, WaitingOfAppend DEF InputTypes
  <2>4. sent < MaxTyped /\ sent' = sent + 1 /\ UNCHANGED <<fed, inPair>>
    BY <1>5 DEF Send, shellVars, inVars
  <2>. QED
    BY <1>1, <2>1, <2>2, <2>3, <2>4, BoundAssumption DEF InputTypes
<1>6. ASSUME ~PtyWriter, ~ClientPump, ~Send PROVE UNCHANGED <<typed, sent, keys, fed, inPair>>
  BY <1>6 DEF Next, Running, SessionStep, vars, clientVars, shellVars, outVars, inVars, taskVars,
              serverVars, Open, Spawn, StartPumps, Pair, SpawnFails, PlainPump, PtyReader,
              PtyReaderLate, PtyPump, Drained, Reaped, StopClientPump, Join, Report, Start,
              Closed, Return,
              Vanish, ShellWrites, ShellExits
<1>. QED
  BY <1>2, <1>3, <1>4, <1>5, <1>6

\* Only the shell and the output pumps move bytes.
LEMMA OutputStep == OutputTypes /\ [Next]_vars => OutputTypes'
<1>. SUFFICES ASSUME OutputTypes, [Next]_vars PROVE OutputTypes'
  OBVIOUS
<1>. USE BoundAssumption DEF OutputTypes, Stream
<1>1. CASE Open
  BY <1>1, KindsAssumption DEF Open, shellVars, outVars
<1>2. CASE PtyPump
  BY <1>2 DEF PtyPump, shellVars, taskVars
<1>3. CASE PtyReader
  <2>1. UNCHANGED <<written, shown, kind, session>>
    BY <1>3 DEF PtyReader, shellVars, taskVars
  <2>2. CASE UNCHANGED <<taken, passed>>
    BY <2>1, <2>2
  <2>3. ASSUME NEW n \in taken["out"] + 1 .. written["out"],
               taken' = [taken EXCEPT !["out"] = n], passed' = Decoded(n)
        PROVE  OutputTypes'
    <3>1. passed' \in taken["out"] .. n /\ n \in Nat
      BY <2>3 DEF Decoded
    <3>. QED
      BY <2>1, <2>3, <3>1
  <2>. QED
    BY <1>3, <2>2, <2>3 DEF PtyReader
<1>4. ASSUME NEW s \in Stream, PlainPump(s) PROVE OutputTypes'
  <2>1. UNCHANGED <<written, passed, kind, session>> /\ kind = "plain"
    BY <1>4 DEF PlainPump, shellVars, taskVars
  <2>2. CASE UNCHANGED taken /\ (shown' = shown \/ shown' = [shown EXCEPT ![s] = taken[s]])
    BY <2>1, <2>2
  <2>3. ASSUME NEW n \in taken[s] + 1 .. written[s], taken' = [taken EXCEPT ![s] = n],
               shown' = shown \/ shown' = [shown EXCEPT ![s] = Decoded(n)]
        PROVE  OutputTypes'
    <3>1. Decoded(n) \in 0 .. n /\ n \in Nat
      BY <2>3 DEF Decoded
    <3>. QED
      BY <2>1, <2>3, <3>1
  <2>. QED
    BY <1>4, <2>2, <2>3 DEF PlainPump
<1>5. CASE ShellWrites
  <2>1. PICK s \in Stream : written[s] < MaxBytes /\ written' = [written EXCEPT ![s] = @ + 1]
    BY <1>5 DEF ShellWrites, Streams
  <2>2. UNCHANGED <<taken, shown, passed, kind, session>>
    BY <1>5 DEF ShellWrites, outVars, taskVars
  <2>. QED
    BY <2>1, <2>2
<1>6. ASSUME ~Open, ~PtyPump, ~PtyReader, \A s \in Stream : ~PlainPump(s), ~ShellWrites
      PROVE  /\ UNCHANGED <<written, taken, shown, passed, kind>>
             /\ session' # session => session' # "none"
  BY <1>6 DEF Next, Running, SessionStep, vars, clientVars, shellVars, outVars, inVars, taskVars,
              serverVars, Spawn, StartPumps, Pair, SpawnFails, PtyReaderLate, PtyWriter,
              ClientPump, ShutInput,
              Drained, Reaped, StopClientPump, Join, Report, Start, Closed, Return, Send,
              Vanish, ShellExits
<1>. QED
  BY <1>1, <1>2, <1>3, <1>4, <1>5, <1>6

\* Every task goes from one place to another.
LEMMA OtherStep == OtherTypes /\ [Next]_vars => OtherTypes'
<1>. SUFFICES ASSUME OtherTypes, [Next]_vars PROVE OtherTypes'
  OBVIOUS
<1>. USE DEF OtherTypes, Places, Stream, Exited, clientVars, shellVars, outVars, inVars, taskVars,
             serverVars, NoCode, Failed, ExitCode
<1>1. CASE UNCHANGED vars
  BY <1>1 DEF vars
<1>2. CASE Open
  BY <1>2 DEF Open
<1>3. CASE Spawn
  BY <1>3 DEF Spawn, StartPumps
<1>4. CASE SpawnFails
  BY <1>4 DEF SpawnFails, Record, Tell
<1>5. CASE Pair
  BY <1>5 DEF Pair, StartPumps, Record, Tell
<1>6. CASE PtyPump
  BY <1>6 DEF PtyPump
<1>7. CASE Drained
  BY <1>7 DEF Drained
<1>8. CASE Reaped
  BY <1>8 DEF Reaped
<1>9. CASE StopClientPump
  BY <1>9 DEF StopClientPump
<1>10. CASE Join
  BY <1>10 DEF Join
<1>11. CASE Report
  BY <1>11 DEF Report, Record, Tell
<1>12. CASE PtyReader \/ PtyReaderLate \/ PtyWriter
  BY <1>12 DEF PtyReader, PtyReaderLate, PtyWriter
<1>13. CASE ClientPump
  BY <1>13 DEF ClientPump, ShutInput
<1>14. ASSUME NEW s \in Stream, PlainPump(s) PROVE OtherTypes'
  BY <1>14 DEF PlainPump
<1>15. CASE Start
  BY <1>15 DEF Start, Record
<1>16. CASE Closed
  BY <1>16 DEF Closed, Cancellable
<1>17. CASE Return
  BY <1>17 DEF Return
<1>18. CASE Send \/ Vanish \/ ShellWrites \/ ShellExits
  BY <1>18 DEF Send, Vanish, ShellWrites, ShellExits
<1>. QED
  BY <1>1, <1>2, <1>3, <1>4, <1>5, <1>6, <1>7, <1>8, <1>9, <1>10, <1>11, <1>12,
     <1>13, <1>14, <1>15, <1>16, <1>17, <1>18
  DEF Next, Running, SessionStep

\* Flags are set, cleared, or the kind decides.
LEMMA FlagStep == FlagTypes /\ [Next]_vars => FlagTypes'
<1>. SUFFICES ASSUME FlagTypes, [Next]_vars PROVE FlagTypes'
  OBVIOUS
<1>1. stdinOpen' = stdinOpen \/ stdinOpen' = TRUE \/ stdinOpen' = FALSE
  BY DEF Next, Running, SessionStep, vars, shellVars, Open, Spawn, SpawnFails, Pair, PlainPump,
         PtyReader, PtyReaderLate, PtyPump, PtyWriter, ClientPump, ShutInput, Drained,
         Reaped, StopClientPump,
         Join, Report, Start, Closed, Return, Send, Vanish, ShellWrites, ShellExits
<1>2. pairShut' = pairShut \/ pairShut' = TRUE \/ pairShut' = (kind = "pty")
  BY DEF Next, Running, SessionStep, vars, inVars, Open, Spawn, SpawnFails, Pair, PlainPump,
         PtyReader, PtyReaderLate, PtyPump, PtyWriter, ClientPump, ShutInput, Drained,
         Reaped, StopClientPump,
         Join, Report, Start, Closed, Return, Send, Vanish, ShellWrites, ShellExits
<1>3. cancelled' = cancelled \/ cancelled' = TRUE
  BY DEF Next, Running, SessionStep, vars, taskVars, Open, Spawn, SpawnFails, Pair, PlainPump,
         PtyReader, PtyReaderLate, PtyPump, PtyWriter, ClientPump, Drained, Reaped,
         StopClientPump,
         Join, Report, Start, Closed, Return, Send, Vanish, ShellWrites, ShellExits
<1>4. executor' = executor \/ executor' = FALSE \/ executor' = (kind = "pty")
  BY DEF Next, Running, SessionStep, vars, serverVars, Open, Spawn, SpawnFails, Pair, PlainPump,
         PtyReader, PtyReaderLate, PtyPump, PtyWriter, ClientPump, Drained, Reaped,
         StopClientPump,
         Join, Report, Start, Closed, Return, Send, Vanish, ShellWrites, ShellExits
<1>5. (kind = "pty") \in BOOLEAN
  OBVIOUS
<1>. QED
  BY <1>1, <1>2, <1>3, <1>4, <1>5 DEF FlagTypes

\* There is never one attempt too many.
LEMMA AttemptStep == AttemptTypes /\ [Next]_vars => AttemptTypes'
<1>. SUFFICES ASSUME AttemptTypes, [Next]_vars PROVE AttemptTypes'
  OBVIOUS
<1>1. CASE Start \/ Pair
  BY <1>1, AttemptsAssumption
  DEF Start, Pair, AttemptTypes, PairMade, AttemptFails, AttemptLeft, PairRefused
<1>2. ASSUME ~Start, ~Pair PROVE attempts' = attempts
  BY <1>2 DEF Next, Running, SessionStep, vars, serverVars, Open, Spawn, SpawnFails, PlainPump,
              PtyReader, PtyReaderLate, PtyPump, PtyWriter, ClientPump, Drained, Reaped,
              StopClientPump, Join,
              Report, Closed, Return, Send, Vanish, ShellWrites, ShellExits
<1>. QED
  BY <1>1, <1>2 DEF AttemptTypes

\* The variables keep their types: no stream shows more than was read nor reads
\* more than was written, and no key is given to the shell twice.
THEOREM TypeCorrect == Spec => []TypeOK
<1>1. TypeInv => TypeOK
  <2>. SUFFICES ASSUME TypeInv PROVE TypeOK
    OBVIOUS
  <2>1. Cardinality(Waiting(typed)) \in Nat
    BY WaitingIsFinite DEF TypeInv, InputTypes
  <2>2. /\ typed \in Seq(Item) /\ sent \in 0 .. MaxTyped /\ keys \in 0 .. sent
        /\ fed \in 0 .. keys /\ inPair \in 0 .. keys - fed
    BY <2>1, BoundAssumption DEF TypeInv, InputTypes
  <2>3. /\ written \in [Stream -> 0 .. MaxBytes] /\ passed \in 0 .. taken["out"]
        /\ \A s \in Stream : taken[s] \in 0 .. written[s] /\ shown[s] \in 0 .. taken[s]
    BY BoundAssumption DEF TypeInv, OutputTypes, Stream
  <2>. QED
    BY <2>2, <2>3 DEF TypeInv, OtherTypes, FlagTypes, AttemptTypes, TypeOK, Item, Places
<1>2. TypeInv /\ [Next]_vars => TypeInv'
  BY InputStep, OutputStep, OtherStep, FlagStep, AttemptStep DEF TypeInv
<1>. QED
  BY InitTypes, <1>1, <1>2, PTL DEF Spec

-----------------------------------------------------------------------------
\* The exit status the client was told is what run_stdio_server returns.
THEOREM StatusRecorded == Spec => []StatusIsRecorded
<1>1. Inv => StatusIsRecorded
  BY DEF Inv, ToldInv, StatusIsRecorded, Result, NoCode
<1>. QED
  BY Init1, Step1, <1>1, PTL DEF Spec

\* A client that was told the shell's status has been shown all its output, if
\* the output of a pty session is never split inside a character.
THEOREM OutputFirst ==
    ASSUME PtyLead = {}
    PROVE  Spec => []OutputBeforeStatus
<1>1. OutputInv => OutputBeforeStatus
  BY DEF OutputInv, TellsInv, OutputBeforeStatus
<1>2. OutputInv /\ [Next]_vars => OutputInv'
  BY Step2
<1>. QED
  BY Init2, <1>1, <1>2, PTL DEF Spec
=============================================================================

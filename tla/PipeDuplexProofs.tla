-------------------------- MODULE PipeDuplexProofs --------------------------
(***************************************************************************)
(* Theorems about PipeDuplex, for inputs and outputs of any length, any    *)
(* limit of bytes in flight and any capacity of the pipes.                 *)
(*                                                                         *)
(* While the connection is up a sending task stops only behind the last    *)
(* unit of its source, or because it could not read that, or because the   *)
(* worker gave up; and a receiving task only behind the last unit that was *)
(* sent, or because its output failed.  What both tasks of a side know is  *)
(* told by where each of them is.                                          *)
(***************************************************************************)
EXTENDS PipeDuplex, TLAPS

Source(s) == IF s = "cli" THEN typed ELSE child.produced

SourceDone(s) ==
    \/ s \in inputFailed
    \/ s = "cli" /\ ~stdinOpen /\ stream["cli"].taken = typed
    \/ s = "worker" /\ child.state # "running" /\ (cancel \/ stream["worker"].taken = child.produced)

Sending(s) ==
    /\ stream[s].taken <= Source(s)
    /\ send[s] \in {"none", "read"} => stream[s].taken = stream[s].sent
    /\ send[s] = "write" => stream[s].taken = stream[s].sent + 1
    /\ send[s] \in {"shutdown", "done"} /\ conn = "up" =>
          stream[s].taken = stream[s].sent /\ SourceDone(s)
    /\ stream[s].fin => send[s] = "done"

OutputGone(s) == IF s = "cli" THEN outputFailed ELSE child.state # "running"

Receiving(s) ==
    /\ recv[s] \in {"none", "read"} => stream[Peer(s)].got = stream[Peer(s)].written
    /\ recv[s] = "write" => stream[Peer(s)].got = stream[Peer(s)].written + 1
    /\ recv[s] = "done" /\ conn = "up" /\ ~OutputGone(s) =>
          stream[Peer(s)].fin /\ stream[Peer(s)].written = stream[Peer(s)].sent

Processes ==
    /\ ~stdinOpen => typed = inSize
    /\ cli = "completed" => TasksDone("cli")
    /\ worker = "start" => send["worker"] = "none"
    /\ send["worker"] = "none" => recv["worker"] = "none" /\ child.state = "none"
    /\ send["worker"] # "none" => (kind = "none" <=> child.state = "none")
    /\ child.state = "none" => child.produced = 0
    /\ cancel \/ timer # "off" => child.state = "exited"
    /\ child.state = "exited" /\ kind \in {"echo", "digest"} /\ conn = "up" =>
          child.consumed = inSize \/ inputFailed # {}

IInv == TypeOK /\ Processes /\ \A s \in Sides : Sending(s) /\ Receiving(s)

-----------------------------------------------------------------------------
\* Types

\* The two sides are each other's peer.
LEMMA SidesAre ==
    /\ Sides = {"cli", "worker"}
    /\ \A s \in Sides : Peer(s) \in Sides /\ Peer(s) # s /\ Peer(Peer(s)) = s
BY DEF Sides, Peer

\* One number of one side moves, and nothing else.
LEMMA TakenMoves ==
    ASSUME TypeOK, NEW s \in Sides, NEW value, value \in Nat, stream' = [stream EXCEPT ![s].taken = value]
    PROVE  /\ stream' \in [Sides -> Progress] /\ \A t \in Sides : t # s => stream'[t] = stream[t]
           /\ stream'[s].taken = value
           /\ stream'[s].sent = stream[s].sent /\ stream'[s].arrived = stream[s].arrived
           /\ stream'[s].got = stream[s].got /\ stream'[s].written = stream[s].written
           /\ stream'[s].inFlight = stream[s].inFlight /\ stream'[s].fin = stream[s].fin
BY DEF TypeOK, Progress

\* The same of the units that the stream accepted, which are then in flight.
LEMMA SentMoves ==
    ASSUME TypeOK, NEW s \in Sides, NEW value, value \in Nat, NEW load, load \in Nat,
           stream' = [stream EXCEPT ![s].sent = value, ![s].inFlight = load]
    PROVE  /\ stream' \in [Sides -> Progress] /\ \A t \in Sides : t # s => stream'[t] = stream[t]
           /\ stream'[s].sent = value /\ stream'[s].inFlight = load
           /\ stream'[s].taken = stream[s].taken /\ stream'[s].arrived = stream[s].arrived
           /\ stream'[s].got = stream[s].got /\ stream'[s].written = stream[s].written
           /\ stream'[s].fin = stream[s].fin
BY DEF TypeOK, Progress

\* The same of the units that have arrived.
LEMMA ArrivedMoves ==
    ASSUME TypeOK, NEW s \in Sides, NEW value, value \in Nat, stream' = [stream EXCEPT ![s].arrived = value]
    PROVE  /\ stream' \in [Sides -> Progress] /\ \A t \in Sides : t # s => stream'[t] = stream[t]
           /\ stream'[s].arrived = value
           /\ stream'[s].taken = stream[s].taken /\ stream'[s].sent = stream[s].sent
           /\ stream'[s].got = stream[s].got /\ stream'[s].written = stream[s].written
           /\ stream'[s].inFlight = stream[s].inFlight /\ stream'[s].fin = stream[s].fin
BY DEF TypeOK, Progress

\* The same of the units read from the stream.
LEMMA GotMoves ==
    ASSUME TypeOK, NEW s \in Sides, NEW value, value \in Nat, stream' = [stream EXCEPT ![s].got = value]
    PROVE  /\ stream' \in [Sides -> Progress] /\ \A t \in Sides : t # s => stream'[t] = stream[t]
           /\ stream'[s].got = value
           /\ stream'[s].taken = stream[s].taken /\ stream'[s].sent = stream[s].sent
           /\ stream'[s].arrived = stream[s].arrived /\ stream'[s].written = stream[s].written
           /\ stream'[s].inFlight = stream[s].inFlight /\ stream'[s].fin = stream[s].fin
BY DEF TypeOK, Progress

\* The same of the units written to the output.
LEMMA WrittenMoves ==
    ASSUME TypeOK, NEW s \in Sides, NEW value, value \in Nat, stream' = [stream EXCEPT ![s].written = value]
    PROVE  /\ stream' \in [Sides -> Progress] /\ \A t \in Sides : t # s => stream'[t] = stream[t]
           /\ stream'[s].written = value
           /\ stream'[s].taken = stream[s].taken /\ stream'[s].sent = stream[s].sent
           /\ stream'[s].arrived = stream[s].arrived /\ stream'[s].got = stream[s].got
           /\ stream'[s].inFlight = stream[s].inFlight /\ stream'[s].fin = stream[s].fin
BY DEF TypeOK, Progress

\* The same of the FIN.
LEMMA FinMoves ==
    ASSUME TypeOK, NEW s \in Sides, NEW value, value \in BOOLEAN, stream' = [stream EXCEPT ![s].fin = value]
    PROVE  /\ stream' \in [Sides -> Progress] /\ \A t \in Sides : t # s => stream'[t] = stream[t]
           /\ stream'[s].fin = value
           /\ stream'[s].taken = stream[s].taken /\ stream'[s].sent = stream[s].sent
           /\ stream'[s].arrived = stream[s].arrived /\ stream'[s].got = stream[s].got
           /\ stream'[s].written = stream[s].written /\ stream'[s].inFlight = stream[s].inFlight
BY DEF TypeOK, Progress

\* The same of the bytes in flight.
LEMMA InFlightMoves ==
    ASSUME TypeOK, NEW s \in Sides, NEW value, value \in Nat, stream' = [stream EXCEPT ![s].inFlight = value]
    PROVE  /\ stream' \in [Sides -> Progress] /\ \A t \in Sides : t # s => stream'[t] = stream[t]
           /\ stream'[s].inFlight = value
           /\ stream'[s].taken = stream[s].taken /\ stream'[s].sent = stream[s].sent
           /\ stream'[s].arrived = stream[s].arrived /\ stream'[s].got = stream[s].got
           /\ stream'[s].written = stream[s].written /\ stream'[s].fin = stream[s].fin
BY DEF TypeOK, Progress


-----------------------------------------------------------------------------
\* One lemma per step of a task

\* A read of the input keeps the invariant.
LEMMA SendReadStep ==
    ASSUME IInv, NEW s \in Sides, SendRead(s)
    PROVE  IInv'
<1>1. /\ TypeOK /\ Processes /\ \A t \in Sides : Sending(t) /\ Receiving(t)
      /\ MaxInFlight \in Nat \ {0} /\ stream[s] \in Progress
  BY PipeAssumption DEF IInv, TypeOK
<1>2. UNCHANGED <<kind, inSize, typed, stdinOpen, recv, conn, cli, worker, child, timer, cancel, outputFailed, inputFailed>>
  BY DEF SendRead, inputVars, procVars, childVars, failures
<1>3. CASE stream' = [stream EXCEPT ![s].taken = stream[s].taken + 1] /\ SendBecomes(s, "write")
           /\ send[s] = "read" /\ Available(s)
  <2>1. stream[s].taken + 1 \in Nat
    BY <1>1 DEF Progress
  <2>2. /\ stream' \in [Sides -> Progress] /\ \A t \in Sides : t # s => stream'[t] = stream[t]
        /\ stream'[s].taken = stream[s].taken + 1
        /\ stream'[s].sent = stream[s].sent /\ stream'[s].arrived = stream[s].arrived
        /\ stream'[s].got = stream[s].got /\ stream'[s].written = stream[s].written
        /\ stream'[s].inFlight = stream[s].inFlight /\ stream'[s].fin = stream[s].fin
    BY <1>1, <1>3, <2>1, TakenMoves
  <2>3. send' = [send EXCEPT ![s] = "write"] /\ send \in [Sides -> {"none", "read", "write", "shutdown", "done"}]
    BY <1>1, <1>3 DEF SendBecomes, TypeOK
  <2>4. stream[s].taken = stream[s].sent /\ stream[s].taken + 1 <= Source(s) /\ ~stream[s].fin
    BY <1>1, <1>3 DEF Sending, Available, Source, TypeOK, Progress, Sides
  <2>5. TypeOK'
    BY <1>1, <1>2, <2>2, <2>3, <2>4 DEF TypeOK, Progress, Sides
  <2>6. Processes'
    BY <1>1, <1>2, <1>3, <2>2, <2>3 DEF Processes, TasksDone, Sides, TypeOK
  <2>7. ASSUME NEW t \in Sides PROVE Sending(t)' /\ Receiving(t)'
    <3>1. CASE t = s
      BY <1>1, <1>2, <2>2, <2>3, <2>4, <3>1, SidesAre DEF Sending, Receiving, Source, SourceDone, OutputGone, Sides
    <3>2. CASE t # s
      BY <1>1, <1>2, <2>2, <2>3, <2>4, <3>2, SidesAre DEF Sending, Receiving, Source, SourceDone, OutputGone, Sides, Peer
    <3> QED
      BY <3>1, <3>2
  <2> QED
    BY <2>5, <2>6, <2>7 DEF IInv
<1>4. CASE UNCHANGED stream /\ SendBecomes(s, "shutdown") /\ send[s] = "read"
           /\ (Cancelled(s) \/ InputEnded(s))
  <2>3. send' = [send EXCEPT ![s] = "shutdown"] /\ send \in [Sides -> {"none", "read", "write", "shutdown", "done"}]
    BY <1>1, <1>4 DEF SendBecomes, TypeOK
  <2>4. stream[s].taken = stream[s].sent /\ ~stream[s].fin /\ SourceDone(s)
    <3>1. stream[s].taken = stream[s].sent /\ ~stream[s].fin /\ stream[s].taken <= Source(s)
      BY <1>1, <1>4 DEF Sending
    <3>2. CASE s = "cli"
      BY <1>1, <1>4, <3>1, <3>2 DEF Source, SourceDone, Cancelled, InputEnded, Available, TypeOK, Progress
    <3>3. CASE s = "worker"
      BY <1>1, <1>4, <3>1, <3>3 DEF Source, SourceDone, Cancelled, InputEnded, Available, Processes, TypeOK, Progress
    <3> QED
      BY <3>1, <3>2, <3>3, SidesAre
  <2>5. TypeOK'
    BY <1>1, <1>2, <1>4, <2>3 DEF TypeOK
  <2>6. Processes'
    BY <1>1, <1>2, <1>4, <2>3 DEF Processes, TasksDone, Sides, TypeOK
  <2>7. ASSUME NEW t \in Sides PROVE Sending(t)' /\ Receiving(t)'
    BY <1>1, <1>2, <1>4, <2>3, <2>4 DEF Sending, Receiving, Source, SourceDone, OutputGone, Sides
  <2> QED
    BY <2>5, <2>6, <2>7 DEF IInv
<1> QED
  BY <1>3, <1>4 DEF SendRead

\* An input that fails keeps the invariant: the failure is remembered.
LEMMA SendReadFailsStep ==
    ASSUME IInv, NEW s \in Sides, SendReadFails(s)
    PROVE  IInv'
<1>1. TypeOK /\ Processes /\ \A t \in Sides : Sending(t) /\ Receiving(t)
  BY DEF IInv
<1>2. /\ UNCHANGED <<kind, inSize, typed, stdinOpen, recv, stream, conn, cli, worker, child, timer, cancel, outputFailed>>
      /\ inputFailed' = inputFailed \cup {s} /\ send[s] = "read"
      /\ send' = [send EXCEPT ![s] = "shutdown"] /\ send \in [Sides -> {"none", "read", "write", "shutdown", "done"}]
  BY <1>1 DEF SendReadFails, SendBecomes, TypeOK, inputVars, procVars, childVars
<1>3. TypeOK'
  BY <1>1, <1>2 DEF TypeOK
<1>4. Processes'
  BY <1>1, <1>2 DEF Processes, TasksDone, Sides, TypeOK
<1>5. stream[s].taken = stream[s].sent /\ ~stream[s].fin
  BY <1>1, <1>2 DEF Sending
<1>6. ASSUME NEW t \in Sides PROVE Sending(t)' /\ Receiving(t)'
  <2>1. CASE t = s
    BY <1>1, <1>2, <1>5, <2>1 DEF Sending, Receiving, Source, SourceDone, OutputGone
  <2>2. CASE t # s
    BY <1>1, <1>2, <2>2 DEF Sending, Receiving, Source, SourceDone, OutputGone
  <2> QED
    BY <2>1, <2>2
<1> QED
  BY <1>3, <1>4, <1>6 DEF IInv

\* A write to the stream keeps the invariant.
LEMMA SendWriteStep ==
    ASSUME IInv, NEW s \in Sides, SendWrite(s)
    PROVE  IInv'
<1>1. /\ TypeOK /\ Processes /\ \A t \in Sides : Sending(t) /\ Receiving(t)
      /\ MaxInFlight \in Nat \ {0} /\ stream[s] \in Progress /\ stream[Peer(s)] \in Progress
  BY PipeAssumption, SidesAre DEF IInv, TypeOK
<1>2. /\ UNCHANGED <<kind, inSize, typed, stdinOpen, recv, conn, cli, worker, child, timer, cancel, outputFailed, inputFailed>>
      /\ send[s] = "write" /\ ~stream[s].fin /\ stream[s].taken = stream[s].sent + 1
  BY <1>1 DEF SendWrite, Sending, inputVars, procVars, childVars, failures
<1>3. CASE conn = "lost" /\ UNCHANGED stream /\ SendBecomes(s, "shutdown")
  <2>1. send' = [send EXCEPT ![s] = "shutdown"] /\ send \in [Sides -> {"none", "read", "write", "shutdown", "done"}]
    BY <1>1, <1>3 DEF SendBecomes, TypeOK
  <2>2. TypeOK'
    BY <1>1, <1>2, <1>3, <2>1 DEF TypeOK
  <2>3. Processes'
    BY <1>1, <1>2, <1>3, <2>1 DEF Processes, TasksDone, Sides
  <2>4. ASSUME NEW t \in Sides PROVE Sending(t)' /\ Receiving(t)'
    BY <1>1, <1>2, <1>3, <2>1 DEF Sending, Receiving, Source, OutputGone
  <2> QED
    BY <2>2, <2>3, <2>4 DEF IInv
<1>4. CASE stream' = [stream EXCEPT ![s].sent = stream[s].sent + 1, ![s].inFlight = stream[s].inFlight + 1]
           /\ CanSend(s) /\ SendBecomes(s, "read")
  <2>1. send' = [send EXCEPT ![s] = "read"] /\ send \in [Sides -> {"none", "read", "write", "shutdown", "done"}]
    BY <1>1, <1>4 DEF SendBecomes, TypeOK
  <2>2. stream[s].sent + 1 \in Nat /\ stream[s].inFlight + 1 \in Nat /\ stream[s].inFlight < MaxInFlight
    BY <1>1, <1>4 DEF Progress, CanSend
  <2>3. /\ stream' \in [Sides -> Progress] /\ \A t \in Sides : t # s => stream'[t] = stream[t]
        /\ stream'[s].sent = stream[s].sent + 1 /\ stream'[s].inFlight = stream[s].inFlight + 1
        /\ stream'[s].taken = stream[s].taken /\ stream'[s].arrived = stream[s].arrived
        /\ stream'[s].got = stream[s].got /\ stream'[s].written = stream[s].written
        /\ stream'[s].fin = stream[s].fin
    BY <1>1, <1>4, <2>2, SentMoves
  <2>4. TypeOK'
    BY <1>1, <1>2, <2>1, <2>2, <2>3 DEF TypeOK, Progress, Sides
  <2>5. Processes'
    BY <1>1, <1>2, <2>1, <2>3 DEF Processes, TasksDone, Sides
  <2>6. ASSUME NEW t \in Sides PROVE Sending(t)' /\ Receiving(t)'
    <3>1. CASE t = s
      BY <1>1, <1>2, <2>1, <2>3, <3>1, SidesAre DEF Sending, Receiving, Source, OutputGone
    <3>2. CASE t # s
      BY <1>1, <1>2, <2>1, <2>3, <3>2, SidesAre DEF Sending, Receiving, Source, SourceDone, OutputGone, Peer
    <3> QED
      BY <3>1, <3>2
  <2> QED
    BY <2>4, <2>5, <2>6 DEF IInv
<1> QED
  BY <1>3, <1>4 DEF SendWrite

\* A FIN keeps the invariant: the sending task sends it behind its last unit.
LEMMA SendShutdownStep ==
    ASSUME IInv, NEW s \in Sides, SendShutdown(s)
    PROVE  IInv'
<1>1. /\ TypeOK /\ Processes /\ \A t \in Sides : Sending(t) /\ Receiving(t)
      /\ MaxInFlight \in Nat \ {0} /\ stream[s] \in Progress /\ stream[Peer(s)] \in Progress
  BY PipeAssumption, SidesAre DEF IInv, TypeOK
<1>2. UNCHANGED <<kind, inSize, typed, stdinOpen, recv, conn, cli, worker, child, timer, cancel, outputFailed, inputFailed>>
  BY DEF SendShutdown, inputVars, procVars, childVars, failures
<1>3. /\ stream' = [stream EXCEPT ![s].fin = TRUE] /\ send[s] = "shutdown"
      /\ send' = [send EXCEPT ![s] = "done"] /\ send \in [Sides -> {"none", "read", "write", "shutdown", "done"}]
  BY <1>1 DEF SendShutdown, Finishes, SendBecomes, TypeOK
<1>4. /\ stream' \in [Sides -> Progress] /\ \A t \in Sides : t # s => stream'[t] = stream[t]
      /\ stream'[s].fin
      /\ stream'[s].taken = stream[s].taken /\ stream'[s].sent = stream[s].sent
      /\ stream'[s].arrived = stream[s].arrived /\ stream'[s].got = stream[s].got
      /\ stream'[s].written = stream[s].written /\ stream'[s].inFlight = stream[s].inFlight
  BY <1>1, <1>3, FinMoves
<1>5. TypeOK'
  BY <1>1, <1>2, <1>3, <1>4 DEF TypeOK, Progress, Sides
<1>6. Processes'
  BY <1>1, <1>2, <1>3 DEF Processes, TasksDone, Sides
<1>7. ASSUME NEW t \in Sides PROVE Sending(t)' /\ Receiving(t)'
  <2>1. CASE t = s
    BY <1>1, <1>2, <1>3, <1>4, <2>1, SidesAre DEF Sending, Receiving, Source, SourceDone, OutputGone
  <2>2. CASE t # s
    BY <1>1, <1>2, <1>3, <1>4, <2>2, SidesAre DEF Sending, Receiving, Source, SourceDone, OutputGone, Peer
  <2> QED
    BY <2>1, <2>2
<1> QED
  BY <1>5, <1>6, <1>7 DEF IInv

\* A read of the stream keeps the invariant.
LEMMA RecvReadStep ==
    ASSUME IInv, NEW s \in Sides, RecvRead(s)
    PROVE  IInv'
<1> DEFINE o == Peer(s)
<1>1. /\ TypeOK /\ Processes /\ \A t \in Sides : Sending(t) /\ Receiving(t)
      /\ MaxInFlight \in Nat \ {0} /\ stream[s] \in Progress /\ stream[Peer(s)] \in Progress
  BY PipeAssumption, SidesAre DEF IInv, TypeOK
<1>2. /\ UNCHANGED <<kind, inSize, typed, stdinOpen, send, conn, cli, worker, child, timer, cancel, outputFailed, inputFailed>>
      /\ recv[s] = "read" /\ stream[o].got = stream[o].written /\ o \in Sides
  BY <1>1, SidesAre DEF RecvRead, AfterRemoteEnd, Receiving, inputVars, procVars, childVars, failures
<1>3. CASE UNCHANGED stream /\ RecvBecomes(s, "done") /\ (Cancelled(s) \/ StreamEnded(s))
  <2>1. recv' = [recv EXCEPT ![s] = "done"] /\ recv \in [Sides -> {"none", "read", "write", "done"}]
    BY <1>1, <1>3 DEF RecvBecomes, TypeOK
  <2>2. TypeOK'
    BY <1>1, <1>2, <1>3, <2>1 DEF TypeOK
  <2>3. Processes'
    BY <1>1, <1>2, <1>3, <2>1 DEF Processes, TasksDone, Sides
  <2>4. conn = "up" /\ ~OutputGone(s) => stream[o].fin /\ stream[o].written = stream[o].sent
    <3>1. CASE Cancelled(s)
      BY <1>1, <3>1 DEF Cancelled, OutputGone, Processes
    <3>2. CASE StreamEnded(s)
      <4>1. stream[o].arrived >= stream[o].got
        BY <1>1, <1>2 DEF TypeOK
      <4>2. stream[o].arrived \in Nat /\ stream[o].got \in Nat
        BY <1>1 DEF Progress
      <4>3. ~(stream[o].arrived > stream[o].got)
            /\ (conn = "lost" \/ (stream[o].fin /\ stream[o].arrived = stream[o].sent))
        BY <3>2 DEF StreamEnded, Unread
      <4> QED
        BY <1>2, <4>1, <4>2, <4>3
    <3> QED
      BY <1>3, <3>1, <3>2
  <2>5. ASSUME NEW t \in Sides PROVE Sending(t)' /\ Receiving(t)'
    BY <1>1, <1>2, <1>3, <2>1, <2>4 DEF Sending, Receiving, Source, SourceDone, OutputGone
  <2> QED
    BY <2>2, <2>3, <2>5 DEF IInv
<1>4. CASE stream' = [stream EXCEPT ![o].got = stream[o].got + 1] /\ RecvBecomes(s, "write") /\ Unread(s)
  <2>1. recv' = [recv EXCEPT ![s] = "write"] /\ recv \in [Sides -> {"none", "read", "write", "done"}]
    BY <1>1, <1>4 DEF RecvBecomes, TypeOK
  <2>2. stream[o].got + 1 \in Nat /\ stream[o].got + 1 <= stream[o].arrived
    BY <1>1, <1>4 DEF Progress, Unread
  <2>3. /\ stream' \in [Sides -> Progress] /\ \A t \in Sides : t # o => stream'[t] = stream[t]
        /\ stream'[o].got = stream[o].got + 1
        /\ stream'[o].taken = stream[o].taken /\ stream'[o].sent = stream[o].sent
        /\ stream'[o].arrived = stream[o].arrived /\ stream'[o].written = stream[o].written
        /\ stream'[o].inFlight = stream[o].inFlight /\ stream'[o].fin = stream[o].fin
    BY <1>1, <1>2, <1>4, <2>2, GotMoves
  <2>4. TypeOK'
    BY <1>1, <1>2, <2>1, <2>2, <2>3 DEF TypeOK, Progress, Sides
  <2>5. Processes'
    BY <1>1, <1>2, <2>1, <2>3 DEF Processes, TasksDone, Sides
  <2> HIDE DEF o
  <2>6. ASSUME NEW t \in Sides PROVE Sending(t)' /\ Receiving(t)'
    <3>1. CASE t = s
      BY <1>1, <1>2, <2>1, <2>3, <3>1, SidesAre DEF Sending, Receiving, Source, SourceDone, OutputGone, o
    <3>2. CASE t = o
      BY <1>1, <1>2, <2>1, <2>3, <3>2, SidesAre DEF Sending, Receiving, Source, SourceDone, OutputGone, o
    <3> QED
      BY <3>1, <3>2, SidesAre DEF o
  <2> QED
    BY <2>4, <2>5, <2>6 DEF IInv
<1> QED
  BY <1>3, <1>4 DEF RecvRead

\* A write to the output keeps the invariant.
LEMMA RecvWriteStep ==
    ASSUME IInv, NEW s \in Sides, RecvWrite(s)
    PROVE  IInv'
<1> DEFINE o == Peer(s)
<1>1. /\ TypeOK /\ Processes /\ \A t \in Sides : Sending(t) /\ Receiving(t)
      /\ MaxInFlight \in Nat \ {0} /\ stream[s] \in Progress /\ stream[Peer(s)] \in Progress
  BY PipeAssumption, SidesAre DEF IInv, TypeOK
<1>2. /\ UNCHANGED <<kind, inSize, typed, stdinOpen, send, conn, cli, worker, child, timer, cancel,
                     inputFailed>>
      /\ recv[s] = "write" /\ stream[o].got = stream[o].written + 1 /\ o \in Sides
  BY <1>1, SidesAre DEF RecvWrite, Receiving, inputVars, procVars, childVars, failures
<1>3. CASE UNCHANGED stream /\ RecvBecomes(s, "done") /\ outputFailed' \in BOOLEAN
           /\ (outputFailed => outputFailed')
           /\ (Broken(s) \/ (s = "cli" /\ outputFailed'))
  <2>1. recv' = [recv EXCEPT ![s] = "done"] /\ recv \in [Sides -> {"none", "read", "write", "done"}]
    BY <1>1, <1>3 DEF RecvBecomes, TypeOK
  <2>2. TypeOK'
    BY <1>1, <1>2, <1>3, <2>1 DEF TypeOK
  <2>3. Processes'
    BY <1>1, <1>2, <1>3, <2>1 DEF Processes, TasksDone, Sides
  <2>4. OutputGone(s)'
    BY <1>2, <1>3 DEF OutputGone, Broken
  <2>5. ASSUME NEW t \in Sides PROVE Sending(t)' /\ Receiving(t)'
    <3>1. CASE t = s
      BY <1>1, <1>2, <1>3, <2>1, <2>4, <3>1 DEF Sending, Receiving, Source, SourceDone
    <3>2. CASE t # s
      BY <1>1, <1>2, <1>3, <2>1, <3>2 DEF Sending, Receiving, Source, SourceDone, OutputGone
    <3> QED
      BY <3>1, <3>2
  <2> QED
    BY <2>2, <2>3, <2>5 DEF IInv
<1>4. CASE stream' = [stream EXCEPT ![o].written = stream[o].written + 1] /\ RecvBecomes(s, "read")
           /\ UNCHANGED outputFailed
  <2>1. recv' = [recv EXCEPT ![s] = "read"] /\ recv \in [Sides -> {"none", "read", "write", "done"}]
    BY <1>1, <1>4 DEF RecvBecomes, TypeOK
  <2>2. stream[o].written + 1 \in Nat
    BY <1>1 DEF Progress
  <2>3. /\ stream' \in [Sides -> Progress] /\ \A t \in Sides : t # o => stream'[t] = stream[t]
        /\ stream'[o].written = stream[o].written + 1
        /\ stream'[o].taken = stream[o].taken /\ stream'[o].sent = stream[o].sent
        /\ stream'[o].arrived = stream[o].arrived /\ stream'[o].got = stream[o].got
        /\ stream'[o].inFlight = stream[o].inFlight /\ stream'[o].fin = stream[o].fin
    BY <1>1, <1>2, <1>4, <2>2, WrittenMoves
  <2>4. TypeOK'
    BY <1>1, <1>2, <1>4, <2>1, <2>2, <2>3 DEF TypeOK, Progress, Sides
  <2>5. Processes'
    BY <1>1, <1>2, <1>4, <2>1, <2>3 DEF Processes, TasksDone, Sides
  <2> HIDE DEF o
  <2>6. ASSUME NEW t \in Sides PROVE Sending(t)' /\ Receiving(t)'
    <3>1. CASE t = s
      BY <1>1, <1>2, <1>4, <2>1, <2>3, <3>1, SidesAre DEF Sending, Receiving, Source, SourceDone, OutputGone, o
    <3>2. CASE t = o
      BY <1>1, <1>2, <1>4, <2>1, <2>3, <3>2, SidesAre DEF Sending, Receiving, Source, SourceDone, OutputGone, o
    <3> QED
      BY <3>1, <3>2, SidesAre DEF o
  <2> QED
    BY <2>4, <2>5, <2>6 DEF IInv
<1> QED
  BY <1>1, <1>3, <1>4 DEF RecvWrite, TypeOK

\* An arrival keeps the invariant.
LEMMA ArriveStep ==
    ASSUME IInv, NEW s \in Sides, Arrive(s)
    PROVE  IInv'
<1>1. /\ TypeOK /\ Processes /\ \A t \in Sides : Sending(t) /\ Receiving(t)
      /\ MaxInFlight \in Nat \ {0} /\ stream[s] \in Progress /\ stream[Peer(s)] \in Progress
  BY PipeAssumption, SidesAre DEF IInv, TypeOK
<1>2. /\ UNCHANGED <<kind, inSize, typed, stdinOpen, send, recv, conn, cli, worker, child, timer, cancel,
                     outputFailed, inputFailed>>
      /\ stream' = [stream EXCEPT ![s].arrived = stream[s].arrived + 1]
      /\ stream[s].arrived < stream[s].sent
  BY DEF Arrive, inputVars, procVars, childVars, failures
<1>3. stream[s].arrived + 1 \in Nat /\ stream[s].sent \in Nat
  BY <1>1 DEF Progress
<1>4. /\ stream' \in [Sides -> Progress] /\ \A t \in Sides : t # s => stream'[t] = stream[t]
      /\ stream'[s].arrived = stream[s].arrived + 1
      /\ stream'[s].taken = stream[s].taken /\ stream'[s].sent = stream[s].sent
      /\ stream'[s].got = stream[s].got /\ stream'[s].written = stream[s].written
      /\ stream'[s].inFlight = stream[s].inFlight /\ stream'[s].fin = stream[s].fin
  BY <1>1, <1>2, <1>3, ArrivedMoves
<1>5. TypeOK'
  BY <1>1, <1>2, <1>3, <1>4 DEF TypeOK, Progress, Sides
<1>6. Processes'
  BY <1>1, <1>2 DEF Processes, TasksDone
<1>7. ASSUME NEW t \in Sides PROVE Sending(t)' /\ Receiving(t)'
  <2>1. CASE t = s
    BY <1>1, <1>2, <1>4, <2>1, SidesAre DEF Sending, Receiving, Source, SourceDone, OutputGone
  <2>2. CASE t # s
    BY <1>1, <1>2, <1>4, <2>2, SidesAre DEF Sending, Receiving, Source, SourceDone, OutputGone, Peer
  <2> QED
    BY <2>1, <2>2
<1> QED
  BY <1>5, <1>6, <1>7 DEF IInv

\* A completed send keeps the invariant.
LEMMA CompleteStep ==
    ASSUME IInv, NEW s \in Sides, Complete(s)
    PROVE  IInv'
<1>1. /\ TypeOK /\ Processes /\ \A t \in Sides : Sending(t) /\ Receiving(t)
      /\ MaxInFlight \in Nat \ {0} /\ stream[s] \in Progress
  BY PipeAssumption DEF IInv, TypeOK
<1>2. /\ UNCHANGED <<kind, inSize, typed, stdinOpen, send, recv, conn, cli, worker, child, timer, cancel,
                     outputFailed, inputFailed>>
      /\ stream' = [stream EXCEPT ![s].inFlight = stream[s].inFlight - 1] /\ stream[s].inFlight > 0
  BY DEF Complete, inputVars, procVars, childVars, failures
<1>3. stream[s].inFlight - 1 \in Nat /\ stream[s].inFlight \in Nat
  BY <1>1, <1>2 DEF Progress
<1>4. /\ stream' \in [Sides -> Progress] /\ \A t \in Sides : t # s => stream'[t] = stream[t]
      /\ stream'[s].inFlight = stream[s].inFlight - 1
      /\ stream'[s].taken = stream[s].taken /\ stream'[s].sent = stream[s].sent
      /\ stream'[s].arrived = stream[s].arrived /\ stream'[s].got = stream[s].got
      /\ stream'[s].written = stream[s].written /\ stream'[s].fin = stream[s].fin
  BY <1>1, <1>2, <1>3, InFlightMoves
<1>5. TypeOK'
  BY <1>1, <1>2, <1>3, <1>4 DEF TypeOK, Progress, Sides
<1>6. Processes'
  BY <1>1, <1>2 DEF Processes, TasksDone
<1>7. ASSUME NEW t \in Sides PROVE Sending(t)' /\ Receiving(t)'
  <2>1. \A u \in Sides : /\ stream'[u].taken = stream[u].taken /\ stream'[u].sent = stream[u].sent
                        /\ stream'[u].got = stream[u].got /\ stream'[u].written = stream[u].written
                        /\ stream'[u].fin = stream[u].fin
    BY <1>4
  <2> QED
    BY <1>1, <1>2, <2>1, SidesAre DEF Sending, Receiving, Source, SourceDone, OutputGone, Sides
<1> QED
  BY <1>5, <1>6, <1>7 DEF IInv

-----------------------------------------------------------------------------
\* The steps of the processes, of the command and of the environment

\* While the command runs and the connection is up, a StdinEof is behind the
\* last unit of the CLI's stdin: the whole of InputWhole.
LEMMA InputBehindEof ==
    ASSUME IInv, child.state = "running", StdinEof, conn = "up", "cli" \notin inputFailed
    PROVE  child.consumed = inSize
<1>1. /\ TypeOK /\ Processes /\ Sending("cli") /\ Receiving("worker")
      /\ "cli" \in Sides /\ Peer("worker") = "cli"
  BY DEF IInv, Sides, Peer
<1>2. stream["cli"].fin /\ stream["cli"].written = stream["cli"].sent
  BY <1>1 DEF StdinEof, Receiving, OutputGone
<1>3. stream["cli"].taken = stream["cli"].sent /\ ~stdinOpen /\ stream["cli"].taken = typed
  BY <1>1, <1>2 DEF Sending, SourceDone
<1> QED
  BY <1>1, <1>2, <1>3 DEF StdinEof, Processes

\* The steps of run_pipe and of the two programs around it keep the invariant.
LEMMA ProcessStep ==
    ASSUME IInv, CliCompletes \/ WorkerNext
    PROVE  IInv'
<1>1. TypeOK /\ Processes /\ \A t \in Sides : Sending(t) /\ Receiving(t)
  BY DEF IInv
<1> USE DEF inputVars, taskVars, procVars, childVars, failures
<1>2. CASE CliCompletes \/ WorkerFails \/ WorkerEnds \/ ChildWaited \/ DrainTimeout
  <2>1. /\ UNCHANGED <<kind, inSize, typed, stdinOpen, send, recv, stream, conn, child, outputFailed, inputFailed>>
        /\ cancel => cancel'
    BY <1>2 DEF CliCompletes, WorkerFails, WorkerEnds, ChildWaited, DrainTimeout
  <2>2. TypeOK'
    BY <1>1, <1>2, <2>1 DEF TypeOK, CliCompletes, WorkerFails, WorkerEnds, ChildWaited, DrainTimeout
  <2>3. Processes'
    BY <1>1, <1>2, <2>1 DEF Processes, TasksDone, CliCompletes, WorkerFails, WorkerEnds, ChildWaited, DrainTimeout
  <2>4. \A t \in Sides : Sending(t)' /\ Receiving(t)'
    BY <1>1, <2>1 DEF Sending, Receiving, Source, SourceDone, OutputGone
  <2> QED
    BY <2>2, <2>3, <2>4 DEF IInv
<1>3. CASE WorkerStarts
  <2>1. /\ UNCHANGED <<kind, inSize, typed, stdinOpen, stream, conn, cli, timer, cancel, outputFailed, inputFailed>>
        /\ send' = [send EXCEPT !["worker"] = "read"] /\ recv' = [recv EXCEPT !["worker"] = "read"]
        /\ worker = "start" /\ worker' = "running"
    BY <1>3 DEF WorkerStarts
  <2>2. /\ child' \in [state : {"none", "running", "exited"}, consumed : Nat, produced : Nat]
        /\ child'.consumed = child.consumed /\ child'.produced = child.produced
        /\ child'.state = IF kind = "none" THEN "none" ELSE "running"
    BY <1>1, <1>3 DEF TypeOK, WorkerStarts
  <2>3. send["worker"] = "none" /\ recv["worker"] = "none" /\ child.state = "none"
    BY <1>1, <2>1 DEF Processes
  <2>4. TypeOK'
    BY <1>1, <2>1, <2>2 DEF TypeOK, Sides
  <2>5. Processes'
    BY <1>1, <2>1, <2>2, <2>3 DEF Processes, TasksDone, Sides, TypeOK
  <2>6. ASSUME NEW t \in Sides PROVE Sending(t)' /\ Receiving(t)'
    <3>1. CASE t = "cli"
      BY <1>1, <2>1, <2>2, <3>1 DEF Sending, Receiving, Source, SourceDone, OutputGone, TypeOK
    <3>2. CASE t = "worker"
      BY <1>1, <2>1, <2>2, <2>3, <3>2 DEF Sending, Receiving, Source, SourceDone, OutputGone, TypeOK
    <3> QED
      BY <3>1, <3>2, SidesAre
  <2> QED
    BY <2>4, <2>5, <2>6 DEF IInv
<1> QED
  BY <1>2, <1>3 DEF WorkerNext

\* The remote command keeps the invariant, whatever it does.
LEMMA ChildStep ==
    ASSUME IInv, ChildNext
    PROVE  IInv'
<1>1. TypeOK /\ Processes /\ \A t \in Sides : Sending(t) /\ Receiving(t)
  BY DEF IInv
<1>2. /\ UNCHANGED <<kind, inSize, typed, stdinOpen, send, recv, stream, conn, cli, worker, timer, cancel, outputFailed, inputFailed>>
      /\ child.state = "running"
  BY DEF ChildNext, ChildRead, ChildWrite, ChildExit, inputVars, taskVars, procVars, failures
<1>3. child.consumed \in Nat /\ child.produced \in Nat
      /\ child \in [state : {"none", "running", "exited"}, consumed : Nat, produced : Nat]
  BY <1>1 DEF TypeOK
<1>4. CASE ChildRead
  <2>1. child' = [child EXCEPT !.consumed = child.consumed + 1] /\ child.consumed < stream["cli"].written
    BY <1>4 DEF ChildRead
  <2>2. /\ child' \in [state : {"none", "running", "exited"}, consumed : Nat, produced : Nat]
        /\ child'.consumed = child.consumed + 1 /\ child'.produced = child.produced
        /\ child'.state = child.state
    BY <1>3, <2>1
  <2>3. TypeOK'
    BY <1>1, <1>2, <1>3, <2>1, <2>2 DEF TypeOK, Sides, Progress
  <2>4. Processes'
    BY <1>1, <1>2, <2>2 DEF Processes, TasksDone
  <2>5. \A t \in Sides : Sending(t)' /\ Receiving(t)'
    BY <1>1, <1>2, <2>2 DEF Sending, Receiving, Source, SourceDone, OutputGone
  <2> QED
    BY <2>3, <2>4, <2>5 DEF IInv
<1>5. CASE ChildWrite
  <2>1. child' = [child EXCEPT !.produced = child.produced + 1] /\ ~StdoutGone
    BY <1>5 DEF ChildWrite
  <2>2. /\ child' \in [state : {"none", "running", "exited"}, consumed : Nat, produced : Nat]
        /\ child'.consumed = child.consumed /\ child'.produced = child.produced + 1
        /\ child'.state = child.state
    BY <1>3, <2>1
  <2>3. TypeOK'
    BY <1>1, <1>2, <2>2 DEF TypeOK
  <2>4. Processes'
    BY <1>1, <1>2, <2>2 DEF Processes, TasksDone
  <2>5. ASSUME NEW t \in Sides PROVE Sending(t)' /\ Receiving(t)'
    <3>1. stream[t].taken \in Nat /\ stream[t].taken <= Source(t)
      BY <1>1 DEF Sending, TypeOK, Progress
    <3>2. stream[t].taken <= Source(t)'
      BY <1>2, <1>3, <2>2, <3>1 DEF Source
    <3> QED
      BY <1>1, <1>2, <2>1, <2>2, <3>2 DEF Sending, Receiving, SourceDone, OutputGone, StdoutGone
  <2> QED
    BY <2>3, <2>4, <2>5 DEF IInv
<1>6. CASE ChildExit
  <2>1. child' = [child EXCEPT !.state = "exited"]
    BY <1>6 DEF ChildExit
  <2>2. /\ child' \in [state : {"none", "running", "exited"}, consumed : Nat, produced : Nat]
        /\ child'.consumed = child.consumed /\ child'.produced = child.produced
        /\ child'.state = "exited"
    BY <1>3, <2>1
  <2>3. TypeOK'
    BY <1>1, <1>2, <2>2 DEF TypeOK
  <2>4. ASSUME kind \in {"echo", "digest"}, conn = "up", inputFailed = {} PROVE child.consumed = inSize
    <3>1. ~StdoutGone
      BY <1>1, <1>2, <2>4 DEF StdoutGone, Sending, SourceDone, Sides
    <3>2. StdinEof
      BY <1>6, <2>4, <3>1 DEF ChildExit
    <3> QED
      BY <1>2, <2>4, <3>2, InputBehindEof
  <2>5. Processes'
    BY <1>1, <1>2, <2>2, <2>4 DEF Processes, TasksDone
  <2>6. \A t \in Sides : Sending(t)' /\ Receiving(t)'
    BY <1>1, <1>2, <2>2 DEF Sending, Receiving, Source, SourceDone, OutputGone
  <2> QED
    BY <2>3, <2>5, <2>6 DEF IInv
<1> QED
  BY <1>4, <1>5, <1>6 DEF ChildNext

\* The user and the end of the connection keep the invariant.
LEMMA EnvironmentStep ==
    ASSUME IInv, CloseConnection \/ LoseConnection \/ Type \/ EndStdin
    PROVE  IInv'
<1>1. TypeOK /\ Processes /\ \A t \in Sides : Sending(t) /\ Receiving(t)
  BY DEF IInv
<1>2. UNCHANGED <<kind, inSize, send, recv, cli, worker, child, timer, cancel, outputFailed, inputFailed>>
  BY DEF CloseConnection, LoseConnection, Drop, Type, EndStdin, inputVars, taskVars, procVars, childVars, failures
<1>3. CASE Drop
  <2>1. conn' = "lost" /\ UNCHANGED <<typed, stdinOpen>>
    BY <1>3 DEF Drop, inputVars
  <2>2. /\ stream' \in [Sides -> Progress]
        /\ \A t \in Sides : /\ stream'[t].inFlight = 0
                            /\ stream'[t].taken = stream[t].taken /\ stream'[t].sent = stream[t].sent
                            /\ stream'[t].arrived = stream[t].arrived /\ stream'[t].got = stream[t].got
                            /\ stream'[t].written = stream[t].written /\ stream'[t].fin = stream[t].fin
    BY <1>1, <1>3 DEF Drop, TypeOK, Progress
  <2>3. TypeOK'
    BY <1>1, <1>2, <2>1, <2>2, PipeAssumption DEF TypeOK, Sides
  <2>4. Processes'
    BY <1>1, <1>2, <2>1 DEF Processes, TasksDone
  <2>5. \A t \in Sides : Sending(t)' /\ Receiving(t)'
    BY <1>1, <1>2, <2>1, <2>2, SidesAre DEF Sending, Receiving, Source
  <2> QED
    BY <2>3, <2>4, <2>5 DEF IInv
<1>4. CASE Type
  <2>1. /\ UNCHANGED <<conn, stdinOpen, stream>> /\ stdinOpen /\ typed' = typed + 1 /\ typed < inSize
        /\ typed \in Nat /\ inSize \in Nat
    BY <1>1, <1>4, PipeAssumption DEF Type, TypeOK, taskVars
  <2>2. TypeOK'
    BY <1>1, <1>2, <2>1 DEF TypeOK
  <2>3. Processes'
    BY <1>1, <1>2, <2>1 DEF Processes, TasksDone
  <2>4. ASSUME NEW t \in Sides PROVE Sending(t)' /\ Receiving(t)'
    <3>1. stream[t].taken \in Nat /\ stream[t].taken <= Source(t)
      BY <1>1 DEF Sending, TypeOK, Progress
    <3>2. stream[t].taken <= Source(t)'
      BY <1>2, <2>1, <3>1 DEF Source
    <3> QED
      BY <1>1, <1>2, <2>1, <3>2 DEF Sending, Receiving, SourceDone, OutputGone
  <2> QED
    BY <2>2, <2>3, <2>4 DEF IInv
<1>5. CASE EndStdin
  <2>1. UNCHANGED <<conn, typed, stream>> /\ typed = inSize /\ stdinOpen' = FALSE
    BY <1>5 DEF EndStdin, taskVars
  <2>2. TypeOK'
    BY <1>1, <1>2, <2>1 DEF TypeOK
  <2>3. Processes'
    BY <1>1, <1>2, <2>1 DEF Processes, TasksDone
  <2>4. \A t \in Sides : Sending(t)' /\ Receiving(t)'
    BY <1>1, <1>2, <2>1 DEF Sending, Receiving, Source, SourceDone, OutputGone
  <2> QED
    BY <2>2, <2>3, <2>4 DEF IInv
<1> QED
  BY <1>3, <1>4, <1>5 DEF CloseConnection, LoseConnection

-----------------------------------------------------------------------------
\* Theorems

\* The invariant holds at the start.
LEMMA InitInvariant == Init => IInv
<1> SUFFICES ASSUME Init PROVE IInv
  OBVIOUS
<1>1. AtStart \in Progress /\ \A s \in Sides : stream[s] = AtStart
  BY DEF Init, AtStart, Progress
<1>2. \A s \in Sides : stream[s].taken = 0 /\ stream[s].sent = 0 /\ stream[s].arrived = 0
                       /\ stream[s].got = 0 /\ stream[s].written = 0 /\ stream[s].inFlight = 0 /\ ~stream[s].fin
  BY <1>1 DEF AtStart
<1>3. inSize \in Nat /\ MaxInFlight \in Nat
  BY PipeAssumption DEF Init
<1>4. child \in [state : {"none", "running", "exited"}, consumed : Nat, produced : Nat]
      /\ child.state = "none" /\ child.consumed = 0 /\ child.produced = 0
  BY DEF Init
<1>5. /\ send = [s \in Sides |-> IF s = "cli" THEN "read" ELSE "none"]
      /\ recv = [s \in Sides |-> IF s = "cli" THEN "read" ELSE "none"]
      /\ stream \in [Sides -> Progress]
  BY <1>1 DEF Init
<1>6. TypeOK
  <2>1. /\ send \in [Sides -> {"none", "read", "write", "shutdown", "done"}]
        /\ recv \in [Sides -> {"none", "read", "write", "done"}]
    BY <1>5
  <2>2. kind \in Kinds /\ inSize \in InSizes /\ typed \in 0 .. inSize /\ stdinOpen \in BOOLEAN
    BY <1>3 DEF Init
  <2>3. /\ conn \in {"up", "lost"} /\ cli \in {"running", "completed"}
        /\ worker \in {"start", "running", "ended"}
        /\ timer \in {"off", "running", "over"} /\ cancel \in BOOLEAN /\ outputFailed \in BOOLEAN
        /\ inputFailed \subseteq Sides
    BY DEF Init
  <2>4. child.consumed <= stream["cli"].written
    BY <1>2, <1>4, SidesAre
  <2> QED
    BY <1>2, <1>3, <1>4, <1>5, <2>1, <2>2, <2>3, <2>4 DEF TypeOK
<1>7. Processes
  BY <1>4, <1>5 DEF Init, Processes, Sides
<1>8. ASSUME NEW s \in Sides PROVE Sending(s) /\ Receiving(s)
  BY <1>2, <1>4, <1>5, SidesAre DEF Init, Sending, Receiving, Source, Sides
<1> QED
  BY <1>6, <1>7, <1>8 DEF IInv

\* The parts of the invariant together.
LEMMA InvariantStep == IInv /\ [Next]_vars => IInv'
<1> SUFFICES ASSUME IInv, [Next]_vars PROVE IInv'
  OBVIOUS
<1>1. CASE UNCHANGED vars
  BY <1>1 DEF vars, inputVars, taskVars, procVars, childVars, failures, IInv, TypeOK, Processes, TasksDone,
              Sending, Receiving, Source, SourceDone, OutputGone
<1>2. ASSUME NEW s \in Sides, SendNext(s) \/ SendReadFails(s) \/ RecvNext(s) \/ Arrive(s) \/ Complete(s)
      PROVE IInv'
  BY <1>2, SendReadStep, SendReadFailsStep, SendWriteStep, SendShutdownStep, RecvReadStep, RecvWriteStep,
     ArriveStep, CompleteStep
     DEF SendNext, RecvNext
<1>3. CASE CliCompletes \/ WorkerNext
  BY <1>3, ProcessStep
<1>4. CASE ChildNext
  BY <1>4, ChildStep
<1>5. CASE CloseConnection \/ LoseConnection \/ Type \/ EndStdin
  BY <1>5, EnvironmentStep
<1> QED
  BY <1>1, <1>2, <1>3, <1>4, <1>5 DEF Next, Finished

\* Where the two tasks of each side are tells what has gone through them, in
\* every state of every run.
THEOREM InvariantHolds == Spec => []IInv
<1>1. Init => IInv
  BY InitInvariant
<1>2. IInv /\ [Next]_vars => IInv'
  BY InvariantStep
<1> QED
  BY <1>1, <1>2, PTL DEF Spec

\* A direction never delivers what was not sent nor keeps more than the limit
\* in flight (the loops of run_pipe, poll_write).
THEOREM TypeCorrect == Spec => []TypeOK
<1>1. IInv => TypeOK
  BY DEF IInv
<1> QED
  BY <1>1, InvariantHolds, PTL

\* When the CLI reports completion the command's output is at its stdout, up to
\* the exceptions that OutputWhole names (run_pipe's second task).
THEOREM OutputCorrect == Spec => []OutputWhole
<1>1. IInv => OutputWhole
  <2> SUFFICES ASSUME IInv, cli = "completed", conn = "up", ~outputFailed, "worker" \notin inputFailed
               PROVE  \/ child.state = "exited" /\ Printed = child.produced
                      \/ kind = "none" /\ Printed = 0
                      \/ OutputLeft /\ cancel
    BY DEF IInv, TypeOK, OutputWhole
  <2>1. /\ TypeOK /\ Processes /\ Sending("worker") /\ Receiving("cli")
        /\ "worker" \in Sides /\ Peer("cli") = "worker" /\ stream["worker"] \in Progress
    BY DEF IInv, TypeOK, Sides, Peer
  <2>2. stream["worker"].fin /\ stream["worker"].written = stream["worker"].sent
    BY <2>1 DEF Receiving, OutputGone, Processes, TasksDone
  <2>3. /\ send["worker"] = "done" /\ stream["worker"].taken = stream["worker"].sent
        /\ stream["worker"].taken <= child.produced /\ SourceDone("worker")
    BY <2>1, <2>2 DEF Sending, Source
  <2>4. CASE child.state = "none"
    BY <2>1, <2>2, <2>3, <2>4 DEF Processes, Printed, Progress
  <2>5. child.state # "running" /\ (cancel \/ stream["worker"].taken = child.produced)
    BY <2>3 DEF SourceDone
  <2>6. child.produced \in Nat /\ stream["worker"].taken \in Nat
    BY <2>1 DEF TypeOK, Progress
  <2>7. CASE child.state = "exited"
    <3>1. CASE stream["worker"].taken = child.produced
      BY <2>2, <2>3, <2>7, <3>1 DEF Printed
    <3>2. CASE stream["worker"].taken # child.produced
      BY <2>3, <2>5, <2>6, <3>2 DEF OutputLeft
    <3> QED
      BY <3>1, <3>2
  <2> QED
    BY <2>1, <2>4, <2>5, <2>7 DEF TypeOK
<1> QED
  BY <1>1, InvariantHolds, PTL

\* No command sees its input end early, unless the connection is lost or the
\* CLI's stdin cannot be read (the end of the other direction does not shut its
\* stdin; run_pipe's Err arm does).
THEOREM InputCorrect == Spec => []InputWhole
<1>1. IInv => InputWhole
  BY InputBehindEof DEF IInv, TypeOK, InputWhole
<1> QED
  BY <1>1, InvariantHolds, PTL

\* A command that reads its whole input has done so when the CLI reports
\* completion, up to the exceptions that InputConsumed names.
THEOREM ConsumedCorrect == Spec => []InputConsumed
<1>1. IInv => InputConsumed
  <2> SUFFICES ASSUME IInv, cli = "completed", kind \in {"echo", "digest"}, conn = "up", ~outputFailed,
                      inputFailed = {}
               PROVE  child.consumed = inSize
    BY DEF IInv, TypeOK, InputConsumed
  <2>1. /\ TypeOK /\ Processes /\ Sending("worker") /\ Receiving("cli")
        /\ "worker" \in Sides /\ Peer("cli") = "worker"
    BY DEF IInv, Sides, Peer
  <2>2. send["worker"] = "done"
    BY <2>1 DEF Receiving, OutputGone, Processes, TasksDone, Sending
  <2>3. child.state = "exited"
    BY <2>1, <2>2 DEF Sending, SourceDone, Processes, TypeOK
  <2> QED
    BY <2>1, <2>3 DEF Processes
<1> QED
  BY <1>1, InvariantHolds, PTL
=============================================================================

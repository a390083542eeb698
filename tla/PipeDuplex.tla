----------------------------- MODULE PipeDuplex -----------------------------
(***************************************************************************)
(* quic pipe: the CLI's stdin to a remote command, the command's output    *)
(* back, over the two directions of one stream.                            *)
(*                                                                         *)
(* Both sides run the same run_pipe: a task that copies its input to the   *)
(* stream and one that copies the stream to its output.  At the worker     *)
(* these are the pipes of a child process, and five seconds after that has *)
(* exited both tasks are cancelled.  A ByteStream delivers in order, so    *)
(* what is where is told by how many units have come how far.              *)
(***************************************************************************)
EXTENDS Naturals, FiniteSets

CONSTANTS
    Kinds,       \* what the remote command may do
    InSizes,     \* units on the CLI's stdin
    OutSize,     \* units a source writes
    MaxInFlight, \* MAX_IN_FLIGHT_BYTES, in units
    PipeCap,     \* capacity of the pipes of the child
    Loses,       \* the connection may be lost, or closed with bytes under way
    OutputFails, \* the CLI's stdout may fail
    InputFails   \* sides whose input may fail: the CLI's stdin, the child's stdout

\* cat, sha256sum, pg_dump, head; and no command at all.
Commands == {"echo", "digest", "source", "quits", "none"}

ASSUME PipeAssumption ==
    /\ Kinds \subseteq Commands /\ InSizes \subseteq Nat /\ OutSize \in Nat
    /\ MaxInFlight \in Nat \ {0} /\ PipeCap \in Nat \ {0}
    /\ {Loses, OutputFails} \subseteq BOOLEAN /\ InputFails \subseteq {"cli", "worker"}

VARIABLES
    kind, inSize,
    typed,       \* units written to the CLI's stdin so far
    stdinOpen,
    send, recv,  \* per side: its two tasks
    stream,      \* per sending side: how far its units have come
    conn,
    cli, worker, \* the two processes
    child,       \* the command: consumed and produced units
    timer,       \* the five seconds after its exit
    cancel,
    outputFailed, \* history: the CLI could not write its stdout
    inputFailed  \* history: sides that could not read their input

inputVars == <<kind, inSize, typed, stdinOpen>>
taskVars  == <<send, recv, stream>>
procVars  == <<cli, worker>>
childVars == <<child, timer, cancel>>
failures  == <<outputFailed, inputFailed>>
vars == <<inputVars, taskVars, conn, procVars, childVars, failures>>

Sides == {"cli", "worker"}
Peer(s) == IF s = "cli" THEN "worker" ELSE "cli"

\* Taken from the input, accepted by the stream, arrived at the other side,
\* read there, written to its output; in_flight_bytes, which are sent and not
\* completed; and the FIN behind the last unit.
Progress == [taken: Nat, sent: Nat, arrived: Nat, got: Nat, written: Nat, inFlight: Nat, fin: BOOLEAN]
AtStart  == [taken |-> 0, sent |-> 0, arrived |-> 0, got |-> 0, written |-> 0, inFlight |-> 0, fin |-> FALSE]

TypeOK ==
    /\ kind \in Kinds /\ inSize \in InSizes /\ typed \in 0 .. inSize /\ stdinOpen \in BOOLEAN
    /\ send \in [Sides -> {"none", "read", "write", "shutdown", "done"}]
    /\ recv \in [Sides -> {"none", "read", "write", "done"}]
    /\ stream \in [Sides -> Progress]
    /\ \A s \in Sides : LET p == stream[s] IN
         /\ p.taken >= p.sent /\ p.sent >= p.arrived /\ p.arrived >= p.got /\ p.got >= p.written
         /\ p.taken - p.sent <= 1 /\ p.got - p.written <= 1 /\ p.inFlight <= MaxInFlight
    /\ conn \in {"up", "lost"}
    /\ cli \in {"running", "completed"} /\ worker \in {"start", "running", "ended"}
    /\ child \in [state : {"none", "running", "exited"}, consumed : Nat, produced : Nat]
    /\ child.consumed <= stream["cli"].written
    /\ timer \in {"off", "running", "over"} /\ cancel \in BOOLEAN /\ outputFailed \in BOOLEAN
    /\ inputFailed \subseteq Sides

Init ==
    /\ kind \in Kinds /\ inSize \in InSizes /\ typed = 0 /\ stdinOpen = TRUE
    /\ send = [s \in Sides |-> IF s = "cli" THEN "read" ELSE "none"]
    /\ recv = [s \in Sides |-> IF s = "cli" THEN "read" ELSE "none"]
    /\ stream = [s \in Sides |-> AtStart]
    /\ conn = "up" /\ cli = "running" /\ worker = "start"
    /\ child = [state |-> "none", consumed |-> 0, produced |-> 0]
    /\ timer = "off" /\ cancel = FALSE /\ outputFailed = FALSE /\ inputFailed = {}

-----------------------------------------------------------------------------
\* run_pipe

Running(s) == IF s = "cli" THEN cli = "running" ELSE worker = "running"

\* Only the worker's token is ever cancelled.
Cancelled(s) == s = "worker" /\ cancel

\* The input of a side: the CLI's stdin, the child's stdout.  Without a command
\* the worker reads its own stdin, which ssh gives it as empty.
Available(s) == IF s = "cli" THEN typed > stream[s].taken ELSE child.produced > stream[s].taken
InputEnded(s) ==
    /\ ~Available(s)
    /\ IF s = "cli" THEN ~stdinOpen ELSE child.state # "running"

SendBecomes(s, state) == send' = [send EXCEPT ![s] = state]

\* select! is biased: a cancelled token comes before input that is there.
SendRead(s) ==
    /\ Running(s) /\ send[s] = "read"
    /\ \/ (Cancelled(s) \/ InputEnded(s)) /\ SendBecomes(s, "shutdown") /\ UNCHANGED stream
       \/ ~Cancelled(s) /\ Available(s) /\ SendBecomes(s, "write")
          /\ stream' = [stream EXCEPT ![s].taken = @ + 1]
    /\ UNCHANGED <<inputVars, recv, conn, procVars, childVars, failures>>

\* The read fails: the same FIN follows as at the end of the input.
SendReadFails(s) ==
    /\ Running(s) /\ send[s] = "read" /\ ~Cancelled(s) /\ s \in InputFails
    /\ SendBecomes(s, "shutdown") /\ inputFailed' = inputFailed \cup {s}
    /\ UNCHANGED <<inputVars, recv, stream, conn, procVars, childVars, outputFailed>>

\* Variant for the checks: the limit of bytes in flight is not kept.
WritesAnyway(s) == TRUE

CanSend(s) == stream[s].inFlight < MaxInFlight

\* write_all is awaited inside the branch: no cancellation ends it.
SendWrite(s) ==
    /\ Running(s) /\ send[s] = "write"
    /\ IF conn = "lost"
       THEN SendBecomes(s, "shutdown") /\ UNCHANGED stream
       ELSE /\ CanSend(s) /\ SendBecomes(s, "read")
            /\ stream' = [stream EXCEPT ![s].sent = @ + 1, ![s].inFlight = @ + 1]
    /\ UNCHANGED <<inputVars, recv, conn, procVars, childVars, failures>>

\* Variant for the checks: a task that ends drops its half without a FIN.
DropsStream(s) == FALSE

Finishes(s) == TRUE

\* poll_shutdown waits until nothing is in flight.
SendShutdown(s) ==
    /\ Running(s) /\ send[s] = "shutdown" /\ stream[s].inFlight = 0
    /\ SendBecomes(s, "done") /\ stream' = [stream EXCEPT ![s].fin = Finishes(s)]
    /\ UNCHANGED <<inputVars, recv, conn, procVars, childVars, failures>>

\* What a side can read, and the end of it: a lost connection reads as one.
Unread(s) == stream[Peer(s)].arrived > stream[Peer(s)].got

\* Variant for the checks: the FIN overtakes units that are under way.
EndsAtFin(s) == ~Unread(s) /\ (conn = "lost" \/ stream[Peer(s)].fin)

StreamEnded(s) ==
    LET p == stream[Peer(s)] IN
    ~Unread(s) /\ (conn = "lost" \/ (p.fin /\ p.arrived = p.sent))

RecvBecomes(s, state) == recv' = [recv EXCEPT ![s] = state]

\* Variant for the checks: the end of one direction ends the other as well.
EndsSendingToo(s) == [send EXCEPT ![s] = IF @ = "read" THEN "shutdown" ELSE @]

AfterRemoteEnd(s) == send

RecvRead(s) ==
    /\ Running(s) /\ recv[s] = "read"
    /\ \/ Cancelled(s) /\ RecvBecomes(s, "done") /\ UNCHANGED <<send, stream>>
       \/ ~Cancelled(s) /\ StreamEnded(s) /\ RecvBecomes(s, "done")
          /\ send' = AfterRemoteEnd(s) /\ UNCHANGED stream
       \/ ~Cancelled(s) /\ Unread(s) /\ RecvBecomes(s, "write")
          /\ stream' = [stream EXCEPT ![Peer(s)].got = @ + 1] /\ UNCHANGED send
    /\ UNCHANGED <<inputVars, conn, procVars, childVars, failures>>

\* The output of a side: the CLI's stdout, the child's stdin.
Writable(s) ==
    \/ s = "cli" \/ kind = "none"
    \/ child.state = "running" /\ stream["cli"].written - child.consumed < PipeCap
Broken(s) == s = "worker" /\ child.state = "exited"

RecvWrite(s) ==
    /\ Running(s) /\ recv[s] = "write"
    /\ \/ Writable(s) /\ RecvBecomes(s, "read")
          /\ stream' = [stream EXCEPT ![Peer(s)].written = @ + 1] /\ UNCHANGED outputFailed
       \/ Broken(s) /\ RecvBecomes(s, "done") /\ UNCHANGED <<stream, outputFailed>>
       \/ OutputFails /\ s = "cli" /\ RecvBecomes(s, "done")
          /\ outputFailed' = TRUE /\ UNCHANGED stream
    /\ UNCHANGED <<inputVars, send, conn, procVars, childVars, inputFailed>>

\* Variant for the checks: the other direction is not waited for.
SendIsEnough(s) == send[s] = "done"

TasksDone(s) == send[s] = "done" /\ recv[s] = "done"

-----------------------------------------------------------------------------
\* The processes

\* It prints that the stream completed and exits with 0.
CliCompletes ==
    /\ cli = "running" /\ TasksDone("cli")
    /\ cli' = "completed"
    /\ UNCHANGED <<inputVars, taskVars, conn, worker, childVars, failures>>

\* The header of the stream arrives, and the command is started.
WorkerStarts ==
    /\ worker = "start" /\ conn = "up"
    /\ worker' = "running"
    /\ send' = [send EXCEPT !["worker"] = "read"] /\ recv' = [recv EXCEPT !["worker"] = "read"]
    /\ child' = [child EXCEPT !.state = IF kind = "none" THEN "none" ELSE "running"]
    /\ UNCHANGED <<inputVars, stream, conn, cli, timer, cancel, failures>>

\* The header cannot be read.
WorkerFails ==
    /\ worker = "start" /\ conn = "lost"
    /\ worker' = "ended"
    /\ UNCHANGED <<inputVars, taskVars, conn, cli, childVars, failures>>

WorkerEnds ==
    /\ worker = "running" /\ TasksDone("worker") /\ child.state # "running"
    /\ worker' = "ended"
    /\ UNCHANGED <<inputVars, taskVars, conn, cli, childVars, failures>>

\* The task that waited for the child sleeps five seconds.
ChildWaited ==
    /\ worker = "running" /\ child.state = "exited" /\ timer = "off"
    /\ timer' = "running"
    /\ UNCHANGED <<inputVars, taskVars, conn, procVars, child, cancel, failures>>

DrainTimeout ==
    /\ worker = "running" /\ timer = "running"
    /\ timer' = "over" /\ cancel' = TRUE
    /\ UNCHANGED <<inputVars, taskVars, conn, procVars, child, failures>>

-----------------------------------------------------------------------------
\* The command.  Its stdin is at its end when the receiving task has dropped
\* it; its stdout is broken when the sending task has.

StdinEof == recv["worker"] = "done" /\ child.consumed = stream["cli"].written
StdoutGone == send["worker"] \in {"shutdown", "done"}

ChildRead ==
    /\ child.state = "running" /\ kind \in {"echo", "digest", "quits"}
    /\ child.consumed < stream["cli"].written
    /\ child' = [child EXCEPT !.consumed = @ + 1]
    /\ UNCHANGED <<inputVars, taskVars, conn, procVars, timer, cancel, failures>>

Output ==
    CASE kind \in {"echo", "quits"} -> child.consumed
      [] kind = "digest" -> IF StdinEof THEN 1 ELSE 0
      [] OTHER -> OutSize

ChildWrite ==
    /\ child.state = "running" /\ ~StdoutGone
    /\ child.produced < Output /\ child.produced - stream["worker"].taken < PipeCap
    /\ child' = [child EXCEPT !.produced = @ + 1]
    /\ UNCHANGED <<inputVars, taskVars, conn, procVars, timer, cancel, failures>>

ChildExit ==
    /\ child.state = "running"
    /\ \/ kind \in {"echo", "digest"} /\ StdinEof /\ child.produced = Output
       \/ kind = "source" /\ child.produced = Output
       \/ kind = "quits"
       \/ StdoutGone /\ child.produced < Output
    /\ child' = [child EXCEPT !.state = "exited"]
    /\ UNCHANGED <<inputVars, taskVars, conn, procVars, timer, cancel, failures>>

-----------------------------------------------------------------------------
\* The environment

Arrive(s) ==
    /\ conn = "up" /\ stream[s].arrived < stream[s].sent
    /\ stream' = [stream EXCEPT ![s].arrived = @ + 1]
    /\ UNCHANGED <<inputVars, send, recv, conn, procVars, childVars, failures>>

\* SEND_COMPLETE: MsQuic buffers what is sent, so this may come before the
\* arrival, or long after it.
Complete(s) ==
    /\ conn = "up" /\ stream[s].inFlight > 0
    /\ stream' = [stream EXCEPT ![s].inFlight = @ - 1]
    /\ UNCHANGED <<inputVars, send, recv, conn, procVars, childVars, failures>>

\* A connection that is lost completes all sends before its streams end.
Drop ==
    /\ conn = "up" /\ conn' = "lost"
    /\ stream' = [s \in Sides |-> [stream[s] EXCEPT !.inFlight = 0]]
    /\ UNCHANGED <<inputVars, send, recv, procVars, childVars, failures>>

\* A process that has ended has closed its connection, whatever is under way.
Gone == cli = "completed" \/ worker = "ended"
UnderWay == \E s \in Sides : stream[s].arrived < stream[s].sent

CloseConnection == Gone /\ (Loses \/ ~UnderWay) /\ Drop

LoseConnection == Loses /\ Drop

Type ==
    /\ stdinOpen /\ typed < inSize /\ typed' = typed + 1
    /\ UNCHANGED <<kind, inSize, stdinOpen, taskVars, conn, procVars, childVars, failures>>

EndStdin ==
    /\ stdinOpen /\ typed = inSize /\ stdinOpen' = FALSE
    /\ UNCHANGED <<kind, inSize, typed, taskVars, conn, procVars, childVars, failures>>

SendNext(s) == SendRead(s) \/ SendWrite(s) \/ SendShutdown(s)
RecvNext(s) == RecvRead(s) \/ RecvWrite(s)
WorkerNext == WorkerStarts \/ WorkerFails \/ WorkerEnds \/ ChildWaited \/ DrainTimeout
ChildNext == ChildRead \/ ChildWrite \/ ChildExit

Finished == cli = "completed" /\ worker = "ended" /\ UNCHANGED vars

Next ==
    \/ \E s \in Sides : SendNext(s) \/ SendReadFails(s) \/ RecvNext(s) \/ Arrive(s) \/ Complete(s)
    \/ CliCompletes \/ WorkerNext \/ ChildNext
    \/ CloseConnection \/ LoseConnection \/ Type \/ EndStdin \/ Finished

Spec == Init /\ [][Next]_vars

\* Each task is scheduled, sent bytes arrive and are completed, the timer runs off, the command
\* goes on; a user need not type, and no input need fail.
FairSpec ==
    /\ Spec
    /\ \A s \in Sides : WF_vars(SendNext(s)) /\ WF_vars(RecvNext(s))
    /\ \A s \in Sides : WF_vars(Arrive(s)) /\ WF_vars(Complete(s))
    /\ WF_vars(CliCompletes) /\ WF_vars(WorkerNext) /\ WF_vars(ChildNext) /\ WF_vars(CloseConnection)

-----------------------------------------------------------------------------
\* Properties

Printed == stream["worker"].written

\* The sending task of the worker stopped before it had taken all that the
\* command wrote.
OutputLeft == send["worker"] = "done" /\ stream["worker"].taken < child.produced

\* When the CLI reports completion it has written all the command's output,
\* unless the connection ended, its stdout failed, or the worker could not read
\* that output, or gave up draining it after the command had exited.
OutputWhole ==
    cli = "completed" =>
        \/ child.state = "exited" /\ Printed = child.produced
        \/ kind = "none" /\ Printed = 0
        \/ conn = "lost" \/ outputFailed \/ "worker" \in inputFailed
        \/ OutputLeft /\ cancel

\* A command is told the end of its input only behind the last unit of it,
\* unless the connection was lost or the CLI could not read its stdin: neither
\* the end of the other direction nor a failure there cuts it short.
InputWhole ==
    child.state = "running" /\ StdinEof =>
        child.consumed = inSize \/ conn = "lost" \/ "cli" \in inputFailed

\* When the CLI has reported completion, a command that reads its whole input
\* has done so, although the CLI does not wait for its own bytes to arrive,
\* unless the connection, the CLI's stdout or the input of a side failed.
InputConsumed ==
    cli = "completed" /\ kind \in {"echo", "digest"} =>
        child.consumed = inSize \/ conn = "lost" \/ outputFailed \/ inputFailed # {}

\* Once stdin has ended or failed both processes end, however far either
\* direction is held up by the other, by the command or by a connection that is
\* lost.
PipeEnds == (~stdinOpen \/ "cli" \in inputFailed) ~> (cli = "completed" /\ worker = "ended")

\* PROJECT_STATE.md:136-137: the worker drains "child process output without
\* arbitrary premature cancellation".
OutputDrained == ~OutputLeft
=============================================================================

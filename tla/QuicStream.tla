----------------------------- MODULE QuicStream -----------------------------
(***************************************************************************)
(* One bidirectional stream between two machines: at each end the state    *)
(* behind the mutex (StreamShared), the MsQuic callback that changes it    *)
(* and the poll functions of the two halves.                               *)
(*                                                                         *)
(* Every callback and every poll holds the mutex throughout, so each is    *)
(* one step; they interleave freely, and a task that returned Pending runs *)
(* again when its waker is taken, or for no reason at all.                 *)
(***************************************************************************)
EXTENDS Naturals, Sequences

CONSTANTS
    MaxInFlight,      \* MAX_IN_FLIGHT_BYTES
    Total,            \* bound: bytes written at each end
    Chunks,           \* sizes given to poll_write
    ReadSizes,        \* room in the buffers given to poll_read
    Resets            \* the other side may reset a half of the stream

Ends == {"client", "worker"}

Peer(e) == IF e = "client" THEN "worker" ELSE "client"

ASSUME StreamAssumption ==
    /\ Resets \in BOOLEAN /\ MaxInFlight \in Nat \ {0} /\ Total \in [Ends -> Nat]
    /\ Chunks \subseteq Nat \ {0} /\ Chunks # {} /\ ReadSizes \subseteq Nat \ {0}

VARIABLES
    shared,     \* StreamShared of each end
    reader,     \* the task that reads
    writer,     \* the task that writes
    sent, got,  \* bytes accepted by StreamSend, bytes handed to the reader
    wire,       \* bytes on their way to the other end
    pending,    \* the sends whose SEND_COMPLETE is due: where each starts, its size
    fin,        \* StreamShutdown(GRACEFUL) was called
    conn,       \* the connection
    resets,     \* halves of the stream an end was told are reset
    shut        \* ends that had SHUTDOWN_COMPLETE

vars == <<shared, reader, writer, sent, got, wire, pending, fin, conn, resets, shut>>

StreamShared ==
    [recvBuf: Seq(Nat), recvWaker: BOOLEAN, sendWaker: BOOLEAN,
     closedRead: BOOLEAN, closedWrite: BOOLEAN, inFlight: Nat, error: BOOLEAN]

ReaderStates == {"running", "parked", "eof", "failed"}
WriterOps    == {"idle", "write", "flush", "shutdown", "closed", "failed"}

TypeOK ==
    /\ shared \in [Ends -> StreamShared]
    /\ reader \in [Ends -> ReaderStates]
    /\ writer \in [Ends -> [op: WriterOps, size: Nat, parked: BOOLEAN]]
    /\ sent \in [Ends -> Nat] /\ \A e \in Ends : sent[e] <= Total[e]
    /\ got \in [Ends -> Seq(Nat)] /\ wire \in [Ends -> Seq(Nat)]
    /\ pending \in [Ends -> Seq([from: Nat, size: Nat])]
    /\ fin \in [Ends -> BOOLEAN] /\ conn \in {"up", "lost"}
    /\ resets \subseteq Ends \X {"send", "receive"} /\ shut \subseteq Ends

NewStream ==
    [recvBuf |-> <<>>, recvWaker |-> FALSE, sendWaker |-> FALSE,
     closedRead |-> FALSE, closedWrite |-> FALSE, inFlight |-> 0, error |-> FALSE]

Idle == [op |-> "idle", size |-> 0, parked |-> FALSE]

Init ==
    /\ shared = [e \in Ends |-> NewStream]
    /\ reader = [e \in Ends |-> "running"] /\ writer = [e \in Ends |-> Idle]
    /\ sent = [e \in Ends |-> 0] /\ got = [e \in Ends |-> <<>>]
    /\ wire = [e \in Ends |-> <<>>] /\ pending = [e \in Ends |-> <<>>]
    /\ fin = [e \in Ends |-> FALSE]
    /\ conn = "up" /\ resets = {} /\ shut = {}

-----------------------------------------------------------------------------
\* Wakers: recv_waker.take() and send_waker.take(), then wake()

WakeReader(e) ==
    reader' = [reader EXCEPT ![e] = IF @ = "parked" /\ shared[e].recvWaker THEN "running" ELSE @]

WakeWriter(e) ==
    writer' = [writer EXCEPT ![e].parked = @ /\ ~shared[e].sendWaker]

-----------------------------------------------------------------------------
\* Reading

Reads(e) == reader[e] \in {"running", "parked"}

\* The order of poll_read: the error, then the data, then the end.
AtEnd(s) == s.recvBuf = <<>> /\ s.closedRead

\* What is left of recv_buf.
Drained(s, room) == SubSeq(s.recvBuf, room + 1, Len(s.recvBuf))

\* Variant for the checks: Pending is returned without a waker.
ParkWithout(s) == s

ParkReader(s) == [s EXCEPT !.recvWaker = TRUE]

\* poll_read with a buffer of any of the sizes.
PollRead(e) ==
    LET s == shared[e] IN
    /\ Reads(e)
    /\ \/ /\ s.error
          /\ reader' = [reader EXCEPT ![e] = "failed"] /\ UNCHANGED <<shared, got>>
       \/ /\ ~s.error /\ AtEnd(s)
          /\ reader' = [reader EXCEPT ![e] = "eof"] /\ UNCHANGED <<shared, got>>
       \/ /\ ~s.error /\ ~AtEnd(s) /\ s.recvBuf # <<>>
          /\ \E room \in ReadSizes :
                /\ got' = [got EXCEPT ![e] =
                      @ \o SubSeq(s.recvBuf, 1, IF room < Len(s.recvBuf) THEN room ELSE Len(s.recvBuf))]
                /\ shared' = [shared EXCEPT ![e].recvBuf = Drained(s, room)]
          /\ reader' = [reader EXCEPT ![e] = "running"]
       \/ /\ ~s.error /\ s.recvBuf = <<>> /\ ~s.closedRead
          /\ shared' = [shared EXCEPT ![e] = ParkReader(s)]
          /\ reader' = [reader EXCEPT ![e] = "parked"] /\ UNCHANGED got
    /\ UNCHANGED <<writer, sent, wire, pending, fin, conn, resets, shut>>

-----------------------------------------------------------------------------
\* Writing

\* The code above starts a write_all, a flush or a shutdown.
Begin(e) ==
    /\ writer[e].op = "idle"
    /\ \/ \E n \in Chunks :
             /\ sent[e] + n <= Total[e]
             /\ writer' = [writer EXCEPT ![e] = [Idle EXCEPT !.op = "write", !.size = n]]
       \/ \E op \in {"flush", "shutdown"} : writer' = [writer EXCEPT ![e] = [Idle EXCEPT !.op = op]]
    /\ UNCHANGED <<shared, reader, sent, got, wire, pending, fin, conn, resets, shut>>

\* The future is dropped (a branch of select! lost); its waker stays behind.
Abandon(e) ==
    /\ writer[e].op \in {"write", "flush", "shutdown"}
    /\ writer' = [writer EXCEPT ![e] = Idle]
    /\ UNCHANGED <<shared, reader, sent, got, wire, pending, fin, conn, resets, shut>>

ParkWriter(e) ==
    /\ shared' = [shared EXCEPT ![e].sendWaker = TRUE]
    /\ writer' = [writer EXCEPT ![e].parked = TRUE]
    /\ UNCHANGED <<sent, wire, pending, fin>>

Finish(e, op) == writer' = [writer EXCEPT ![e] = [Idle EXCEPT !.op = op]]

\* Variant for the checks: a send that fails keeps its bytes counted.
CountsFailed(s, n) == [s EXCEPT !.inFlight = @ + n]

\* Variant for the checks: the bytes are taken back though never counted.
TakesBackUncounted(s, n) == [s EXCEPT !.inFlight = @ - n]

\* in_flight_bytes after StreamSend failed: added before the call, taken back.
SendFailed(s, n) == s

\* poll_write: one buffer, given to MsQuic whole.  StreamSend fails only on a
\* connection that is going away; what it accepts then is never delivered.
PollWrite(e) ==
    LET s == shared[e]  n == writer[e].size  bytes == [i \in 1 .. n |-> sent[e] + i] IN
    /\ writer[e].op = "write"
    /\ \/ /\ s.error \/ s.closedWrite
          /\ Finish(e, "failed") /\ UNCHANGED <<shared, sent, wire, pending>>
       \/ /\ ~s.error /\ ~s.closedWrite /\ s.inFlight >= MaxInFlight
          /\ ParkWriter(e)
       \/ /\ ~s.error /\ ~s.closedWrite /\ s.inFlight < MaxInFlight
          /\ shared' = [shared EXCEPT ![e].inFlight = @ + n]
          /\ sent' = [sent EXCEPT ![e] = @ + n]
          /\ pending' = [pending EXCEPT ![e] = Append(@, [from |-> sent[e], size |-> n])]
          /\ wire' = [wire EXCEPT ![e] = IF conn = "up" THEN @ \o bytes ELSE @]
          /\ Finish(e, "idle")
       \/ /\ ~s.error /\ ~s.closedWrite /\ s.inFlight < MaxInFlight /\ conn = "lost"
          /\ shared' = [shared EXCEPT ![e] = SendFailed(s, n)]
          /\ Finish(e, "failed") /\ UNCHANGED <<sent, wire, pending>>
    /\ UNCHANGED <<reader, got, fin, conn, resets, shut>>

PollFlush(e) ==
    /\ writer[e].op = "flush"
    /\ \/ shared[e].inFlight > 0 /\ ParkWriter(e)
       \/ shared[e].inFlight = 0 /\ Finish(e, "idle") /\ UNCHANGED <<shared, sent, wire, pending>>
    /\ UNCHANGED <<reader, got, fin, conn, resets, shut>>

\* poll_shutdown: the FIN follows once nothing is in flight.
PollShutdown(e) ==
    /\ writer[e].op = "shutdown"
    /\ \/ shared[e].inFlight > 0 /\ ParkWriter(e)
       \/ /\ shared[e].inFlight = 0
          /\ fin' = [fin EXCEPT ![e] = @ \/ ~shared[e].closedWrite]
          /\ shared' = [shared EXCEPT ![e].closedWrite = TRUE]
          /\ Finish(e, "closed") /\ UNCHANGED <<sent, wire, pending>>
    /\ UNCHANGED <<reader, got, conn, resets, shut>>

-----------------------------------------------------------------------------
\* The callback

\* Variant for the checks: what has not been read yet is overwritten.
Replaced(buf, bytes) == bytes

\* recv_buf.extend_from_slice: the buffer has no bound.
Extended(buf, bytes) == buf \o bytes

\* RECEIVE: any part of what is on its way, in order.
Receive(e) ==
    LET f == Peer(e) IN
    /\ conn = "up" /\ <<e, "send">> \notin resets /\ e \notin shut
    /\ \E n \in 1 .. Len(wire[f]) :
          /\ shared' = [shared EXCEPT ![e].recvBuf = Extended(@, SubSeq(wire[f], 1, n)),
                                      ![e].recvWaker = FALSE]
          /\ wire' = [wire EXCEPT ![f] = SubSeq(@, n + 1, Len(@))]
    /\ WakeReader(e)
    /\ UNCHANGED <<writer, sent, got, pending, fin, conn, resets, shut>>

\* Variant for the checks: the writer's waker is kept for the next time.
CompletesQuietly(e) == UNCHANGED writer

CompletedWakes(e) == WakeWriter(e)

\* SEND_COMPLETE: MsQuic buffers sends, so it may come before the bytes are
\* delivered; on a lost connection it comes for every send, cancelled.
SendComplete(e) ==
    /\ pending[e] # <<>>
    /\ shared' = [shared EXCEPT
          ![e].inFlight = IF @ < Head(pending[e]).size THEN 0 ELSE @ - Head(pending[e]).size,
          ![e].sendWaker = FALSE]
    /\ pending' = [pending EXCEPT ![e] = Tail(@)]
    /\ CompletedWakes(e)
    /\ UNCHANGED <<reader, sent, got, wire, fin, conn, resets, shut>>

\* PEER_SEND_SHUTDOWN: the other end's FIN, behind its last byte.
PeerSendShutdown(e) ==
    LET f == Peer(e) IN
    /\ conn = "up" /\ fin[f] /\ wire[f] = <<>> /\ <<e, "send">> \notin resets
    /\ ~shared[e].closedRead
    /\ shared' = [shared EXCEPT ![e].closedRead = TRUE, ![e].recvWaker = FALSE]
    /\ WakeReader(e)
    /\ UNCHANGED <<writer, sent, got, wire, pending, fin, conn, resets, shut>>

\* PEER_RECEIVE_ABORTED: wakes only the writer, though reads fail as well now.
PeerReceiveAborted(e) ==
    /\ Resets /\ conn = "up" /\ <<e, "receive">> \notin resets /\ e \notin shut
    /\ resets' = resets \cup {<<e, "receive">>}
    /\ shared' = [shared EXCEPT ![e].closedWrite = TRUE, ![e].error = TRUE, ![e].sendWaker = FALSE]
    /\ WakeWriter(e)
    /\ UNCHANGED <<reader, sent, got, wire, pending, fin, conn, shut>>

\* PEER_SEND_ABORTED: wakes only the reader, though writes fail as well now.
PeerSendAborted(e) ==
    /\ Resets /\ conn = "up" /\ <<e, "send">> \notin resets /\ ~shared[e].closedRead
    /\ resets' = resets \cup {<<e, "send">>}
    /\ shared' = [shared EXCEPT ![e].closedRead = TRUE, ![e].error = TRUE, ![e].recvWaker = FALSE]
    /\ WakeReader(e)
    /\ UNCHANGED <<writer, sent, got, wire, pending, fin, conn, shut>>

\* The connection goes away: idle timeout, closed by a side, process ended.
Lose ==
    /\ conn = "up" /\ conn' = "lost"
    /\ UNCHANGED <<shared, reader, writer, sent, got, wire, pending, fin, resets, shut>>

\* Variant for the checks: only the writer hears of the end.
WakeNoReader(e) == UNCHANGED reader

ShutdownWakesReader(e) == WakeReader(e)

\* SHUTDOWN_COMPLETE, the last event of a stream: both halves are finished, or
\* the connection is gone.  An error is not recorded.
ShutdownComplete(e) ==
    /\ e \notin shut /\ pending[e] = <<>>
    /\ \/ conn = "lost"
       \/ /\ fin[e] \/ <<e, "receive">> \in resets
          /\ shared[e].closedRead /\ wire[e] = <<>>
    /\ shut' = shut \cup {e}
    /\ shared' = [shared EXCEPT ![e].closedRead = TRUE, ![e].closedWrite = TRUE,
                                ![e].recvWaker = FALSE, ![e].sendWaker = FALSE]
    /\ ShutdownWakesReader(e) /\ WakeWriter(e)
    /\ UNCHANGED <<sent, got, wire, pending, fin, conn, resets>>

-----------------------------------------------------------------------------
\* Both ends have nothing left to do.
Done ==
    /\ \A e \in Ends :
          /\ reader[e] \in {"eof", "failed"} /\ e \in shut
          /\ writer[e].op \in {"closed", "failed"}
    /\ UNCHANGED vars

Polls(e) == PollRead(e) \/ PollWrite(e) \/ PollFlush(e) \/ PollShutdown(e)

Callback(e) ==
    \/ Receive(e) \/ SendComplete(e) \/ PeerSendShutdown(e)
    \/ PeerReceiveAborted(e) \/ PeerSendAborted(e) \/ ShutdownComplete(e)

Next ==
    \/ \E e \in Ends : Polls(e) \/ Begin(e) \/ Abandon(e) \/ Callback(e)
    \/ Lose
    \/ Done

Spec == Init /\ [][Next]_vars

\* Tokio polls every task that is not parked; MsQuic delivers its events.  The
\* code above need not write, and nothing makes the connection go away.
Fairness ==
    \A e \in Ends :
       /\ WF_vars(reader[e] = "running" /\ PollRead(e))
       /\ WF_vars(~writer[e].parked /\ (PollWrite(e) \/ PollFlush(e) \/ PollShutdown(e)))
       /\ WF_vars(Receive(e)) /\ WF_vars(SendComplete(e))
       /\ WF_vars(PeerSendShutdown(e)) /\ WF_vars(ShutdownComplete(e))

FairSpec == Spec /\ Fairness

-----------------------------------------------------------------------------
\* Properties

Intact == conn = "up" /\ resets = {}

\* Sends complete in their order: what is in flight starts with the oldest one.
Unacknowledged(e) == IF pending[e] = <<>> THEN 0 ELSE sent[e] - Head(pending[e]).from

\* in_flight_bytes is what was sent from the oldest send without a SEND_COMPLETE
\* on, also after failed sends and cancelled ones, and stays within one write of
\* the limit.
InFlightExact ==
    \A e \in Ends :
       /\ shared[e].inFlight = Unacknowledged(e)
       /\ \E n \in Chunks : shared[e].inFlight < MaxInFlight + n

\* A task whose poll returned Pending has its waker registered, waits for
\* something that has not happened yet, and an event that takes the waker is
\* still to come: no wake-up is lost between a poll and a callback.  A reader
\* waits for data or the end of them: PEER_RECEIVE_ABORTED, which is about the
\* other half, sets an error that its next poll would return, but does not wake it.
NoLostWakeup ==
    \A e \in Ends :
       /\ reader[e] = "parked" =>
             /\ shared[e].recvWaker /\ shared[e].recvBuf = <<>>
             /\ ~shared[e].closedRead /\ e \notin shut
       /\ writer[e].parked =>
             /\ shared[e].sendWaker /\ pending[e] # <<>>
             /\ writer[e].op = "write" => ~shared[e].closedWrite

\* Each direction is a ByteStream, cut when the stream is no longer intact.
Upstream == INSTANCE ByteStream WITH
    sent   <- sent["client"],  got   <- got["worker"],
    closed <- fin["client"],   ended <- ~Reads("worker"),   cut <- ~Intact

Downstream == INSTANCE ByteStream WITH
    sent   <- sent["worker"],  got   <- got["client"],
    closed <- fin["worker"],   ended <- ~Reads("client"),   cut <- ~Intact

\* Every step of the callback and the poll functions is, for each direction, a
\* step of that ByteStream or leaves it alone.
ImplementsByteStream == Upstream!Spec /\ Downstream!Spec

\* A lost connection reaches every reader: SHUTDOWN_COMPLETE wakes it and
\* poll_read ends it.
LossEndsReaders == conn = "lost" ~> (\A e \in Ends : ~Reads(e))

\* A write, a flush or a shutdown parked on in_flight_bytes is woken.
ParkedWritersGoOn == \A e \in Ends : writer[e].parked ~> ~writer[e].parked
=============================================================================

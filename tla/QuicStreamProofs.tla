-------------------------- MODULE QuicStreamProofs --------------------------
(***************************************************************************)
(* Theorems about QuicStream, for any limit in flight, any sizes of writes *)
(* and reads and any number of bytes: the bookkeeping of what is in        *)
(* flight, no lost wake-up, and that each direction is a ByteStream.       *)
(***************************************************************************)
EXTENDS QuicStream, TLAPS

\* An operation is parked; a write is one of the sizes and stays within bounds.
Writes(e) ==
    /\ writer[e].op = "write" => writer[e].size \in Chunks /\ sent[e] + writer[e].size <= Total[e]
    /\ writer[e].parked => writer[e].op \in {"write", "flush", "shutdown"}

\* The sends outstanding follow each other up to the last byte accepted.
Chain(p, total) ==
    \A i \in 1 .. Len(p) :
       /\ p[i].size > 0 /\ p[i].from + p[i].size <= total
       /\ p[i].from + p[i].size = IF i = Len(p) THEN total ELSE p[i + 1].from

Contiguous(e) == Chain(pending[e], sent[e])

\* Bytes e was handed, has buffered, and that are on their way to it.
Handed(e)   == Len(got[e])
Buffered(e) == Handed(e) + Len(shared[e].recvBuf)
Underway(e) == Buffered(e) + Len(wire[Peer(e)])

\* The bytes of s are those after the first k, in their order.
Numbered(s, k) == \A i \in 1 .. Len(s) : s[i] = k + i

\* Together they are the bytes of the other end in their order; only a lost
\* connection loses some, the last ones.
Flow(e) ==
    /\ Underway(e) <= sent[Peer(e)]
    /\ conn = "up" => Underway(e) = sent[Peer(e)]
    /\ Numbered(got[e], 0) /\ Numbered(shared[e].recvBuf, Handed(e))
    /\ Numbered(wire[Peer(e)], Buffered(e))

\* Why a half is closed, and what a reader at its end has read.
Ended(e) ==
    /\ fin[e] => shared[e].closedWrite
    /\ e \in shut => shared[e].closedRead /\ shared[e].closedWrite /\ pending[e] = <<>>
    /\ shared[e].error => resets # {}
    /\ shared[e].closedRead /\ Intact => fin[Peer(e)] /\ wire[Peer(e)] = <<>>
    /\ ~Reads(e) /\ Intact => shared[e].closedRead /\ shared[e].recvBuf = <<>>

Woken(e) ==
    /\ reader[e] = "parked" =>
          /\ shared[e].recvWaker /\ shared[e].recvBuf = <<>>
          /\ ~shared[e].closedRead /\ e \notin shut
    /\ writer[e].parked =>
          /\ shared[e].sendWaker /\ pending[e] # <<>>
          /\ writer[e].op = "write" => ~shared[e].closedWrite

Exact(e) ==
    /\ shared[e].inFlight = Unacknowledged(e)
    /\ \E n \in Chunks : shared[e].inFlight < MaxInFlight + n

IInv ==
    /\ TypeOK
    /\ \A e \in Ends : Exact(e) /\ Woken(e) /\ Writes(e) /\ Contiguous(e) /\ Flow(e) /\ Ended(e)

-----------------------------------------------------------------------------
\* Types

\* The stream has two ends, each the peer of the other.
LEMMA EndsAre ==
    /\ Ends = {"client", "worker"}
    /\ \A e \in Ends : Peer(e) \in Ends /\ Peer(e) # e /\ Peer(Peer(e)) = e
BY DEF Ends, Peer

\* The first n units of a sequence of numbers, and the rest.
LEMMA Pieces ==
    ASSUME NEW s \in Seq(Nat), NEW n \in Nat, n <= Len(s)
    PROVE  /\ SubSeq(s, 1, n) \in Seq(Nat) /\ Len(SubSeq(s, 1, n)) = n
           /\ \A i \in 1 .. n : SubSeq(s, 1, n)[i] = s[i]
           /\ SubSeq(s, n + 1, Len(s)) \in Seq(Nat) /\ Len(SubSeq(s, n + 1, Len(s))) = Len(s) - n
           /\ \A i \in 1 .. Len(s) - n : SubSeq(s, n + 1, Len(s))[i] = s[n + i]
OBVIOUS

\* Two sequences of numbers, one behind the other.
LEMMA Joined ==
    ASSUME NEW s \in Seq(Nat), NEW t \in Seq(Nat)
    PROVE  /\ s \o t \in Seq(Nat) /\ Len(s \o t) = Len(s) + Len(t)
           /\ \A i \in 1 .. Len(s) : (s \o t)[i] = s[i]
           /\ \A i \in 1 .. Len(t) : (s \o t)[Len(s) + i] = t[i]
OBVIOUS

\* The first send that is outstanding, and the later ones.
LEMMA FirstAndRest ==
    ASSUME NEW T, NEW s \in Seq(T), s # <<>>
    PROVE  /\ Head(s) \in T /\ Tail(s) \in Seq(T) /\ Len(s) > 0 /\ Head(s) = s[1]
           /\ Len(Tail(s)) = Len(s) - 1 /\ \A i \in 1 .. Len(s) - 1 : Tail(s)[i] = s[i + 1]
OBVIOUS

\* The members of a sequence, and when it is empty.
LEMMA Elements ==
    ASSUME NEW T, NEW s \in Seq(T)
    PROVE  Len(s) \in Nat /\ (s = <<>> <=> Len(s) = 0) /\ \A i \in 1 .. Len(s) : s[i] \in T
OBVIOUS

\* One send more is outstanding.
LEMMA OneMore ==
    ASSUME NEW T, NEW s \in Seq(T), NEW x \in T
    PROVE  /\ Append(s, x) \in Seq(T) /\ Len(Append(s, x)) = Len(s) + 1 /\ Append(s, x) # <<>>
           /\ \A i \in 1 .. Len(s) : Append(s, x)[i] = s[i]
           /\ Append(s, x)[Len(s) + 1] = x
           /\ Head(Append(s, x)) = IF s = <<>> THEN x ELSE Head(s)
OBVIOUS

\* A resource is added to a set of them.
LEMMA Added ==
    ASSUME NEW S, NEW T, NEW x \in T, S \subseteq T
    PROVE  S \cup {x} \subseteq T
OBVIOUS

\* One end's shared state becomes s.
LEMMA SharedUpdate ==
    ASSUME TypeOK, NEW e \in Ends, NEW s \in StreamShared, shared' = [shared EXCEPT ![e] = s]
    PROVE  /\ shared' \in [Ends -> StreamShared] /\ shared'[e] = s
           /\ \A t \in Ends : t # e => shared'[t] = shared[t]
BY DEF TypeOK

\* The steps that wake a reader take its waker.
LEMMA ReaderWoken ==
    ASSUME TypeOK, NEW e \in Ends, WakeReader(e)
    PROVE  /\ reader' \in [Ends -> ReaderStates]
           /\ reader'[e] = IF reader[e] = "parked" /\ shared[e].recvWaker THEN "running" ELSE reader[e]
           /\ \A t \in Ends : t # e => reader'[t] = reader[t]
BY DEF TypeOK, WakeReader, ReaderStates

\* The steps that wake a writer take its waker; the operation stays.
LEMMA WriterWoken ==
    ASSUME TypeOK, NEW e \in Ends, WakeWriter(e)
    PROVE  /\ writer' \in [Ends -> [op: WriterOps, size: Nat, parked: BOOLEAN]]
           /\ writer'[e].op = writer[e].op /\ writer'[e].size = writer[e].size
           /\ writer'[e].parked <=> writer[e].parked /\ ~shared[e].sendWaker
           /\ \A t \in Ends : t # e => writer'[t] = writer[t]
BY DEF TypeOK, WakeWriter, StreamShared

\* The types of what one end keeps.
LEMMA Fields ==
    ASSUME TypeOK, NEW e \in Ends
    PROVE  /\ shared[e] \in StreamShared
           /\ shared[e].recvBuf \in Seq(Nat) /\ shared[e].inFlight \in Nat
           /\ shared[e].recvWaker \in BOOLEAN /\ shared[e].sendWaker \in BOOLEAN
           /\ shared[e].closedRead \in BOOLEAN /\ shared[e].closedWrite \in BOOLEAN
           /\ shared[e].error \in BOOLEAN
           /\ got[e] \in Seq(Nat) /\ wire[e] \in Seq(Nat) /\ sent[e] \in Nat
           /\ pending[e] \in Seq([from: Nat, size: Nat])
BY DEF TypeOK, StreamShared


-----------------------------------------------------------------------------
\* What each step does to the end it is a step of.  The other end keeps all but
\* what is on the way from it.

\* shared'[e] has the fields of shared[e] but those given; the other end's stay.
SharedBecomes(e, s) ==
    /\ shared' \in [Ends -> StreamShared] /\ shared'[e] = s
    /\ \A t \in Ends : t # e => shared'[t] = shared[t]

\* poll_read fails, ends, hands over at least one unit, or parks.
LEMMA PollReadDoes ==
    ASSUME TypeOK, NEW e \in Ends, PollRead(e)
    PROVE  /\ Reads(e)
           /\ reader' \in [Ends -> ReaderStates] /\ \A t \in Ends : t # e => reader'[t] = reader[t]
           /\ got' \in [Ends -> Seq(Nat)] /\ \A t \in Ends : t # e => got'[t] = got[t]
           /\ \/ shared[e].error /\ reader'[e] = "failed" /\ UNCHANGED <<shared, got>>
              \/ AtEnd(shared[e]) /\ reader'[e] = "eof" /\ UNCHANGED <<shared, got>>
              \/ /\ reader'[e] = "running"
                 /\ \E n \in 1 .. Len(shared[e].recvBuf) :
                       /\ got'[e] = got[e] \o SubSeq(shared[e].recvBuf, 1, n)
                       /\ SharedBecomes(e, [shared[e] EXCEPT !.recvBuf =
                                 SubSeq(shared[e].recvBuf, n + 1, Len(shared[e].recvBuf))])
              \/ /\ shared[e].recvBuf = <<>> /\ ~shared[e].closedRead
                 /\ SharedBecomes(e, [shared[e] EXCEPT !.recvWaker = TRUE])
                 /\ reader'[e] = "parked" /\ UNCHANGED got
           /\ UNCHANGED <<writer, sent, wire, pending, fin, conn, resets, shut>>
<1> DEFINE s == shared[e]
<1>0. /\ s \in StreamShared /\ s.recvBuf \in Seq(Nat) /\ got[e] \in Seq(Nat)
      /\ reader \in [Ends -> ReaderStates] /\ got \in [Ends -> Seq(Nat)]
      /\ UNCHANGED <<writer, sent, wire, pending, fin, conn, resets, shut>> /\ Reads(e)
  BY Fields DEF PollRead, TypeOK
<1>1. CASE s.error /\ reader' = [reader EXCEPT ![e] = "failed"] /\ UNCHANGED <<shared, got>>
  BY <1>0, <1>1 DEF ReaderStates
<1>2. CASE AtEnd(s) /\ reader' = [reader EXCEPT ![e] = "eof"] /\ UNCHANGED <<shared, got>>
  BY <1>0, <1>2 DEF ReaderStates
<1>3. CASE /\ s.recvBuf # <<>>
           /\ \E room \in ReadSizes :
                /\ got' = [got EXCEPT ![e] =
                      got[e] \o SubSeq(s.recvBuf, 1, IF room < Len(s.recvBuf) THEN room ELSE Len(s.recvBuf))]
                /\ shared' = [shared EXCEPT ![e].recvBuf = Drained(s, room)]
           /\ reader' = [reader EXCEPT ![e] = "running"]
  <2>1. PICK room \in ReadSizes :
                /\ got' = [got EXCEPT ![e] =
                      got[e] \o SubSeq(s.recvBuf, 1, IF room < Len(s.recvBuf) THEN room ELSE Len(s.recvBuf))]
                /\ shared' = [shared EXCEPT ![e].recvBuf = Drained(s, room)]
    BY <1>3
  <2> DEFINE n == IF room < Len(s.recvBuf) THEN room ELSE Len(s.recvBuf)
             rest == SubSeq(s.recvBuf, n + 1, Len(s.recvBuf))
  <2>2. room \in Nat \ {0} /\ n \in 1 .. Len(s.recvBuf) /\ n \in Nat
    BY <1>0, <1>3, StreamAssumption
  <2>3. Drained(s, room) = rest
    <3>1. CASE room < Len(s.recvBuf)
      BY <3>1 DEF Drained
    <3>2. CASE ~(room < Len(s.recvBuf))
      <4>1. Drained(s, room) = <<>> /\ rest = <<>>
        BY <1>0, <2>2, <3>2 DEF Drained
      <4> QED
        BY <4>1
    <3> QED
      BY <3>1, <3>2
  <2>4. rest \in Seq(Nat) /\ SubSeq(s.recvBuf, 1, n) \in Seq(Nat)
    BY <1>0, <2>2, Pieces
  <2>5. got[e] \o SubSeq(s.recvBuf, 1, n) \in Seq(Nat)
    BY <1>0, <2>4, Joined
  <2>6. [s EXCEPT !.recvBuf = rest] \in StreamShared
    BY <1>0, <2>4 DEF StreamShared
  <2>7. shared' = [shared EXCEPT ![e] = [s EXCEPT !.recvBuf = rest]]
    BY <2>1, <2>3 DEF TypeOK
  <2>8. SharedBecomes(e, [s EXCEPT !.recvBuf = rest])
    BY <2>6, <2>7, SharedUpdate DEF SharedBecomes
  <2>9. /\ got'[e] = got[e] \o SubSeq(s.recvBuf, 1, n) /\ got' \in [Ends -> Seq(Nat)]
        /\ \A t \in Ends : t # e => got'[t] = got[t]
    BY <1>0, <2>1, <2>5
  <2>10. /\ reader'[e] = "running" /\ reader' \in [Ends -> ReaderStates]
         /\ \A t \in Ends : t # e => reader'[t] = reader[t]
    BY <1>0, <1>3 DEF ReaderStates
  <2> HIDE DEF n, rest
  <2> QED
    BY <1>0, <2>2, <2>8, <2>9, <2>10 DEF rest
<1>4. CASE /\ s.recvBuf = <<>> /\ ~s.closedRead
           /\ shared' = [shared EXCEPT ![e] = ParkReader(s)]
           /\ reader' = [reader EXCEPT ![e] = "parked"] /\ UNCHANGED got
  <2>1. ParkReader(s) \in StreamShared
    BY <1>0 DEF ParkReader, StreamShared
  <2>2. SharedBecomes(e, [s EXCEPT !.recvWaker = TRUE])
    BY <1>4, <2>1, SharedUpdate DEF SharedBecomes, ParkReader
  <2> QED
    BY <1>0, <1>4, <2>2 DEF ReaderStates
<1> QED
  BY <1>1, <1>2, <1>3, <1>4 DEF PollRead

WriterBecomes(e, w) ==
    /\ writer' \in [Ends -> [op: WriterOps, size: Nat, parked: BOOLEAN]] /\ writer'[e] = w
    /\ \A t \in Ends : t # e => writer'[t] = writer[t]

Stopped(op) == [op |-> op, size |-> 0, parked |-> FALSE]

\* poll_write, poll_flush and poll_shutdown park in the same way.
LEMMA ParkDoes ==
    ASSUME TypeOK, NEW e \in Ends, ParkWriter(e)
    PROVE  /\ SharedBecomes(e, [shared[e] EXCEPT !.sendWaker = TRUE])
           /\ WriterBecomes(e, [writer[e] EXCEPT !.parked = TRUE])
           /\ UNCHANGED <<sent, wire, pending, fin>>
<1>1. shared[e] \in StreamShared
  BY Fields
<1>2. [shared[e] EXCEPT !.sendWaker = TRUE] \in StreamShared
  BY <1>1 DEF StreamShared
<1>3. shared' = [shared EXCEPT ![e] = [shared[e] EXCEPT !.sendWaker = TRUE]]
  BY DEF ParkWriter, TypeOK
<1>4. SharedBecomes(e, [shared[e] EXCEPT !.sendWaker = TRUE])
  BY <1>2, <1>3, SharedUpdate DEF SharedBecomes
<1>5. writer' = [writer EXCEPT ![e] = [writer[e] EXCEPT !.parked = TRUE]]
  BY DEF ParkWriter, TypeOK
<1>6. [writer[e] EXCEPT !.parked = TRUE] \in [op: WriterOps, size: Nat, parked: BOOLEAN]
  BY DEF TypeOK
<1>7. WriterBecomes(e, [writer[e] EXCEPT !.parked = TRUE])
  BY <1>5, <1>6 DEF WriterBecomes, TypeOK
<1> QED
  BY <1>4, <1>7 DEF ParkWriter

\* An operation of the writer returns.
LEMMA FinishDoes ==
    ASSUME TypeOK, NEW e \in Ends, NEW op \in WriterOps, Finish(e, op)
    PROVE  WriterBecomes(e, Stopped(op))
BY DEF Finish, Idle, Stopped, WriterBecomes, TypeOK, WriterOps

\* Bytes are accepted: they are counted, outstanding, and under way.
Accepts(e) ==
    LET n == writer[e].size IN
    /\ ~shared[e].error /\ ~shared[e].closedWrite /\ shared[e].inFlight < MaxInFlight
    /\ SharedBecomes(e, [shared[e] EXCEPT !.inFlight = shared[e].inFlight + n])
    /\ WriterBecomes(e, Stopped("idle"))
    /\ sent' \in [Ends -> Nat] /\ sent'[e] = sent[e] + n /\ \A t \in Ends : t # e => sent'[t] = sent[t]
    /\ pending' \in [Ends -> Seq([from: Nat, size: Nat])]
    /\ pending'[e] = Append(pending[e], [from |-> sent[e], size |-> n])
    /\ \A t \in Ends : t # e => pending'[t] = pending[t]
    /\ wire' \in [Ends -> Seq(Nat)] /\ \A t \in Ends : t # e => wire'[t] = wire[t]
    /\ wire'[e] = IF conn = "up" THEN wire[e] \o [i \in 1 .. n |-> sent[e] + i] ELSE wire[e]

\* poll_write accepts the buffer, parks at the limit, or fails and counts nothing.
LEMMA PollWriteDoes ==
    ASSUME TypeOK, NEW e \in Ends, PollWrite(e)
    PROVE  /\ writer[e].op = "write"
           /\ \/ Accepts(e)
              \/ /\ ~shared[e].error /\ ~shared[e].closedWrite /\ shared[e].inFlight >= MaxInFlight
                 /\ SharedBecomes(e, [shared[e] EXCEPT !.sendWaker = TRUE])
                 /\ WriterBecomes(e, [writer[e] EXCEPT !.parked = TRUE])
                 /\ UNCHANGED <<sent, wire, pending>>
              \/ /\ WriterBecomes(e, Stopped("failed"))
                 /\ UNCHANGED <<shared, sent, wire, pending>>
           /\ UNCHANGED <<reader, got, fin, conn, resets, shut>>
<1> DEFINE s == shared[e]
           n == writer[e].size
           bytes == [i \in 1 .. n |-> sent[e] + i]
<1>0. /\ s \in StreamShared /\ s.inFlight \in Nat /\ n \in Nat /\ sent[e] \in Nat /\ wire[e] \in Seq(Nat)
      /\ pending[e] \in Seq([from: Nat, size: Nat]) /\ wire \in [Ends -> Seq(Nat)] /\ sent \in [Ends -> Nat]
      /\ pending \in [Ends -> Seq([from: Nat, size: Nat])]
      /\ UNCHANGED <<reader, got, fin, conn, resets, shut>> /\ writer[e].op = "write"
  BY Fields DEF PollWrite, TypeOK
<1>1. CASE ~s.error /\ ~s.closedWrite /\ s.inFlight >= MaxInFlight /\ ParkWriter(e)
  BY <1>0, <1>1, ParkDoes
<1>2. CASE Finish(e, "failed") /\ UNCHANGED <<shared, sent, wire, pending>>
  <2>1. WriterBecomes(e, Stopped("failed"))
    BY <1>2, FinishDoes DEF WriterOps
  <2> QED
    BY <1>0, <1>2, <2>1
<1>3. CASE /\ ~s.error /\ ~s.closedWrite /\ s.inFlight < MaxInFlight
           /\ shared' = [shared EXCEPT ![e].inFlight = s.inFlight + n]
           /\ sent' = [sent EXCEPT ![e] = sent[e] + n]
           /\ pending' = [pending EXCEPT ![e] = Append(pending[e], [from |-> sent[e], size |-> n])]
           /\ wire' = [wire EXCEPT ![e] = IF conn = "up" THEN wire[e] \o bytes ELSE wire[e]]
           /\ Finish(e, "idle")
  <2>0. s.inFlight + n \in Nat
    BY <1>0
  <2>1. [s EXCEPT !.inFlight = s.inFlight + n] \in StreamShared
    BY <1>0, <2>0 DEF StreamShared
  <2>2. shared' = [shared EXCEPT ![e] = [s EXCEPT !.inFlight = s.inFlight + n]]
    BY <1>3 DEF TypeOK
  <2>3. SharedBecomes(e, [s EXCEPT !.inFlight = s.inFlight + n])
    BY <2>1, <2>2, SharedUpdate DEF SharedBecomes
  <2>4. WriterBecomes(e, Stopped("idle"))
    BY <1>3, FinishDoes DEF WriterOps
  <2>5. bytes \in Seq(Nat)
    <3>1. n \in Nat /\ sent[e] \in Nat
      BY <1>0
    <3>2. \A i \in 1 .. n : sent[e] + i \in Nat
      BY <3>1
    <3> HIDE DEF n
    <3> QED
      BY <3>1, <3>2
  <2>6. wire[e] \o bytes \in Seq(Nat)
    BY <1>0, <2>5, Joined
  <2> HIDE DEF bytes
  <2>7. /\ wire' \in [Ends -> Seq(Nat)] /\ \A t \in Ends : t # e => wire'[t] = wire[t]
        /\ wire'[e] = IF conn = "up" THEN wire[e] \o bytes ELSE wire[e]
    BY <1>0, <1>3, <2>6
  <2>8. /\ sent' \in [Ends -> Nat] /\ sent'[e] = sent[e] + n /\ \A t \in Ends : t # e => sent'[t] = sent[t]
        /\ pending' \in [Ends -> Seq([from: Nat, size: Nat])]
        /\ pending'[e] = Append(pending[e], [from |-> sent[e], size |-> n])
        /\ \A t \in Ends : t # e => pending'[t] = pending[t]
    BY <1>0, <1>3
  <2> QED
    BY <1>0, <1>3, <2>3, <2>4, <2>7, <2>8 DEF Accepts, bytes
<1>4. CASE shared' = [shared EXCEPT ![e] = SendFailed(s, n)] /\ Finish(e, "failed")
           /\ UNCHANGED <<sent, wire, pending>>
  <2>1. shared' = shared
    BY <1>4 DEF SendFailed, TypeOK
  <2> QED
    BY <1>2, <1>4, <2>1
<1> QED
  BY <1>1, <1>2, <1>3, <1>4 DEF PollWrite

\* poll_flush parks while anything is in flight.
LEMMA FlushDoes ==
    ASSUME TypeOK, NEW e \in Ends, PollFlush(e)
    PROVE  /\ writer[e].op = "flush"
           /\ \/ /\ shared[e].inFlight > 0
                 /\ SharedBecomes(e, [shared[e] EXCEPT !.sendWaker = TRUE])
                 /\ WriterBecomes(e, [writer[e] EXCEPT !.parked = TRUE])
              \/ WriterBecomes(e, Stopped("idle")) /\ UNCHANGED shared
           /\ UNCHANGED <<reader, sent, got, wire, pending, fin, conn, resets, shut>>
BY ParkDoes, FinishDoes DEF PollFlush, WriterOps

\* poll_shutdown parks while anything is in flight, then sends the FIN once.
LEMMA ShutdownDoes ==
    ASSUME TypeOK, NEW e \in Ends, PollShutdown(e)
    PROVE  /\ writer[e].op = "shutdown"
           /\ \/ /\ shared[e].inFlight > 0
                 /\ SharedBecomes(e, [shared[e] EXCEPT !.sendWaker = TRUE])
                 /\ WriterBecomes(e, [writer[e] EXCEPT !.parked = TRUE])
                 /\ UNCHANGED fin
              \/ /\ shared[e].inFlight = 0
                 /\ SharedBecomes(e, [shared[e] EXCEPT !.closedWrite = TRUE])
                 /\ WriterBecomes(e, Stopped("closed"))
                 /\ fin' \in [Ends -> BOOLEAN] /\ \A t \in Ends : t # e => fin'[t] = fin[t]
                 /\ fin'[e] = (fin[e] \/ ~shared[e].closedWrite)
           /\ UNCHANGED <<reader, sent, got, wire, pending, conn, resets, shut>>
<1>0. writer[e].op = "shutdown" /\ UNCHANGED <<reader, got, conn, resets, shut>>
  BY DEF PollShutdown
<1>1. CASE shared[e].inFlight > 0 /\ ParkWriter(e)
  BY <1>0, <1>1, ParkDoes
<1>2. CASE /\ shared[e].inFlight = 0
           /\ fin' = [fin EXCEPT ![e] = fin[e] \/ ~shared[e].closedWrite]
           /\ shared' = [shared EXCEPT ![e].closedWrite = TRUE]
           /\ Finish(e, "closed") /\ UNCHANGED <<sent, wire, pending>>
  <2>1. shared[e] \in StreamShared /\ fin \in [Ends -> BOOLEAN]
    BY Fields DEF TypeOK
  <2>2. [shared[e] EXCEPT !.closedWrite = TRUE] \in StreamShared
    BY <2>1 DEF StreamShared
  <2>3. shared' = [shared EXCEPT ![e] = [shared[e] EXCEPT !.closedWrite = TRUE]]
    BY <1>2 DEF TypeOK
  <2>4. SharedBecomes(e, [shared[e] EXCEPT !.closedWrite = TRUE])
    BY <2>2, <2>3, SharedUpdate DEF SharedBecomes
  <2>5. WriterBecomes(e, Stopped("closed"))
    BY <1>2, FinishDoes DEF WriterOps
  <2>6. /\ fin' \in [Ends -> BOOLEAN] /\ \A t \in Ends : t # e => fin'[t] = fin[t]
        /\ fin'[e] = (fin[e] \/ ~shared[e].closedWrite)
    BY <1>2, <2>1, Zenon
  <2> QED
    BY <1>0, <1>2, <2>4, <2>5, <2>6
<1> QED
  BY <1>1, <1>2 DEF PollShutdown

\* The code above starts an operation, or drops its future.
LEMMA BeginDoes ==
    ASSUME TypeOK, NEW e \in Ends, Begin(e) \/ Abandon(e)
    PROVE  /\ \E op \in {"idle", "write", "flush", "shutdown"}, n \in Chunks \cup {0} :
                 /\ WriterBecomes(e, [op |-> op, size |-> n, parked |-> FALSE])
                 /\ op = "write" => n \in Chunks /\ sent[e] + n <= Total[e]
           /\ UNCHANGED <<shared, reader, sent, got, wire, pending, fin, conn, resets, shut>>
<1>1. UNCHANGED <<shared, reader, sent, got, wire, pending, fin, conn, resets, shut>>
  BY DEF Begin, Abandon
<1>2. ASSUME NEW n \in Chunks, sent[e] + n <= Total[e],
             writer' = [writer EXCEPT ![e] = [Idle EXCEPT !.op = "write", !.size = n]]
      PROVE  WriterBecomes(e, [op |-> "write", size |-> n, parked |-> FALSE])
  BY <1>2, StreamAssumption DEF Idle, WriterBecomes, TypeOK, WriterOps
<1>3. ASSUME NEW op \in {"idle", "flush", "shutdown"}, writer' = [writer EXCEPT ![e] = [Idle EXCEPT !.op = op]]
      PROVE  WriterBecomes(e, [op |-> op, size |-> 0, parked |-> FALSE])
  BY <1>3 DEF Idle, WriterBecomes, TypeOK, WriterOps
<1>4. Abandon(e) => writer' = [writer EXCEPT ![e] = [Idle EXCEPT !.op = "idle"]]
  BY DEF Abandon, Idle
<1> QED
  BY <1>1, <1>2, <1>3, <1>4 DEF Begin

\* RECEIVE moves the first units on the way into recv_buf and wakes the reader.
LEMMA ReceiveDoes ==
    ASSUME TypeOK, NEW e \in Ends, Receive(e)
    PROVE  /\ conn = "up" /\ e \notin shut
           /\ \E n \in 1 .. Len(wire[Peer(e)]) :
                 /\ SharedBecomes(e, [shared[e] EXCEPT
                       !.recvBuf = shared[e].recvBuf \o SubSeq(wire[Peer(e)], 1, n), !.recvWaker = FALSE])
                 /\ wire'[Peer(e)] = SubSeq(wire[Peer(e)], n + 1, Len(wire[Peer(e)]))
           /\ wire' \in [Ends -> Seq(Nat)] /\ wire'[e] = wire[e]
           /\ WakeReader(e)
           /\ UNCHANGED <<writer, sent, got, pending, fin, conn, resets, shut>>
<1> DEFINE f == Peer(e)
<1>1. /\ f \in Ends /\ f # e /\ wire[f] \in Seq(Nat) /\ wire \in [Ends -> Seq(Nat)]
      /\ shared[e] \in StreamShared /\ shared[e].recvBuf \in Seq(Nat)
  BY EndsAre, Fields DEF TypeOK
<1>2. PICK n \in 1 .. Len(wire[f]) :
        /\ shared' = [shared EXCEPT ![e].recvBuf = Extended(shared[e].recvBuf, SubSeq(wire[f], 1, n)),
                                    ![e].recvWaker = FALSE]
        /\ wire' = [wire EXCEPT ![f] = SubSeq(wire[f], n + 1, Len(wire[f]))]
  BY DEF Receive
<1>3. SubSeq(wire[f], 1, n) \in Seq(Nat) /\ SubSeq(wire[f], n + 1, Len(wire[f])) \in Seq(Nat)
  BY <1>1, Pieces
<1> DEFINE s == [shared[e] EXCEPT !.recvBuf = shared[e].recvBuf \o SubSeq(wire[f], 1, n),
                                  !.recvWaker = FALSE]
<1>4. s \in StreamShared
  BY <1>1, <1>3, Joined DEF StreamShared
<1>5. shared' = [shared EXCEPT ![e] = s]
  BY <1>2 DEF Extended, TypeOK
<1>6. SharedBecomes(e, s)
  BY <1>4, <1>5, SharedUpdate DEF SharedBecomes
<1>7. /\ wire'[f] = SubSeq(wire[f], n + 1, Len(wire[f]))
      /\ wire' \in [Ends -> Seq(Nat)] /\ wire'[e] = wire[e]
  BY <1>1, <1>2, <1>3
<1>8. /\ conn = "up" /\ e \notin shut /\ WakeReader(e)
      /\ UNCHANGED <<writer, sent, got, pending, fin, conn, resets, shut>>
  BY DEF Receive
<1> HIDE DEF s
<1> QED
  BY <1>6, <1>7, <1>8 DEF s

\* SEND_COMPLETE takes the oldest send out of the count and wakes the writer.
LEMMA SendCompleteDoes ==
    ASSUME TypeOK, NEW e \in Ends, SendComplete(e)
    PROVE  /\ pending[e] # <<>> /\ pending[e] \in Seq([from: Nat, size: Nat])
           /\ pending' \in [Ends -> Seq([from: Nat, size: Nat])] /\ pending'[e] = Tail(pending[e])
           /\ \A t \in Ends : t # e => pending'[t] = pending[t]
           /\ SharedBecomes(e, [shared[e] EXCEPT
                 !.inFlight = IF shared[e].inFlight < Head(pending[e]).size THEN 0
                              ELSE shared[e].inFlight - Head(pending[e]).size,
                 !.sendWaker = FALSE])
           /\ WakeWriter(e)
           /\ UNCHANGED <<reader, sent, got, wire, fin, conn, resets, shut>>
<1> DEFINE size == Head(pending[e]).size
           left == IF shared[e].inFlight < size THEN 0 ELSE shared[e].inFlight - size
           s == [shared[e] EXCEPT !.inFlight = left, !.sendWaker = FALSE]
<1>1. /\ shared[e] \in StreamShared /\ shared[e].inFlight \in Nat
      /\ pending \in [Ends -> Seq([from: Nat, size: Nat])] /\ pending[e] # <<>>
      /\ pending[e] \in Seq([from: Nat, size: Nat])
      /\ shared' = [shared EXCEPT ![e].inFlight = left, ![e].sendWaker = FALSE]
      /\ pending' = [pending EXCEPT ![e] = Tail(pending[e])]
      /\ WakeWriter(e) /\ UNCHANGED <<reader, sent, got, wire, fin, conn, resets, shut>>
  BY Fields DEF SendComplete, CompletedWakes, TypeOK
<1>2. Head(pending[e]) \in [from: Nat, size: Nat] /\ Tail(pending[e]) \in Seq([from: Nat, size: Nat])
  BY <1>1, FirstAndRest
<1>3. size \in Nat
  BY <1>2
<1>4. left \in Nat
  <2> HIDE DEF size
  <2> QED
    BY <1>1, <1>3
<1> HIDE DEF left
<1>5. s \in StreamShared
  BY <1>1, <1>4 DEF StreamShared
<1>6. shared' = [shared EXCEPT ![e] = s]
  BY <1>1 DEF TypeOK
<1>7. SharedBecomes(e, s)
  BY <1>5, <1>6, SharedUpdate DEF SharedBecomes
<1> HIDE DEF s
<1> QED
  BY <1>1, <1>2, <1>7 DEF s, left

\* The other end finished, or reset, its half.
LEMMA ReadClosedDoes ==
    ASSUME TypeOK, NEW e \in Ends, PeerSendShutdown(e) \/ PeerSendAborted(e)
    PROVE  /\ WakeReader(e)
           /\ \/ /\ SharedBecomes(e, [shared[e] EXCEPT !.closedRead = TRUE, !.recvWaker = FALSE])
                 /\ fin[Peer(e)] /\ wire[Peer(e)] = <<>> /\ UNCHANGED resets
              \/ /\ SharedBecomes(e, [shared[e] EXCEPT !.closedRead = TRUE, !.error = TRUE, !.recvWaker = FALSE])
                 /\ resets' = resets \cup {<<e, "send">>}
           /\ UNCHANGED <<writer, sent, got, wire, pending, fin, conn, shut>>
<1>1. shared[e] \in StreamShared
  BY Fields
<1>2. CASE PeerSendShutdown(e)
  <2> DEFINE s == [shared[e] EXCEPT !.closedRead = TRUE, !.recvWaker = FALSE]
  <2>1. s \in StreamShared
    BY <1>1 DEF StreamShared
  <2>2. shared' = [shared EXCEPT ![e] = s]
    BY <1>2 DEF PeerSendShutdown, TypeOK
  <2>3. SharedBecomes(e, s)
    BY <2>1, <2>2, SharedUpdate DEF SharedBecomes
  <2> QED
    BY <1>2, <2>3 DEF PeerSendShutdown
<1>3. CASE PeerSendAborted(e)
  <2> DEFINE s == [shared[e] EXCEPT !.closedRead = TRUE, !.error = TRUE, !.recvWaker = FALSE]
  <2>1. s \in StreamShared
    BY <1>1 DEF StreamShared
  <2>2. shared' = [shared EXCEPT ![e] = s]
    BY <1>3 DEF PeerSendAborted, TypeOK
  <2>3. SharedBecomes(e, s)
    BY <2>1, <2>2, SharedUpdate DEF SharedBecomes
  <2> QED
    BY <1>3, <2>3 DEF PeerSendAborted
<1> QED
  BY <1>2, <1>3

\* PEER_RECEIVE_ABORTED closes the writing half and wakes the writer.
LEMMA ReceiveAbortedDoes ==
    ASSUME TypeOK, NEW e \in Ends, PeerReceiveAborted(e)
    PROVE  /\ WakeWriter(e) /\ resets' = resets \cup {<<e, "receive">>}
           /\ SharedBecomes(e, [shared[e] EXCEPT !.closedWrite = TRUE, !.error = TRUE, !.sendWaker = FALSE])
           /\ UNCHANGED <<reader, sent, got, wire, pending, fin, conn, shut>>
<1> DEFINE s == [shared[e] EXCEPT !.closedWrite = TRUE, !.error = TRUE, !.sendWaker = FALSE]
<1>1. s \in StreamShared
  BY Fields DEF StreamShared
<1>2. shared' = [shared EXCEPT ![e] = s]
  BY DEF PeerReceiveAborted, TypeOK
<1>3. SharedBecomes(e, s)
  BY <1>1, <1>2, SharedUpdate DEF SharedBecomes
<1> QED
  BY <1>3 DEF PeerReceiveAborted

\* SHUTDOWN_COMPLETE closes both halves and wakes both tasks.
LEMMA ShutdownCompleteDoes ==
    ASSUME TypeOK, NEW e \in Ends, ShutdownComplete(e)
    PROVE  /\ WakeReader(e) /\ WakeWriter(e) /\ shut' = shut \cup {e} /\ pending[e] = <<>>
           /\ conn = "lost" \/ shared[e].closedRead
           /\ SharedBecomes(e, [shared[e] EXCEPT !.closedRead = TRUE, !.closedWrite = TRUE,
                                                 !.recvWaker = FALSE, !.sendWaker = FALSE])
           /\ UNCHANGED <<sent, got, wire, pending, fin, conn, resets>>
<1> DEFINE s == [shared[e] EXCEPT !.closedRead = TRUE, !.closedWrite = TRUE,
                                  !.recvWaker = FALSE, !.sendWaker = FALSE]
<1>1. s \in StreamShared
  BY Fields DEF StreamShared
<1>2. shared' = [shared EXCEPT ![e] = s]
  BY DEF ShutdownComplete, TypeOK
<1>3. SharedBecomes(e, s)
  BY <1>1, <1>2, SharedUpdate DEF SharedBecomes
<1> QED
  BY <1>3 DEF ShutdownComplete, ShutdownWakesReader

\* A new stream has its types.
LEMMA InitType == Init => TypeOK
<1> SUFFICES ASSUME Init PROVE TypeOK
  OBVIOUS
<1>1. NewStream \in StreamShared
  BY DEF NewStream, StreamShared
<1>2. Idle \in [op: WriterOps, size: Nat, parked: BOOLEAN]
  BY DEF Idle, WriterOps
<1>3. shared \in [Ends -> StreamShared] /\ writer \in [Ends -> [op: WriterOps, size: Nat, parked: BOOLEAN]]
  BY <1>1, <1>2 DEF Init
<1> QED
  BY <1>3, StreamAssumption DEF Init, TypeOK, ReaderStates

\* Every callback and every poll keeps the types and the bound on what is written.
LEMMA TypeStep == IInv /\ [Next]_vars => TypeOK'
<1> SUFFICES ASSUME IInv, [Next]_vars PROVE TypeOK'
  OBVIOUS
<1>0. TypeOK /\ \A e \in Ends : Writes(e)
  BY DEF IInv
<1>1. ASSUME NEW e \in Ends, PollRead(e) PROVE TypeOK'
  BY <1>0, <1>1, PollReadDoes DEF SharedBecomes, TypeOK
<1>2. ASSUME NEW e \in Ends, PollWrite(e) PROVE TypeOK'
  <2>1. CASE Accepts(e)
    <3>1. \A t \in Ends : sent'[t] <= Total[t]
      BY <1>0, <1>2, <2>1, PollWriteDoes DEF Accepts, Writes, TypeOK
    <3> QED
      BY <1>0, <1>2, <2>1, <3>1, PollWriteDoes DEF Accepts, SharedBecomes, WriterBecomes, TypeOK
  <2>2. CASE ~Accepts(e)
    BY <1>0, <1>2, <2>2, PollWriteDoes DEF SharedBecomes, WriterBecomes, TypeOK
  <2> QED
    BY <2>1, <2>2
<1>3. ASSUME NEW e \in Ends, PollFlush(e) PROVE TypeOK'
  BY <1>0, <1>3, FlushDoes DEF SharedBecomes, WriterBecomes, TypeOK
<1>4. ASSUME NEW e \in Ends, PollShutdown(e) PROVE TypeOK'
  BY <1>0, <1>4, ShutdownDoes DEF SharedBecomes, WriterBecomes, TypeOK
<1>5. ASSUME NEW e \in Ends, Begin(e) \/ Abandon(e) PROVE TypeOK'
  BY <1>0, <1>5, BeginDoes DEF WriterBecomes, TypeOK
<1>6. ASSUME NEW e \in Ends, Receive(e) PROVE TypeOK'
  BY <1>0, <1>6, ReceiveDoes, ReaderWoken DEF SharedBecomes, TypeOK
<1>7. ASSUME NEW e \in Ends, SendComplete(e) PROVE TypeOK'
  BY <1>0, <1>7, SendCompleteDoes, WriterWoken DEF SharedBecomes, TypeOK
<1>8. ASSUME NEW e \in Ends, PeerSendShutdown(e) \/ PeerSendAborted(e) PROVE TypeOK'
  <2>1. resets' = resets \/ resets' = resets \cup {<<e, "send">>}
    BY <1>0, <1>8, ReadClosedDoes
  <2>2. resets' \subseteq Ends \X {"send", "receive"}
    <3>1. <<e, "send">> \in Ends \X {"send", "receive"}
      OBVIOUS
    <3>2. resets \subseteq Ends \X {"send", "receive"}
      BY <1>0 DEF TypeOK
    <3>3. resets \cup {<<e, "send">>} \subseteq Ends \X {"send", "receive"}
      BY <3>1, <3>2, Added
    <3> QED
      BY <2>1, <3>2, <3>3
  <2> QED
    BY <1>0, <1>8, <2>2, ReadClosedDoes, ReaderWoken DEF SharedBecomes, TypeOK
<1>9. ASSUME NEW e \in Ends, PeerReceiveAborted(e) PROVE TypeOK'
  <2>1. resets' \subseteq Ends \X {"send", "receive"}
    <3>1. resets' = resets \cup {<<e, "receive">>} /\ <<e, "receive">> \in Ends \X {"send", "receive"}
      BY <1>0, <1>9, ReceiveAbortedDoes
    <3>2. resets \subseteq Ends \X {"send", "receive"}
      BY <1>0 DEF TypeOK
    <3> QED
      BY <3>1, <3>2, Added
  <2> QED
    BY <1>0, <1>9, <2>1, ReceiveAbortedDoes, WriterWoken DEF SharedBecomes, TypeOK
<1>10. ASSUME NEW e \in Ends, ShutdownComplete(e) PROVE TypeOK'
  <2>1. shut' \subseteq Ends
    <3>1. shut' = shut \cup {e} /\ shut \subseteq Ends
      BY <1>0, <1>10, ShutdownCompleteDoes DEF TypeOK
    <3> QED
      BY <3>1, Added
  <2> QED
    BY <1>0, <1>10, <2>1, ShutdownCompleteDoes, ReaderWoken, WriterWoken DEF SharedBecomes, TypeOK
<1>11. CASE Lose \/ Done \/ UNCHANGED vars
  BY <1>0, <1>11 DEF Lose, Done, vars, TypeOK
<1> QED
  BY <1>1, <1>2, <1>3, <1>4, <1>5, <1>6, <1>7, <1>8, <1>9, <1>10, <1>11 DEF Next, Polls, Callback

-----------------------------------------------------------------------------
\* What concerns one end only: its bookkeeping and its wakers

Local(e) == Exact(e) /\ Woken(e) /\ Writes(e) /\ Contiguous(e)

Steps(e) == Polls(e) \/ Begin(e) \/ Abandon(e) \/ Callback(e)

\* A step of one end leaves what the other keeps for itself.
LEMMA OtherKeeps ==
    ASSUME TypeOK, NEW e \in Ends, NEW t \in Ends, t # e, Steps(e)
    PROVE  /\ shared'[t] = shared[t] /\ reader'[t] = reader[t] /\ writer'[t] = writer[t]
           /\ sent'[t] = sent[t] /\ got'[t] = got[t] /\ pending'[t] = pending[t] /\ fin'[t] = fin[t]
           /\ (t \in shut' <=> t \in shut)
<1>1. ASSUME PollRead(e) PROVE /\ shared'[t] = shared[t] /\ reader'[t] = reader[t] /\ got'[t] = got[t]
                               /\ UNCHANGED <<writer, sent, pending, fin, shut>>
  BY <1>1, PollReadDoes DEF SharedBecomes
<1>2. ASSUME PollWrite(e) PROVE /\ shared'[t] = shared[t] /\ writer'[t] = writer[t] /\ sent'[t] = sent[t]
                                /\ pending'[t] = pending[t] /\ UNCHANGED <<reader, got, fin, shut>>
  BY <1>2, PollWriteDoes DEF SharedBecomes, WriterBecomes, Accepts
<1>3. ASSUME PollFlush(e) \/ PollShutdown(e)
      PROVE  /\ shared'[t] = shared[t] /\ writer'[t] = writer[t] /\ fin'[t] = fin[t]
             /\ UNCHANGED <<reader, sent, got, pending, shut>>
  BY <1>3, FlushDoes, ShutdownDoes DEF SharedBecomes, WriterBecomes
<1>4. ASSUME Begin(e) \/ Abandon(e)
      PROVE  writer'[t] = writer[t] /\ UNCHANGED <<shared, reader, sent, got, pending, fin, shut>>
  BY <1>4, BeginDoes DEF WriterBecomes
<1>5. ASSUME Receive(e) PROVE /\ shared'[t] = shared[t] /\ reader'[t] = reader[t]
                              /\ UNCHANGED <<writer, sent, got, pending, fin, shut>>
  BY <1>5, ReceiveDoes, ReaderWoken DEF SharedBecomes
<1>6. ASSUME SendComplete(e) PROVE /\ shared'[t] = shared[t] /\ writer'[t] = writer[t]
                                   /\ pending'[t] = pending[t] /\ UNCHANGED <<reader, sent, got, fin, shut>>
  BY <1>6, SendCompleteDoes, WriterWoken DEF SharedBecomes
<1>7. ASSUME PeerSendShutdown(e) \/ PeerSendAborted(e)
      PROVE  /\ shared'[t] = shared[t] /\ reader'[t] = reader[t]
             /\ UNCHANGED <<writer, sent, got, pending, fin, shut>>
  BY <1>7, ReadClosedDoes, ReaderWoken DEF SharedBecomes
<1>8. ASSUME PeerReceiveAborted(e)
      PROVE  /\ shared'[t] = shared[t] /\ writer'[t] = writer[t]
             /\ UNCHANGED <<reader, sent, got, pending, fin, shut>>
  BY <1>8, ReceiveAbortedDoes, WriterWoken DEF SharedBecomes
<1>9. ASSUME ShutdownComplete(e)
      PROVE  /\ shared'[t] = shared[t] /\ reader'[t] = reader[t] /\ writer'[t] = writer[t]
             /\ shut' = shut \cup {e} /\ UNCHANGED <<sent, got, pending, fin>>
  <2>1. /\ SharedBecomes(e, shared'[e]) /\ WakeReader(e) /\ WakeWriter(e)
        /\ shut' = shut \cup {e} /\ UNCHANGED <<sent, got, pending, fin>>
    BY <1>9, ShutdownCompleteDoes DEF SharedBecomes
  <2> QED
    BY <2>1, ReaderWoken, WriterWoken DEF SharedBecomes
<1> QED
  BY <1>1, <1>2, <1>3, <1>4, <1>5, <1>6, <1>7, <1>8, <1>9 DEF Steps, Polls, Callback

\* The local part depends on one end only.
LEMMA LocalKept ==
    ASSUME NEW t, Local(t), shared'[t] = shared[t], reader'[t] = reader[t], writer'[t] = writer[t],
           sent'[t] = sent[t], pending'[t] = pending[t], t \in shut' <=> t \in shut
    PROVE  Local(t)'
BY DEF Local, Exact, Unacknowledged, Woken, Writes, Contiguous

\* A step that leaves what is in flight alone leaves its bookkeeping alone.
LEMMA BookKept ==
    ASSUME NEW e, Exact(e) /\ Contiguous(e), shared'[e].inFlight = shared[e].inFlight,
           sent'[e] = sent[e], pending'[e] = pending[e]
    PROVE  Exact(e)' /\ Contiguous(e)'
BY DEF Exact, Unacknowledged, Contiguous

\* Something in flight is a send that is outstanding.
LEMMA InFlightPends ==
    ASSUME NEW e \in Ends, Exact(e), shared[e].inFlight > 0
    PROVE  pending[e] # <<>>
BY DEF Exact, Unacknowledged

Sends == Seq([from: Nat, size: Nat])

\* An outstanding send has a start and a size.
LEMMA SendFields ==
    ASSUME NEW p \in Sends
    PROVE  Len(p) \in Nat /\ \A i \in 1 .. Len(p) : p[i].from \in Nat /\ p[i].size \in Nat
<1>1. Len(p) \in Nat /\ \A i \in 1 .. Len(p) : p[i] \in [from: Nat, size: Nat]
  BY Elements DEF Sends
<1> QED
  BY <1>1

\* A chain grows at its end by the bytes accepted.
LEMMA ChainAppended ==
    ASSUME NEW p \in Sends, NEW total \in Nat, NEW n \in Nat \ {0}, Chain(p, total)
    PROVE  Chain(Append(p, [from |-> total, size |-> n]), total + n)
<1> DEFINE x == [from |-> total, size |-> n]
           q == Append(p, x)
<1>1. x \in [from: Nat, size: Nat] /\ x.from = total /\ x.size = n
  OBVIOUS
<1> HIDE DEF x
<1>2. Len(q) = Len(p) + 1 /\ q[Len(p) + 1] = x /\ \A i \in 1 .. Len(p) : q[i] = p[i]
  BY <1>1, OneMore DEF Sends
<1>3. Len(p) \in Nat /\ \A i \in 1 .. Len(p) : p[i].from \in Nat /\ p[i].size \in Nat
  BY SendFields
<1> HIDE DEF q
<1> SUFFICES ASSUME NEW i \in 1 .. Len(q)
             PROVE  /\ q[i].size > 0 /\ q[i].from + q[i].size <= total + n
                    /\ q[i].from + q[i].size = IF i = Len(q) THEN total + n ELSE q[i + 1].from
  BY DEF Chain, q, x
<1>4. CASE i = Len(p) + 1
  BY <1>1, <1>2, <1>4
<1>5. CASE i \in 1 .. Len(p)
  <2>1. /\ q[i].size > 0 /\ q[i].from + q[i].size <= total
        /\ q[i].from + q[i].size = IF i = Len(p) THEN total ELSE p[i + 1].from
        /\ q[i].from \in Nat /\ q[i].size \in Nat
    BY <1>2, <1>3, <1>5 DEF Chain
  <2>2. q[i + 1].from = IF i = Len(p) THEN total ELSE p[i + 1].from
    BY <1>1, <1>2, <1>3, <1>5
  <2> QED
    BY <1>2, <1>3, <1>5, <2>1, <2>2
<1> QED
  BY <1>2, <1>3, <1>4, <1>5

\* Without its first send it is still one, and starts where that send ended.
LEMMA ChainRest ==
    ASSUME NEW p \in Sends, NEW total \in Nat, p # <<>>, Chain(p, total)
    PROVE  /\ Chain(Tail(p), total)
           /\ Head(p).from \in Nat /\ Head(p).size \in Nat /\ Head(p).from + Head(p).size <= total
           /\ total - (Head(p).from + Head(p).size) =
                 IF Tail(p) = <<>> THEN 0 ELSE total - Head(Tail(p)).from
<1> DEFINE r == Tail(p)
           m == Len(p)
<1>1. /\ Head(p) = p[1] /\ m > 0 /\ m \in Nat /\ Len(r) = m - 1 /\ r \in Sends
      /\ \A i \in 1 .. m - 1 : r[i] = p[i + 1]
  BY FirstAndRest, Elements DEF Sends
<1>2. \A i \in 1 .. m : p[i].from \in Nat /\ p[i].size \in Nat
  BY SendFields
<1>3. \A i \in 1 .. m : /\ p[i].size > 0 /\ p[i].from + p[i].size <= total
                        /\ p[i].from + p[i].size = IF i = m THEN total ELSE p[i + 1].from
  BY DEF Chain
<1>4. r = <<>> <=> m = 1
  <2>1. r = <<>> <=> Len(r) = 0
    BY <1>1, Elements DEF Sends
  <2> HIDE DEF r, m
  <2> QED
    BY <1>1, <2>1
<1>5. m # 1 => Head(r) = r[1]
  BY <1>1, <1>4, FirstAndRest DEF Sends
<1> HIDE DEF r, m
<1>6. 1 \in 1 .. m
  BY <1>1
<1>7. /\ p[1].from \in Nat /\ p[1].size \in Nat /\ p[1].from + p[1].size <= total
      /\ p[1].from + p[1].size = IF 1 = m THEN total ELSE p[2].from
  BY <1>2, <1>3, <1>6
<1>8. Chain(r, total)
  <2> SUFFICES ASSUME NEW i \in 1 .. m - 1
               PROVE  /\ r[i].size > 0 /\ r[i].from + r[i].size <= total
                      /\ r[i].from + r[i].size = IF i = m - 1 THEN total ELSE r[i + 1].from
    BY <1>1 DEF Chain
  <2>1. i + 1 \in 1 .. m /\ r[i] = p[i + 1] /\ (i = m - 1 <=> i + 1 = m)
    BY <1>1
  <2>2. i # m - 1 => r[i + 1] = p[i + 1 + 1]
    BY <1>1
  <2>3. /\ p[i + 1].size > 0 /\ p[i + 1].from + p[i + 1].size <= total
        /\ p[i + 1].from + p[i + 1].size = IF i + 1 = m THEN total ELSE p[i + 1 + 1].from
    BY <1>3, <2>1
  <2> QED
    BY <2>1, <2>2, <2>3
<1>9. CASE m = 1
  BY <1>1, <1>4, <1>7, <1>8, <1>9 DEF r
<1>10. CASE m # 1
  <2>1. Head(r) = p[2]
    BY <1>1, <1>5, <1>10
  <2> QED
    BY <1>1, <1>4, <1>7, <1>8, <1>10, <2>1 DEF r
<1> QED
  BY <1>9, <1>10

\* Accepting a write appends a send; its completion takes the first.
LEMMA AcceptBook ==
    ASSUME TypeOK, NEW e \in Ends, Accepts(e), writer[e].op = "write", Writes(e), Exact(e), Contiguous(e)
    PROVE  Exact(e)' /\ Contiguous(e)'
<1> DEFINE n == writer[e].size
           x == [from |-> sent[e], size |-> n]
<1>1. /\ pending[e] \in Sends /\ sent[e] \in Nat /\ shared[e].inFlight \in Nat
      /\ n \in Chunks /\ n \in Nat \ {0} /\ pending'[e] = Append(pending[e], x)
      /\ sent'[e] = sent[e] + n /\ shared[e].inFlight < MaxInFlight /\ MaxInFlight \in Nat
      /\ Chain(pending[e], sent[e]) /\ shared[e].inFlight = Unacknowledged(e)
  BY Fields, StreamAssumption DEF Accepts, Writes, Sends, Contiguous, Exact
<1>2. shared'[e].inFlight = shared[e].inFlight + n
  BY Fields DEF Accepts, SharedBecomes, StreamShared
<1> HIDE DEF n
<1>3. Contiguous(e)'
  BY <1>1, ChainAppended DEF Contiguous
<1>4. x \in [from: Nat, size: Nat] /\ x.from = sent[e]
  BY <1>1
<1> HIDE DEF x
<1>5. /\ pending'[e] # <<>>
      /\ Head(pending'[e]) = IF pending[e] = <<>> THEN x ELSE Head(pending[e])
  BY <1>1, <1>4, OneMore DEF Sends
<1>6. Unacknowledged(e)' = sent'[e] - Head(pending'[e]).from
  BY <1>1, <1>5, Zenon DEF Unacknowledged
<1>7. CASE pending[e] = <<>>
  <2>1. Unacknowledged(e)' = n /\ shared[e].inFlight = 0
    BY <1>1, <1>4, <1>5, <1>6, <1>7 DEF Unacknowledged
  <2> QED
    BY <1>1, <1>2, <1>3, <2>1 DEF Exact
<1>8. CASE pending[e] # <<>>
  <2>1. Head(pending[e]).from \in Nat
    BY <1>1, <1>8, ChainRest
  <2>2. shared[e].inFlight = sent[e] - Head(pending[e]).from
    BY <1>1, <1>8 DEF Unacknowledged
  <2>3. Unacknowledged(e)' = shared[e].inFlight + n
    BY <1>1, <1>5, <1>6, <1>8, <2>1, <2>2
  <2> QED
    BY <1>1, <1>2, <1>3, <2>3 DEF Exact
<1> QED
  BY <1>7, <1>8

\* SEND_COMPLETE keeps the count exact: the subtraction does not saturate.
LEMMA CompleteBook ==
    ASSUME TypeOK, NEW e \in Ends, SendComplete(e), Exact(e), Contiguous(e)
    PROVE  Exact(e)' /\ Contiguous(e)'
<1> DEFINE p == pending[e]
           h == Head(p)
<1>1. /\ p \in Sends /\ p # <<>> /\ pending'[e] = Tail(p) /\ Chain(p, sent[e])
      /\ sent[e] \in Nat /\ sent'[e] = sent[e] /\ shared[e].inFlight \in Nat
  BY Fields, SendCompleteDoes DEF Sends, Contiguous
<1>2. shared'[e].inFlight = IF shared[e].inFlight < h.size THEN 0 ELSE shared[e].inFlight - h.size
  <2>1. /\ shared[e] \in StreamShared
        /\ shared'[e] = [shared[e] EXCEPT
              !.inFlight = IF shared[e].inFlight < h.size THEN 0 ELSE shared[e].inFlight - h.size,
              !.sendWaker = FALSE]
    BY Fields, SendCompleteDoes DEF SharedBecomes
  <2> HIDE DEF h
  <2> QED
    BY <2>1 DEF StreamShared
<1>3. shared[e].inFlight = sent[e] - h.from
  BY <1>1 DEF Exact, Unacknowledged
<1>4. /\ Chain(Tail(p), sent[e]) /\ h.from \in Nat /\ h.size \in Nat /\ h.from + h.size <= sent[e]
      /\ sent[e] - (h.from + h.size) = IF Tail(p) = <<>> THEN 0 ELSE sent[e] - Head(Tail(p)).from
  BY <1>1, ChainRest
<1>5. Contiguous(e)'
  BY <1>1, <1>4 DEF Contiguous
<1>6. Unacknowledged(e)' = sent[e] - (h.from + h.size)
  BY <1>1, <1>4 DEF Unacknowledged
<1>7. PICK m \in Chunks : shared[e].inFlight < MaxInFlight + m
  BY DEF Exact
<1>8. m \in Nat /\ MaxInFlight \in Nat
  BY StreamAssumption
<1> HIDE DEF h, p
<1>9. /\ shared'[e].inFlight = sent[e] - (h.from + h.size)
      /\ shared'[e].inFlight < MaxInFlight + m
  BY <1>1, <1>2, <1>3, <1>4, <1>7, <1>8
<1> QED
  BY <1>5, <1>6, <1>9 DEF Exact

\* What a change for the reader leaves alone, and one for the writer.
WriteSame(s, t) ==
    t.inFlight = s.inFlight /\ t.sendWaker = s.sendWaker /\ t.closedWrite = s.closedWrite

ReadSame(s, t) ==
    t.recvBuf = s.recvBuf /\ t.recvWaker = s.recvWaker /\ t.closedRead = s.closedRead

\* Each change of the shared state leaves the other side of it alone.
LEMMA Sides ==
    ASSUME NEW s \in StreamShared, NEW buf, NEW n
    PROVE  /\ WriteSame(s, s) /\ WriteSame(s, [s EXCEPT !.recvBuf = buf])
           /\ WriteSame(s, [s EXCEPT !.recvWaker = TRUE])
           /\ WriteSame(s, [s EXCEPT !.recvBuf = buf, !.recvWaker = FALSE])
           /\ WriteSame(s, [s EXCEPT !.closedRead = TRUE, !.recvWaker = FALSE])
           /\ WriteSame(s, [s EXCEPT !.closedRead = TRUE, !.error = TRUE, !.recvWaker = FALSE])
           /\ ReadSame(s, s) /\ ReadSame(s, [s EXCEPT !.inFlight = n])
           /\ ReadSame(s, [s EXCEPT !.sendWaker = TRUE]) /\ ReadSame(s, [s EXCEPT !.closedWrite = TRUE])
           /\ ReadSame(s, [s EXCEPT !.inFlight = n, !.sendWaker = FALSE])
           /\ ReadSame(s, [s EXCEPT !.closedWrite = TRUE, !.error = TRUE, !.sendWaker = FALSE])
           /\ [s EXCEPT !.closedWrite = TRUE, !.error = TRUE, !.sendWaker = FALSE].inFlight = s.inFlight
           /\ [s EXCEPT !.recvWaker = TRUE].recvWaker
           /\ [s EXCEPT !.recvWaker = TRUE].recvBuf = s.recvBuf
           /\ [s EXCEPT !.recvWaker = TRUE].closedRead = s.closedRead
BY DEF StreamShared, WriteSame, ReadSame

\* Every step of an end keeps its bookkeeping and its wakers.  A poll that parks
\* registers its waker under the mutex it found its condition under; a callback
\* that makes the condition true takes the waker and wakes the task.
LEMMA LocalStep ==
    ASSUME IInv, NEW e \in Ends, Steps(e)
    PROVE  Local(e)'
<1>0. /\ TypeOK /\ Exact(e) /\ Woken(e) /\ Writes(e) /\ Contiguous(e) /\ Ended(e)
      /\ shared[e] \in StreamShared /\ writer[e] \in [op: WriterOps, size: Nat, parked: BOOLEAN]
  BY Fields DEF IInv, TypeOK
<1>1. ASSUME PollRead(e) PROVE Local(e)'
  <2>1. /\ shared'[e].inFlight = shared[e].inFlight /\ UNCHANGED <<sent, pending, writer, shut>>
        /\ shared'[e].sendWaker = shared[e].sendWaker /\ shared'[e].closedWrite = shared[e].closedWrite
    <3>1. UNCHANGED <<sent, pending, writer, shut>>
      BY <1>0, <1>1, PollReadDoes
    <3>2. WriteSame(shared[e], shared'[e])
      <4>1. \/ shared' = shared
            \/ \E buf : shared'[e] = [shared[e] EXCEPT !.recvBuf = buf]
            \/ shared'[e] = [shared[e] EXCEPT !.recvWaker = TRUE]
        BY <1>0, <1>1, PollReadDoes DEF SharedBecomes
      <4>2. CASE shared' = shared \/ shared'[e] = [shared[e] EXCEPT !.recvWaker = TRUE]
        BY <1>0, <4>2, Sides
      <4>3. ASSUME NEW buf, shared'[e] = [shared[e] EXCEPT !.recvBuf = buf]
            PROVE  WriteSame(shared[e], shared'[e])
        BY <1>0, <4>3 DEF WriteSame, StreamShared
      <4> QED
        BY <4>1, <4>2, <4>3
    <3> QED
      BY <3>1, <3>2 DEF WriteSame
  <2>2. Exact(e)' /\ Contiguous(e)' /\ Writes(e)'
    BY <1>0, <2>1, BookKept DEF Writes
  <2>3. reader'[e] = "parked" => /\ shared'[e].recvWaker /\ shared'[e].recvBuf = <<>>
                                 /\ ~shared'[e].closedRead /\ e \notin shut
    <3> SUFFICES ASSUME reader'[e] = "parked"
                 PROVE  /\ shared'[e].recvWaker /\ shared'[e].recvBuf = <<>>
                        /\ ~shared'[e].closedRead /\ e \notin shut
      OBVIOUS
    <3>1. /\ shared[e].recvBuf = <<>> /\ ~shared[e].closedRead
          /\ shared'[e] = [shared[e] EXCEPT !.recvWaker = TRUE]
      BY <1>0, <1>1, PollReadDoes DEF SharedBecomes
    <3> QED
      BY <1>0, <3>1, Sides DEF Ended
  <2> QED
    BY <1>0, <2>1, <2>2, <2>3 DEF Local, Woken
<1>2. ASSUME PollWrite(e) PROVE Local(e)'
  <2>1. CASE Accepts(e)
    <3>1. Exact(e)' /\ Contiguous(e)'
      BY <1>0, <1>2, <2>1, PollWriteDoes, AcceptBook
    <3>2. /\ writer'[e].op = "idle" /\ ~writer'[e].parked /\ UNCHANGED <<reader, shut>>
          /\ shared'[e].recvWaker = shared[e].recvWaker /\ shared'[e].recvBuf = shared[e].recvBuf
          /\ shared'[e].closedRead = shared[e].closedRead
      BY <1>0, <1>2, <2>1, PollWriteDoes DEF Accepts, SharedBecomes, WriterBecomes, Stopped, StreamShared
    <3> QED
      BY <1>0, <3>1, <3>2 DEF Local, Woken, Writes
  <2>2. CASE /\ ~shared[e].closedWrite /\ shared[e].inFlight >= MaxInFlight
             /\ SharedBecomes(e, [shared[e] EXCEPT !.sendWaker = TRUE])
             /\ WriterBecomes(e, [writer[e] EXCEPT !.parked = TRUE])
             /\ UNCHANGED <<sent, wire, pending>>
    <3>1. pending[e] # <<>>
      BY <1>0, <2>2, Fields, InFlightPends, StreamAssumption
    <3>2. UNCHANGED <<reader, shut, sent, pending>> /\ writer[e].op = "write"
      BY <1>0, <1>2, <2>2, PollWriteDoes
    <3>3. Exact(e)' /\ Contiguous(e)'
      BY <1>0, <2>2, <3>2, BookKept DEF SharedBecomes, StreamShared
    <3>4. Woken(e)'
      BY <1>0, <2>2, <3>1, <3>2 DEF SharedBecomes, WriterBecomes, StreamShared, Woken
    <3>5. Writes(e)'
      BY <1>0, <2>2, <3>2 DEF WriterBecomes, Writes
    <3> QED
      BY <3>3, <3>4, <3>5 DEF Local
  <2>3. CASE WriterBecomes(e, Stopped("failed")) /\ UNCHANGED <<shared, sent, wire, pending>>
    <3>1. UNCHANGED <<reader, shut, sent, pending, shared>> /\ writer'[e].op = "failed" /\ ~writer'[e].parked
      <4>1. UNCHANGED <<reader, shut>>
        BY <1>0, <1>2, PollWriteDoes
      <4> QED
        BY <2>3, <4>1 DEF WriterBecomes, Stopped
    <3> QED
      BY <1>0, <3>1, BookKept DEF Local, Woken, Writes
  <2> QED
    BY <1>0, <1>2, <2>1, <2>2, <2>3, PollWriteDoes
<1>3. ASSUME PollFlush(e) \/ PollShutdown(e) PROVE Local(e)'
  <2>1. CASE /\ shared[e].inFlight > 0
             /\ SharedBecomes(e, [shared[e] EXCEPT !.sendWaker = TRUE])
             /\ WriterBecomes(e, [writer[e] EXCEPT !.parked = TRUE])
    <3>1. pending[e] # <<>>
      BY <1>0, <2>1, InFlightPends
    <3>2. UNCHANGED <<reader, shut, sent, pending>> /\ writer[e].op \in {"flush", "shutdown"}
      BY <1>0, <1>3, FlushDoes, ShutdownDoes
    <3>3. Exact(e)' /\ Contiguous(e)'
      BY <1>0, <2>1, <3>2, BookKept DEF SharedBecomes, StreamShared
    <3>4. Woken(e)'
      BY <1>0, <2>1, <3>1, <3>2 DEF SharedBecomes, WriterBecomes, StreamShared, Woken
    <3>5. Writes(e)'
      BY <1>0, <2>1, <3>2 DEF WriterBecomes, Writes
    <3> QED
      BY <3>3, <3>4, <3>5 DEF Local
  <2>2. CASE /\ WriterBecomes(e, Stopped("idle")) \/ WriterBecomes(e, Stopped("closed"))
             /\ UNCHANGED shared \/ SharedBecomes(e, [shared[e] EXCEPT !.closedWrite = TRUE])
    <3>1. UNCHANGED <<reader, shut, sent, pending>>
      BY <1>0, <1>3, FlushDoes, ShutdownDoes
    <3>2. writer'[e].op \in {"idle", "closed"} /\ ~writer'[e].parked
      BY <2>2 DEF WriterBecomes, Stopped
    <3>3. /\ shared'[e].inFlight = shared[e].inFlight
          /\ shared'[e].recvWaker = shared[e].recvWaker /\ shared'[e].recvBuf = shared[e].recvBuf
          /\ shared'[e].closedRead = shared[e].closedRead
      BY <1>0, <2>2 DEF SharedBecomes, StreamShared
    <3> QED
      BY <1>0, <3>1, <3>2, <3>3, BookKept DEF Local, Woken, Writes
  <2> QED
    BY <1>0, <1>3, <2>1, <2>2, FlushDoes, ShutdownDoes
<1>4. ASSUME Begin(e) \/ Abandon(e) PROVE Local(e)'
  <2>1. /\ UNCHANGED <<shared, reader, shut, sent, pending>> /\ ~writer'[e].parked
        /\ writer'[e].op = "write" => writer'[e].size \in Chunks /\ sent[e] + writer'[e].size <= Total[e]
    <3>1. /\ UNCHANGED <<shared, reader, shut, sent, pending>>
          /\ \E op \in {"idle", "write", "flush", "shutdown"}, n \in Chunks \cup {0} :
                 /\ WriterBecomes(e, [op |-> op, size |-> n, parked |-> FALSE])
                 /\ op = "write" => n \in Chunks /\ sent[e] + n <= Total[e]
      BY <1>0, <1>4, BeginDoes
    <3> QED
      BY <3>1 DEF WriterBecomes
  <2> QED
    BY <1>0, <2>1, BookKept DEF Local, Woken, Writes
<1>5. ASSUME /\ WakeReader(e) /\ UNCHANGED <<sent, pending, writer>>
             /\ shared'[e].inFlight = shared[e].inFlight
             /\ shared'[e].sendWaker = shared[e].sendWaker /\ shared'[e].closedWrite = shared[e].closedWrite
      PROVE  Local(e)'
  <2>1. reader'[e] # "parked"
    BY <1>0, <1>5, ReaderWoken DEF Woken
  <2> QED
    BY <1>0, <1>5, <2>1, BookKept DEF Local, Woken, Writes
<1>6. ASSUME Receive(e) \/ PeerSendShutdown(e) \/ PeerSendAborted(e) PROVE Local(e)'
  <2>1. CASE Receive(e)
    <3>1. PICK buf : SharedBecomes(e, [shared[e] EXCEPT !.recvBuf = buf, !.recvWaker = FALSE])
      BY <1>0, <2>1, ReceiveDoes
    <3>2. /\ shared'[e].inFlight = shared[e].inFlight
          /\ shared'[e].sendWaker = shared[e].sendWaker /\ shared'[e].closedWrite = shared[e].closedWrite
      BY <1>0, <3>1 DEF SharedBecomes, StreamShared
    <3> QED
      BY <1>0, <2>1, <3>2, <1>5, ReceiveDoes
  <2>2. CASE PeerSendShutdown(e) \/ PeerSendAborted(e)
    <3>1. /\ shared'[e].inFlight = shared[e].inFlight
          /\ shared'[e].sendWaker = shared[e].sendWaker /\ shared'[e].closedWrite = shared[e].closedWrite
      <4>1. \/ shared'[e] = [shared[e] EXCEPT !.closedRead = TRUE, !.recvWaker = FALSE]
            \/ shared'[e] = [shared[e] EXCEPT !.closedRead = TRUE, !.error = TRUE, !.recvWaker = FALSE]
        BY <1>0, <2>2, ReadClosedDoes DEF SharedBecomes
      <4>2. WriteSame(shared[e], shared'[e])
        BY <1>0, <4>1, Sides
      <4> QED
        BY <4>2 DEF WriteSame
    <3> QED
      BY <1>0, <2>2, <3>1, <1>5, ReadClosedDoes
  <2> QED
    BY <1>6, <2>1, <2>2
<1>7. ASSUME SendComplete(e) PROVE Local(e)'
  <2>1. Exact(e)' /\ Contiguous(e)'
    BY <1>0, <1>7, CompleteBook
  <2>2. /\ WakeWriter(e) /\ UNCHANGED <<reader, sent, shut>>
        /\ SharedBecomes(e, [shared[e] EXCEPT !.inFlight = shared'[e].inFlight, !.sendWaker = FALSE])
    BY <1>0, <1>7, SendCompleteDoes DEF SharedBecomes, StreamShared
  <2>3. /\ shared'[e].recvWaker = shared[e].recvWaker /\ shared'[e].recvBuf = shared[e].recvBuf
        /\ shared'[e].closedRead = shared[e].closedRead
    BY <1>0, <2>2 DEF SharedBecomes, StreamShared
  <2>4. ~writer'[e].parked /\ writer'[e].op = writer[e].op /\ writer'[e].size = writer[e].size
    BY <1>0, <2>2, WriterWoken DEF Woken
  <2> QED
    BY <1>0, <2>1, <2>2, <2>3, <2>4 DEF Local, Woken, Writes
<1>8. ASSUME PeerReceiveAborted(e) PROVE Local(e)'
  <2>1. /\ shared'[e].inFlight = shared[e].inFlight /\ UNCHANGED <<reader, sent, pending, shut>>
        /\ shared'[e].recvWaker = shared[e].recvWaker /\ shared'[e].recvBuf = shared[e].recvBuf
        /\ shared'[e].closedRead = shared[e].closedRead
    <3>1. ReadSame(shared[e], shared'[e]) /\ shared'[e].inFlight = shared[e].inFlight
      BY <1>0, <1>8, ReceiveAbortedDoes, Sides DEF SharedBecomes
    <3> QED
      BY <1>0, <1>8, <3>1, ReceiveAbortedDoes DEF ReadSame
  <2>2. ~writer'[e].parked /\ writer'[e].op = writer[e].op /\ writer'[e].size = writer[e].size
    BY <1>0, <1>8, ReceiveAbortedDoes, WriterWoken DEF Woken
  <2> QED
    BY <1>0, <2>1, <2>2, BookKept DEF Local, Woken, Writes
<1>9. ASSUME ShutdownComplete(e) PROVE Local(e)'
  <2>1. /\ shared'[e].inFlight = shared[e].inFlight /\ UNCHANGED <<sent, pending>>
        /\ WakeReader(e) /\ WakeWriter(e)
    BY <1>0, <1>9, ShutdownCompleteDoes DEF SharedBecomes, StreamShared
  <2>2. ~writer'[e].parked /\ writer'[e].op = writer[e].op /\ writer'[e].size = writer[e].size
    BY <1>0, <2>1, WriterWoken DEF Woken
  <2>3. reader'[e] # "parked"
    BY <1>0, <2>1, ReaderWoken DEF Woken
  <2> QED
    BY <1>0, <2>1, <2>2, <2>3, BookKept DEF Local, Woken, Writes
<1> QED
  BY <1>1, <1>2, <1>3, <1>4, <1>6, <1>7, <1>8, <1>9 DEF Steps, Polls, Callback

-----------------------------------------------------------------------------
\* The bytes: from one end to the other

\* Consecutive bytes stay so in a first part and in the rest.
LEMMA NumberedSplit ==
    ASSUME NEW s \in Seq(Nat), NEW n \in Nat, NEW k \in Nat, n <= Len(s), Numbered(s, k)
    PROVE  Numbered(SubSeq(s, 1, n), k) /\ Numbered(SubSeq(s, n + 1, Len(s)), k + n)
<1>1. /\ Len(SubSeq(s, 1, n)) = n /\ \A i \in 1 .. n : SubSeq(s, 1, n)[i] = s[i]
      /\ Len(SubSeq(s, n + 1, Len(s))) = Len(s) - n /\ Len(s) \in Nat
      /\ \A i \in 1 .. Len(s) - n : SubSeq(s, n + 1, Len(s))[i] = s[n + i]
  BY Pieces, Elements
<1>2. \A i \in 1 .. n : s[i] = k + i
  BY <1>1 DEF Numbered
<1>3. \A i \in 1 .. Len(s) - n : s[n + i] = k + n + i
  BY <1>1 DEF Numbered
<1> QED
  BY <1>1, <1>2, <1>3 DEF Numbered

\* Consecutive bytes followed by the next ones.
LEMMA NumberedJoin ==
    ASSUME NEW s \in Seq(Nat), NEW t \in Seq(Nat), NEW k \in Nat, Numbered(s, k), Numbered(t, k + Len(s))
    PROVE  Numbered(s \o t, k)
<1> DEFINE u == s \o t
<1>1. /\ Len(u) = Len(s) + Len(t) /\ \A i \in 1 .. Len(s) : u[i] = s[i]
      /\ \A i \in 1 .. Len(t) : u[Len(s) + i] = t[i]
      /\ Len(s) \in Nat /\ Len(t) \in Nat
  BY Joined, Elements
<1> HIDE DEF u
<1> SUFFICES ASSUME NEW i \in 1 .. Len(u) PROVE u[i] = k + i
  BY DEF Numbered, u
<1>2. CASE i <= Len(s)
  BY <1>1, <1>2 DEF Numbered
<1>3. CASE i > Len(s)
  <2>1. i - Len(s) \in 1 .. Len(t) /\ i = Len(s) + (i - Len(s))
    BY <1>1, <1>3
  <2>2. u[i] = t[i - Len(s)] /\ t[i - Len(s)] = k + Len(s) + (i - Len(s))
    BY <1>1, <2>1 DEF Numbered
  <2> QED
    BY <1>1, <2>1, <2>2
<1> QED
  BY <1>1, <1>2, <1>3

\* The bytes of a write.
LEMMA BytesNumbered ==
    ASSUME NEW n \in Nat, NEW k \in Nat
    PROVE  /\ [i \in 1 .. n |-> k + i] \in Seq(Nat) /\ Len([i \in 1 .. n |-> k + i]) = n
           /\ Numbered([i \in 1 .. n |-> k + i], k)
<1>1. [i \in 1 .. n |-> k + i] \in [1 .. n -> Nat]
  OBVIOUS
<1>2. [i \in 1 .. n |-> k + i] \in Seq(Nat) /\ Len([i \in 1 .. n |-> k + i]) = n
  BY <1>1
<1> QED
  BY <1>2 DEF Numbered

\* The ways a step of an end touches the bytes: it is handed some, some arrive,
\* it accepts some; any other step leaves all of them where they are.
Hands(e, n) ==
    /\ got'[e] = got[e] \o SubSeq(shared[e].recvBuf, 1, n)
    /\ shared'[e].recvBuf = SubSeq(shared[e].recvBuf, n + 1, Len(shared[e].recvBuf))
    /\ UNCHANGED <<sent, wire>>

Arrives(e, n) ==
    /\ shared'[e].recvBuf = shared[e].recvBuf \o SubSeq(wire[Peer(e)], 1, n)
    /\ wire'[Peer(e)] = SubSeq(wire[Peer(e)], n + 1, Len(wire[Peer(e)])) /\ wire'[e] = wire[e]
    /\ UNCHANGED <<sent, got>>

\* Every step of an end touches the bytes in one of these ways, and not the connection.
LEMMA StepBytes ==
    ASSUME TypeOK, NEW e \in Ends, Steps(e)
    PROVE  /\ conn' = conn
           /\ \/ PollRead(e) /\ \E n \in 1 .. Len(shared[e].recvBuf) : Hands(e, n)
              \/ Receive(e) /\ \E n \in 1 .. Len(wire[Peer(e)]) : Arrives(e, n)
              \/ PollWrite(e) /\ Accepts(e) /\ UNCHANGED got /\ shared'[e].recvBuf = shared[e].recvBuf
              \/ UNCHANGED <<sent, got, wire>> /\ shared'[e].recvBuf = shared[e].recvBuf
<1>0. shared[e] \in StreamShared
  BY Fields
<1>1. ASSUME PollRead(e)
      PROVE  /\ conn' = conn
             /\ \/ \E n \in 1 .. Len(shared[e].recvBuf) : Hands(e, n)
                \/ UNCHANGED <<sent, got, wire>> /\ shared'[e].recvBuf = shared[e].recvBuf
  <2>1. UNCHANGED <<conn, sent, wire>>
    BY <1>1, PollReadDoes
  <2>2. CASE shared' = shared /\ got' = got
    BY <2>1, <2>2
  <2>3. ASSUME NEW n \in 1 .. Len(shared[e].recvBuf), got'[e] = got[e] \o SubSeq(shared[e].recvBuf, 1, n),
               SharedBecomes(e, [shared[e] EXCEPT !.recvBuf =
                                 SubSeq(shared[e].recvBuf, n + 1, Len(shared[e].recvBuf))])
        PROVE  Hands(e, n)
    BY <1>0, <2>1, <2>3 DEF SharedBecomes, StreamShared, Hands
  <2>4. CASE SharedBecomes(e, [shared[e] EXCEPT !.recvWaker = TRUE]) /\ got' = got
    BY <1>0, <2>1, <2>4, Sides DEF SharedBecomes
  <2> QED
    BY <1>1, <2>1, <2>2, <2>3, <2>4, PollReadDoes
<1>2. ASSUME PollWrite(e)
      PROVE  /\ conn' = conn /\ got' = got /\ shared'[e].recvBuf = shared[e].recvBuf
             /\ Accepts(e) \/ UNCHANGED <<sent, wire>>
  <2>1. UNCHANGED <<conn, got>> /\ (Accepts(e) \/ UNCHANGED <<sent, wire>>)
    BY <1>2, PollWriteDoes
  <2>2. \/ \E n : shared'[e] = [shared[e] EXCEPT !.inFlight = n]
        \/ shared'[e] = [shared[e] EXCEPT !.sendWaker = TRUE] \/ shared' = shared
    BY <1>2, PollWriteDoes DEF Accepts, SharedBecomes
  <2>3. ASSUME NEW n, shared'[e] = [shared[e] EXCEPT !.inFlight = n]
        PROVE  shared'[e].recvBuf = shared[e].recvBuf
    BY <1>0, <2>3 DEF StreamShared
  <2>4. shared'[e] = [shared[e] EXCEPT !.sendWaker = TRUE] => shared'[e].recvBuf = shared[e].recvBuf
    BY <1>0 DEF StreamShared
  <2> QED
    BY <2>1, <2>2, <2>3, <2>4
<1>3. ASSUME PollFlush(e) \/ PollShutdown(e)
      PROVE  UNCHANGED <<conn, sent, got, wire>> /\ shared'[e].recvBuf = shared[e].recvBuf
  <2>1. \/ shared'[e] = [shared[e] EXCEPT !.sendWaker = TRUE] \/ shared' = shared
        \/ shared'[e] = [shared[e] EXCEPT !.closedWrite = TRUE]
    BY <1>3, FlushDoes, ShutdownDoes DEF SharedBecomes
  <2>2. shared'[e].recvBuf = shared[e].recvBuf
    BY <1>0, <2>1 DEF StreamShared
  <2> QED
    BY <1>3, <2>2, FlushDoes, ShutdownDoes
<1>4. ASSUME Begin(e) \/ Abandon(e)
      PROVE  UNCHANGED <<conn, sent, got, wire>> /\ shared'[e].recvBuf = shared[e].recvBuf
  BY <1>4, BeginDoes
<1>5. ASSUME Receive(e) PROVE conn' = conn /\ \E n \in 1 .. Len(wire[Peer(e)]) : Arrives(e, n)
  <2>1. PICK n \in 1 .. Len(wire[Peer(e)]) :
           /\ SharedBecomes(e, [shared[e] EXCEPT
                    !.recvBuf = shared[e].recvBuf \o SubSeq(wire[Peer(e)], 1, n), !.recvWaker = FALSE])
           /\ wire'[Peer(e)] = SubSeq(wire[Peer(e)], n + 1, Len(wire[Peer(e)]))
    BY <1>5, ReceiveDoes
  <2>2. UNCHANGED <<conn, sent, got>> /\ wire'[e] = wire[e]
    BY <1>5, ReceiveDoes
  <2>3. shared'[e].recvBuf = shared[e].recvBuf \o SubSeq(wire[Peer(e)], 1, n)
    BY <1>0, <2>1 DEF SharedBecomes, StreamShared
  <2> QED
    BY <2>1, <2>2, <2>3 DEF Arrives
<1>6. ASSUME SendComplete(e)
      PROVE  UNCHANGED <<conn, sent, got, wire>> /\ shared'[e].recvBuf = shared[e].recvBuf
  <2>1. PICK n : shared'[e] = [shared[e] EXCEPT !.inFlight = n, !.sendWaker = FALSE]
    BY <1>6, SendCompleteDoes DEF SharedBecomes
  <2> QED
    BY <1>0, <1>6, <2>1, SendCompleteDoes DEF StreamShared
<1>7. ASSUME PeerSendShutdown(e) \/ PeerSendAborted(e)
      PROVE  UNCHANGED <<conn, sent, got, wire>> /\ shared'[e].recvBuf = shared[e].recvBuf
  <2>1. \/ shared'[e] = [shared[e] EXCEPT !.closedRead = TRUE, !.recvWaker = FALSE]
        \/ shared'[e] = [shared[e] EXCEPT !.closedRead = TRUE, !.error = TRUE, !.recvWaker = FALSE]
    BY <1>7, ReadClosedDoes DEF SharedBecomes
  <2>2. shared'[e].recvBuf = shared[e].recvBuf
    BY <1>0, <2>1 DEF StreamShared
  <2> QED
    BY <1>7, <2>2, ReadClosedDoes
<1>8. ASSUME PeerReceiveAborted(e) \/ ShutdownComplete(e)
      PROVE  UNCHANGED <<conn, sent, got, wire>> /\ shared'[e].recvBuf = shared[e].recvBuf
  <2>1. \/ shared'[e] = [shared[e] EXCEPT !.closedWrite = TRUE, !.error = TRUE, !.sendWaker = FALSE]
        \/ shared'[e] = [shared[e] EXCEPT !.closedRead = TRUE, !.closedWrite = TRUE,
                                          !.recvWaker = FALSE, !.sendWaker = FALSE]
    BY <1>8, ReceiveAbortedDoes, ShutdownCompleteDoes DEF SharedBecomes
  <2>2. shared'[e].recvBuf = shared[e].recvBuf
    BY <1>0, <2>1 DEF StreamShared
  <2> QED
    BY <1>8, <2>2, ReceiveAbortedDoes, ShutdownCompleteDoes
<1> QED
  BY <1>1, <1>2, <1>3, <1>4, <1>5, <1>6, <1>7, <1>8 DEF Steps, Polls, Callback

\* Sums of lengths.
LEMMA Sums ==
    ASSUME NEW a \in Nat, NEW b \in Nat, NEW c \in Nat
    PROVE  a + b \in Nat /\ a + (b + c) = (a + b) + c
OBVIOUS

\* A part of a sum is within its bound.
LEMMA PartOf ==
    ASSUME NEW a \in Nat, NEW b \in Nat, NEW c \in Nat, NEW n \in Nat, NEW s \in Nat,
           n <= b, (a + b) + c <= s
    PROVE  a + n <= s
OBVIOUS

\* The lengths that place the bytes are numbers.
LEMMA Measures ==
    ASSUME TypeOK, NEW e \in Ends
    PROVE  /\ Handed(e) = Len(got[e]) /\ Handed(e) \in Nat /\ Len(shared[e].recvBuf) \in Nat
           /\ Buffered(e) = Handed(e) + Len(shared[e].recvBuf) /\ Buffered(e) \in Nat
           /\ Underway(e) = Buffered(e) + Len(wire[Peer(e)]) /\ Underway(e) \in Nat
<1>1. Handed(e) = Len(got[e]) /\ Handed(e) \in Nat
  BY Fields, Elements DEF Handed
<1>2. Len(shared[e].recvBuf) \in Nat /\ Len(wire[Peer(e)]) \in Nat
  BY EndsAre, Fields, Elements
<1>3. Buffered(e) = Handed(e) + Len(shared[e].recvBuf) /\ Buffered(e) \in Nat
  <2>1. Buffered(e) = Handed(e) + Len(shared[e].recvBuf)
    BY Zenon DEF Buffered
  <2> QED
    BY <1>1, <1>2, <2>1, Sums
<1>4. Underway(e) = Buffered(e) + Len(wire[Peer(e)]) /\ Underway(e) \in Nat
  <2>1. Underway(e) = Buffered(e) + Len(wire[Peer(e)])
    BY Zenon DEF Underway
  <2> QED
    BY <1>2, <1>3, <2>1, Sums
<1> QED
  BY <1>1, <1>2, <1>3, <1>4

\* The bytes for e and their places stay the same.
LEMMA FlowKept ==
    ASSUME NEW e \in Ends, Flow(e), got'[e] = got[e], shared'[e].recvBuf = shared[e].recvBuf,
           wire'[Peer(e)] = wire[Peer(e)], sent'[Peer(e)] = sent[Peer(e)], conn' = "up" => conn = "up"
    PROVE  Flow(e)'
<1>1. /\ Handed(e)' = Handed(e) /\ Buffered(e)' = Buffered(e) /\ Underway(e)' = Underway(e)
  BY DEF Handed, Buffered, Underway
<1> QED
  BY <1>1 DEF Flow, Numbered

\* What poll_read hands over is what follows what was handed over before.
LEMMA HandsFlow ==
    ASSUME TypeOK, NEW e \in Ends, Flow(e), conn' = conn, NEW n \in 1 .. Len(shared[e].recvBuf), Hands(e, n)
    PROVE  Flow(e)'
<1> DEFINE buf == shared[e].recvBuf
           head == SubSeq(buf, 1, n)
           rest == SubSeq(buf, n + 1, Len(buf))
<1>1. /\ buf \in Seq(Nat) /\ got[e] \in Seq(Nat) /\ wire[Peer(e)] \in Seq(Nat)
      /\ Len(buf) \in Nat /\ Len(got[e]) \in Nat /\ Len(wire[Peer(e)]) \in Nat
      /\ sent[Peer(e)] \in Nat
  BY EndsAre, Fields, Elements
<1>2. n \in Nat /\ n <= Len(buf)
  BY <1>1
<1>3. head \in Seq(Nat) /\ Len(head) = n /\ Len(rest) = Len(buf) - n
  BY <1>1, <1>2, Pieces
<1>4. Numbered(head, Len(got[e])) /\ Numbered(rest, Len(got[e]) + n) /\ Numbered(got[e], 0)
  BY <1>1, <1>2, NumberedSplit DEF Flow, Handed
<1>5. Len(got[e] \o head) = Len(got[e]) + n /\ Numbered(got[e] \o head, 0)
  <2>1. Len(got[e] \o head) = Len(got[e]) + n
    BY <1>1, <1>3, Joined
  <2>2. 0 + Len(got[e]) = Len(got[e])
    BY <1>1
  <2> HIDE DEF head
  <2> QED
    BY <1>1, <1>3, <1>4, <2>1, <2>2, NumberedJoin
<1>6. /\ got'[e] = got[e] \o head /\ shared'[e].recvBuf = rest
      /\ wire'[Peer(e)] = wire[Peer(e)] /\ sent' = sent
  BY DEF Hands
<1> HIDE DEF head, rest, buf
<1>7. Handed(e)' = Len(got[e]) + n /\ Buffered(e)' = Buffered(e) /\ Underway(e)' = Underway(e)
  <2>1. Handed(e)' = Len(got[e]) + n /\ Handed(e) = Len(got[e])
    BY <1>5, <1>6 DEF Handed
  <2>2. Buffered(e)' = Handed(e)' + Len(rest) /\ Buffered(e) = Handed(e) + Len(buf)
    BY <1>6, Zenon DEF Buffered, buf
  <2>3. Buffered(e)' = Buffered(e)
    BY <1>1, <1>2, <1>3, <2>1, <2>2
  <2> QED
    BY <1>6, <2>1, <2>3 DEF Underway
<1>8. Numbered(got'[e], 0) /\ Numbered(shared'[e].recvBuf, Handed(e)') /\ Numbered(wire'[Peer(e)], Buffered(e)')
  BY <1>4, <1>5, <1>6, <1>7 DEF Flow
<1>9. Underway(e)' <= sent'[Peer(e)] /\ (conn' = "up" => Underway(e)' = sent'[Peer(e)])
  BY <1>6, <1>7 DEF Flow
<1> QED
  BY <1>8, <1>9 DEF Flow, Numbered

\* What RECEIVE appends follows what is buffered.
LEMMA ArrivesFlow ==
    ASSUME TypeOK, NEW e \in Ends, Flow(e), conn' = conn, NEW n \in 1 .. Len(wire[Peer(e)]), Arrives(e, n)
    PROVE  Flow(e)'
<1> DEFINE buf == shared[e].recvBuf
           w == wire[Peer(e)]
           head == SubSeq(w, 1, n)
           rest == SubSeq(w, n + 1, Len(w))
<1>1. /\ buf \in Seq(Nat) /\ got[e] \in Seq(Nat) /\ w \in Seq(Nat)
      /\ Len(buf) \in Nat /\ Len(got[e]) \in Nat /\ Len(w) \in Nat
      /\ sent[Peer(e)] \in Nat
  BY EndsAre, Fields, Elements
<1>2. n \in Nat /\ n <= Len(w) /\ Buffered(e) \in Nat /\ Buffered(e) = Len(got[e]) + Len(buf)
  <2>1. n \in Nat /\ n <= Len(w)
    BY <1>1
  <2> QED
    BY <2>1, Measures
<1>3. head \in Seq(Nat) /\ Len(head) = n /\ Len(rest) = Len(w) - n
  BY <1>1, <1>2, Pieces
<1>4. Numbered(head, Buffered(e)) /\ Numbered(rest, Buffered(e) + n) /\ Numbered(buf, Len(got[e]))
  BY <1>1, <1>2, NumberedSplit DEF Flow, Handed
<1> HIDE DEF head, rest, buf, w
<1>5. Len(buf \o head) = Len(buf) + n /\ Numbered(buf \o head, Len(got[e]))
  BY <1>1, <1>2, <1>3, <1>4, Joined, NumberedJoin
<1>6. /\ shared'[e].recvBuf = buf \o head /\ wire'[Peer(e)] = rest /\ got' = got /\ sent' = sent
  BY DEF Arrives, buf, head, rest, w
<1>7. /\ Handed(e)' = Len(got[e]) /\ Buffered(e)' = Buffered(e) + n
      /\ Underway(e)' = Underway(e)
  <2>1. Handed(e)' = Len(got[e])
    BY <1>6 DEF Handed
  <2>2. Buffered(e)' = Handed(e)' + Len(buf \o head)
    BY <1>6, Zenon DEF Buffered
  <2>3. Buffered(e)' = Buffered(e) + n
    <3>1. Buffered(e)' = Len(got[e]) + (Len(buf) + n)
      BY <1>5, <2>1, <2>2
    <3>2. Buffered(e) + n = (Len(got[e]) + Len(buf)) + n
      BY <1>2
    <3>3. Len(got[e]) \in Nat /\ Len(buf) \in Nat /\ n \in Nat
      BY <1>1, <1>2
    <3>4. Len(got[e]) + (Len(buf) + n) = (Len(got[e]) + Len(buf)) + n
      BY <3>3, Sums
    <3> QED
      BY <3>1, <3>2, <3>4
  <2>4. Underway(e)' = Buffered(e)' + Len(rest) /\ Underway(e) = Buffered(e) + Len(w)
    BY <1>6, Zenon DEF Underway, w
  <2> QED
    BY <1>1, <1>2, <1>3, <2>1, <2>3, <2>4
<1>8. Numbered(got'[e], 0) /\ Numbered(shared'[e].recvBuf, Handed(e)') /\ Numbered(wire'[Peer(e)], Buffered(e)')
  BY <1>4, <1>5, <1>6, <1>7 DEF Flow
<1>9. Underway(e)' <= sent'[Peer(e)] /\ (conn' = "up" => Underway(e)' = sent'[Peer(e)])
  BY <1>6, <1>7 DEF Flow
<1> QED
  BY <1>8, <1>9 DEF Flow, Numbered

\* e accepts a write: its bytes follow those on the way to t.
LEMMA AcceptsFlow ==
    ASSUME TypeOK, NEW e \in Ends, NEW t \in Ends, t # e, Flow(t), Writes(e), writer[e].op = "write",
           Accepts(e), conn' = conn, got'[t] = got[t], shared'[t] = shared[t]
    PROVE  Flow(t)'
<1> DEFINE n == writer[e].size
           w == wire[e]
           new == [i \in 1 .. n |-> sent[e] + i]
<1>1. /\ Peer(t) = e /\ shared[t].recvBuf \in Seq(Nat) /\ got[t] \in Seq(Nat) /\ w \in Seq(Nat)
      /\ Len(shared[t].recvBuf) \in Nat /\ Len(got[t]) \in Nat /\ Len(w) \in Nat /\ sent[e] \in Nat
      /\ n \in Nat
  BY Fields, Elements, StreamAssumption DEF Ends, Peer, Writes
<1>2. Handed(t)' = Handed(t) /\ Buffered(t)' = Buffered(t) /\ Buffered(t) \in Nat
  <2>1. Handed(t)' = Handed(t) /\ Buffered(t)' = Buffered(t)
    BY DEF Handed, Buffered
  <2> QED
    BY <2>1, Measures
<1>3. Underway(t) = Buffered(t) + Len(w) /\ Underway(t)' = Buffered(t) + Len(wire'[e])
  BY <1>1, <1>2 DEF Underway
<1>4. sent'[e] = sent[e] + n /\ wire'[e] = IF conn = "up" THEN w \o new ELSE w
  BY DEF Accepts
<1>5. Underway(t) <= sent[e] /\ (conn = "up" => Underway(t) = sent[e]) /\ Numbered(w, Buffered(t))
  BY <1>1 DEF Flow
<1>6. /\ Underway(t)' <= sent'[e] /\ (conn' = "up" => Underway(t)' = sent'[e])
      /\ Numbered(wire'[e], Buffered(t))
  <2>1. CASE conn = "up"
    <3>1. new \in Seq(Nat) /\ Len(new) = n /\ Numbered(new, sent[e])
      BY <1>1, BytesNumbered
    <3> HIDE DEF new, n, w
    <3>2. sent[e] = Buffered(t) + Len(w)
      BY <1>3, <1>5, <2>1
    <3>3. Len(w \o new) = Len(w) + n /\ Numbered(w \o new, Buffered(t))
      BY <1>1, <1>2, <1>5, <3>1, <3>2, Joined, NumberedJoin
    <3> QED
      BY <1>1, <1>2, <1>3, <1>4, <1>5, <2>1, <3>2, <3>3
  <2>2. CASE conn # "up"
    <3>1. wire'[e] = w
      BY <1>4, <2>2
    <3> HIDE DEF n, w
    <3> QED
      BY <1>1, <1>2, <1>3, <1>4, <1>5, <2>2, <3>1
  <2> QED
    BY <2>1, <2>2
<1>7. Numbered(got'[t], 0) /\ Numbered(shared'[t].recvBuf, Handed(t)')
  BY <1>2 DEF Flow
<1> QED
  BY <1>1, <1>2, <1>6, <1>7 DEF Flow, Numbered

\* Every step keeps the bytes of both directions in order and without gaps.
LEMMA FlowStep ==
    ASSUME IInv, NEW e \in Ends, Steps(e), NEW t \in Ends
    PROVE  Flow(t)'
<1>0. /\ TypeOK /\ Flow(e) /\ Flow(t) /\ Writes(e) /\ conn' = conn
      /\ Peer(e) \in Ends /\ Peer(e) # e
  BY StepBytes, EndsAre DEF IInv
<1>1. CASE t = e
  <2>1. CASE \E n \in 1 .. Len(shared[e].recvBuf) : Hands(e, n)
    BY <1>0, <1>1, <2>1, HandsFlow
  <2>2. CASE \E n \in 1 .. Len(wire[Peer(e)]) : Arrives(e, n)
    BY <1>0, <1>1, <2>2, ArrivesFlow
  <2>3. CASE Accepts(e) /\ UNCHANGED got /\ shared'[e].recvBuf = shared[e].recvBuf
    <3>1. sent'[Peer(e)] = sent[Peer(e)] /\ wire'[Peer(e)] = wire[Peer(e)]
      BY <1>0, <2>3 DEF Accepts
    <3> QED
      BY <1>0, <1>1, <2>3, <3>1, FlowKept
  <2>4. CASE UNCHANGED <<sent, got, wire>> /\ shared'[e].recvBuf = shared[e].recvBuf
    BY <1>0, <1>1, <2>4, FlowKept
  <2> QED
    BY <1>0, <2>1, <2>2, <2>3, <2>4, StepBytes
<1>2. CASE t # e
  <2>0. /\ shared'[t] = shared[t] /\ got'[t] = got[t] /\ Peer(t) = e
    BY <1>0, <1>2, OtherKeeps DEF Ends, Peer
  <2>1. CASE wire'[e] = wire[e] /\ sent' = sent
    BY <1>0, <2>0, <2>1, FlowKept
  <2>2. CASE PollWrite(e) /\ Accepts(e)
    BY <1>0, <1>2, <2>0, <2>2, AcceptsFlow, PollWriteDoes
  <2> QED
    BY <1>0, <2>1, <2>2, StepBytes DEF Hands, Arrives
<1> QED
  BY <1>1, <1>2

-----------------------------------------------------------------------------
\* The ends: what closes a half, and what that says of the other end

\* What a step may do to its end.  Closed halves stay closed; the reading half is
\* closed behind the last byte, or because something is lost; a task stops
\* reading for an error, or at the end.
StopsReading(e) == ~Reads(e)' => ~Reads(e) \/ shared[e].error \/ (AtEnd(shared[e]) /\ UNCHANGED shared)

Closes(e) ==
    /\ (shared[e].closedRead => shared'[e].closedRead) /\ (shared[e].closedWrite => shared'[e].closedWrite)
    /\ (fin[e] => fin'[e]) /\ (fin'[e] => fin[e] \/ shared'[e].closedWrite)
    /\ resets \subseteq resets' /\ (shared'[e].error => shared[e].error \/ resets' # {})
    /\ e \in shut' => e \in shut \/ (shared'[e].closedRead /\ shared'[e].closedWrite /\ pending'[e] = <<>>)
    /\ shared'[e].closedRead =>
          shared[e].closedRead \/ (fin[Peer(e)] /\ wire[Peer(e)] = <<>>) \/ resets' # {} \/ conn = "lost"
    /\ pending[e] = <<>> /\ shared[e].closedWrite => pending'[e] = <<>>
    /\ StopsReading(e)

\* The same flags in two states of an end.
SameFlags(s, t) == s.closedRead = t.closedRead /\ s.closedWrite = t.closedWrite /\ s.error = t.error

\* A step that changes no flag closes nothing.
LEMMA FlagsKept ==
    ASSUME NEW e, SameFlags(shared[e], shared'[e]), UNCHANGED <<fin, resets, shut>>, StopsReading(e),
           pending[e] = <<>> /\ shared[e].closedWrite => pending'[e] = <<>>
    PROVE  Closes(e)
BY DEF Closes, SameFlags

\* Every step of an end closes only what it may.
LEMMA StepCloses ==
    ASSUME TypeOK, NEW e \in Ends, Steps(e)
    PROVE  Closes(e)
<1>0. shared[e] \in StreamShared /\ reader \in [Ends -> ReaderStates]
  BY Fields DEF TypeOK
<1>1. ASSUME PollRead(e) PROVE Closes(e)
  <2>1. UNCHANGED <<fin, resets, shut, pending>>
    BY <1>0, <1>1, PollReadDoes
  <2>2. \/ shared' = shared \/ shared'[e] = [shared[e] EXCEPT !.recvWaker = TRUE]
        \/ \E buf : shared'[e] = [shared[e] EXCEPT !.recvBuf = buf]
    BY <1>0, <1>1, PollReadDoes DEF SharedBecomes
  <2>3. SameFlags(shared[e], shared'[e])
    <3>1. ASSUME NEW buf, shared'[e] = [shared[e] EXCEPT !.recvBuf = buf]
          PROVE  SameFlags(shared[e], shared'[e])
      BY <1>0, <3>1 DEF StreamShared, SameFlags
    <3>2. shared'[e] = [shared[e] EXCEPT !.recvWaker = TRUE] => SameFlags(shared[e], shared'[e])
      BY <1>0 DEF StreamShared, SameFlags
    <3> QED
      BY <2>2, <3>1, <3>2 DEF SameFlags
  <2>4. StopsReading(e)
    BY <1>0, <1>1, PollReadDoes DEF Reads, StopsReading
  <2> QED
    BY <2>1, <2>3, <2>4, FlagsKept
<1>2. ASSUME PollWrite(e) PROVE Closes(e)
  <2>1. UNCHANGED <<fin, resets, shut, reader>>
    BY <1>0, <1>2, PollWriteDoes
  <2>2. \/ shared' = shared \/ shared'[e] = [shared[e] EXCEPT !.sendWaker = TRUE]
        \/ \E n : shared'[e] = [shared[e] EXCEPT !.inFlight = n]
    BY <1>0, <1>2, PollWriteDoes DEF SharedBecomes, Accepts
  <2>3. SameFlags(shared[e], shared'[e])
    <3>1. ASSUME NEW n, shared'[e] = [shared[e] EXCEPT !.inFlight = n]
          PROVE  SameFlags(shared[e], shared'[e])
      BY <1>0, <3>1 DEF StreamShared, SameFlags
    <3>2. shared'[e] = [shared[e] EXCEPT !.sendWaker = TRUE] => SameFlags(shared[e], shared'[e])
      BY <1>0 DEF StreamShared, SameFlags
    <3> QED
      BY <2>2, <3>1, <3>2 DEF SameFlags
  <2>4. pending[e] = <<>> /\ shared[e].closedWrite => pending'[e] = <<>>
    BY <1>0, <1>2, PollWriteDoes DEF Accepts
  <2> QED
    BY <2>1, <2>3, <2>4, FlagsKept DEF Reads, StopsReading
<1>3. ASSUME PollFlush(e) \/ PollShutdown(e) PROVE Closes(e)
  <2>1. UNCHANGED <<resets, shut, reader, pending, wire>>
    BY <1>0, <1>3, FlushDoes, ShutdownDoes
  <2>2. CASE (shared' = shared \/ shared'[e] = [shared[e] EXCEPT !.sendWaker = TRUE]) /\ fin' = fin
    <3>1. SameFlags(shared[e], shared'[e])
      BY <1>0, <2>2 DEF StreamShared, SameFlags
    <3> QED
      BY <2>1, <2>2, <3>1, FlagsKept DEF Reads, StopsReading
  <2>3. CASE /\ shared'[e] = [shared[e] EXCEPT !.closedWrite = TRUE]
             /\ fin'[e] = (fin[e] \/ ~shared[e].closedWrite)
    <3>1. /\ shared'[e].closedRead = shared[e].closedRead /\ shared'[e].closedWrite
          /\ shared'[e].error = shared[e].error
      BY <1>0, <2>3 DEF StreamShared
    <3> QED
      BY <2>1, <2>3, <3>1 DEF Closes, Reads, StopsReading
  <2> QED
    BY <1>0, <1>3, <2>2, <2>3, FlushDoes, ShutdownDoes DEF SharedBecomes
<1>4. ASSUME Begin(e) \/ Abandon(e) PROVE Closes(e)
  BY <1>0, <1>4, BeginDoes, FlagsKept DEF SameFlags, Reads, StopsReading
<1>5. WakeReader(e) => StopsReading(e)
  BY <1>0 DEF WakeReader, Reads, ReaderStates, StopsReading
<1>6. ASSUME Receive(e) PROVE Closes(e)
  <2>1. PICK buf : SharedBecomes(e, [shared[e] EXCEPT !.recvBuf = buf, !.recvWaker = FALSE])
    BY <1>0, <1>6, ReceiveDoes
  <2>2. SameFlags(shared[e], shared'[e])
    BY <1>0, <2>1 DEF SharedBecomes, StreamShared, SameFlags
  <2> QED
    BY <1>0, <1>5, <1>6, <2>2, ReceiveDoes, FlagsKept
<1>7. ASSUME SendComplete(e) PROVE Closes(e)
  <2>1. PICK n : SharedBecomes(e, [shared[e] EXCEPT !.inFlight = n, !.sendWaker = FALSE])
    BY <1>0, <1>7, SendCompleteDoes
  <2>2. SameFlags(shared[e], shared'[e])
    BY <1>0, <2>1 DEF SharedBecomes, StreamShared, SameFlags
  <2>3. pending[e] # <<>> /\ UNCHANGED <<fin, resets, shut, reader>>
    BY <1>0, <1>7, SendCompleteDoes
  <2> QED
    BY <2>2, <2>3, FlagsKept DEF Reads, StopsReading
<1>8. ASSUME PeerSendShutdown(e) \/ PeerSendAborted(e) PROVE Closes(e)
  <2>1. StopsReading(e) /\ UNCHANGED <<fin, shut, pending>>
    BY <1>0, <1>5, <1>8, ReadClosedDoes
  <2>2. CASE /\ shared'[e] = [shared[e] EXCEPT !.closedRead = TRUE, !.recvWaker = FALSE]
             /\ fin[Peer(e)] /\ wire[Peer(e)] = <<>> /\ UNCHANGED resets
    <3>1. shared'[e].closedRead /\ shared'[e].closedWrite = shared[e].closedWrite
          /\ shared'[e].error = shared[e].error
      BY <1>0, <2>2 DEF StreamShared
    <3> QED
      BY <2>1, <2>2, <3>1 DEF Closes
  <2>3. CASE /\ shared'[e] = [shared[e] EXCEPT !.closedRead = TRUE, !.error = TRUE, !.recvWaker = FALSE]
             /\ resets' = resets \cup {<<e, "send">>}
    <3>1. shared'[e].closedRead /\ shared'[e].closedWrite = shared[e].closedWrite
      BY <1>0, <2>3 DEF StreamShared
    <3>2. resets \subseteq resets' /\ resets' # {}
      BY <2>3
    <3> QED
      BY <2>1, <3>1, <3>2 DEF Closes
  <2> QED
    BY <1>0, <1>8, <2>2, <2>3, ReadClosedDoes DEF SharedBecomes
<1>9. ASSUME PeerReceiveAborted(e) PROVE Closes(e)
  <2>1. /\ shared'[e] = [shared[e] EXCEPT !.closedWrite = TRUE, !.error = TRUE, !.sendWaker = FALSE]
        /\ resets' = resets \cup {<<e, "receive">>} /\ UNCHANGED <<fin, shut, pending, reader>>
    BY <1>0, <1>9, ReceiveAbortedDoes DEF SharedBecomes
  <2>2. shared'[e].closedRead = shared[e].closedRead /\ shared'[e].closedWrite
    BY <1>0, <2>1 DEF StreamShared
  <2>3. resets \subseteq resets' /\ resets' # {}
    BY <2>1
  <2> QED
    BY <2>1, <2>2, <2>3 DEF Closes, Reads, StopsReading
<1>10. ASSUME ShutdownComplete(e) PROVE Closes(e)
  <2>1. /\ shared'[e] = [shared[e] EXCEPT !.closedRead = TRUE, !.closedWrite = TRUE,
                                          !.recvWaker = FALSE, !.sendWaker = FALSE]
        /\ StopsReading(e) /\ pending[e] = <<>> /\ (conn = "lost" \/ shared[e].closedRead)
        /\ UNCHANGED <<fin, pending, resets>>
    BY <1>0, <1>5, <1>10, ShutdownCompleteDoes DEF SharedBecomes
  <2>2. shared'[e].closedRead /\ shared'[e].closedWrite /\ shared'[e].error = shared[e].error
    BY <1>0, <2>1 DEF StreamShared
  <2> QED
    BY <2>1, <2>2 DEF Closes
<1> QED
  BY <1>1, <1>2, <1>3, <1>4, <1>6, <1>7, <1>8, <1>9, <1>10 DEF Steps, Polls, Callback

\* What closed a half still says so.  A reader at its end has nothing left that
\* could arrive: the other end's FIN is behind its last byte.
LEMMA EndedStep ==
    ASSUME IInv, NEW e \in Ends, Steps(e), NEW t \in Ends
    PROVE  Ended(t)'
<1> DEFINE f == Peer(e)
<1>0. /\ TypeOK /\ Ended(e) /\ Ended(t) /\ Closes(e) /\ conn' = conn /\ conn \in {"up", "lost"}
      /\ f \in Ends /\ f # e /\ Peer(f) = e /\ Ended(f)
  BY StepBytes, StepCloses, EndsAre DEF IInv, TypeOK
<1>1. Intact' => Intact /\ resets' = {} /\ conn = "up"
  BY <1>0 DEF Intact, Closes
<1>2. fin'[f] = fin[f]
  BY <1>0, OtherKeeps
<1>3. CASE t = e
  <2>1. /\ fin'[e] => shared'[e].closedWrite
        /\ e \in shut' => shared'[e].closedRead /\ shared'[e].closedWrite /\ pending'[e] = <<>>
        /\ shared'[e].error => resets' # {}
    BY <1>0 DEF Ended, Closes
  <2>2. fin[f] /\ wire[f] = <<>> => wire'[f] = <<>> /\ (shared'[e].recvBuf = shared[e].recvBuf \/ PollRead(e))
    <3> SUFFICES ASSUME wire[f] = <<>>
                 PROVE  wire'[f] = <<>> /\ (shared'[e].recvBuf = shared[e].recvBuf \/ PollRead(e))
      OBVIOUS
    <3>1. ~ \E n \in 1 .. Len(wire[f]) : TRUE
      OBVIOUS
    <3> QED
      BY <1>0, <3>1, StepBytes DEF Hands, Accepts
  <2>3. shared'[e].closedRead /\ Intact' => fin'[f] /\ wire'[f] = <<>>
    BY <1>0, <1>1, <1>2, <2>2 DEF Ended, Closes
  <2>4. ASSUME ~Reads(e)', Intact' PROVE shared'[e].closedRead /\ shared'[e].recvBuf = <<>>
    <3>1. CASE ~Reads(e)
      <4>1. ~PollRead(e) /\ shared[e].closedRead /\ shared[e].recvBuf = <<>> /\ fin[f] /\ wire[f] = <<>>
        BY <1>0, <1>1, <2>4, <3>1, PollReadDoes DEF Ended
      <4> QED
        BY <1>0, <2>2, <4>1 DEF Closes
    <3>2. CASE Reads(e)
      <4>1. ~shared[e].error
        BY <1>0, <1>1, <2>4 DEF Ended, Intact
      <4>2. AtEnd(shared[e]) /\ UNCHANGED shared
        BY <1>0, <2>4, <3>2, <4>1 DEF Closes, StopsReading
      <4> QED
        BY <4>2 DEF AtEnd
    <3> QED
      BY <3>1, <3>2
  <2> QED
    BY <1>3, <2>1, <2>3, <2>4 DEF Ended
<1>4. CASE t # e
  <2>1. t = f
    BY <1>0, <1>4 DEF Ends, Peer
  <2>2. /\ shared'[f] = shared[f] /\ reader'[f] = reader[f] /\ pending'[f] = pending[f]
        /\ (f \in shut' <=> f \in shut)
    BY <1>0, OtherKeeps
  <2>3. resets # {} => resets' # {}
    BY <1>0 DEF Closes
  <2>4. fin[e] /\ wire[e] = <<>> => fin'[e] /\ wire'[e] = <<>>
    <3> SUFFICES ASSUME fin[e], wire[e] = <<>> PROVE fin'[e] /\ wire'[e] = <<>>
      OBVIOUS
    <3>1. ~Accepts(e)
      BY <1>0 DEF Ended, Accepts
    <3> QED
      BY <1>0, <3>1, StepBytes DEF Closes, Hands, Arrives
  <2>5. fin'[f] => shared'[f].closedWrite
    BY <1>0, <1>2, <2>2 DEF Ended
  <2>6. shared'[f].closedRead /\ Intact' => fin'[e] /\ wire'[e] = <<>>
    BY <1>0, <1>1, <2>2, <2>4 DEF Ended
  <2>7. ~Reads(f)' /\ Intact' => shared'[f].closedRead /\ shared'[f].recvBuf = <<>>
    BY <1>0, <1>1, <2>2 DEF Ended, Reads
  <2>8. /\ f \in shut' => shared'[f].closedRead /\ shared'[f].closedWrite /\ pending'[f] = <<>>
        /\ shared'[f].error => resets' # {}
    BY <1>0, <2>2, <2>3 DEF Ended
  <2> HIDE DEF f
  <2> QED
    BY <1>0, <2>1, <2>5, <2>6, <2>7, <2>8 DEF Ended
<1> QED
  BY <1>3, <1>4

-----------------------------------------------------------------------------
\* The invariant

\* A new stream satisfies the invariant.
LEMMA InitInvariant == Init => IInv
<1> SUFFICES ASSUME Init PROVE IInv
  OBVIOUS
<1>1. TypeOK
  BY InitType
<1> SUFFICES ASSUME NEW e \in Ends
             PROVE  Exact(e) /\ Woken(e) /\ Writes(e) /\ Contiguous(e) /\ Flow(e) /\ Ended(e)
  BY <1>1 DEF IInv
<1>2. /\ shared[e] = NewStream /\ reader[e] = "running" /\ writer[e] = Idle /\ pending[e] = <<>>
      /\ sent[e] = 0 /\ got[e] = <<>> /\ fin[e] = FALSE /\ shut = {}
      /\ Peer(e) \in Ends /\ wire[Peer(e)] = <<>> /\ sent[Peer(e)] = 0
  BY EndsAre DEF Init
<1>3. /\ shared[e].inFlight = 0 /\ shared[e].recvBuf = <<>>
      /\ shared[e].closedRead = FALSE /\ shared[e].error = FALSE
  BY <1>2 DEF NewStream
<1>4. Exact(e)
  <2>1. PICK n \in Chunks : TRUE
    BY StreamAssumption
  <2>2. n \in Nat \ {0} /\ MaxInFlight \in Nat
    BY StreamAssumption
  <2>3. 0 < MaxInFlight + n
    BY <2>2
  <2> QED
    BY <1>2, <1>3, <2>1, <2>3 DEF Exact, Unacknowledged
<1>5. Woken(e) /\ Writes(e) /\ Contiguous(e)
  BY <1>2 DEF Woken, Writes, Idle, Contiguous, Chain
<1>6. Flow(e)
  <2>1. Handed(e) = 0 /\ Buffered(e) = 0 /\ Underway(e) = 0
    BY <1>2, <1>3 DEF Handed, Buffered, Underway
  <2> QED
    BY <1>2, <1>3, <2>1 DEF Flow, Numbered
<1>7. Ended(e)
  BY <1>2, <1>3 DEF Ended, Reads
<1> QED
  BY <1>4, <1>5, <1>6, <1>7

\* Every step of the stream keeps it.
LEMMA InvariantStep == IInv /\ [Next]_vars => IInv'
<1> SUFFICES ASSUME IInv, [Next]_vars PROVE IInv'
  OBVIOUS
<1>0. TypeOK'
  BY TypeStep
<1>1. ASSUME NEW e \in Ends, Steps(e), NEW t \in Ends PROVE Local(t)' /\ Flow(t)' /\ Ended(t)'
  <2>1. Flow(t)' /\ Ended(t)'
    BY <1>1, FlowStep, EndedStep
  <2>2. CASE t = e
    BY <1>1, <2>1, <2>2, LocalStep
  <2>3. CASE t # e
    <3>1. TypeOK /\ Local(t)
      BY DEF IInv, Local
    <3>2. /\ shared'[t] = shared[t] /\ reader'[t] = reader[t] /\ writer'[t] = writer[t]
          /\ sent'[t] = sent[t] /\ pending'[t] = pending[t] /\ (t \in shut' <=> t \in shut)
      BY <1>1, <2>3, <3>1, OtherKeeps
    <3> QED
      BY <2>1, <3>1, <3>2, LocalKept
  <2> QED
    BY <2>2, <2>3
<1>2. ASSUME Lose, NEW t \in Ends PROVE Local(t)' /\ Flow(t)' /\ Ended(t)'
  <2>1. /\ UNCHANGED <<shared, reader, writer, sent, got, wire, pending, fin, resets, shut>>
        /\ conn' = "lost" /\ Local(t) /\ Flow(t) /\ Ended(t)
    BY <1>2 DEF Lose, IInv, Local
  <2>2. Local(t)'
    BY <2>1, LocalKept
  <2>3. Flow(t)'
    BY <2>1, FlowKept
  <2>4. Ended(t)'
    BY <2>1 DEF Ended, Intact, Reads
  <2> QED
    BY <2>2, <2>3, <2>4
<1>3. ASSUME UNCHANGED vars, NEW t \in Ends PROVE Local(t)' /\ Flow(t)' /\ Ended(t)'
  <2>1. Local(t) /\ Flow(t) /\ Ended(t)
    BY DEF IInv, Local
  <2>2. Local(t)'
    BY <1>3, <2>1, LocalKept DEF vars
  <2>3. Flow(t)'
    BY <1>3, <2>1, FlowKept DEF vars
  <2>4. Ended(t)'
    BY <1>3, <2>1 DEF Ended, Intact, Reads, vars
  <2> QED
    BY <2>2, <2>3, <2>4
<1>4. ASSUME NEW t \in Ends PROVE Local(t)' /\ Flow(t)' /\ Ended(t)'
  <2>1. (\E e \in Ends : Steps(e)) \/ Lose \/ UNCHANGED vars
    BY DEF Next, Steps, Done
  <2> QED
    BY <1>1, <1>2, <1>3, <2>1
<1> QED
  BY <1>0, <1>4 DEF IInv, Local

\* The strengthened invariant holds in every reachable state, whatever the
\* connection does and however polls and callbacks interleave.
THEOREM InvariantHolds == Spec => []IInv
<1> QED
  BY InitInvariant, InvariantStep, PTL DEF Spec

\* Both ends keep their types, and write no more than their bounds.
THEOREM TypeCorrect == Spec => []TypeOK
<1>1. IInv => TypeOK
  BY DEF IInv
<1> QED
  BY <1>1, InvariantHolds, PTL

\* in_flight_bytes is exact at every end: the saturating subtraction of
\* SEND_COMPLETE never saturates, failed and cancelled sends are taken back.
THEOREM InFlightCorrect == Spec => []InFlightExact
<1>1. IInv => InFlightExact
  BY DEF IInv, Exact, InFlightExact
<1> QED
  BY <1>1, InvariantHolds, PTL

\* No wake-up is lost: a parked task has its waker registered, and what it waits
\* for has not happened but still will.
THEOREM WakeupCorrect == Spec => []NoLostWakeup
<1>1. IInv => NoLostWakeup
  BY DEF IInv, Woken, NoLostWakeup
<1> QED
  BY <1>1, InvariantHolds, PTL

-----------------------------------------------------------------------------
\* Each direction is a ByteStream

\* The steps of ByteStream for the bytes that r reads.
Same(r) == /\ sent'[Peer(r)] = sent[Peer(r)] /\ got'[r] = got[r] /\ fin'[Peer(r)] = fin[Peer(r)]
           /\ (Reads(r)' <=> Reads(r)) /\ (Intact' <=> Intact)

Written(r) ==
    /\ ~fin[Peer(r)] /\ sent'[Peer(r)] > sent[Peer(r)]
    /\ got'[r] = got[r] /\ fin'[Peer(r)] = fin[Peer(r)] /\ (Reads(r)' <=> Reads(r)) /\ (Intact' <=> Intact)

HasRead(r) ==
    /\ Reads(r) /\ \E n \in Len(got[r]) + 1 .. sent[Peer(r)] : got'[r] = [i \in 1 .. n |-> i]
    /\ sent'[Peer(r)] = sent[Peer(r)] /\ fin'[Peer(r)] = fin[Peer(r)] /\ (Intact' <=> Intact)
    /\ Reads(r)'

Closed(r) ==
    /\ fin'[Peer(r)] = TRUE /\ sent'[Peer(r)] = sent[Peer(r)] /\ got'[r] = got[r]
    /\ (Reads(r)' <=> Reads(r)) /\ (Intact' <=> Intact)

IsCut(r) ==
    /\ ~Intact' /\ sent'[Peer(r)] = sent[Peer(r)] /\ got'[r] = got[r]
    /\ fin'[Peer(r)] = fin[Peer(r)] /\ (Reads(r)' <=> Reads(r))

HasEnded(r) ==
    /\ ~Intact \/ (fin[Peer(r)] /\ got[r] = [i \in 1 .. sent[Peer(r)] |-> i])
    /\ ~Reads(r)' /\ sent'[Peer(r)] = sent[Peer(r)] /\ got'[r] = got[r]
    /\ fin'[Peer(r)] = fin[Peer(r)] /\ (Intact' <=> Intact)

StreamStep(r) == Same(r) \/ Written(r) \/ HasRead(r) \/ Closed(r) \/ IsCut(r) \/ HasEnded(r)

\* The bytes from the first on are the prefix of that length.
LEMMA NumberedIs ==
    ASSUME NEW s \in Seq(Nat), Numbered(s, 0)
    PROVE  s = [i \in 1 .. Len(s) |-> i]
<1>1. Len(s) \in Nat /\ s = [i \in 1 .. Len(s) |-> s[i]]
  OBVIOUS
<1>2. \A i \in 1 .. Len(s) : s[i] = i
  BY <1>1 DEF Numbered
<1> QED
  BY <1>1, <1>2

\* Apart from a read, an accepted write and a FIN, a step changes at most
\* whether the stream is intact.
LEMMA StepKinds ==
    ASSUME TypeOK, NEW e \in Ends, Steps(e)
    PROVE  \/ PollRead(e)
           \/ PollWrite(e) /\ Accepts(e) /\ UNCHANGED <<got, reader, fin, resets, conn>>
           \/ PollShutdown(e) /\ UNCHANGED <<sent, got, reader, resets, conn>>
           \/ UNCHANGED <<sent, got, fin, conn>> /\ (Reads(e)' <=> Reads(e)) /\ (resets' # {} \/ UNCHANGED resets)
<1>0. WakeReader(e) => (Reads(e)' <=> Reads(e))
  BY DEF TypeOK, WakeReader, Reads, ReaderStates
<1>1. CASE PollWrite(e)
  BY <1>1, PollWriteDoes DEF Reads
<1>2. CASE PollShutdown(e)
  BY <1>2, ShutdownDoes
<1>3. CASE PollFlush(e) \/ Begin(e) \/ Abandon(e) \/ SendComplete(e)
  BY <1>3, FlushDoes, BeginDoes, SendCompleteDoes DEF Reads
<1>4. CASE Receive(e) \/ ShutdownComplete(e)
  BY <1>0, <1>4, ReceiveDoes, ShutdownCompleteDoes
<1>5. CASE PeerSendShutdown(e) \/ PeerSendAborted(e)
  <2>1. /\ UNCHANGED <<sent, got, fin, conn>> /\ (Reads(e)' <=> Reads(e))
        /\ UNCHANGED resets \/ resets' = resets \cup {<<e, "send">>}
    BY <1>0, <1>5, ReadClosedDoes
  <2> QED
    BY <2>1
<1>6. CASE PeerReceiveAborted(e)
  <2>1. /\ UNCHANGED <<sent, got, fin, conn, reader>> /\ resets' = resets \cup {<<e, "receive">>}
    BY <1>6, ReceiveAbortedDoes
  <2>2. resets' # {} /\ (Reads(e)' <=> Reads(e))
    BY <2>1 DEF Reads
  <2> QED
    BY <2>1, <2>2
<1> QED
  BY <1>1, <1>2, <1>3, <1>4, <1>5, <1>6 DEF Steps, Polls, Callback

\* poll_read reads, ends or leaves the ByteStream of its end alone.
LEMMA ReaderReads ==
    ASSUME IInv, IInv', NEW r \in Ends, PollRead(r)
    PROVE  StreamStep(r)
<1> DEFINE w == Peer(r)
<1>0. /\ TypeOK /\ TypeOK' /\ Flow(r) /\ Flow(r)' /\ Ended(r) /\ w \in Ends /\ Reads(r)
      /\ reader \in [Ends -> ReaderStates] /\ shared[r] \in StreamShared
  BY EndsAre, Fields, PollReadDoes DEF IInv, TypeOK
<1>1. UNCHANGED <<sent, fin, conn, resets>>
  BY <1>0, PollReadDoes
<1>2. Intact' <=> Intact
  BY <1>1 DEF Intact
<1>3. CASE shared[r].error /\ reader'[r] = "failed" /\ UNCHANGED <<shared, got>>
  <2>1. ~Intact /\ ~Reads(r)'
    BY <1>0, <1>3 DEF Ended, Intact, Reads
  <2> QED
    BY <1>1, <1>2, <1>3, <2>1 DEF StreamStep, HasEnded
<1>4. CASE AtEnd(shared[r]) /\ reader'[r] = "eof" /\ UNCHANGED <<shared, got>>
  <2>1. ~Reads(r)'
    BY <1>4 DEF Reads
  <2>2. ASSUME Intact PROVE fin[w] /\ got[r] = [i \in 1 .. sent[w] |-> i]
    <3>1. fin[w] /\ wire[w] = <<>> /\ shared[r].recvBuf = <<>>
      BY <1>0, <1>4, <2>2 DEF Ended, AtEnd
    <3>2. Underway(r) = sent[w] /\ Numbered(got[r], 0)
      BY <1>0, <2>2 DEF Flow, Intact
    <3>3. /\ Len(got[r]) \in Nat /\ Handed(r) = Len(got[r]) /\ Buffered(r) = Handed(r) + Len(shared[r].recvBuf)
          /\ Underway(r) = Buffered(r) + Len(wire[w]) /\ got[r] \in Seq(Nat)
      BY <1>0, Measures, Fields
    <3>4. Len(got[r]) = sent[w]
      BY <3>1, <3>2, <3>3
    <3> QED
      BY <3>1, <3>2, <3>3, <3>4, NumberedIs
  <2> QED
    BY <1>1, <1>2, <1>4, <2>1, <2>2 DEF StreamStep, HasEnded
<1>5. CASE /\ reader'[r] = "running"
           /\ \E n \in 1 .. Len(shared[r].recvBuf) : got'[r] = got[r] \o SubSeq(shared[r].recvBuf, 1, n)
  <2>1. PICK n \in 1 .. Len(shared[r].recvBuf) : got'[r] = got[r] \o SubSeq(shared[r].recvBuf, 1, n)
    BY <1>5
  <2>2. Reads(r)'
    BY <1>5 DEF Reads
  <2>3. got[r] \in Seq(Nat) /\ shared[r].recvBuf \in Seq(Nat) /\ Len(shared[r].recvBuf) \in Nat
    BY <1>0, Fields, Elements
  <2>4. n \in Nat /\ n > 0 /\ n <= Len(shared[r].recvBuf)
    BY <2>3
  <2>5. SubSeq(shared[r].recvBuf, 1, n) \in Seq(Nat) /\ Len(SubSeq(shared[r].recvBuf, 1, n)) = n
    BY <2>3, <2>4, Pieces
  <2>6. Len(got'[r]) = Len(got[r]) + n
    BY <2>1, <2>3, <2>5, Joined
  <2>7. got'[r] \in Seq(Nat) /\ Numbered(got'[r], 0)
    <3>1. Numbered(got[r], 0)' /\ got'[r] \in Seq(Nat)
      BY <1>0 DEF Flow, TypeOK
    <3> QED
      BY <3>1 DEF Numbered
  <2>8. got'[r] = [i \in 1 .. Len(got'[r]) |-> i]
    BY <2>7, NumberedIs
  <2>9. Len(got'[r]) <= sent[w]
    <3>1. Underway(r) <= sent[w] /\ sent[w] \in Nat
      BY <1>0, Fields DEF Flow
    <3>2. /\ Handed(r) = Len(got[r]) /\ Buffered(r) = Handed(r) + Len(shared[r].recvBuf)
          /\ Underway(r) = Buffered(r) + Len(wire[w]) /\ Handed(r) \in Nat /\ Len(wire[w]) \in Nat
      BY <1>0, Measures, Fields, Elements
    <3>3. Handed(r) + n <= sent[w]
      <4>1. (Handed(r) + Len(shared[r].recvBuf)) + Len(wire[w]) <= sent[w]
        BY <3>1, <3>2
      <4> HIDE DEF w
      <4> QED
        BY <2>3, <2>4, <3>1, <3>2, <4>1, PartOf
    <3> QED
      BY <2>6, <3>2, <3>3
  <2>10. Len(got'[r]) \in Len(got[r]) + 1 .. sent[w]
    <3>1. Len(got[r]) \in Nat /\ sent[w] \in Nat
      BY <1>0, <2>3, Fields, Elements
    <3> QED
      BY <2>4, <2>6, <2>9, <3>1
  <2> QED
    BY <1>0, <1>1, <1>2, <2>2, <2>8, <2>10 DEF StreamStep, HasRead
<1>6. CASE reader'[r] = "parked" /\ UNCHANGED got
  BY <1>0, <1>1, <1>2, <1>6 DEF StreamStep, Same, Reads
<1> QED
  BY <1>0, <1>3, <1>4, <1>5, <1>6, PollReadDoes

\* Every step is a step of the ByteStream of either end, or none.
LEMMA EachStep ==
    ASSUME IInv, IInv', [Next]_vars, NEW r \in Ends
    PROVE  StreamStep(r)
<1> DEFINE w == Peer(r)
<1>0. TypeOK /\ TypeOK' /\ Ended(w) /\ Writes(w) /\ w \in Ends /\ w # r /\ Peer(w) = r
  BY EndsAre DEF IInv
<1>1. ASSUME Steps(r) PROVE StreamStep(r)
  <2>1. sent'[w] = sent[w] /\ fin'[w] = fin[w]
    BY <1>0, <1>1, OtherKeeps
  <2>2. CASE PollRead(r)
    BY <2>2, ReaderReads
  <2>3. CASE UNCHANGED <<got, reader, resets, conn>>
    BY <2>1, <2>3 DEF StreamStep, Same, Reads, Intact
  <2>4. CASE UNCHANGED <<sent, got, fin, conn>> /\ (Reads(r)' <=> Reads(r)) /\ (resets' # {} \/ UNCHANGED resets)
    BY <2>4 DEF StreamStep, Same, IsCut, Intact
  <2> QED
    BY <1>0, <1>1, <2>2, <2>3, <2>4, StepKinds
<1>2. ASSUME Steps(w) PROVE StreamStep(r)
  <2>1. got'[r] = got[r] /\ (Reads(r)' <=> Reads(r))
    BY <1>0, <1>2, OtherKeeps DEF Reads
  <2>2. CASE PollRead(w)
    BY <1>0, <2>1, <2>2, PollReadDoes DEF StreamStep, Same, Intact
  <2>3. CASE PollWrite(w) /\ Accepts(w) /\ UNCHANGED <<got, reader, fin, resets, conn>>
    <3>1. ~fin[w] /\ sent'[w] = sent[w] + writer[w].size
      BY <1>0, <2>3 DEF Accepts, Ended
    <3>2. writer[w].size \in Nat \ {0} /\ sent[w] \in Nat
      BY <1>0, <2>3, PollWriteDoes, Fields, StreamAssumption DEF Writes
    <3>3. sent'[w] > sent[w]
      BY <3>1, <3>2
    <3> QED
      BY <2>1, <2>3, <3>1, <3>3 DEF StreamStep, Written, Intact
  <2>4. CASE PollShutdown(w) /\ UNCHANGED <<sent, got, reader, resets, conn>>
    <3>1. fin'[w] \in BOOLEAN /\ fin[w] \in BOOLEAN /\ (fin[w] => fin'[w])
      BY <1>0, <1>2, StepCloses DEF TypeOK, Closes
    <3>2. fin'[w] = TRUE \/ fin'[w] = fin[w]
      BY <3>1
    <3> QED
      BY <2>1, <2>4, <3>2 DEF StreamStep, Closed, Same, Intact
  <2>5. CASE UNCHANGED <<sent, got, fin, conn>> /\ (resets' # {} \/ UNCHANGED resets)
    BY <2>1, <2>5 DEF StreamStep, Same, IsCut, Intact
  <2> QED
    BY <1>0, <1>2, <2>2, <2>3, <2>4, <2>5, StepKinds
<1>3. CASE Lose
  BY <1>3 DEF Lose, StreamStep, IsCut, Intact, Reads
<1>4. CASE UNCHANGED vars
  BY <1>4 DEF vars, StreamStep, Same, Intact, Reads
<1>5. (\E e \in Ends : Steps(e)) \/ Lose \/ UNCHANGED vars
  BY DEF Next, Steps, Done
<1>6. \A e \in Ends : e = r \/ e = w
  BY <1>0 DEF Ends
<1> QED
  BY <1>1, <1>2, <1>3, <1>4, <1>5, <1>6

\* Each direction delivers the accepted bytes in order and without gaps, and
\* tells its reader of the end only behind the last one, unless it was cut.
THEOREM StreamCorrect == Spec => ImplementsByteStream
<1>1. "client" \in Ends /\ "worker" \in Ends /\ Peer("client") = "worker" /\ Peer("worker") = "client"
  BY DEF Ends, Peer
<1>2. Init => Upstream!Init /\ Downstream!Init
  BY <1>1 DEF Init, Upstream!Init, Downstream!Init, Reads, Intact
<1>3. IInv /\ IInv' /\ [Next]_vars => [Upstream!Next]_Upstream!vars
  <2> SUFFICES ASSUME IInv, IInv', [Next]_vars PROVE [Upstream!Next]_Upstream!vars
    OBVIOUS
  <2>1. StreamStep("worker")
    BY <1>1, EachStep
  <2>2. CASE Same("worker")
    BY <1>1, <2>2 DEF Same, Upstream!vars
  <2>3. CASE Written("worker")
    BY <1>1, <2>3 DEF Written, Upstream!Next, Upstream!Write
  <2>4. CASE HasRead("worker")
    BY <1>1, <2>4 DEF HasRead, Upstream!Next, Upstream!Read
  <2>5. CASE Closed("worker")
    BY <1>1, <2>5 DEF Closed, Upstream!Next, Upstream!Close
  <2>6. CASE IsCut("worker")
    BY <1>1, <2>6 DEF IsCut, Upstream!Next, Upstream!Cut
  <2>7. CASE HasEnded("worker")
    BY <1>1, <2>7 DEF HasEnded, Upstream!Next, Upstream!End
  <2> QED
    BY <2>1, <2>2, <2>3, <2>4, <2>5, <2>6, <2>7 DEF StreamStep
<1>4. IInv /\ IInv' /\ [Next]_vars => [Downstream!Next]_Downstream!vars
  <2> SUFFICES ASSUME IInv, IInv', [Next]_vars PROVE [Downstream!Next]_Downstream!vars
    OBVIOUS
  <2>1. StreamStep("client")
    BY <1>1, EachStep
  <2>2. CASE Same("client")
    BY <1>1, <2>2 DEF Same, Downstream!vars
  <2>3. CASE Written("client")
    BY <1>1, <2>3 DEF Written, Downstream!Next, Downstream!Write
  <2>4. CASE HasRead("client")
    BY <1>1, <2>4 DEF HasRead, Downstream!Next, Downstream!Read
  <2>5. CASE Closed("client")
    BY <1>1, <2>5 DEF Closed, Downstream!Next, Downstream!Close
  <2>6. CASE IsCut("client")
    BY <1>1, <2>6 DEF IsCut, Downstream!Next, Downstream!Cut
  <2>7. CASE HasEnded("client")
    BY <1>1, <2>7 DEF HasEnded, Downstream!Next, Downstream!End
  <2> QED
    BY <2>1, <2>2, <2>3, <2>4, <2>5, <2>6, <2>7 DEF StreamStep
<1> QED
  BY <1>2, <1>3, <1>4, InvariantHolds, PTL DEF Spec, ImplementsByteStream, Upstream!Spec, Downstream!Spec
=============================================================================

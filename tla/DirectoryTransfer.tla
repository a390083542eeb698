------------------------- MODULE DirectoryTransfer -------------------------
(***************************************************************************)
(* quic send of a directory: the CLI walks the source tree and streams it  *)
(* as frames, the one-shot worker writes each file as it arrives and       *)
(* acknowledges the whole, and the CLI waits for both at once.             *)
(*                                                                         *)
(* Each direction is a ByteStream that may be cut; a frame travels whole,  *)
(* the acknowledgement in the two parts its reader awaits.                 *)
(***************************************************************************)
EXTENDS Naturals, FiniteSets, Sequences

CONSTANTS
    Dirs, Files, Links,    \* the entries of the source tree
    Names,                 \* every path of the destination: entries, staging names
    Parent,                \* the directory of a path, Root at the top
    Root,
    Partial,               \* ".{stem}.quic-part" beside a file
    Size,                  \* units of a file when it is inspected
    PackTarget,            \* pack_target_bytes
    Checksum,              \* --checksum
    Destinations,          \* what may be at the destination before
    SourceFails,           \* a source file may become shorter or unreadable
    DiskFails,             \* the worker's disk may refuse
    Loses                  \* the network may fail

ASSUME DirectoryAssumption ==
    /\ Dirs \cup Files \cup Links \subseteq Names /\ Root \notin Names
    /\ Dirs \cap Files = {} /\ (Dirs \cup Files) \cap Links = {} /\ IsFiniteSet(Files)
    /\ Parent \in [Names -> Dirs \cup {Root}] /\ Partial \in [Files -> Names]
    /\ \A S \in SUBSET Dirs : S # {} => \E d \in S : Parent[d] \notin S    \* a tree
    /\ Size \in [Files -> Nat] /\ PackTarget \in Nat
    /\ \A d \in Destinations :
          /\ DOMAIN d = Names /\ \A p \in Names : d[p].kind \in {"absent", "dir", "link", "file"}
          /\ \A p \in Files : d[Partial[p]].kind # "link"
    /\ {Checksum, SourceFails, DiskFails, Loses} \subseteq BOOLEAN

VARIABLES
    sender,     \* send_directory, then the shutdown of its stream
    stack,      \* its open directories: per level, the entries still to come
    current,    \* the file it is sending and the units left of it
    pack,       \* pack_bytes
    sent,       \* its totals
    up, down,   \* frames to the worker, acknowledgement to the CLI
    fin,        \* sides that finished their direction
    conn,
    worker,     \* receive_directory, then write_directory_ack
    incoming,   \* the file it is receiving and the units left of it
    totals,     \* its totals
    dest,       \* the destination below the root
    cli,        \* the select! between sending and the acknowledgement
    ack,        \* what read_directory_ack consumed so far
    outcome     \* what the CLI reports, and the acknowledged totals

senderVars == <<sender, stack, current, pack, sent>>
workerVars == <<worker, incoming, totals, dest>>
cliVars    == <<cli, ack, outcome>>
vars == <<senderVars, up, down, fin, conn, workerVars, cliVars>>

None == [path |-> Root, left |-> 0]

Absent     == [kind |-> "absent", data |-> <<>>]
Directory  == [kind |-> "dir", data |-> <<>>]
Link       == [kind |-> "link", data |-> <<>>]
File(data) == [kind |-> "file", data |-> data]

\* The first n units of a source file.
Content(p, n) == [i \in 1 .. n |-> <<p, i>>]

Children(d) == {p \in Dirs \cup Files \cup Links : Parent[p] = d}

Zero == [files |-> 0, dirs |-> 1, bytes |-> 0]

TypeOK ==
    /\ sender \in {"start", "walk", "file", "ended", "failed", "done", "error"}
    /\ stack \in Seq(SUBSET (Dirs \cup Files \cup Links))
    /\ {current, incoming} \subseteq [path: Files \cup {Root}, left: Nat]
    /\ pack \in Nat /\ {sent, totals} \subseteq [files: Nat, dirs: Nat, bytes: Nat]
    /\ fin \subseteq {"cli", "worker"} /\ conn \in {"up", "lost"}
    /\ worker \in {"start", "frames", "data", "ackOk", "ackError",
                   "bodyOk", "bodyError", "shutdown", "ended"}
    /\ DOMAIN dest = Names
    /\ \A p \in Names : dest[p].kind \in {"absent", "dir", "link", "file"}
    /\ cli \in {"racing", "awaiting", "acked", "completed", "failed"}
    /\ ack \in {"none", "ok", "error"}
    /\ outcome \in [reason: {"none", "ok", "timeout", "rejected", "invalid", "eof", "sender"},
                    files: Nat, bytes: Nat]

Init ==
    /\ sender = "start" /\ stack = <<>> /\ current = None /\ pack = 0 /\ sent = Zero
    /\ up = <<>> /\ down = <<>> /\ fin = {} /\ conn = "up"
    /\ worker = "start" /\ incoming = None /\ totals = Zero /\ dest \in Destinations
    /\ cli = "racing" /\ ack = "none" /\ outcome = [reason |-> "none", files |-> 0, bytes |-> 0]

-----------------------------------------------------------------------------
\* The sender.  What a lost connection still accepts never arrives.

Frame(type, path, numbers) == [type |-> type, path |-> path, numbers |-> numbers]

Put(frames) == up' = IF conn = "up" THEN up \o frames ELSE up

CliRuns == cli \in {"racing", "awaiting", "acked"}

SendStart ==
    /\ CliRuns /\ sender = "start"
    /\ Put(<<Frame("start", Root, <<>>), Frame("pack", Root, <<>>)>>)
    /\ sender' = "walk" /\ stack' = <<Children(Root)>>
    /\ UNCHANGED <<current, pack, sent, down, fin, conn, workerVars, cliVars>>

Top == stack[Len(stack)]
Below == SubSeq(stack, 1, Len(stack) - 1)

\* The innermost open directory has no more entries.
LeaveDirectory ==
    /\ CliRuns /\ sender = "walk" /\ stack # <<>> /\ Top = {}
    /\ stack' = Below
    /\ UNCHANGED <<sender, current, pack, sent, up, down, fin, conn, workerVars, cliVars>>

SkipLink(p) == p \in Links /\ stack' = Append(Below, Top \ {p}) /\ UNCHANGED <<sender, current, pack, sent, up>>

EnterDirectory(p) ==
    /\ p \in Dirs
    /\ Put(<<Frame("dir", p, <<>>)>>)
    /\ stack' = Append(Append(Below, Top \ {p}), Children(p))
    /\ sent' = [sent EXCEPT !.dirs = @ + 1]
    /\ UNCHANGED <<sender, current, pack>>

\* A pack ends before the file that would overflow it.
NewPack(p) == pack > 0 /\ pack + Size[p] > PackTarget

\* Variant for the checks: a file is taken off the pack it would overflow.
PackReduced(p) == IF NewPack(p) THEN PackTarget - (pack + Size[p]) ELSE pack

\* pack_bytes before the file.
PackBefore(p) == IF NewPack(p) THEN 0 ELSE pack

\* The file's frame is written before the file is opened.
StartFile(p) ==
    /\ p \in Files
    /\ Put((IF NewPack(p) THEN <<Frame("packEnd", Root, <<>>), Frame("pack", Root, <<>>)>> ELSE <<>>)
           \o <<Frame("file", p, <<Size[p]>>)>>)
    /\ pack' = PackBefore(p)
    /\ stack' = Append(Below, Top \ {p})
    /\ sender' = "file" /\ current' = [path |-> p, left |-> Size[p]]
    /\ UNCHANGED sent

\* The next entry, in whatever order the directory lists them.
NextEntry ==
    /\ CliRuns /\ sender = "walk" /\ stack # <<>>
    /\ \E p \in Top : SkipLink(p) \/ EnterDirectory(p) \/ StartFile(p)
    /\ UNCHANGED <<down, fin, conn, workerVars, cliVars>>

SendUnit ==
    LET p == current.path  n == Size[p] - current.left + 1 IN
    /\ CliRuns /\ sender = "file" /\ current.left > 0
    /\ Put(<<Frame("data", p, <<n>>)>>)
    /\ current' = [current EXCEPT !.left = @ - 1]
    /\ UNCHANGED <<sender, stack, pack, sent, down, fin, conn, workerVars, cliVars>>

FinishFile ==
    LET p == current.path IN
    /\ CliRuns /\ sender = "file" /\ current.left = 0
    /\ Put(IF Checksum THEN <<Frame("digest", p, <<Size[p]>>)>> ELSE <<>>)
    /\ sender' = "walk" /\ current' = None
    /\ sent' = [sent EXCEPT !.files = @ + 1, !.bytes = @ + Size[p]]
    /\ pack' = pack + Size[p]
    /\ UNCHANGED <<stack, down, fin, conn, workerVars, cliVars>>

SendTotals ==
    /\ CliRuns /\ sender = "walk" /\ stack = <<>>
    /\ Put(<<Frame("packEnd", Root, <<>>), Frame("end", Root, <<sent.files, sent.dirs, sent.bytes>>)>>)
    /\ sender' = "ended"
    /\ UNCHANGED <<stack, current, pack, sent, down, fin, conn, workerVars, cliVars>>

\* A write finds the stream closed; or a directory or a file of the source
\* cannot be listed, inspected, opened or read, or ends before its size.
SendFails ==
    /\ CliRuns /\ (conn = "lost" \/ SourceFails) /\ sender \in {"start", "walk", "file"}
    /\ sender' = "failed"
    /\ UNCHANGED <<stack, current, pack, sent, up, down, fin, conn, workerVars, cliVars>>

\* send.shutdown() once nothing is in flight; its result is ignored.
SendShutdown ==
    /\ CliRuns /\ sender \in {"ended", "failed"}
    /\ sender' = IF sender = "ended" THEN "done" ELSE "error"
    /\ fin' = fin \cup {"cli"}
    /\ UNCHANGED <<stack, current, pack, sent, up, down, conn, workerVars, cliVars>>

-----------------------------------------------------------------------------
\* The worker

Reject == worker' = "ackError" /\ UNCHANGED <<incoming, totals, dest>>

\* Every file operation may fail; what was done before stays.
DiskError == DiskFails /\ Reject

Took(type) == up # <<>> /\ Head(up).type = type /\ up' = Tail(up)

\* The start of the stream, and the root directory.
RecvStart ==
    /\ worker = "start" /\ Took("start")
    /\ \/ worker' = "frames" /\ UNCHANGED <<incoming, totals, dest>>
       \/ DiskError
    /\ UNCHANGED <<senderVars, down, fin, conn, cliVars>>

RecvPack ==
    /\ worker = "frames" /\ (Took("pack") \/ Took("packEnd"))
    /\ UNCHANGED <<senderVars, down, fin, conn, workerVars, cliVars>>

\* Variant for the checks: only a FIN ends a stream.
OnlyFin(side) == side \in fin

\* The other side finished its direction, or the connection is gone.
StreamOver(side) == side \in fin \/ conn = "lost"

\* create_safe_directory, of a path whose parent is there.
Enterable(p) == p # Root => dest[p].kind \in {"absent", "dir"}

RecvDirectory ==
    LET p == Head(up).path IN
    /\ worker = "frames" /\ Took("dir")
    /\ \/ /\ Enterable(p)
          /\ dest' = [dest EXCEPT ![p] = Directory]
          /\ totals' = [totals EXCEPT !.dirs = @ + 1]
          /\ UNCHANGED <<worker, incoming>>
       \/ ~Enterable(p) /\ Reject
       \/ DiskError
    /\ UNCHANGED <<senderVars, down, fin, conn, cliVars>>

\* Variant for the checks: the file is written in place.
InPlace(p) == p

\* Where a file is written until it is complete.
Staging(p) == Partial[p]

Create(p) == dest' = [dest EXCEPT ![Staging(p)] = File(<<>>)]

\* A link is not replaced; File::create fails on a directory.
Creatable(p) ==
    /\ Enterable(Parent[p]) /\ dest[p].kind # "link"
    /\ dest[Staging(p)].kind \in {"absent", "file"}

RecvFile ==
    LET p == Head(up).path IN
    /\ worker = "frames" /\ Took("file")
    /\ \/ /\ Creatable(p) /\ Create(p)
          /\ incoming' = [path |-> p, left |-> Head(up).numbers[1]]
          /\ worker' = "data" /\ UNCHANGED totals
       \/ ~Creatable(p) /\ Reject
       \/ DiskError
    /\ UNCHANGED <<senderVars, down, fin, conn, cliVars>>

RecvUnit ==
    LET p == incoming.path  unit == <<Head(up).path, Head(up).numbers[1]>> IN
    /\ worker = "data" /\ incoming.left > 0 /\ Took("data")
    /\ \/ /\ dest' = [dest EXCEPT ![Staging(p)].data = Append(@, unit)]
          /\ incoming' = [incoming EXCEPT !.left = @ - 1]
          /\ UNCHANGED <<worker, totals>>
       \/ DiskError
    /\ UNCHANGED <<senderVars, down, fin, conn, cliVars>>

\* Variant for the checks: the staging file is copied, not renamed.
Copied(p) == [dest EXCEPT ![p] = dest[Staging(p)]]

Renamed(p) == IF Staging(p) = p THEN dest
              ELSE [dest EXCEPT ![p] = dest[Staging(p)], ![Staging(p)] = Absent]

\* tokio::fs::rename; a directory is not replaced.
Commit(p) ==
    /\ dest[p].kind # "dir"
    /\ dest' = Renamed(p)
    /\ totals' = [totals EXCEPT !.files = @ + 1, !.bytes = @ + Size[p]]
    /\ incoming' = None /\ worker' = "frames"

\* The file is complete: its digest is compared, and it takes its name.
RecvLast ==
    LET p == incoming.path IN
    /\ worker = "data" /\ incoming.left = 0
    /\ IF Checksum
       THEN /\ Took("digest")
            /\ \/ dest[Staging(p)].data = Content(p, Head(up).numbers[1]) /\ Commit(p)
               \/ /\ dest[Staging(p)].data # Content(p, Head(up).numbers[1])
                  /\ dest' = [dest EXCEPT ![Staging(p)] = Absent]
                  /\ worker' = "ackError" /\ UNCHANGED <<incoming, totals>>
               \/ dest[p].kind = "dir" /\ Reject
               \/ DiskError
       ELSE /\ UNCHANGED up
            /\ Commit(p) \/ (dest[p].kind = "dir" /\ Reject) \/ DiskError
    /\ UNCHANGED <<senderVars, down, fin, conn, cliVars>>

TotalsMatch(numbers) == numbers = <<totals.files, totals.dirs, totals.bytes>>

RecvEnd ==
    /\ worker = "frames" /\ Took("end")
    /\ worker' = IF TotalsMatch(Head(up).numbers) THEN "ackOk" ELSE "ackError"
    /\ UNCHANGED <<senderVars, down, fin, conn, incoming, totals, dest, cliVars>>

\* The stream ends or is cut where a frame or a byte is expected.
RecvCut ==
    /\ worker \in {"start", "frames", "data"} /\ up = <<>> /\ StreamOver("cli")
    /\ worker = "data" => incoming.left > 0 \/ Checksum
    /\ Reject
    /\ UNCHANGED <<senderVars, up, down, fin, conn, cliVars>>

\* write_directory_ack: the tag, then the totals or the error, then the FIN.
WriteAck ==
    /\ \/ worker = "ackOk" /\ worker' = "bodyOk" /\ down' = Append(down, "ok") /\ UNCHANGED fin
       \/ worker = "ackError" /\ worker' = "bodyError" /\ down' = Append(down, "error") /\ UNCHANGED fin
       \/ worker \in {"bodyOk", "bodyError"} /\ worker' = "shutdown" /\ down' = Append(down, "body") /\ UNCHANGED fin
       \/ worker = "shutdown" /\ worker' = "ended" /\ fin' = fin \cup {"worker"} /\ UNCHANGED down
    /\ conn = "up"
    /\ UNCHANGED <<senderVars, up, conn, incoming, totals, dest, cliVars>>

\* A write finds the stream closed: the worker gives up.
WriteAckFails ==
    /\ conn = "lost" /\ worker \in {"ackOk", "ackError", "bodyOk", "bodyError", "shutdown"}
    /\ worker' = "ended"
    /\ UNCHANGED <<senderVars, up, down, fin, conn, incoming, totals, dest, cliVars>>

-----------------------------------------------------------------------------
\* The CLI

Report(state, why) ==
    /\ cli' = state
    /\ outcome' = [outcome EXCEPT !.reason = why]

\* read_directory_ack: the tag.
AckTag ==
    /\ cli \in {"racing", "awaiting"} /\ ack = "none" /\ down # <<>>
    /\ down' = Tail(down)
    /\ \/ Head(down) \in {"ok", "error"} /\ ack' = Head(down) /\ UNCHANGED <<cli, outcome>>
       \/ Head(down) = "body" /\ Report("failed", "invalid") /\ UNCHANGED ack
    /\ UNCHANGED <<senderVars, up, fin, conn, workerVars>>

\* The rest: the totals, or the error of the worker.
AckBody ==
    /\ cli \in {"racing", "awaiting"} /\ ack # "none" /\ down # <<>>
    /\ down' = Tail(down) /\ ack' = "none"
    /\ \/ /\ ack = "ok"
          /\ cli' = IF cli = "racing" THEN "acked" ELSE "completed"
          /\ outcome' = [reason |-> "ok", files |-> totals.files, bytes |-> totals.bytes]
       \/ ack = "error" /\ Report("failed", "rejected")
    /\ UNCHANGED <<senderVars, up, fin, conn, workerVars>>

AckCut ==
    /\ cli \in {"racing", "awaiting"} /\ down = <<>> /\ StreamOver("worker")
    /\ Report("failed", "eof")
    /\ UNCHANGED <<senderVars, up, down, fin, conn, workerVars, ack>>

\* Variant for the checks: what was sent counts as delivered.
SentIsEnough == Report("completed", "ok") /\ UNCHANGED ack

\* A new read_directory_ack; select! dropped the first one with what it had
\* consumed.
AwaitAck == cli' = "awaiting" /\ ack' = "none" /\ UNCHANGED outcome

\* The sending ends first.
SentFirst ==
    /\ cli = "racing"
    /\ \/ sender = "done" /\ AwaitAck
       \/ sender = "error" /\ Report("failed", "sender") /\ UNCHANGED ack
    /\ UNCHANGED <<senderVars, up, down, fin, conn, workerVars>>

\* Acknowledged first: the sending has five more seconds.
AckedFirst ==
    /\ cli = "acked"
    /\ \/ sender = "done" /\ Report("completed", "ok")
       \/ sender = "error" /\ Report("failed", "sender")
       \/ sender \notin {"done", "error"} /\ Report("completed", "timeout")
    /\ UNCHANGED <<senderVars, up, down, fin, conn, workerVars, ack>>

\* The connection goes: a process ended, or the network failed.  What is on
\* its way arrives or does not.
Lose ==
    /\ conn = "up" /\ (Loses \/ worker = "ended" \/ ~CliRuns)
    /\ conn' = "lost"
    /\ \E n \in 0 .. Len(up) : up' = SubSeq(up, 1, n)
    /\ \E n \in 0 .. Len(down) : down' = SubSeq(down, 1, n)
    /\ UNCHANGED <<senderVars, fin, workerVars, cliVars>>

Done == worker = "ended" /\ ~CliRuns /\ conn = "lost" /\ UNCHANGED vars

Sends == SendStart \/ LeaveDirectory \/ NextEntry \/ SendUnit \/ FinishFile \/ SendTotals
         \/ SendFails \/ SendShutdown

Receives == RecvStart \/ RecvPack \/ RecvDirectory \/ RecvFile \/ RecvUnit \/ RecvLast \/ RecvEnd
            \/ RecvCut \/ WriteAck \/ WriteAckFails

Awaits == AckTag \/ AckBody \/ AckCut \/ SentFirst \/ AckedFirst

Next == Sends \/ Receives \/ Awaits \/ Lose \/ Done

Spec == Init /\ [][Next]_vars

\* Each task runs while it can; a connection whose process ended goes away.
FairSpec ==
    /\ Spec
    /\ WF_vars(Sends) /\ WF_vars(Receives) /\ WF_vars(Awaits)
    /\ WF_vars((worker = "ended" \/ ~CliRuns) /\ Lose)

-----------------------------------------------------------------------------
\* Properties

\* A transfer reported complete: every directory and file of the source is at
\* the destination, each file whole, and no staging file remains
\* (receive_directory renames each, and FRAME_END compares the totals).
SameTree ==
    cli = "completed" =>
       /\ \A p \in Dirs : dest[p] = Directory
       /\ \A p \in Files : dest[p] = File(Content(p, Size[p]))
       /\ \A p \in Files : Partial[p] \in Dirs \cup Files \/ dest[Partial[p]] = Absent

\* The receipt of a complete transfer is what the sender sent and what the
\* worker counted, whichever of the two the CLI heard of first.
ReceiptAgrees ==
    cli = "completed" =>
       /\ outcome.files = Cardinality(Files) /\ sent.files = outcome.files
       /\ sent.bytes = outcome.bytes /\ sender \in {"ended", "done"}

\* A file of the destination changes only to the whole of the source's file:
\* the part received so far is under its staging name, also when the sender,
\* the disk or the connection fails in between.
FilesAppearWhole ==
    [][\A p \in Files \ {Partial[q] : q \in Files} :
          dest'[p] # dest[p] => dest'[p] = File(Content(p, Size[p]))]_vars

\* The CLI reports an outcome, and the worker ends, whatever fails.
BothEnd == <>(~CliRuns) /\ <>(worker = "ended")

\* "Selected concurrently between directory transfer sending and receiver ACK
\* reading ..., surfacing receiver rejection immediately" (PROJECT_STATE.md):
\* what the receiver wrote is not taken for an invalid acknowledgement.
AckUnderstood == outcome.reason # "invalid"
=============================================================================

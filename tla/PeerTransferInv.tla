-------------------------- MODULE PeerTransferInv --------------------------
(***************************************************************************)
(* The inductive invariant of PeerTransfer.  Handshake says where the one  *)
(* outstanding step of the metadata / ready / resume exchange is, which    *)
(* makes both file tasks start from the same offset.  Transfer follows the *)
(* bytes from the source, over the stream, into the file being written.    *)
(***************************************************************************)
EXTENDS PeerTransfer

\* The messages that carry the exchange forward; the others may pass by them.
WorkerStep(m) == m.type \in {"METADATA", "RESUME_OK", "RESTART_FROM_ZERO"}
ClientStep(m) == m.type \in {"READY", "RESUME_READY"}

NoWorkerStep == \A i \in DOMAIN toWorker : ~WorkerStep(toWorker[i])
NoClientStep == \A i \in DOMAIN toClient : ~ClientStep(toClient[i])

\* Neither file task has been started and no resume is being negotiated.
Unanswered == sendState = "idle" /\ recvState = "idle" /\ pendingRecv = None

\* At most one step is outstanding: in a queue or as a recorded offer.
OneStep ==
    /\ \A i, j \in DOMAIN toWorker :
          WorkerStep(toWorker[i]) /\ WorkerStep(toWorker[j]) => i = j
    /\ \A i, j \in DOMAIN toClient :
          ClientStep(toClient[i]) /\ ClientStep(toClient[j]) => i = j
    /\ NoWorkerStep \/ NoClientStep
    /\ offered # None => NoWorkerStep /\ NoClientStep

\* What each message in flight says about the state of both sides.
StepMeans ==
    /\ \A i \in DOMAIN toWorker :
         /\ toWorker[i].type = "METADATA" => Unanswered
         /\ toWorker[i].type = "RESUME_OK" => sendState # "idle" /\ pendingRecv # None
         /\ toWorker[i].type = "RESTART_FROM_ZERO" => sendState = "idle" /\ pendingRecv # None
    /\ \A i \in DOMAIN toClient :
         /\ toClient[i].type = "RESUME_READY" =>
               /\ sendState = "idle" /\ pendingRecv # None
               /\ toClient[i].offset = pendingRecv.offset
         /\ toClient[i].type = "READY" =>
               sendState = "idle" /\ recvState # "idle" /\ recvPlan.offset = 0

Offsets ==
    /\ offered # None => Unanswered
    /\ cliMain \in {"off", "connected"} =>
          ~pendingSend /\ offered = None /\ NoWorkerStep /\ NoClientStep /\ Unanswered
    /\ sendState # "idle" => ~pendingSend
    /\ recvState # "idle" => pendingRecv = None /\ recvPlan # None
    /\ sendState # "idle" /\ recvState # "idle" => sendOffset = recvPlan.offset
    /\ sendState # "idle" /\ pendingRecv # None => sendOffset = pendingRecv.offset

Handshake == OneStep /\ StepMeans /\ Offsets

\* There is a file to write to, from when a resume is offered.
Writable(plan) == plan.offset > 0 => IF plan.usePart THEN part # None ELSE dest # None

Writing ==
    /\ pendingRecv # None => Writable(pendingRecv)
    /\ recvState = "triggered" => Writable(recvPlan)
    /\ recvState \in {"receiving", "awaitHash"} => Target # None

-----------------------------------------------------------------------------
\* Sizes: what was announced is the source's size, unless it was edited.
SizeKnown ==
    ~edited =>
      /\ \A i \in DOMAIN toWorker :
            toWorker[i].type = "METADATA" => toWorker[i].size = Len(src)
      /\ offered # None => offered.size = Len(src)
      /\ pendingRecv # None => pendingRecv.size = Len(src)
      /\ recvState # "idle" => recvPlan.size = Len(src)

\* The sender: what was read is the source from the offset on.
SentFromSource ==
    ~edited =>
      /\ \A i \in 1..Len(sent) : sendOffset + i <= Len(src) /\ sent[i] = src[sendOffset + i]
      /\ sendState = "sending" => sendHash = src
      /\ sendState = "finished" => sendOffset + Len(sent) >= Len(src) /\ sendHash \in {None, src}

\* The stream is a FIFO.
InOrder ==
    /\ Len(sent) = Len(rcvd) + Len(fileStream)
    /\ \A i \in 1..Len(rcvd) : rcvd[i] = sent[i]
    /\ \A i \in 1..Len(fileStream) : fileStream[i] = sent[Len(rcvd) + i]
    /\ sendState \in {"idle", "triggered"} => sent = <<>>
    /\ recvState \in {"idle", "triggered"} => rcvd = <<>>

\* A hash is announced once, after the end of the file.
HashAnnounced ==
    /\ \A i \in DOMAIN toWorker :
          toWorker[i].type = "FILE_SENT" => sendState = "finished" /\ toWorker[i].hash = sendHash
    /\ \A i \in DOMAIN hashRx : sendState = "finished" /\ hashRx[i] = sendHash

\* Before a plan is carried out: what it resumes from is still on disk.
Resumable(plan) ==
    plan.offset > 0 =>
       \/ /\ plan.usePart /\ base.part # None /\ plan.offset <= Len(base.part)
          /\ part = SubSeq(base.part, 1, plan.offset)
          /\ plan.offset <= plan.size
       \/ /\ ~plan.usePart /\ plan.offset = plan.size
          /\ base.part = None /\ base.dest # None /\ Len(base.dest) = plan.size
          /\ dest = base.dest

\* While it is carried out: the target is what was resumed from, then rcvd.
Written ==
    LET f == Target
    IN /\ f # None /\ Len(f) = RecvPos /\ RecvPos <= recvPlan.size
       /\ \A i \in 1..Len(rcvd) : f[recvPlan.offset + i] = rcvd[i]
       /\ recvPlan.offset > 0 => 
            \/ /\ recvPlan.usePart /\ base.part # None /\ recvPlan.offset <= Len(base.part)
               /\ \A i \in 1..recvPlan.offset : f[i] = base.part[i]
            \/ /\ ~recvPlan.usePart /\ recvPlan.offset = recvPlan.size
               /\ base.part = None /\ base.dest # None /\ Len(base.dest) = recvPlan.size
               /\ dest = base.dest

OnDisk ==
    /\ recvState = "idle" /\ pendingRecv = None => part = base.part /\ dest = base.dest
    /\ pendingRecv # None => Resumable(pendingRecv)
    /\ recvState = "triggered" => Resumable(recvPlan)
    /\ recvState \in {"receiving", "awaitHash"} => Written
    /\ recvState = "awaitHash" => RecvPos = recvPlan.size /\ recvHash \in {None, Target}

\* A committed transfer, and who knows of it.
Committed ==
    /\ recvState = "done" => sendState = "finished"
    /\ recvState = "done" /\ ~edited /\ (Compared \/ Honest) => dest = src
    /\ \A i \in DOMAIN toClient : toClient[i].type = "RECEIVED_FILE:OK" => recvState = "done"
    /\ cliResult = "Completed" => recvState = "done"

\* A session that does not resume stages every large file.
Staged ==
    ~edited /\ ~opts.resume =>
       /\ \A i \in DOMAIN toWorker : toWorker[i].type = "METADATA" => ~toWorker[i].resume
       /\ offered # None => ~offered.resume
       /\ pendingRecv = None
       /\ recvState # "idle" => recvPlan.usePart = UsePart(Len(src))
       /\ UsePart(Len(src)) /\ recvState # "done" => dest = base.dest

Transfer == SizeKnown /\ SentFromSource /\ InOrder /\ HashAnnounced /\ OnDisk /\ Committed
            /\ Staged

-----------------------------------------------------------------------------
\* What ResumeKeepsProgress supposes, and the whole chunks of the part file.
Resuming ==
    /\ opts.resume /\ (opts.early => opts.wresume)
    /\ faults = 0 /\ ~edited /\ Len(src) >= Threshold /\ base.part # None /\ Honest

Kept == AlignDown(Len(base.part))

\* Such a session asks to resume, is answered with the fingerprint of the source,
\* and works on the part file from there on.
Resumed ==
    /\ pendingAccept => opts.early
    /\ Resuming =>
       /\ \A i \in DOMAIN toWorker :
             /\ toWorker[i].type = "METADATA" => toWorker[i].resume
             /\ toWorker[i].type # "RESTART_FROM_ZERO"
       /\ offered # None => offered.resume
       /\ \A i \in DOMAIN toClient :
             toClient[i].type = "RESUME_READY" => toClient[i].prefixHash = Fingerprint(src)
       /\ pendingRecv # None => pendingRecv.usePart /\ pendingRecv.offset = Kept
       /\ recvState # "idle" => recvPlan.usePart /\ recvPlan.offset = Kept
       /\ recvState # "done" => part # None /\ Len(part) >= Kept

=============================================================================

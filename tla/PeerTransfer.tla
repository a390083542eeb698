--------------------------- MODULE PeerTransfer ---------------------------
(***************************************************************************)
(* One file moving from a client (quiczilla-cli) to a worker through       *)
(* run_peer: the control protocol, the file stream, the ".quic-part" file  *)
(* and the retries that resume it.                                         *)
(*                                                                         *)
(* The main loop of each side, its file task and the code that embeds it   *)
(* (the CLI's and the worker's event loops) are separate actors that       *)
(* interleave.  A session is one QUIC connection; sessions follow each     *)
(* other and share only the source file and the receiver's disk.           *)
(*                                                                         *)
(* A file is a sequence of units, a unit being a fraction of the 2 MiB     *)
(* chunk.  A SHA-256 is modelled as the content it was computed over       *)
(* (collision free), and None stands for a missing file, a missing message *)
(* field and the hash string "NONE".                                       *)
(***************************************************************************)
EXTENDS Integers, Sequences

CONSTANTS
    Units,        \* what a unit of a file may hold
    Sources,      \* contents the file to send may have
    Leftovers,    \* what the destination may hold before the first session
    Options,      \* option records of a session, see OptionType
    Threshold,    \* RESUME_THRESHOLD_BYTES, in units
    Align,        \* FILE_CHUNK_SIZE, in units
    PrefixLen,    \* RESUME_FINGERPRINT_SIZE, in units
    Faults,       \* kinds of I/O failure that may happen
    MaxSessions, MaxFaults, MaxPauses, MaxEdits, \* bounds for TLC
    None

OptionType == [checksum : BOOLEAN,   \* client: --checksum
               resume   : BOOLEAN,   \* client: -c, --resume
               verify   : BOOLEAN,   \* worker: --verify
               wresume  : BOOLEAN,   \* worker: --resume
               refuse   : BOOLEAN,   \* worker: --on-conflict refuse
               early    : BOOLEAN]   \* AcceptFile is queued before the offer

\* "stat", "open", "read": the source file; "create", "write", "rename": the
\* destination; "hash": any whole-file or fingerprint read.
FaultKinds == {"stat", "open", "read", "create", "write", "rename", "hash"}

ASSUME ConstantsAssumption ==
    /\ Sources \subseteq Seq(Units) /\ Leftovers \subseteq Sources \cup {None}
    /\ Options \subseteq OptionType /\ Options # {}
    /\ Threshold \in Nat \ {0} /\ Align \in Nat \ {0} /\ PrefixLen \in Nat \ {0}
    /\ Faults \subseteq FaultKinds
    /\ MaxSessions \in Nat /\ MaxFaults \in Nat /\ MaxPauses \in Nat /\ MaxEdits \in Nat

VARIABLES
    src, part, dest,                        \* the three files
    session, opts,                          \* number of the session, its options
    conn, toWorker, toClient, fileStream,   \* the connection and its streams
    cliMain, pendingSend, cliPaused, cliResult,        \* client: main loop, CLI
    sendState, sendOffset, sent, sendHash,             \* client: file send task
    wrkMain, offered, pendingAccept, pendingRecv, hashRx, wrkPaused, wrkResult,
    recvState, recvPlan, rcvd, recvHash,               \* worker: file receive task
    base, edited,                           \* history: disk at session start
    faults, pauses, edits                   \* bounded counts

files    == <<src, part, dest>>
setup    == <<session, opts, base>>
wire     == <<conn, toWorker, toClient, fileStream>>
client   == <<cliMain, pendingSend, cliPaused, cliResult>>
sendTask == <<sendState, sendOffset, sent, sendHash>>
worker   == <<wrkMain, offered, pendingAccept, pendingRecv, hashRx, wrkPaused, wrkResult>>
recvTask == <<recvState, recvPlan, rcvd, recvHash>>
counts   == <<edited, pauses, edits>>

vars == <<files, setup, wire, client, sendTask, worker, recvTask, counts, faults>>

-----------------------------------------------------------------------------
\* Data

\* Variant for the checks: rounds an exact multiple down by a whole chunk.
AlignDownBelow(n) == ((n - 1) \div Align) * Align

AlignDown(n) == (n \div Align) * Align

Fingerprint(f) == SubSeq(f, 1, IF Len(f) < PrefixLen THEN Len(f) ELSE PrefixLen)

IsPrefixOf(s, t) == Len(s) <= Len(t) /\ s = SubSeq(t, 1, Len(s))

\* Variant for the checks: the threshold itself is not staged.
UsePartAbove(size) == size > Threshold

UsePart(size) == size >= Threshold

\* What a receive trigger carries: (dest_path, size, checksum, offset, use_part).
Plan == [size : Nat, checksum : BOOLEAN, offset : Nat, usePart : BOOLEAN]

Offer == [size : Nat, resume : BOOLEAN, checksum : BOOLEAN]

\* None is not mistaken for a file, a plan or an offer (TLC: a model value).
ASSUME NoneAssumption == None \notin Seq(Units) /\ None \notin Plan /\ None \notin Offer

File == Seq(Units)

FileOrNone == File \cup {None}

ToWorkerMsg ==
         [type : {"METADATA"}, size : Nat, resume : BOOLEAN, checksum : BOOLEAN]
    \cup [type : {"RESUME_OK", "RESTART_FROM_ZERO", "PAUSE", "RESUME"}]
    \cup [type : {"FILE_SENT"}, hash : FileOrNone]

ToClientMsg ==
         [type : {"READY", "RECEIVED_FILE:OK", "RECEIVED_FILE:FAILED", "REJECTED"}]
    \cup [type : {"RESUME_READY"}, offset : Nat, prefixHash : FileOrNone]

Results == {"none", "Completed", "HashFailed", "Etc", "RejectedUnwanted",
            "Disconnected", "Cancelled"}

SendStates == {"idle", "triggered", "sending", "finished", "failed"}
RecvStates == {"idle", "triggered", "receiving", "awaitHash", "done", "failed"}

TypeOK ==
    /\ src \in Sources /\ part \in FileOrNone /\ dest \in FileOrNone
    /\ session \in 0..MaxSessions /\ opts \in Options
    /\ conn \in BOOLEAN
    /\ toWorker \in Seq(ToWorkerMsg) /\ toClient \in Seq(ToClientMsg)
    /\ fileStream \in File
    /\ cliMain \in {"off", "connected", "run", "stopped"} /\ pendingSend \in BOOLEAN
    /\ cliPaused \in BOOLEAN /\ cliResult \in Results
    /\ sendState \in SendStates /\ sendOffset \in Nat /\ sent \in File
    /\ sendHash \in FileOrNone
    /\ wrkMain \in {"off", "run", "stopped"} /\ offered \in Offer \cup {None}
    /\ pendingAccept \in BOOLEAN /\ pendingRecv \in Plan \cup {None}
    /\ hashRx \in Seq(FileOrNone) /\ wrkPaused \in BOOLEAN /\ wrkResult \in Results
    /\ recvState \in RecvStates /\ recvPlan \in Plan \cup {None}
    /\ rcvd \in File /\ recvHash \in FileOrNone
    /\ base \in [part : FileOrNone, dest : FileOrNone] /\ edited \in BOOLEAN
    /\ faults \in 0..MaxFaults /\ pauses \in 0..MaxPauses /\ edits \in 0..MaxEdits

Init ==
    /\ src \in Sources /\ part = None /\ dest \in Leftovers
    /\ session = 0 /\ opts = (CHOOSE o \in Options : TRUE)
    /\ base = [part |-> None, dest |-> dest]
    /\ conn = FALSE /\ toWorker = <<>> /\ toClient = <<>> /\ fileStream = <<>>
    /\ cliMain = "off" /\ pendingSend = FALSE /\ cliPaused = FALSE /\ cliResult = "none"
    /\ sendState = "idle" /\ sendOffset = 0 /\ sent = <<>> /\ sendHash = None
    /\ wrkMain = "off" /\ offered = None /\ pendingAccept = FALSE /\ pendingRecv = None
    /\ hashRx = <<>> /\ wrkPaused = FALSE /\ wrkResult = "none"
    /\ recvState = "idle" /\ recvPlan = None /\ rcvd = <<>> /\ recvHash = None
    /\ edited = FALSE /\ faults = 0 /\ pauses = 0 /\ edits = 0

-----------------------------------------------------------------------------
\* Vocabulary of the actions

\* An I/O operation of this kind fails; at most MaxFaults do.
Fault(kind) == kind \in Faults /\ faults < MaxFaults /\ faults' = faults + 1

\* d is the digest of f, or None where reading f failed (".ok()", "NONE").
Digest(f, d) == \/ d = f /\ UNCHANGED faults
                \/ d = None /\ Fault("hash")

\* Control messages queued by a side whose connection is gone are lost.
\* The control send task drains the queue in order.
PostToWorker(m) == toWorker' = IF conn THEN Append(toWorker, m) ELSE toWorker
PostToClient(m) == toClient' = IF conn THEN Append(toClient, m) ELSE toClient

\* The embedding event loop acts on the first final event only.
CliEvent(r) == cliResult' = IF cliResult = "none" THEN r ELSE cliResult
WrkEvent(r) == wrkResult' = IF wrkResult = "none" THEN r ELSE wrkResult

\* The client's run_peer is running, before or after it handled SendFile.
CliUp == cliMain \in {"connected", "run"}

\* The main loop of a side takes the next control message.
ClientTakes(type) ==
    /\ cliMain = "run" /\ toClient # <<>> /\ Head(toClient).type = type
    /\ toClient' = Tail(toClient)
WorkerTakes(type) ==
    /\ wrkMain = "run" /\ toWorker # <<>> /\ Head(toWorker).type = type
    /\ toWorker' = Tail(toWorker)

-----------------------------------------------------------------------------
\* The environment: the user, the source file and the network

\* A client connects to a worker: run_peer starts on both sides.
StartSession(o) ==
    /\ session < MaxSessions /\ ~CliUp /\ wrkMain # "run"
    /\ sendState \notin {"triggered", "sending"}
    /\ recvState \notin {"triggered", "receiving", "awaitHash"}
    /\ session' = session + 1 /\ opts' = o
    /\ base' = [part |-> part, dest |-> dest]
    /\ conn' = TRUE /\ toWorker' = <<>> /\ toClient' = <<>> /\ fileStream' = <<>>
    /\ cliMain' = "connected" /\ pendingSend' = FALSE /\ cliPaused' = FALSE /\ cliResult' = "none"
    /\ sendState' = "idle" /\ sendOffset' = 0 /\ sent' = <<>> /\ sendHash' = None
    /\ wrkMain' = "run" /\ offered' = None /\ pendingAccept' = FALSE /\ pendingRecv' = None
    /\ hashRx' = <<>> /\ wrkPaused' = FALSE /\ wrkResult' = "none"
    /\ recvState' = "idle" /\ recvPlan' = None /\ rcvd' = <<>> /\ recvHash' = None
    /\ edited' = FALSE
    /\ UNCHANGED <<files, pauses, edits, faults>>

\* Somebody rewrites the source file, in place.
EditSource(f) ==
    /\ edits < MaxEdits /\ f # src
    /\ src' = f /\ edited' = TRUE /\ edits' = edits + 1
    /\ UNCHANGED <<part, dest, setup, wire, client, sendTask, worker, recvTask, pauses, faults>>

UserPause ==
    /\ CliUp /\ ~cliPaused /\ pauses < MaxPauses
    /\ cliPaused' = TRUE /\ pauses' = pauses + 1
    /\ PostToWorker([type |-> "PAUSE"])
    /\ UNCHANGED <<files, setup, conn, toClient, fileStream, cliMain, pendingSend, cliResult,
                   sendTask, worker, recvTask, edited, edits, faults>>

UserResume ==
    /\ CliUp /\ cliPaused
    /\ cliPaused' = FALSE
    /\ PostToWorker([type |-> "RESUME"])
    /\ UNCHANGED <<files, setup, conn, toClient, fileStream, cliMain, pendingSend, cliResult,
                   sendTask, worker, recvTask, counts, faults>>

UserCancel ==
    /\ CliUp /\ cliResult = "none"
    /\ cliResult' = "Cancelled"
    /\ UNCHANGED <<files, setup, wire, cliMain, pendingSend, cliPaused, sendTask, worker,
                   recvTask, counts, faults>>

\* Idle timeout, network loss, or the crash of a process: a crashed side is
\* one that sees the loss first and never acts again.
LoseConnection ==
    /\ conn /\ conn' = FALSE
    /\ UNCHANGED <<files, setup, toWorker, toClient, fileStream, client, sendTask, worker,
                   recvTask, counts, faults>>

-----------------------------------------------------------------------------
\* Client: main loop of run_peer and the CLI around it

\* The CLI answers Connected with the SendFile command; the file's size is
\* read now.  A failing metadata call is only logged.
SendFile ==
    /\ cliMain = "connected" /\ cliMain' = "run"
    /\ \/ /\ PostToWorker([type |-> "METADATA", size |-> Len(src),
                           resume |-> opts.resume, checksum |-> opts.checksum])
          /\ pendingSend' = TRUE
          /\ UNCHANGED faults
       \/ Fault("stat") /\ UNCHANGED <<toWorker, pendingSend>>
    /\ UNCHANGED <<files, setup, conn, toClient, fileStream, cliPaused, cliResult, sendTask,
                   worker, recvTask, counts>>

\* Variant for the checks: the offset is taken for a 1-based position.
TriggerSendOffByOne(offset) ==
    /\ pendingSend' = FALSE
    /\ sendState' = "triggered" /\ sendOffset' = offset - 1
    /\ UNCHANGED <<sent, sendHash>>

\* The pending file is handed to the file send task.
TriggerSend(offset) ==
    /\ pendingSend' = FALSE
    /\ sendState' = "triggered" /\ sendOffset' = offset
    /\ UNCHANGED <<sent, sendHash>>

ClientReady ==
    /\ ClientTakes("READY")
    /\ IF pendingSend THEN TriggerSend(0) ELSE UNCHANGED <<pendingSend, sendTask>>
    /\ UNCHANGED <<files, setup, conn, toWorker, fileStream, cliMain, cliPaused, cliResult,
                   worker, recvTask, counts, faults>>

\* handle_accept never offers offset 0; a digest that cannot be computed
\* equals a digest the worker could not compute.
ClientResumeReady ==
    /\ ClientTakes("RESUME_READY")
    /\ IF ~pendingSend THEN UNCHANGED <<pendingSend, sendTask, toWorker, faults>>
       ELSE \E local \in {Fingerprint(src), None} :
              /\ Digest(Fingerprint(src), local)
              /\ IF local = Head(toClient).prefixHash
                 THEN /\ PostToWorker([type |-> "RESUME_OK"])
                      /\ TriggerSend(Head(toClient).offset)
                 ELSE /\ PostToWorker([type |-> "RESTART_FROM_ZERO"])
                      /\ UNCHANGED <<pendingSend, sendTask>>
    /\ UNCHANGED <<files, setup, conn, fileStream, cliMain, cliPaused, cliResult,
                   worker, recvTask, counts>>

\* RECEIVED_FILE:OK, RECEIVED_FILE:FAILED and REJECTED end the transfer.
ClientVerdict ==
    /\ \/ ClientTakes("RECEIVED_FILE:OK") /\ CliEvent("Completed")
       \/ ClientTakes("RECEIVED_FILE:FAILED") /\ CliEvent("HashFailed")
       \/ ClientTakes("REJECTED") /\ CliEvent("RejectedUnwanted")
    /\ UNCHANGED <<files, setup, conn, toWorker, fileStream, cliMain, pendingSend, cliPaused,
                   sendTask, worker, recvTask, counts, faults>>

\* The control stream ends: messages not read by then are never read.
ClientDisconnected ==
    /\ CliUp /\ ~conn
    /\ cliMain' = "stopped" /\ toClient' = <<>> /\ CliEvent("Disconnected")
    /\ UNCHANGED <<files, setup, conn, toWorker, fileStream, pendingSend, cliPaused, sendTask, worker, recvTask,
                   counts, faults>>

\* The CLI cancels on its final event; run_peer shuts the connection down.
ClientStops ==
    /\ CliUp /\ cliResult # "none"
    /\ cliMain' = "stopped" /\ conn' = FALSE /\ toClient' = <<>>
    /\ UNCHANGED <<files, setup, toWorker, fileStream, pendingSend, cliPaused,
                   cliResult, sendTask, worker, recvTask, counts, faults>>

-----------------------------------------------------------------------------
\* Client: file send task

\* A failing open or seek is reported locally as Disconnected, never to the worker.
\* The whole-file hash of a resumed transfer starts now, in a thread.
SendOpen ==
    /\ sendState = "triggered"
    /\ \/ sendState' = "sending" /\ sendHash' = src /\ UNCHANGED <<cliResult, faults>>
       \/ sendState' = "failed" /\ CliEvent("Disconnected") /\ Fault("open") /\ UNCHANGED sendHash
    /\ UNCHANGED <<files, setup, wire, cliMain, pendingSend, cliPaused, sendOffset, sent,
                   worker, recvTask, counts>>

SendPos == sendOffset + Len(sent)

SendUnit ==
    /\ sendState = "sending" /\ CliUp /\ conn /\ ~cliPaused
    /\ SendPos < Len(src)
    /\ sent' = Append(sent, src[SendPos + 1])
    /\ fileStream' = Append(fileStream, src[SendPos + 1])
    /\ UNCHANGED <<files, setup, conn, toWorker, toClient, client, sendState, sendOffset,
                   sendHash, worker, recvTask, counts, faults>>

\* End of file: the hash is of the units read, or of the file as the hashing
\* thread saw it, which an edit may have overtaken.
SendFinish ==
    /\ sendState = "sending" /\ CliUp /\ SendPos >= Len(src)
    /\ sendState' = "finished"
    /\ \/ ~opts.checksum /\ sendHash' = None /\ UNCHANGED faults
       \/ opts.checksum /\ sendOffset = 0 /\ sendHash' = sent /\ UNCHANGED faults
       \/ opts.checksum /\ sendOffset > 0 /\ \E seen \in {sendHash, src} : Digest(seen, sendHash')
    /\ PostToWorker([type |-> "FILE_SENT", hash |-> sendHash'])
    /\ UNCHANGED <<files, setup, conn, toClient, fileStream, client, sendOffset, sent,
                   worker, recvTask, counts>>

\* The disk reader fails (logged, nobody told), or the write to the stream does.
SendFails ==
    /\ sendState = "sending" /\ sendState' = "failed"
    /\ \/ Fault("read")
       \/ (~conn \/ ~CliUp) /\ UNCHANGED faults
    /\ UNCHANGED <<files, setup, wire, client, sendOffset, sent, sendHash, worker, recvTask, counts>>

-----------------------------------------------------------------------------
\* Worker: main loop of run_peer and the event loop of the worker around it

\* The plan is handed to the file receive task and the client told to send.
TriggerRecv(plan) ==
    /\ recvState' = "triggered" /\ recvPlan' = plan
    /\ UNCHANGED <<rcvd, recvHash>>

\* Answer with what is already there: its length and its fingerprint.
OfferResume(plan, f) ==
    /\ pendingRecv' = plan
    /\ \E fp \in {Fingerprint(f), None} :
          /\ Digest(Fingerprint(f), fp)
          /\ toClient' = IF conn THEN Append(toClient, [type |-> "RESUME_READY",
                                            offset |-> plan.offset, prefixHash |-> fp])
                                 ELSE toClient

PlanOf(o, checksum, offset, usePart) ==
    [size |-> o.size, checksum |-> checksum, offset |-> offset, usePart |-> usePart]

\* handle_accept: a large file resumes from the whole chunks of its part file,
\* or from a finished destination of the same size, else it starts afresh.
HandleAccept(o, checksum, resume) ==
    LET wanted      == UsePart(o.size) /\ o.resume /\ resume
        kept        == AlignDown(Len(part))
        fromPart    == wanted /\ part # None /\ kept > 0 /\ kept <= o.size
        fromDest    == wanted /\ part = None /\ dest # None /\ Len(dest) = o.size
    IN \/ /\ fromPart
          /\ part' = SubSeq(part, 1, kept)
          /\ OfferResume(PlanOf(o, checksum, kept, TRUE), part')
          /\ UNCHANGED recvTask
       \/ /\ fromDest
          /\ OfferResume(PlanOf(o, checksum, o.size, FALSE), dest)
          /\ UNCHANGED <<part, recvTask>>
       \/ /\ ~fromPart /\ ~fromDest
          /\ TriggerRecv(PlanOf(o, checksum, 0, UsePart(o.size)))
          /\ PostToClient([type |-> "READY"])
          /\ UNCHANGED <<part, pendingRecv, faults>>

\* The offer is recorded; an acceptance given beforehand is used up at once.
WorkerMetadata ==
    /\ WorkerTakes("METADATA")
    /\ LET m == Head(toWorker)
           o == [size |-> m.size, resume |-> m.resume, checksum |-> m.checksum]
       IN IF pendingAccept
          THEN /\ HandleAccept(o, opts.verify, opts.wresume)
               /\ pendingAccept' = FALSE /\ UNCHANGED offered
          ELSE /\ offered' = o
               /\ UNCHANGED <<part, pendingAccept, pendingRecv, recvTask, toClient, faults>>
    /\ UNCHANGED <<src, dest, setup, conn, fileStream, client, sendTask, wrkMain, hashRx,
                   wrkPaused, wrkResult, counts>>

\* AcceptFile before any offer, as the tests of run_peer do.
AcceptEarly ==
    /\ opts.early /\ wrkMain = "run" /\ offered = None /\ ~pendingAccept
    /\ recvState = "idle" /\ pendingRecv = None
    /\ pendingAccept' = TRUE
    /\ UNCHANGED <<files, setup, wire, client, sendTask, wrkMain, offered, pendingRecv, hashRx,
                   wrkPaused, wrkResult, recvTask, counts, faults>>

ResumeRequested == opts.wresume \/ offered.resume

Refuses == opts.refuse /\ dest # None /\ ~ResumeRequested

\* FileOffered reaches the worker, whose AcceptFile command is handled.
AcceptOffer ==
    /\ wrkMain = "run" /\ offered # None /\ ~Refuses
    /\ IF opts.early THEN HandleAccept(offered, opts.verify, opts.wresume)
       ELSE HandleAccept(offered, opts.verify \/ offered.checksum, ResumeRequested)
    /\ offered' = None
    /\ UNCHANGED <<src, dest, setup, conn, toWorker, fileStream, client, sendTask, wrkMain,
                   pendingAccept, hashRx, wrkPaused, wrkResult, counts>>

RejectOffer ==
    /\ wrkMain = "run" /\ offered # None /\ Refuses
    /\ offered' = None
    /\ PostToClient([type |-> "REJECTED"])
    /\ UNCHANGED <<files, setup, conn, toWorker, fileStream, client, sendTask, wrkMain,
                   pendingAccept, pendingRecv, hashRx, wrkPaused, wrkResult, recvTask, counts, faults>>

WorkerResumeOk ==
    /\ WorkerTakes("RESUME_OK")
    /\ IF pendingRecv = None THEN UNCHANGED <<pendingRecv, recvTask>>
       ELSE pendingRecv' = None /\ TriggerRecv(pendingRecv)
    /\ UNCHANGED <<files, setup, conn, toClient, fileStream, client, sendTask, wrkMain, offered,
                   pendingAccept, hashRx, wrkPaused, wrkResult, counts, faults>>

\* Variant for the checks: the restart does not reset the offset.
RestartedInPlace(plan) == plan

Restarted(plan) == [plan EXCEPT !.offset = 0]

\* current_part_path is emptied; the plan keeps its use_part, also when it
\* was the finished destination that had been offered.
WorkerRestart ==
    /\ WorkerTakes("RESTART_FROM_ZERO")
    /\ IF pendingRecv = None THEN UNCHANGED <<part, pendingRecv, recvTask, toClient, faults>>
       ELSE /\ pendingRecv' = None
            /\ \/ part' = <<>> /\ UNCHANGED faults
               \/ Fault("create") /\ UNCHANGED part
            /\ TriggerRecv(Restarted(pendingRecv))
            /\ PostToClient([type |-> "READY"])
    /\ UNCHANGED <<src, dest, setup, conn, fileStream, client, sendTask, wrkMain, offered,
                   pendingAccept, hashRx, wrkPaused, wrkResult, counts>>

WorkerPauseMsg ==
    /\ \/ WorkerTakes("PAUSE") /\ wrkPaused' = TRUE
       \/ WorkerTakes("RESUME") /\ wrkPaused' = FALSE
    /\ UNCHANGED <<files, setup, conn, toClient, fileStream, client, sendTask, wrkMain, offered,
                   pendingAccept, pendingRecv, hashRx, wrkResult, recvTask, counts, faults>>

WorkerFileSent ==
    /\ WorkerTakes("FILE_SENT")
    /\ hashRx' = Append(hashRx, Head(toWorker).hash)
    /\ UNCHANGED <<files, setup, conn, toClient, fileStream, client, sendTask, wrkMain, offered,
                   pendingAccept, pendingRecv, wrkPaused, wrkResult, recvTask, counts, faults>>

WorkerDisconnected ==
    /\ wrkMain = "run" /\ ~conn
    /\ wrkMain' = "stopped" /\ toWorker' = <<>> /\ WrkEvent("Disconnected")
    /\ UNCHANGED <<files, setup, conn, toClient, fileStream, client, sendTask, offered, pendingAccept, pendingRecv,
                   hashRx, wrkPaused, recvTask, counts, faults>>

\* 200 ms after TransferComplete the worker cancels, whether or not its
\* verdict has reached the client.
WorkerStops ==
    /\ wrkMain = "run" /\ wrkResult # "none"
    /\ wrkMain' = "stopped" /\ conn' = FALSE /\ toWorker' = <<>>
    /\ UNCHANGED <<files, setup, toClient, fileStream, client, sendTask, offered,
                   pendingAccept, pendingRecv, hashRx, wrkPaused, wrkResult, recvTask, counts, faults>>

-----------------------------------------------------------------------------
\* Worker: file receive task

\* The file being written: the part file or the destination itself.
Target == IF recvPlan.usePart THEN part ELSE dest

SetTarget(f) == IF recvPlan.usePart THEN part' = f /\ UNCHANGED dest
                                    ELSE dest' = f /\ UNCHANGED part

\* Variant for the checks: the failure is only logged, as on the sending side.
FailsSilently(result) == recvState' = "failed" /\ UNCHANGED <<wrkResult, toClient>>

\* The task reports a verdict and ends (it does not take another trigger).
Fails(result) ==
    /\ recvState' = "failed" /\ WrkEvent(result)
    /\ PostToClient([type |-> "RECEIVED_FILE:FAILED"])

\* A fresh transfer truncates what it will write to, a resumed one opens it.
RecvOpen ==
    /\ recvState = "triggered"
    /\ \/ /\ recvState' = "receiving"
          /\ IF recvPlan.offset = 0 THEN SetTarget(<<>>) ELSE UNCHANGED <<part, dest>>
          /\ UNCHANGED <<toClient, wrkResult, faults>>
       \/ Fails("Etc") /\ Fault("create") /\ UNCHANGED <<part, dest>>
    /\ UNCHANGED <<src, setup, conn, toWorker, fileStream, client, sendTask, wrkMain, offered,
                   pendingAccept, pendingRecv, hashRx, wrkPaused, recvPlan, rcvd, recvHash, counts>>

RecvPos == recvPlan.offset + Len(rcvd)

\* Units read from the stream are written in order by the disk writer.
RecvUnit ==
    /\ recvState = "receiving" /\ ~wrkPaused
    /\ RecvPos < recvPlan.size /\ fileStream # <<>>
    /\ rcvd' = Append(rcvd, Head(fileStream))
    /\ fileStream' = Tail(fileStream)
    /\ SetTarget(Append(Target, Head(fileStream)))
    /\ UNCHANGED <<src, setup, conn, toWorker, toClient, client, sendTask, worker, recvState,
                   recvPlan, recvHash, counts, faults>>

\* The stream ends, the session is cancelled or the disk writer fails: any of
\* the units still on their way to the disk (up to 16 chunks) may be missing.
RecvAbort ==
    /\ recvState = "receiving"
    /\ \/ (~conn \/ wrkMain # "run") /\ UNCHANGED faults
       \/ Fault("write")
    /\ \E lost \in 0..Len(rcvd) : SetTarget(SubSeq(Target, 1, Len(Target) - lost))
    /\ Fails("Etc")
    /\ UNCHANGED <<src, setup, conn, toWorker, fileStream, client, sendTask, wrkMain, offered,
                   pendingAccept, pendingRecv, hashRx, wrkPaused, recvPlan, rcvd, recvHash, counts>>

\* All bytes are on disk: hashed as they came, or by reading the file again
\* after a resume.
RecvComplete ==
    /\ recvState = "receiving" /\ RecvPos >= recvPlan.size
    /\ recvState' = "awaitHash"
    /\ \/ ~recvPlan.checksum /\ recvHash' = None /\ UNCHANGED faults
       \/ recvPlan.checksum /\ recvPlan.offset = 0 /\ recvHash' = rcvd /\ UNCHANGED faults
       \/ recvPlan.checksum /\ recvPlan.offset > 0 /\ Digest(Target, recvHash')
    /\ UNCHANGED <<files, setup, wire, client, sendTask, worker, recvPlan, rcvd, counts>>

\* Variant for the checks: only a transfer from byte 0 is verified.
HashOkFreshOnly(expected) ==
    recvPlan.offset > 0 \/ expected = None \/ recvHash = None \/ recvHash = expected

HashOk(expected) == expected = None \/ recvHash = None \/ recvHash = expected

\* The hash arrives: the part file is renamed into place or the transfer fails.
RecvVerify ==
    /\ recvState = "awaitHash" /\ hashRx # <<>>
    /\ hashRx' = Tail(hashRx)
    /\ \/ /\ HashOk(Head(hashRx))
          /\ IF recvPlan.usePart THEN dest' = part /\ part' = None ELSE UNCHANGED <<part, dest>>
          /\ recvState' = "done" /\ WrkEvent("Completed")
          /\ PostToClient([type |-> "RECEIVED_FILE:OK"])
          /\ UNCHANGED faults
       \/ /\ HashOk(Head(hashRx)) /\ recvPlan.usePart
          /\ Fails("HashFailed") /\ Fault("rename") /\ UNCHANGED <<part, dest>>
       \/ /\ ~HashOk(Head(hashRx))
          /\ Fails("HashFailed") /\ UNCHANGED <<part, dest, faults>>
    /\ UNCHANGED <<src, setup, conn, toWorker, fileStream, client, sendTask, wrkMain, offered,
                   pendingAccept, pendingRecv, wrkPaused, recvPlan, rcvd, recvHash, counts>>

\* The main loop is gone and with it the sender of hashes: no verdict.
RecvGivesUp ==
    /\ recvState = "awaitHash" /\ wrkMain # "run" /\ hashRx = <<>>
    /\ recvState' = "failed"
    /\ UNCHANGED <<files, setup, wire, client, sendTask, worker, recvPlan, rcvd, recvHash, counts, faults>>

-----------------------------------------------------------------------------
\* The sessions are over.
Finished ==
    /\ session = MaxSessions /\ ~CliUp /\ wrkMain # "run"
    /\ UNCHANGED vars

ClientNext == \/ SendFile \/ ClientReady \/ ClientResumeReady \/ ClientVerdict
              \/ ClientDisconnected \/ ClientStops
SendNext   == SendOpen \/ SendUnit \/ SendFinish \/ SendFails
WorkerNext == \/ WorkerMetadata \/ AcceptEarly \/ AcceptOffer \/ RejectOffer
              \/ WorkerResumeOk \/ WorkerRestart \/ WorkerPauseMsg \/ WorkerFileSent
              \/ WorkerDisconnected \/ WorkerStops
RecvNext   == RecvOpen \/ RecvUnit \/ RecvAbort \/ RecvComplete \/ RecvVerify \/ RecvGivesUp
UserNext   == \/ \E o \in Options : StartSession(o)
              \/ \E f \in Sources : EditSource(f)
              \/ UserPause \/ UserResume \/ UserCancel \/ LoseConnection

Next == ClientNext \/ SendNext \/ WorkerNext \/ RecvNext \/ UserNext \/ Finished

Spec == Init /\ [][Next]_vars

\* Every task of the two processes is scheduled; users, disks and the network
\* owe nothing.
FairSpec == /\ Spec
            /\ WF_vars(ClientNext) /\ WF_vars(SendNext)
            /\ WF_vars(WorkerNext) /\ WF_vars(RecvNext)

-----------------------------------------------------------------------------
\* Safety

\* What a resumed session finds on the receiver's disk is really the
\* beginning of (or all of) the file being sent.
Honest ==
    /\ base.part # None => IsPrefixOf(base.part, src)
    /\ base.part = None /\ base.dest # None /\ Len(base.dest) = Len(src) => base.dest = src

\* Both ends computed a digest, and the client asked for the comparison.
Compared == opts.checksum /\ sendHash # None /\ recvHash # None

\* The two file tasks of a session work from the same offset, whichever way
\* the READY / RESUME_READY / RESUME_OK / RESTART_FROM_ZERO handshake went.
OffsetsAgree ==
    sendState \in {"sending", "finished"} /\ recvState \in {"receiving", "awaitHash", "done"}
        => sendOffset = recvPlan.offset

\* When the CLI reports a completed transfer, the worker has committed it; and
\* if the source was left alone during the session, the destination is that
\* source, provided the digests were compared or the bytes resumed from were
\* the source's.
CompletedMeansIdentical ==
    cliResult = "Completed" =>
        /\ recvState = "done"
        /\ ~edited /\ (Compared \/ Honest) => dest = src

\* A file of RESUME_THRESHOLD_BYTES or more that is not resumed is staged: the
\* destination keeps its former content until the received file is verified.
UntouchedUntilVerified ==
    Len(src) >= Threshold /\ ~edited /\ ~opts.resume /\ recvState # "done" => dest = base.dest

\* What the user sees of a session, in the state of the receive task.
Mode == IF recvState = "idle" THEN "undecided" ELSE IF recvPlan.usePart THEN "staged" ELSE "inPlace"

Outcome == IF recvState = "done" THEN "delivered" ELSE IF recvState = "failed" THEN "failed" ELSE "none"

HasToStage == Len(src) >= Threshold /\ ~edited /\ ~opts.resume

Vouched == recvState = "done" /\ ~edited /\ (Compared \/ Honest)

Reported == cliResult = "Completed"

Delivery == INSTANCE FileDelivery WITH
    source <- src, destination <- dest, mode <- Mode, outcome <- Outcome,
    bound <- HasToStage, vouched <- Vouched, completed <- Reported

\* Every step of the two processes is a step of such a session or leaves it
\* alone: a staged destination is replaced in one step, at the commit, or not at
\* all; nothing touches the destination once the transfer is committed or has
\* failed; and the CLI reports nothing complete that was not committed.
ImplementsFileDelivery == Delivery!Spec

\* A session that resumes an honest part file gives up less than one chunk of
\* what earlier sessions received, however it ends.
ResumeKeepsProgress ==
    /\ opts.resume /\ (opts.early => opts.wresume)
    /\ faults = 0 /\ ~edited /\ Len(src) >= Threshold /\ base.part # None /\ Honest
    => \/ recvState = "done"
       \/ part # None /\ Len(part) > Len(base.part) - Align

-----------------------------------------------------------------------------
\* Liveness

\* Unless the user leaves the transfer paused, both processes come to an end:
\* the CLI gets a final event and the worker is not left behind.
SessionSettles == []<>(cliPaused \/ (~CliUp /\ wrkMain # "run"))

-----------------------------------------------------------------------------
\* What the documentation says and the code does not do

\* README, "Cold Resumption": a changed local file restarts from byte 0, so
\* what is resumed is the beginning of the file being sent.
ChangedFileRestarts ==
    recvState = "receiving" /\ recvPlan.offset > 0 /\ ~edited
        => IsPrefixOf(SubSeq(Target, 1, recvPlan.offset), src)

\* Acceptance criterion "No incomplete file is presented as complete": under
\* its final name a file is whole once nobody writes to it any more.
NoIncompleteFinalFile ==
    recvState \notin {"receiving", "awaitHash"} /\ ~CliUp => dest \in Sources \cup {None}

\* Acceptance criterion "Failed transfers return deterministic nonzero exit
\* codes": when the source cannot be read the CLI comes to an end.
ReadFailureEnds == sendState = "failed" ~> ~CliUp
=============================================================================

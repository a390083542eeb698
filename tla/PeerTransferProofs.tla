------------------------- MODULE PeerTransferProofs -------------------------
(***************************************************************************)
(* Proofs about PeerTransfer, for every value of its constants: first of   *)
(* the messages and the state of the two ends, then of the bytes they move *)
(* and of what a transfer, completed or not, leaves at the destination.    *)
(***************************************************************************)
EXTENDS PeerTransferInv, SequenceTheorems, TLAPS

-----------------------------------------------------------------------------
\* Lemmas on the vocabulary of the actions

\* Every message the actions post is one of the protocol.
LEMMA WorkerMessages ==
  /\ \A n \in Nat, r, c \in BOOLEAN :
        [type |-> "METADATA", size |-> n, resume |-> r, checksum |-> c] \in ToWorkerMsg
  /\ \A t \in {"RESUME_OK", "RESTART_FROM_ZERO", "PAUSE", "RESUME"} : [type |-> t] \in ToWorkerMsg
  /\ \A h \in FileOrNone : [type |-> "FILE_SENT", hash |-> h] \in ToWorkerMsg
  BY DEF ToWorkerMsg

\* The same for the messages of the worker.
LEMMA ClientMessages ==
  /\ \A t \in {"READY", "RECEIVED_FILE:OK", "RECEIVED_FILE:FAILED", "REJECTED"} :
        [type |-> t] \in ToClientMsg
  /\ \A n \in Nat, h \in FileOrNone :
        [type |-> "RESUME_READY", offset |-> n, prefixHash |-> h] \in ToClientMsg
  BY DEF ToClientMsg

\* What can be told of a message from its type.
LEMMA WorkerFields ==
  ASSUME NEW m \in ToWorkerMsg
  PROVE  /\ m.type = "METADATA" => m.size \in Nat /\ m.resume \in BOOLEAN /\ m.checksum \in BOOLEAN
         /\ m.type = "FILE_SENT" => m.hash \in FileOrNone
  BY DEF ToWorkerMsg

\* The same of a message to the client.
LEMMA ClientFields ==
  ASSUME NEW m \in ToClientMsg, m.type = "RESUME_READY"
  PROVE  m.offset \in Nat /\ m.prefixHash \in FileOrNone
  BY DEF ToClientMsg

\* Posting to the worker lengthens its queue by the message, or loses it.
LEMMA WorkerQueue ==
  ASSUME toWorker \in Seq(ToWorkerMsg), NEW m \in ToWorkerMsg, PostToWorker(m)
  PROVE  toWorker' \in Seq(ToWorkerMsg)
  BY AppendProperties DEF PostToWorker

\* The same of the queue to the client.
LEMMA ClientQueue ==
  ASSUME toClient \in Seq(ToClientMsg), NEW m \in ToClientMsg, PostToClient(m)
  PROVE  toClient' \in Seq(ToClientMsg)
  BY AppendProperties DEF PostToClient

\* Taking a message: it was the first, and the rest stays.
LEMMA WorkerHead ==
  ASSUME toWorker \in Seq(ToWorkerMsg), NEW t, WorkerTakes(t)
  PROVE  /\ toWorker' \in Seq(ToWorkerMsg) /\ toWorker # <<>>
         /\ Head(toWorker) \in ToWorkerMsg /\ Head(toWorker).type = t
  BY HeadTailProperties DEF WorkerTakes

\* The same on the side of the client.
LEMMA ClientHead ==
  ASSUME toClient \in Seq(ToClientMsg), NEW t, ClientTakes(t)
  PROVE  /\ toClient' \in Seq(ToClientMsg) /\ toClient # <<>>
         /\ Head(toClient) \in ToClientMsg /\ Head(toClient).type = t
  BY HeadTailProperties DEF ClientTakes

\* An injected failure is counted and never exceeds its bound.
LEMMA FaultType ==
  ASSUME faults \in 0..MaxFaults, NEW k, Fault(k)
  PROVE  faults' \in 0..MaxFaults
  BY ConstantsAssumption DEF Fault

\* A digest is the content it was computed over, or None.
LEMMA DigestType ==
  ASSUME faults \in 0..MaxFaults, NEW f \in FileOrNone, NEW d, Digest(f, d)
  PROVE  faults' \in 0..MaxFaults /\ d \in {f, None}
  BY FaultType DEF Digest

\* The first final event is kept.
LEMMA EventTypes ==
  ASSUME NEW r \in Results
  PROVE  /\ cliResult \in Results /\ CliEvent(r) => cliResult' \in Results
         /\ wrkResult \in Results /\ WrkEvent(r) => wrkResult' \in Results
  BY DEF CliEvent, WrkEvent

\* The beginning of a file is a file.
LEMMA CutType ==
  ASSUME NEW f \in File, NEW n \in Nat, n <= Len(f)
  PROVE  SubSeq(f, 1, n) \in File /\ Len(SubSeq(f, 1, n)) = n
         /\ \A i \in 1..n : SubSeq(f, 1, n)[i] = f[i]
<1>1. \A i \in 1..n : f[i] \in Units
  BY ElementOfSeq, LenProperties DEF File
<1>2. QED
  BY <1>1, SubSeqProperties DEF File

\* So is its fingerprint.
LEMMA FingerprintType ==
  ASSUME NEW f \in File
  PROVE  Fingerprint(f) \in File
<1>1. Len(f) \in Nat /\ PrefixLen \in Nat
  BY LenProperties, ConstantsAssumption DEF File
<1>2. CASE Len(f) < PrefixLen
  BY <1>1, <1>2, CutType DEF Fingerprint
<1>3. CASE ~(Len(f) < PrefixLen)
  BY <1>1, <1>3, CutType DEF Fingerprint
<1>4. QED
  BY <1>2, <1>3

\* An aligned length is a length, and never longer.
LEMMA AlignDownBounds ==
  ASSUME NEW n \in Nat
  PROVE  AlignDown(n) \in Nat /\ AlignDown(n) <= n
  BY ConstantsAssumption DEF AlignDown


-----------------------------------------------------------------------------
\* Type correctness

\* Initially every variable has its type.
LEMMA TypeInit == Init => TypeOK
<1> SUFFICES ASSUME Init PROVE TypeOK
  OBVIOUS
<1>1. opts \in Options
  BY ConstantsAssumption DEF Init
<1>2. dest \in FileOrNone
  BY ConstantsAssumption DEF Init, FileOrNone, File
<1>3. /\ session \in 0..MaxSessions /\ faults \in 0..MaxFaults
      /\ pauses \in 0..MaxPauses /\ edits \in 0..MaxEdits
  BY ConstantsAssumption DEF Init
<1>4. /\ toWorker \in Seq(ToWorkerMsg) /\ toClient \in Seq(ToClientMsg)
      /\ fileStream \in File /\ sent \in File /\ rcvd \in File /\ hashRx \in Seq(FileOrNone)
  BY EmptySeq DEF Init, File
<1>5. /\ src \in Sources /\ part \in FileOrNone
      /\ base \in [part : FileOrNone, dest : FileOrNone]
  BY <1>2 DEF Init, FileOrNone
<1>6. /\ cliResult \in Results /\ wrkResult \in Results
      /\ sendState \in SendStates /\ recvState \in RecvStates
      /\ sendHash \in FileOrNone /\ recvHash \in FileOrNone
      /\ offered \in Offer \cup {None} /\ pendingRecv \in Plan \cup {None}
      /\ recvPlan \in Plan \cup {None} /\ sendOffset \in Nat
      /\ cliMain \in {"off", "connected", "run", "stopped"} /\ wrkMain \in {"off", "run", "stopped"}
  BY DEF Init, Results, SendStates, RecvStates, FileOrNone
<1>7. /\ conn \in BOOLEAN /\ pendingSend \in BOOLEAN /\ cliPaused \in BOOLEAN
      /\ pendingAccept \in BOOLEAN /\ wrkPaused \in BOOLEAN /\ edited \in BOOLEAN
  BY DEF Init
<1>8. QED
  BY <1>1, <1>2, <1>3, <1>4, <1>5, <1>6, <1>7 DEF TypeOK

\* A plan keeps the size that was offered.
LEMMA PlanOfType ==
  ASSUME NEW o \in Offer, NEW c \in BOOLEAN, NEW n \in Nat, NEW u \in BOOLEAN
  PROVE  PlanOf(o, c, n, u) \in Plan
  BY DEF PlanOf, Offer, Plan

\* A plan handed to the receive task.
LEMMA TriggerRecvType ==
  ASSUME TypeOK, NEW plan \in Plan, TriggerRecv(plan)
  PROVE  /\ recvState' \in RecvStates /\ recvPlan' \in Plan \cup {None}
         /\ rcvd' \in File /\ recvHash' \in FileOrNone
  BY DEF TypeOK, TriggerRecv, RecvStates

\* A resume is offered by a RESUME_READY with the offset of the plan.
LEMMA OfferResumeStep ==
  ASSUME TypeOK, NEW plan \in Plan, NEW f \in File, OfferResume(plan, f)
  PROVE  /\ pendingRecv' = plan /\ faults' \in 0..MaxFaults
         /\ \E h \in FileOrNone :
               PostToClient([type |-> "RESUME_READY", offset |-> plan.offset, prefixHash |-> h])
<1>1. PICK fp \in {Fingerprint(f), None} :
        /\ Digest(Fingerprint(f), fp)
        /\ toClient' = IF conn THEN Append(toClient, [type |-> "RESUME_READY",
                                          offset |-> plan.offset, prefixHash |-> fp])
                               ELSE toClient
  BY DEF OfferResume
<1>2. Fingerprint(f) \in FileOrNone /\ fp \in FileOrNone
  BY FingerprintType DEF FileOrNone
<1>3. faults' \in 0..MaxFaults
  BY <1>1, <1>2, DigestType DEF TypeOK
<1>4. PostToClient([type |-> "RESUME_READY", offset |-> plan.offset, prefixHash |-> fp])
  BY <1>1 DEF PostToClient
<1>5. QED
  BY <1>2, <1>3, <1>4 DEF OfferResume

\* The three ways of handle_accept: offer the part file, offer the finished
\* destination, or start afresh.
ResumesPart(o, c) ==
  \E n \in Nat :
    /\ UsePart(o.size) /\ o.resume /\ part # None /\ 0 < n /\ n <= o.size /\ n <= Len(part)
    /\ part' = SubSeq(part, 1, n) /\ part' \in File
    /\ pendingRecv' = PlanOf(o, c, n, TRUE) /\ UNCHANGED recvTask

ResumesDest(o, c) ==
  /\ o.resume /\ part = None /\ dest # None /\ Len(dest) = o.size
  /\ pendingRecv' = PlanOf(o, c, o.size, FALSE) /\ UNCHANGED <<part, recvTask>>

StartsAfresh(o, c) ==
  /\ TriggerRecv(PlanOf(o, c, 0, UsePart(o.size))) /\ PlanOf(o, c, 0, UsePart(o.size)) \in Plan
  /\ PostToClient([type |-> "READY"])
  /\ UNCHANGED <<part, pendingRecv, faults>>

\* handle_accept resumes the part file, resumes the destination or starts afresh.
LEMMA HandleAcceptCases ==
  ASSUME TypeOK, NEW o \in Offer, NEW c \in BOOLEAN, NEW r \in BOOLEAN, HandleAccept(o, c, r)
  PROVE  \/ /\ ResumesPart(o, c) \/ ResumesDest(o, c)
            /\ pendingRecv' \in Plan /\ faults' \in 0..MaxFaults
            /\ \E h \in FileOrNone :
                  PostToClient([type |-> "RESUME_READY", offset |-> pendingRecv'.offset,
                                prefixHash |-> h])
         \/ StartsAfresh(o, c)
<1> DEFINE wanted   == UsePart(o.size) /\ o.resume /\ r
           kept     == AlignDown(Len(part))
           fromPart == wanted /\ part # None /\ kept > 0 /\ kept <= o.size
           fromDest == wanted /\ part = None /\ dest # None /\ Len(dest) = o.size
<1>1. o.size \in Nat /\ UsePart(o.size) \in BOOLEAN
  BY DEF Offer, UsePart
<1>2. CASE /\ fromPart
            /\ part' = SubSeq(part, 1, kept)
            /\ OfferResume(PlanOf(o, c, kept, TRUE), part')
            /\ UNCHANGED recvTask
  <2>1. Len(part) \in Nat /\ kept \in Nat /\ kept <= Len(part)
    BY <1>2, LenProperties, AlignDownBounds DEF TypeOK, FileOrNone, File
  <2>2. part' \in File
    BY <1>2, <2>1, CutType DEF TypeOK, FileOrNone
  <2>3. PlanOf(o, c, kept, TRUE) \in Plan
    BY <2>1, PlanOfType
  <2>4. ResumesPart(o, c)
    BY <1>2, <2>1, <2>2 DEF ResumesPart, OfferResume
  <2>5. QED
    BY <1>2, <2>2, <2>3, <2>4, OfferResumeStep
<1>3. CASE /\ fromDest
            /\ OfferResume(PlanOf(o, c, o.size, FALSE), dest)
            /\ UNCHANGED <<part, recvTask>>
  <2>1. PlanOf(o, c, o.size, FALSE) \in Plan /\ dest \in File
    BY <1>1, <1>3, PlanOfType DEF TypeOK, FileOrNone
  <2>2. ResumesDest(o, c)
    BY <1>3 DEF ResumesDest, OfferResume
  <2>3. QED
    BY <1>3, <2>1, <2>2, OfferResumeStep
<1>4. CASE /\ ~fromPart /\ ~fromDest
            /\ TriggerRecv(PlanOf(o, c, 0, UsePart(o.size)))
            /\ PostToClient([type |-> "READY"])
            /\ UNCHANGED <<part, pendingRecv, faults>>
  <2>1. PlanOf(o, c, 0, UsePart(o.size)) \in Plan
    BY <1>1, PlanOfType
  <2>2. QED
    BY <1>4, <2>1 DEF StartsAfresh
<1>5. QED
  BY <1>2, <1>3, <1>4 DEF HandleAccept

\* AcceptOffer calls handle_accept with the worker's and the client's wishes.
LEMMA AcceptArguments ==
  ASSUME TypeOK, AcceptOffer
  PROVE  \E c, r \in BOOLEAN : HandleAccept(offered, c, r)
<1>1. /\ opts.verify \in BOOLEAN /\ opts.wresume \in BOOLEAN /\ opts.early \in BOOLEAN
      /\ offered \in Offer /\ offered.checksum \in BOOLEAN /\ ResumeRequested \in BOOLEAN
  BY ConstantsAssumption DEF TypeOK, OptionType, AcceptOffer, Offer, ResumeRequested
<1>2. CASE opts.early
  BY <1>1, <1>2 DEF AcceptOffer
<1>3. CASE ~opts.early
  <2>1. (opts.verify \/ offered.checksum) \in BOOLEAN
    BY <1>1
  <2>2. QED
    BY <1>1, <1>3, <2>1 DEF AcceptOffer
<1>4. QED
  BY <1>1, <1>2, <1>3

\* What handle_accept leaves behind has the right type.
LEMMA HandleAcceptType ==
  ASSUME TypeOK, NEW o \in Offer, NEW c \in BOOLEAN, NEW r \in BOOLEAN, HandleAccept(o, c, r)
  PROVE  /\ part' \in FileOrNone /\ pendingRecv' \in Plan \cup {None}
         /\ toClient' \in Seq(ToClientMsg) /\ recvState' \in RecvStates
         /\ recvPlan' \in Plan \cup {None} /\ rcvd' \in File /\ recvHash' \in FileOrNone
         /\ faults' \in 0..MaxFaults
<1>1. CASE /\ ResumesPart(o, c) \/ ResumesDest(o, c)
           /\ pendingRecv' \in Plan /\ faults' \in 0..MaxFaults
           /\ \E h \in FileOrNone :
                 PostToClient([type |-> "RESUME_READY", offset |-> pendingRecv'.offset,
                               prefixHash |-> h])
  <2>1. toClient' \in Seq(ToClientMsg)
    BY <1>1, ClientMessages, ClientQueue DEF TypeOK, Plan
  <2>2. part' \in FileOrNone /\ UNCHANGED recvTask
    BY <1>1 DEF TypeOK, ResumesPart, ResumesDest, FileOrNone
  <2>3. QED
    BY <1>1, <2>1, <2>2 DEF TypeOK, recvTask
<1>2. CASE StartsAfresh(o, c)
  BY <1>2, TriggerRecvType, ClientMessages, ClientQueue DEF TypeOK, StartsAfresh
<1>3. QED
  BY <1>1, <1>2, HandleAcceptCases

-----------------------------------------------------------------------------
\* What the receive task writes to, and writing it.
LEMMA TargetType ==
  ASSUME TypeOK, Writing, recvState \in {"receiving", "awaitHash"}
  PROVE  Target \in File
  BY DEF TypeOK, Writing, Target, FileOrNone

\* Writing a file to the target leaves two files.
LEMMA SetTargetType ==
  ASSUME TypeOK, NEW f \in File, SetTarget(f)
  PROVE  part' \in FileOrNone /\ dest' \in FileOrNone
  BY DEF TypeOK, SetTarget, FileOrNone

\* The verdict of a failed transfer.
LEMMA FailsType ==
  ASSUME TypeOK, NEW r \in Results, Fails(r)
  PROVE  /\ recvState' \in RecvStates /\ wrkResult' \in Results
         /\ toClient' \in Seq(ToClientMsg)
<1>1. [type |-> "RECEIVED_FILE:FAILED"] \in ToClientMsg
  BY ClientMessages
<1>2. QED
  BY <1>1, ClientQueue, EventTypes DEF TypeOK, Fails, RecvStates

\* Every step keeps the types: one step of the proof per action.
LEMMA TypeNext == TypeOK /\ Handshake /\ Writing /\ [Next]_vars => TypeOK'
<1> SUFFICES ASSUME TypeOK, Handshake, Writing, [Next]_vars PROVE TypeOK'
  OBVIOUS
<1> USE DEF files, setup, wire, client, sendTask, worker, recvTask, counts
<1>1. ASSUME NEW o \in Options, StartSession(o) PROVE TypeOK'
  <2>1. session' \in 0..MaxSessions
    BY <1>1, ConstantsAssumption DEF TypeOK, StartSession
  <2>2. /\ toWorker' \in Seq(ToWorkerMsg) /\ toClient' \in Seq(ToClientMsg)
        /\ fileStream' \in File /\ sent' \in File /\ rcvd' \in File
        /\ hashRx' \in Seq(FileOrNone)
    BY <1>1, EmptySeq DEF StartSession, File
  <2>3. base' \in [part : FileOrNone, dest : FileOrNone]
    BY <1>1 DEF TypeOK, StartSession
  <2>4. QED
    BY <1>1, <2>1, <2>2, <2>3
    DEF TypeOK, StartSession, Results, SendStates, RecvStates, FileOrNone
<1>2. ASSUME NEW f \in Sources, EditSource(f) PROVE TypeOK'
  BY <1>2, ConstantsAssumption DEF TypeOK, EditSource
<1>3. CASE UserPause
  <2>1. toWorker' \in Seq(ToWorkerMsg)
    BY <1>3, WorkerMessages, WorkerQueue DEF TypeOK, UserPause
  <2>2. pauses' \in 0..MaxPauses
    BY <1>3, ConstantsAssumption DEF TypeOK, UserPause
  <2>3. QED
    BY <1>3, <2>1, <2>2 DEF TypeOK, UserPause
<1>4. CASE UserResume
  <2>1. toWorker' \in Seq(ToWorkerMsg)
    BY <1>4, WorkerMessages, WorkerQueue DEF TypeOK, UserResume
  <2>2. cliPaused' \in BOOLEAN
    BY <1>4 DEF UserResume
  <2>3. QED
    BY <1>4, <2>1, <2>2 DEF TypeOK, UserResume
<1>5. CASE UserCancel
  BY <1>5 DEF TypeOK, UserCancel, Results
<1>6. CASE LoseConnection
  <2>1. conn' \in BOOLEAN
    BY <1>6 DEF LoseConnection
  <2>2. QED
    BY <1>6, <2>1 DEF TypeOK, LoseConnection
<1>7. CASE SendFile
  <2>1. Len(src) \in Nat /\ opts.resume \in BOOLEAN /\ opts.checksum \in BOOLEAN
    BY ConstantsAssumption, LenProperties DEF TypeOK, OptionType
  <2>2. /\ toWorker' \in Seq(ToWorkerMsg) /\ pendingSend' \in BOOLEAN
        /\ faults' \in 0..MaxFaults
    BY <1>7, <2>1, WorkerMessages, WorkerQueue, FaultType DEF TypeOK, SendFile
  <2>3. QED
    BY <1>7, <2>2 DEF TypeOK, SendFile
<1>8. CASE ClientReady
  <2>1. toClient' \in Seq(ToClientMsg)
    BY <1>8, ClientHead DEF TypeOK, ClientReady
  <2>2. /\ pendingSend' \in BOOLEAN /\ sendState' \in SendStates /\ sendOffset' \in Nat
        /\ sent' \in File /\ sendHash' \in FileOrNone
    <3>1. CASE pendingSend
      <4>1. TriggerSend(0)
        BY <1>8, <3>1 DEF ClientReady
      <4>2. pendingSend' \in BOOLEAN
        BY <4>1 DEF TriggerSend
      <4>3. QED
        BY <4>1, <4>2 DEF TypeOK, TriggerSend, SendStates
    <3>2. CASE ~pendingSend
      BY <1>8, <3>2 DEF TypeOK, ClientReady
    <3>3. QED
      BY <3>1, <3>2
  <2>3. QED
    BY <1>8, <2>1, <2>2 DEF TypeOK, ClientReady
<1>9. CASE ClientResumeReady
  <2>1. /\ toClient' \in Seq(ToClientMsg) /\ Head(toClient).offset \in Nat
    BY <1>9, ClientHead, ClientFields DEF TypeOK, ClientResumeReady
  <2>2. CASE ~pendingSend
    BY <1>9, <2>1, <2>2 DEF TypeOK, ClientResumeReady
  <2>3. CASE pendingSend
    <3>1. PICK local \in {Fingerprint(src), None} :
            /\ Digest(Fingerprint(src), local)
            /\ IF local = Head(toClient).prefixHash
               THEN /\ PostToWorker([type |-> "RESUME_OK"])
                    /\ TriggerSend(Head(toClient).offset)
               ELSE /\ PostToWorker([type |-> "RESTART_FROM_ZERO"])
                    /\ UNCHANGED <<pendingSend, sendTask>>
      BY <1>9, <2>3 DEF ClientResumeReady
    <3>2. Fingerprint(src) \in FileOrNone
      BY FingerprintType, ConstantsAssumption DEF TypeOK, FileOrNone, File
    <3>3. faults' \in 0..MaxFaults
      BY <3>1, <3>2, DigestType DEF TypeOK
    <3>4. toWorker' \in Seq(ToWorkerMsg)
      BY <3>1, WorkerMessages, WorkerQueue DEF TypeOK
    <3>5. /\ pendingSend' \in BOOLEAN /\ sendState' \in SendStates /\ sendOffset' \in Nat
          /\ sent' \in File /\ sendHash' \in FileOrNone
      BY <3>1, <2>1 DEF TypeOK, TriggerSend, SendStates
    <3>6. QED
      BY <1>9, <2>1, <3>3, <3>4, <3>5 DEF TypeOK, ClientResumeReady
  <2>4. QED
    BY <2>2, <2>3 DEF TypeOK
<1>10. CASE ClientVerdict
  <2>1. toClient' \in Seq(ToClientMsg) /\ cliResult' \in Results
    BY <1>10, ClientHead, EventTypes DEF TypeOK, ClientVerdict, Results
  <2>2. QED
    BY <1>10, <2>1 DEF TypeOK, ClientVerdict
<1>11. CASE ClientDisconnected
  <2>1. toClient' \in Seq(ToClientMsg) /\ cliResult' \in Results
    BY <1>11, EmptySeq, EventTypes DEF TypeOK, ClientDisconnected, Results
  <2>2. QED
    BY <1>11, <2>1 DEF TypeOK, ClientDisconnected
<1>12. CASE ClientStops
  <2>1. toClient' \in Seq(ToClientMsg)
    BY <1>12, EmptySeq DEF TypeOK, ClientStops
  <2>2. QED
    BY <1>12, <2>1 DEF TypeOK, ClientStops
<1>13. CASE SendOpen
  <2>1. cliResult' \in Results /\ faults' \in 0..MaxFaults
    BY <1>13, EventTypes, FaultType DEF TypeOK, SendOpen, Results
  <2>2. sendHash' \in FileOrNone
    BY <1>13, ConstantsAssumption DEF TypeOK, SendOpen, FileOrNone, File
  <2>3. QED
    BY <1>13, <2>1, <2>2 DEF TypeOK, SendOpen, SendStates
<1>14. CASE SendUnit
  <2>1. src[SendPos + 1] \in Units
    BY <1>14, ConstantsAssumption, LenProperties, ElementOfSeq
    DEF TypeOK, SendUnit, SendPos, File
  <2>2. sent' \in File /\ fileStream' \in File
    BY <1>14, <2>1, AppendProperties DEF TypeOK, SendUnit, File
  <2>3. QED
    BY <1>14, <2>2 DEF TypeOK, SendUnit
<1>15. CASE SendFinish
  <2>1. sendHash' \in FileOrNone /\ faults' \in 0..MaxFaults
    <3>1. src \in FileOrNone /\ sent \in FileOrNone
      BY ConstantsAssumption DEF TypeOK, FileOrNone, File
    <3>2. CASE ~opts.checksum /\ sendHash' = None /\ UNCHANGED faults
      BY <3>2 DEF TypeOK, FileOrNone
    <3>3. CASE opts.checksum /\ sendOffset = 0 /\ sendHash' = sent /\ UNCHANGED faults
      BY <3>1, <3>3 DEF TypeOK, FileOrNone
    <3>4. ASSUME NEW seen \in {sendHash, src}, Digest(seen, sendHash')
          PROVE  sendHash' \in FileOrNone /\ faults' \in 0..MaxFaults
      <4>1. seen \in FileOrNone
        BY <3>1 DEF TypeOK
      <4>2. QED
        BY <4>1, <3>4, DigestType DEF TypeOK, FileOrNone
    <3>5. QED
      BY <1>15, <3>2, <3>3, <3>4 DEF SendFinish
  <2>2. toWorker' \in Seq(ToWorkerMsg)
    BY <1>15, <2>1, WorkerMessages, WorkerQueue DEF TypeOK, SendFinish
  <2>3. QED
    BY <1>15, <2>1, <2>2 DEF TypeOK, SendFinish, SendStates
<1>16. CASE SendFails
  <2>1. faults' \in 0..MaxFaults
    BY <1>16, FaultType DEF TypeOK, SendFails
  <2>2. QED
    BY <1>16, <2>1 DEF TypeOK, SendFails, SendStates
<1>17. CASE WorkerMetadata
  <2> DEFINE m == Head(toWorker)
             o == [size |-> m.size, resume |-> m.resume, checksum |-> m.checksum]
  <2>1. toWorker' \in Seq(ToWorkerMsg) /\ o \in Offer
    BY <1>17, WorkerHead, WorkerFields DEF TypeOK, WorkerMetadata, Offer
  <2>2. opts.verify \in BOOLEAN /\ opts.wresume \in BOOLEAN
    BY ConstantsAssumption DEF TypeOK, OptionType
  <2>3. CASE pendingAccept
    <3>1. HandleAccept(o, opts.verify, opts.wresume) /\ pendingAccept' = FALSE /\ UNCHANGED offered
      BY <1>17, <2>3 DEF WorkerMetadata
    <3>2. pendingAccept' \in BOOLEAN
      BY <3>1
    <3>3. /\ part' \in FileOrNone /\ pendingRecv' \in Plan \cup {None}
          /\ toClient' \in Seq(ToClientMsg) /\ recvState' \in RecvStates
          /\ recvPlan' \in Plan \cup {None} /\ rcvd' \in File /\ recvHash' \in FileOrNone
          /\ faults' \in 0..MaxFaults
      BY <2>1, <2>2, <3>1, HandleAcceptType
    <3>4. QED
      BY <1>17, <2>1, <3>1, <3>2, <3>3 DEF TypeOK, WorkerMetadata
  <2>4. CASE ~pendingAccept
    BY <1>17, <2>1, <2>4 DEF TypeOK, WorkerMetadata
  <2>5. QED
    BY <2>3, <2>4
<1>18. CASE AcceptEarly
  BY <1>18 DEF TypeOK, AcceptEarly
<1>19. CASE AcceptOffer
  <2>1. PICK c, r \in BOOLEAN : offered \in Offer /\ HandleAccept(offered, c, r)
    BY <1>19, AcceptArguments DEF TypeOK, AcceptOffer
  <2>2. QED
    BY <1>19, <2>1, HandleAcceptType DEF TypeOK, AcceptOffer
<1>20. CASE RejectOffer
  <2>1. toClient' \in Seq(ToClientMsg)
    BY <1>20, ClientMessages, ClientQueue DEF TypeOK, RejectOffer
  <2>2. QED
    BY <1>20, <2>1 DEF TypeOK, RejectOffer
<1>21. CASE WorkerResumeOk
  <2>1. toWorker' \in Seq(ToWorkerMsg)
    BY <1>21, WorkerHead DEF TypeOK, WorkerResumeOk
  <2>2. QED
    BY <1>21, <2>1 DEF TypeOK, WorkerResumeOk, TriggerRecv, RecvStates
<1>22. CASE WorkerRestart
  <2>1. toWorker' \in Seq(ToWorkerMsg)
    BY <1>22, WorkerHead DEF TypeOK, WorkerRestart
  <2>2. CASE pendingRecv = None
    BY <1>22, <2>1, <2>2 DEF TypeOK, WorkerRestart
  <2>3. CASE pendingRecv # None
    <3>1. Restarted(pendingRecv) \in Plan
      BY <2>3 DEF TypeOK, Restarted, Plan
    <3>2. toClient' \in Seq(ToClientMsg)
      BY <1>22, <2>3, ClientMessages, ClientQueue DEF TypeOK, WorkerRestart
    <3>3. part' \in FileOrNone /\ faults' \in 0..MaxFaults
      BY <1>22, <2>3, FaultType, EmptySeq DEF TypeOK, WorkerRestart, FileOrNone, File
    <3>4. QED
      BY <1>22, <2>1, <2>3, <3>1, <3>2, <3>3, TriggerRecvType DEF TypeOK, WorkerRestart
  <2>4. QED
    BY <2>2, <2>3
<1>23. CASE WorkerPauseMsg
  <2>1. toWorker' \in Seq(ToWorkerMsg)
    BY <1>23, WorkerHead DEF TypeOK, WorkerPauseMsg
  <2>2. wrkPaused' \in BOOLEAN
    BY <1>23 DEF WorkerPauseMsg
  <2>3. QED
    BY <1>23, <2>1, <2>2 DEF TypeOK, WorkerPauseMsg
<1>24. CASE WorkerFileSent
  <2>1. toWorker' \in Seq(ToWorkerMsg) /\ Head(toWorker).hash \in FileOrNone
    BY <1>24, WorkerHead, WorkerFields DEF TypeOK, WorkerFileSent
  <2>2. hashRx' \in Seq(FileOrNone)
    BY <1>24, <2>1, AppendProperties DEF TypeOK, WorkerFileSent
  <2>3. QED
    BY <1>24, <2>1, <2>2 DEF TypeOK, WorkerFileSent
<1>25. CASE WorkerDisconnected
  <2>1. toWorker' \in Seq(ToWorkerMsg) /\ wrkResult' \in Results
    BY <1>25, EmptySeq, EventTypes DEF TypeOK, WorkerDisconnected, Results
  <2>2. QED
    BY <1>25, <2>1 DEF TypeOK, WorkerDisconnected
<1>26. CASE WorkerStops
  <2>1. toWorker' \in Seq(ToWorkerMsg)
    BY <1>26, EmptySeq DEF TypeOK, WorkerStops
  <2>2. QED
    BY <1>26, <2>1 DEF TypeOK, WorkerStops
<1>27. CASE RecvOpen
  <2>1. part' \in FileOrNone /\ dest' \in FileOrNone
    BY <1>27, EmptySeq DEF TypeOK, RecvOpen, SetTarget, FileOrNone, File
  <2>2. /\ recvState' \in RecvStates /\ wrkResult' \in Results
        /\ toClient' \in Seq(ToClientMsg) /\ faults' \in 0..MaxFaults
    BY <1>27, FailsType, FaultType DEF TypeOK, RecvOpen, RecvStates, Results
  <2>3. QED
    BY <1>27, <2>1, <2>2 DEF TypeOK, RecvOpen
<1>28. CASE RecvUnit
  <2>1. Head(fileStream) \in Units /\ fileStream' \in File
    BY <1>28, HeadTailProperties DEF TypeOK, RecvUnit, File
  <2>2. rcvd' \in File
    BY <1>28, <2>1, AppendProperties DEF TypeOK, RecvUnit, File
  <2>3. Append(Target, Head(fileStream)) \in File
    BY <1>28, <2>1, TargetType, AppendProperties DEF RecvUnit, File
  <2>4. part' \in FileOrNone /\ dest' \in FileOrNone
    BY <1>28, <2>3, SetTargetType DEF RecvUnit
  <2>5. QED
    BY <1>28, <2>1, <2>2, <2>4 DEF TypeOK, RecvUnit
<1>29. CASE RecvAbort
  <2>1. PICK lost \in 0..Len(rcvd) : SetTarget(SubSeq(Target, 1, Len(Target) - lost))
    BY <1>29 DEF RecvAbort
  <2>2. Target \in File /\ Len(Target) \in Nat /\ lost \in Nat
    BY <1>29, TargetType, LenProperties DEF TypeOK, RecvAbort, File
  <2>3. SubSeq(Target, 1, Len(Target) - lost) \in File
    <3>1. CASE lost <= Len(Target)
      BY <2>2, <3>1, CutType
    <3>2. CASE lost > Len(Target)
      BY <2>2, <3>2, SubSeqEmpty, EmptySeq DEF File
    <3>3. QED
      BY <2>2, <3>1, <3>2
  <2>4. part' \in FileOrNone /\ dest' \in FileOrNone
    BY <2>1, <2>3, SetTargetType
  <2>5. /\ recvState' \in RecvStates /\ wrkResult' \in Results
        /\ toClient' \in Seq(ToClientMsg) /\ faults' \in 0..MaxFaults
    BY <1>29, FailsType, FaultType DEF TypeOK, RecvAbort, Results
  <2>6. QED
    BY <1>29, <2>4, <2>5 DEF TypeOK, RecvAbort
<1>30. CASE RecvComplete
  <2>1. recvHash' \in FileOrNone /\ faults' \in 0..MaxFaults
    <3>1. Target \in FileOrNone
      BY <1>30, TargetType DEF RecvComplete, FileOrNone
    <3>2. CASE ~recvPlan.checksum /\ recvHash' = None /\ UNCHANGED faults
      BY <3>2 DEF TypeOK, FileOrNone
    <3>3. CASE recvPlan.checksum /\ recvPlan.offset = 0 /\ recvHash' = rcvd /\ UNCHANGED faults
      BY <3>3 DEF TypeOK, FileOrNone
    <3>4. CASE recvPlan.checksum /\ recvPlan.offset > 0 /\ Digest(Target, recvHash')
      BY <3>1, <3>4, DigestType DEF TypeOK, FileOrNone
    <3>5. QED
      BY <1>30, <3>2, <3>3, <3>4 DEF RecvComplete
  <2>2. QED
    BY <1>30, <2>1 DEF TypeOK, RecvComplete, RecvStates
<1>31. CASE RecvVerify
  <2>1. hashRx' \in Seq(FileOrNone)
    BY <1>31, HeadTailProperties DEF TypeOK, RecvVerify
  <2>2. part' \in FileOrNone /\ dest' \in FileOrNone
    BY <1>31 DEF TypeOK, RecvVerify, FileOrNone
  <2>3. /\ recvState' \in RecvStates /\ wrkResult' \in Results
        /\ toClient' \in Seq(ToClientMsg) /\ faults' \in 0..MaxFaults
    BY <1>31, FailsType, FaultType, EventTypes, ClientMessages, ClientQueue
    DEF TypeOK, RecvVerify, RecvStates, Results
  <2>4. QED
    BY <1>31, <2>1, <2>2, <2>3 DEF TypeOK, RecvVerify
<1>32. CASE RecvGivesUp
  BY <1>32 DEF TypeOK, RecvGivesUp, RecvStates
<1>33. CASE UNCHANGED vars
  BY <1>33 DEF TypeOK, vars
<1>34. QED
  BY <1>1, <1>2, <1>3, <1>4, <1>5, <1>6, <1>7, <1>8, <1>9, <1>10, <1>11, <1>12, <1>13, <1>14, <1>15,
     <1>16, <1>17, <1>18, <1>19, <1>20, <1>21, <1>22, <1>23, <1>24, <1>25, <1>26, <1>27, <1>28, <1>29,
     <1>30, <1>31, <1>32, <1>33
  DEF Next, UserNext, ClientNext, SendNext, WorkerNext, RecvNext, Finished

-----------------------------------------------------------------------------
\* The handshake

\* How a queue changes: at its end when a message is posted to it, at its
\* front when one is taken.
LEMMA Posted ==
  ASSUME NEW S, NEW q \in Seq(S), NEW m \in S
  PROVE  \A i \in DOMAIN Append(q, m) :
            \/ i \in DOMAIN q /\ Append(q, m)[i] = q[i]
            \/ i = Len(q) + 1 /\ i \notin DOMAIN q /\ Append(q, m)[i] = m
  BY AppendProperties, LenProperties

\* The first element leaves a queue and the others move up.
LEMMA Taken ==
  ASSUME NEW S, NEW q \in Seq(S), q # <<>>
  PROVE  /\ 1 \in DOMAIN q /\ Head(q) = q[1]
         /\ \A i \in DOMAIN Tail(q) : i + 1 \in DOMAIN q /\ Tail(q)[i] = q[i + 1]
  BY HeadTailProperties, LenProperties, EmptySeq

\* No step of the handshake is added to a queue.
NoNewWorkerStep ==
  \E k \in Nat : \A i \in DOMAIN toWorker' :
     WorkerStep(toWorker'[i]) => i + k \in DOMAIN toWorker /\ toWorker'[i] = toWorker[i + k]

NoNewClientStep ==
  \E k \in Nat : \A i \in DOMAIN toClient' :
     ClientStep(toClient'[i]) => i + k \in DOMAIN toClient /\ toClient'[i] = toClient[i + k]

\* A queue that keeps its steps keeps what they say.
LEMMA QueuesKept ==
  ASSUME TypeOK
  PROVE  /\ UNCHANGED toWorker => NoNewWorkerStep
         /\ UNCHANGED toClient => NoNewClientStep
         /\ toWorker' = <<>> => NoNewWorkerStep
         /\ toClient' = <<>> => NoNewClientStep
         /\ \A t : WorkerTakes(t) => NoNewWorkerStep
         /\ \A t : ClientTakes(t) => NoNewClientStep
         /\ \A m \in ToWorkerMsg : ~WorkerStep(m) /\ PostToWorker(m) => NoNewWorkerStep
         /\ \A m \in ToClientMsg : ~ClientStep(m) /\ PostToClient(m) => NoNewClientStep
<1>0. /\ \A i \in DOMAIN toWorker : i + 0 = i
      /\ \A i \in DOMAIN toClient : i + 0 = i
  BY LenProperties DEF TypeOK
<1>1. UNCHANGED toWorker => NoNewWorkerStep
  BY <1>0 DEF NoNewWorkerStep
<1>2. UNCHANGED toClient => NoNewClientStep
  BY <1>0 DEF NoNewClientStep
<1>3. toWorker' = <<>> => NoNewWorkerStep
  BY DEF NoNewWorkerStep
<1>4. toClient' = <<>> => NoNewClientStep
  BY DEF NoNewClientStep
<1>5. ASSUME NEW t, WorkerTakes(t) PROVE NoNewWorkerStep
  BY <1>5, Taken DEF TypeOK, WorkerTakes, NoNewWorkerStep
<1>6. ASSUME NEW t, ClientTakes(t) PROVE NoNewClientStep
  BY <1>6, Taken DEF TypeOK, ClientTakes, NoNewClientStep
<1>7. ASSUME NEW m \in ToWorkerMsg, ~WorkerStep(m), PostToWorker(m) PROVE NoNewWorkerStep
  <2>1. CASE conn
    <3>1. toWorker' = Append(toWorker, m)
      BY <1>7, <2>1 DEF PostToWorker
    <3>2. \A i \in DOMAIN toWorker' :
             WorkerStep(toWorker'[i]) => i \in DOMAIN toWorker /\ toWorker'[i] = toWorker[i]
      BY <1>7, <3>1, Posted DEF TypeOK
    <3>3. QED
      BY <1>0, <3>2 DEF NoNewWorkerStep
  <2>2. CASE ~conn
    BY <1>1, <1>7, <2>2 DEF PostToWorker
  <2>3. QED
    BY <2>1, <2>2
<1>8. ASSUME NEW m \in ToClientMsg, ~ClientStep(m), PostToClient(m) PROVE NoNewClientStep
  <2>1. CASE conn
    <3>1. toClient' = Append(toClient, m)
      BY <1>8, <2>1 DEF PostToClient
    <3>2. \A i \in DOMAIN toClient' :
             ClientStep(toClient'[i]) => i \in DOMAIN toClient /\ toClient'[i] = toClient[i]
      BY <1>8, <3>1, Posted DEF TypeOK
    <3>3. QED
      BY <1>0, <3>2 DEF NoNewClientStep
  <2>2. CASE ~conn
    BY <1>2, <1>8, <2>2 DEF PostToClient
  <2>3. QED
    BY <2>1, <2>2
<1>9. QED
  BY <1>1, <1>2, <1>3, <1>4, <1>5, <1>6, <1>7, <1>8

\* A step that adds nothing to the handshake and starts neither task keeps it.
LEMMA HandshakeFrame ==
  ASSUME TypeOK, TypeOK', Handshake, NoNewWorkerStep, NoNewClientStep,
         offered' \in {offered, None},
         UNCHANGED <<pendingSend, sendOffset, pendingRecv, recvPlan>>,
         (sendState' = "idle") <=> (sendState = "idle"),
         (recvState' = "idle") <=> (recvState = "idle"),
         cliMain' \in {"off", "connected"} => cliMain \in {"off", "connected"}
  PROVE  Handshake'
<1>1. PICK k \in Nat : \A i \in DOMAIN toWorker' :
        WorkerStep(toWorker'[i]) => i + k \in DOMAIN toWorker /\ toWorker'[i] = toWorker[i + k]
  BY DEF NoNewWorkerStep
<1>2. PICK n \in Nat : \A i \in DOMAIN toClient' :
        ClientStep(toClient'[i]) => i + n \in DOMAIN toClient /\ toClient'[i] = toClient[i + n]
  BY DEF NoNewClientStep
<1>3. /\ NoWorkerStep => NoWorkerStep'
      /\ NoClientStep => NoClientStep'
  BY <1>1, <1>2 DEF NoWorkerStep, NoClientStep, WorkerStep, ClientStep
<1>4. Unanswered => Unanswered'
  BY DEF Unanswered
<1>5. OneStep'
  <2>1. DOMAIN toWorker' \subseteq Nat /\ DOMAIN toClient' \subseteq Nat
    <3>1. toWorker' \in Seq(ToWorkerMsg) /\ toClient' \in Seq(ToClientMsg)
      BY DEF TypeOK
    <3>2. QED
      BY <3>1, LenProperties
  <2>2. \A i, j \in DOMAIN toWorker' :
          WorkerStep(toWorker'[i]) /\ WorkerStep(toWorker'[j]) => i + k = j + k
    BY <1>1 DEF Handshake, OneStep
  <2>3. \A i, j \in DOMAIN toClient' :
          ClientStep(toClient'[i]) /\ ClientStep(toClient'[j]) => i + n = j + n
    BY <1>2 DEF Handshake, OneStep
  <2>4. \A i, j \in Nat : (i + k = j + k => i = j) /\ (i + n = j + n => i = j)
    OBVIOUS
  <2>5. QED
    BY <1>3, <2>1, <2>2, <2>3, <2>4 DEF Handshake, OneStep, WorkerStep, ClientStep
<1>6. StepMeans'
  BY <1>1, <1>2, <1>4 DEF Handshake, StepMeans, WorkerStep, ClientStep
<1>7. Offsets'
  BY <1>3, <1>4 DEF Handshake, Offsets
<1>8. QED
  BY <1>5, <1>6, <1>7 DEF Handshake

\* Once the outstanding step is taken there is none.
LEMMA WorkerStepTaken ==
  ASSUME TypeOK, TypeOK', Handshake, NEW t \in {"METADATA", "RESUME_OK", "RESTART_FROM_ZERO"},
         WorkerTakes(t)
  PROVE  /\ NoWorkerStep' /\ NoClientStep /\ offered = None
         /\ \E i \in DOMAIN toWorker : toWorker[i].type = t
<1>1. /\ 1 \in DOMAIN toWorker /\ toWorker[1].type = t
      /\ \A i \in DOMAIN toWorker' : i + 1 \in DOMAIN toWorker /\ toWorker'[i] = toWorker[i + 1]
  BY Taken DEF TypeOK, WorkerTakes
<1>2. DOMAIN toWorker' \subseteq 1..Len(toWorker')
  BY LenProperties DEF TypeOK
<1>3. \A i \in DOMAIN toWorker' : i + 1 # 1
  BY <1>2
<1>4. WorkerStep(toWorker[1])
  BY <1>1 DEF WorkerStep
<1>5. NoWorkerStep'
  BY <1>1, <1>3, <1>4 DEF Handshake, OneStep, NoWorkerStep, WorkerStep
<1>6. QED
  BY <1>1, <1>4, <1>5 DEF Handshake, OneStep, NoWorkerStep

\* The same of a step taken by the client.
LEMMA ClientStepTaken ==
  ASSUME TypeOK, TypeOK', Handshake, NEW t \in {"READY", "RESUME_READY"}, ClientTakes(t)
  PROVE  /\ NoClientStep' /\ NoWorkerStep /\ offered = None
         /\ \E i \in DOMAIN toClient : toClient[i].type = t /\ toClient[i] = Head(toClient)
<1>1. /\ 1 \in DOMAIN toClient /\ toClient[1].type = t /\ toClient[1] = Head(toClient)
      /\ \A i \in DOMAIN toClient' : i + 1 \in DOMAIN toClient /\ toClient'[i] = toClient[i + 1]
  BY Taken DEF TypeOK, ClientTakes
<1>2. DOMAIN toClient' \subseteq 1..Len(toClient')
  BY LenProperties DEF TypeOK
<1>3. \A i \in DOMAIN toClient' : i + 1 # 1
  BY <1>2
<1>4. ClientStep(toClient[1])
  BY <1>1 DEF ClientStep
<1>5. NoClientStep'
  BY <1>1, <1>3, <1>4 DEF Handshake, OneStep, NoClientStep, ClientStep
<1>6. QED
  BY <1>1, <1>4, <1>5 DEF Handshake, OneStep, NoClientStep

\* A step posted while there is none is the only one.
LEMMA WorkerStepPosted ==
  ASSUME TypeOK, NoWorkerStep, NEW m \in ToWorkerMsg, PostToWorker(m)
  PROVE  \E n : \A i \in DOMAIN toWorker' : WorkerStep(toWorker'[i]) => i = n /\ toWorker'[i] = m
<1>1. CASE conn
  <2>1. \A i \in DOMAIN toWorker' :
           \/ i \in DOMAIN toWorker /\ toWorker'[i] = toWorker[i]
           \/ i = Len(toWorker) + 1 /\ toWorker'[i] = m
    BY <1>1, Posted DEF TypeOK, PostToWorker
  <2>2. \A i \in DOMAIN toWorker' :
           WorkerStep(toWorker'[i]) => i = Len(toWorker) + 1 /\ toWorker'[i] = m
    BY <2>1 DEF NoWorkerStep, WorkerStep
  <2>3. QED
    BY <2>2
<1>2. CASE ~conn
  BY <1>2 DEF PostToWorker, NoWorkerStep
<1>3. QED
  BY <1>1, <1>2

\* The same of a step posted to the client.
LEMMA ClientStepPosted ==
  ASSUME TypeOK, NoClientStep, NEW m \in ToClientMsg, PostToClient(m)
  PROVE  \E n : \A i \in DOMAIN toClient' : ClientStep(toClient'[i]) => i = n /\ toClient'[i] = m
<1>1. CASE conn
  <2>1. \A i \in DOMAIN toClient' :
           \/ i \in DOMAIN toClient /\ toClient'[i] = toClient[i]
           \/ i = Len(toClient) + 1 /\ toClient'[i] = m
    BY <1>1, Posted DEF TypeOK, PostToClient
  <2>2. \A i \in DOMAIN toClient' :
           ClientStep(toClient'[i]) => i = Len(toClient) + 1 /\ toClient'[i] = m
    BY <2>1 DEF NoClientStep, ClientStep
  <2>3. QED
    BY <2>2
<1>2. CASE ~conn
  BY <1>2 DEF PostToClient, NoClientStep
<1>3. QED
  BY <1>1, <1>2

\* Accepting an offer, when it is the outstanding step.
LEMMA HandshakeAccept ==
  ASSUME TypeOK, TypeOK', Handshake, Unanswered, NoClientStep, NoWorkerStep',
         NEW o \in Offer, NEW c \in BOOLEAN, NEW r \in BOOLEAN, HandleAccept(o, c, r),
         offered' = None, UNCHANGED <<cliMain, pendingSend, sendState, sendOffset>>,
         cliMain \notin {"off", "connected"}
  PROVE  Handshake'
<1>1. CASE /\ pendingRecv' \in Plan /\ UNCHANGED recvTask
           /\ \E h \in FileOrNone :
                 PostToClient([type |-> "RESUME_READY", offset |-> pendingRecv'.offset,
                               prefixHash |-> h])
  <2>1. PICK h \in FileOrNone :
               PostToClient([type |-> "RESUME_READY", offset |-> pendingRecv'.offset,
                             prefixHash |-> h])
    BY <1>1
  <2> DEFINE m == [type |-> "RESUME_READY", offset |-> pendingRecv'.offset, prefixHash |-> h]
  <2>2. m \in ToClientMsg
    BY <1>1, ClientMessages DEF Plan
  <2>3. PICK n : \A i \in DOMAIN toClient' : ClientStep(toClient'[i]) => i = n /\ toClient'[i] = m
    BY <2>1, <2>2, ClientStepPosted
  <2>4. pendingRecv' # None
    BY <1>1, NoneAssumption
  <2>5. OneStep'
    BY <2>3 DEF OneStep, NoWorkerStep, WorkerStep, ClientStep
  <2>6. StepMeans'
    BY <1>1, <2>3, <2>4 DEF StepMeans, NoWorkerStep, WorkerStep, ClientStep, Unanswered, recvTask
  <2>7. Offsets'
    BY <1>1 DEF Offsets, Unanswered, recvTask
  <2>8. QED
    BY <2>5, <2>6, <2>7 DEF Handshake
<1>2. CASE StartsAfresh(o, c)
  <2> DEFINE m == [type |-> "READY"]
  <2>1. PICK n : \A i \in DOMAIN toClient' : ClientStep(toClient'[i]) => i = n /\ toClient'[i] = m
    BY <1>2, ClientMessages, ClientStepPosted DEF StartsAfresh
  <2>2. recvState' = "triggered" /\ recvPlan'.offset = 0 /\ recvPlan' # None /\ pendingRecv' = None
    BY <1>2, NoneAssumption DEF StartsAfresh, TriggerRecv, PlanOf, Unanswered
  <2>3. OneStep'
    BY <2>1 DEF OneStep, NoWorkerStep, WorkerStep, ClientStep
  <2>4. StepMeans'
    BY <2>1, <2>2 DEF StepMeans, NoWorkerStep, WorkerStep, ClientStep, Unanswered
  <2>5. Offsets'
    BY <2>2 DEF Offsets, Unanswered
  <2>6. QED
    BY <2>3, <2>4, <2>5 DEF Handshake
<1>3. QED
  BY <1>1, <1>2, HandleAcceptCases DEF ResumesPart, ResumesDest

\* The bad verdict is no step of the handshake.
LEMMA FailsKeepsQueue ==
  ASSUME TypeOK, NEW r, Fails(r)
  PROVE  NoNewClientStep
<1>1. [type |-> "RECEIVED_FILE:FAILED"] \in ToClientMsg
  BY ClientMessages
<1>2. QED
  BY <1>1, QueuesKept DEF Fails, ClientStep

\* No step of the handshake is outstanding initially.
LEMMA HandshakeInit == Init => Handshake
  BY DEF Init, Handshake, OneStep, StepMeans, Offsets, NoWorkerStep, NoClientStep, Unanswered

\* Every step keeps the handshake: one step of the proof per action.
LEMMA HandshakeNext == TypeOK /\ TypeOK' /\ Handshake /\ [Next]_vars => Handshake'
<1> SUFFICES ASSUME TypeOK, TypeOK', Handshake, [Next]_vars PROVE Handshake'
  OBVIOUS
<1> USE DEF files, setup, wire, client, sendTask, worker, recvTask, counts
<1>1. ASSUME NEW o \in Options, StartSession(o) PROVE Handshake'
  <2>1. /\ toWorker' = <<>> /\ toClient' = <<>> /\ offered' = None /\ Unanswered' /\ ~pendingSend'
    BY <1>1 DEF StartSession, Unanswered
  <2>2. QED
    BY <2>1 DEF Handshake, OneStep, StepMeans, Offsets, NoWorkerStep, NoClientStep, Unanswered
<1>2. ASSUME NEW f \in Sources, EditSource(f) PROVE Handshake'
  BY <1>2, QueuesKept, HandshakeFrame DEF EditSource
<1>3. CASE UserPause
  <2>1. NoNewWorkerStep
    BY <1>3, WorkerMessages, QueuesKept DEF UserPause, WorkerStep
  <2>2. QED
    BY <1>3, <2>1, QueuesKept, HandshakeFrame DEF UserPause
<1>4. CASE UserResume
  <2>1. NoNewWorkerStep
    BY <1>4, WorkerMessages, QueuesKept DEF UserResume, WorkerStep
  <2>2. QED
    BY <1>4, <2>1, QueuesKept, HandshakeFrame DEF UserResume
<1>5. CASE UserCancel
  BY <1>5, QueuesKept, HandshakeFrame DEF UserCancel
<1>6. CASE LoseConnection
  BY <1>6, QueuesKept, HandshakeFrame DEF LoseConnection
<1>7. CASE SendFile
  <2> DEFINE m == [type |-> "METADATA", size |-> Len(src),
                   resume |-> opts.resume, checksum |-> opts.checksum]
  <2>1. CASE PostToWorker(m) /\ pendingSend' = TRUE
    <3>1. /\ NoWorkerStep /\ NoClientStep /\ offered = None /\ Unanswered
      BY <1>7 DEF SendFile, Handshake, Offsets
    <3>2. m \in ToWorkerMsg
      <4>1. Len(src) \in Nat /\ opts.resume \in BOOLEAN /\ opts.checksum \in BOOLEAN
        BY ConstantsAssumption, LenProperties DEF TypeOK, OptionType
      <4>2. QED
        BY <4>1, WorkerMessages
    <3>3. PICK n : \A i \in DOMAIN toWorker' :
                      WorkerStep(toWorker'[i]) => i = n /\ toWorker'[i] = m
      BY <2>1, <3>1, <3>2, WorkerStepPosted
    <3>4. NoClientStep' /\ offered' = None /\ Unanswered' /\ cliMain' = "run"
      BY <1>7, <3>1 DEF SendFile, Unanswered, NoClientStep
    <3>5. OneStep'
      BY <3>3, <3>4 DEF OneStep, NoClientStep
    <3>6. StepMeans'
      BY <3>3, <3>4 DEF StepMeans, NoClientStep, WorkerStep, ClientStep
    <3>7. Offsets'
      BY <3>4 DEF Offsets, Unanswered
    <3>8. QED
      BY <3>5, <3>6, <3>7 DEF Handshake
  <2>2. CASE UNCHANGED <<toWorker, pendingSend>>
    BY <1>7, <2>2, QueuesKept, HandshakeFrame DEF SendFile
  <2>3. QED
    BY <1>7, <2>1, <2>2 DEF SendFile
<1>8. CASE ClientReady
  <2>1. CASE pendingSend
    <3>1. /\ NoClientStep' /\ NoWorkerStep /\ offered = None
          /\ \E i \in DOMAIN toClient : toClient[i].type = "READY"
      BY <1>8, ClientStepTaken DEF ClientReady
    <3>2. NoWorkerStep' /\ offered' = None
      BY <1>8, <3>1 DEF ClientReady, NoWorkerStep
    <3>3. /\ sendState = "idle" /\ recvState # "idle" /\ recvPlan.offset = 0
      BY <3>1 DEF Handshake, StepMeans
    <3>4. /\ sendState' = "triggered" /\ sendOffset' = 0 /\ pendingSend' = FALSE
          /\ UNCHANGED <<recvState, recvPlan, pendingRecv, cliMain>> /\ cliMain = "run"
      BY <1>8, <2>1 DEF ClientReady, TriggerSend, ClientTakes
    <3>5. OneStep' /\ StepMeans'
      BY <3>1, <3>2 DEF OneStep, StepMeans, NoWorkerStep, NoClientStep, WorkerStep, ClientStep
    <3>6. Offsets'
      BY <3>2, <3>3, <3>4 DEF Handshake, Offsets
    <3>7. QED
      BY <3>5, <3>6 DEF Handshake
  <2>2. CASE ~pendingSend
    BY <1>8, <2>2, QueuesKept, HandshakeFrame DEF ClientReady
  <2>3. QED
    BY <2>1, <2>2
<1>9. CASE ClientResumeReady
  <2>1. CASE pendingSend
    <3>1. /\ NoClientStep' /\ NoWorkerStep /\ offered = None
          /\ \E i \in DOMAIN toClient :
                toClient[i].type = "RESUME_READY" /\ toClient[i] = Head(toClient)
      BY <1>9, ClientStepTaken DEF ClientResumeReady
    <3>2. sendState = "idle" /\ pendingRecv # None /\ Head(toClient).offset = pendingRecv.offset
      BY <3>1 DEF Handshake, StepMeans
    <3>3. UNCHANGED <<recvState, recvPlan, pendingRecv, cliMain, offered>> /\ cliMain = "run"
      BY <1>9 DEF ClientResumeReady, ClientTakes
    <3>4. \/ PostToWorker([type |-> "RESUME_OK"]) /\ TriggerSend(Head(toClient).offset)
          \/ PostToWorker([type |-> "RESTART_FROM_ZERO"]) /\ UNCHANGED <<pendingSend, sendTask>>
      BY <1>9, <2>1 DEF ClientResumeReady
    <3>5. CASE PostToWorker([type |-> "RESUME_OK"]) /\ TriggerSend(Head(toClient).offset)
      <4>1. PICK n : \A i \in DOMAIN toWorker' :
                  WorkerStep(toWorker'[i]) => i = n /\ toWorker'[i] = [type |-> "RESUME_OK"]
        BY <3>1, <3>5, WorkerMessages, WorkerStepPosted
      <4>2. sendState' = "triggered" /\ sendOffset' = pendingRecv.offset /\ pendingSend' = FALSE
        BY <3>2, <3>5 DEF TriggerSend
      <4>3. OneStep'
        BY <3>1, <3>3, <4>1 DEF OneStep, NoClientStep, ClientStep
      <4>4. StepMeans'
        BY <3>1, <3>2, <3>3, <4>1, <4>2 DEF StepMeans, NoClientStep, WorkerStep, ClientStep
      <4>5. Offsets'
        BY <3>1, <3>2, <3>3, <4>2 DEF Handshake, Offsets
      <4>6. QED
        BY <4>3, <4>4, <4>5 DEF Handshake
    <3>6. CASE PostToWorker([type |-> "RESTART_FROM_ZERO"]) /\ UNCHANGED <<pendingSend, sendTask>>
      <4>1. PICK n : \A i \in DOMAIN toWorker' :
              WorkerStep(toWorker'[i]) => i = n /\ toWorker'[i] = [type |-> "RESTART_FROM_ZERO"]
        BY <3>1, <3>6, WorkerMessages, WorkerStepPosted
      <4>2. OneStep'
        BY <3>1, <3>3, <4>1 DEF OneStep, NoClientStep, ClientStep
      <4>3. StepMeans'
        BY <3>1, <3>2, <3>3, <3>6, <4>1 DEF StepMeans, NoClientStep, WorkerStep, ClientStep
      <4>4. Offsets'
        BY <3>1, <3>2, <3>3, <3>6 DEF Handshake, Offsets
      <4>5. QED
        BY <4>2, <4>3, <4>4 DEF Handshake
    <3>7. QED
      BY <3>4, <3>5, <3>6
  <2>2. CASE ~pendingSend
    BY <1>9, <2>2, QueuesKept, HandshakeFrame DEF ClientResumeReady
  <2>3. QED
    BY <2>1, <2>2
<1>10. CASE ClientVerdict
  BY <1>10, QueuesKept, HandshakeFrame DEF ClientVerdict
<1>11. CASE ClientDisconnected
  BY <1>11, QueuesKept, HandshakeFrame DEF ClientDisconnected
<1>12. CASE ClientStops
  BY <1>12, QueuesKept, HandshakeFrame DEF ClientStops
<1>13. CASE SendOpen
  BY <1>13, QueuesKept, HandshakeFrame DEF SendOpen
<1>14. CASE SendUnit
  BY <1>14, QueuesKept, HandshakeFrame DEF SendUnit
<1>15. CASE SendFinish
  <2>1. [type |-> "FILE_SENT", hash |-> sendHash'] \in ToWorkerMsg
    BY WorkerMessages DEF TypeOK
  <2>2. NoNewWorkerStep
    BY <1>15, <2>1, QueuesKept DEF SendFinish, WorkerStep
  <2>3. QED
    BY <1>15, <2>2, QueuesKept, HandshakeFrame DEF SendFinish
<1>16. CASE SendFails
  BY <1>16, QueuesKept, HandshakeFrame DEF SendFails
<1>17. CASE WorkerMetadata
  <2> DEFINE m == Head(toWorker)
             o == [size |-> m.size, resume |-> m.resume, checksum |-> m.checksum]
  <2>1. /\ NoWorkerStep' /\ NoClientStep /\ offered = None
        /\ \E i \in DOMAIN toWorker : toWorker[i].type = "METADATA"
    BY <1>17, WorkerStepTaken DEF WorkerMetadata
  <2>2. Unanswered /\ cliMain \notin {"off", "connected"}
    BY <2>1 DEF Handshake, StepMeans, Offsets, NoWorkerStep, WorkerStep
  <2>3. o \in Offer
    BY <1>17, WorkerHead, WorkerFields DEF TypeOK, WorkerMetadata, Offer
  <2>4. CASE pendingAccept
    <3>1. opts.verify \in BOOLEAN /\ opts.wresume \in BOOLEAN
      BY ConstantsAssumption DEF TypeOK, OptionType
    <3>2. /\ HandleAccept(o, opts.verify, opts.wresume) /\ offered' = None
          /\ UNCHANGED <<cliMain, pendingSend, sendState, sendOffset>>
      BY <1>17, <2>1, <2>4 DEF WorkerMetadata
    <3>3. QED
      BY <2>1, <2>2, <2>3, <3>1, <3>2, HandshakeAccept
  <2>5. CASE ~pendingAccept
    <3>1. /\ offered' = o /\ UNCHANGED <<recvTask, pendingRecv, toClient, client, sendTask>>
      BY <1>17, <2>5 DEF WorkerMetadata
    <3>2. NoClientStep' /\ Unanswered'
      BY <2>1, <2>2, <3>1 DEF NoClientStep, Unanswered
    <3>3. OneStep' /\ StepMeans'
      BY <2>1, <3>2 DEF OneStep, StepMeans, NoWorkerStep, NoClientStep, WorkerStep, ClientStep
    <3>4. Offsets'
      BY <2>1, <2>2, <3>1, <3>2 DEF Offsets, Unanswered
    <3>5. QED
      BY <3>3, <3>4 DEF Handshake
  <2>6. QED
    BY <2>4, <2>5
<1>18. CASE AcceptEarly
  BY <1>18, QueuesKept, HandshakeFrame DEF AcceptEarly
<1>19. CASE AcceptOffer
  <2>1. offered # None /\ offered \in Offer
    BY <1>19 DEF TypeOK, AcceptOffer
  <2>2. /\ Unanswered /\ NoWorkerStep /\ NoClientStep /\ cliMain \notin {"off", "connected"}
    BY <2>1 DEF Handshake, OneStep, Offsets
  <2>3. /\ NoWorkerStep' /\ offered' = None
        /\ UNCHANGED <<cliMain, pendingSend, sendState, sendOffset>>
    BY <1>19, <2>2 DEF AcceptOffer, NoWorkerStep
  <2>4. PICK c, r \in BOOLEAN : HandleAccept(offered, c, r)
    BY <1>19, AcceptArguments DEF TypeOK
  <2>5. QED
    BY <2>1, <2>2, <2>3, <2>4, HandshakeAccept
<1>20. CASE RejectOffer
  <2>1. NoNewClientStep
    BY <1>20, ClientMessages, QueuesKept DEF RejectOffer, ClientStep
  <2>2. QED
    BY <1>20, <2>1, QueuesKept, HandshakeFrame DEF RejectOffer
<1>21. CASE WorkerResumeOk
  <2>1. /\ NoWorkerStep' /\ NoClientStep /\ offered = None
        /\ \E i \in DOMAIN toWorker : toWorker[i].type = "RESUME_OK"
    BY <1>21, WorkerStepTaken DEF WorkerResumeOk
  <2>2. sendState # "idle" /\ pendingRecv # None /\ cliMain \notin {"off", "connected"}
    BY <2>1 DEF Handshake, StepMeans, Offsets, NoWorkerStep, WorkerStep
  <2>3. /\ pendingRecv' = None /\ recvState' = "triggered" /\ recvPlan' = pendingRecv
        /\ UNCHANGED <<toClient, offered, client, sendTask>>
    BY <1>21, <2>2 DEF WorkerResumeOk, TriggerRecv
  <2>4. NoClientStep'
    BY <2>1, <2>3 DEF NoClientStep
  <2>5. OneStep' /\ StepMeans'
    BY <2>1, <2>4 DEF OneStep, StepMeans, NoWorkerStep, NoClientStep, WorkerStep, ClientStep
  <2>6. Offsets'
    BY <2>1, <2>2, <2>3 DEF Handshake, Offsets
  <2>7. QED
    BY <2>5, <2>6 DEF Handshake
<1>22. CASE WorkerRestart
  <2>1. /\ NoWorkerStep' /\ NoClientStep /\ offered = None
        /\ \E i \in DOMAIN toWorker : toWorker[i].type = "RESTART_FROM_ZERO"
    BY <1>22, WorkerStepTaken DEF WorkerRestart
  <2>2. sendState = "idle" /\ pendingRecv # None /\ cliMain \notin {"off", "connected"}
    BY <2>1 DEF Handshake, StepMeans, Offsets, NoWorkerStep, WorkerStep
  <2>3. /\ pendingRecv' = None /\ recvState' = "triggered" /\ recvPlan' = Restarted(pendingRecv)
        /\ PostToClient([type |-> "READY"]) /\ UNCHANGED <<offered, client, sendTask>>
    BY <1>22, <2>2 DEF WorkerRestart, TriggerRecv
  <2>4. recvPlan'.offset = 0 /\ recvPlan' # None
    <3>1. Restarted(pendingRecv) \in Plan /\ Restarted(pendingRecv).offset = 0
      BY <2>2 DEF TypeOK, Restarted, Plan
    <3>2. QED
      BY <2>3, <3>1, NoneAssumption
  <2>5. PICK n : \A i \in DOMAIN toClient' :
                    ClientStep(toClient'[i]) => i = n /\ toClient'[i] = [type |-> "READY"]
    BY <2>1, <2>3, ClientMessages, ClientStepPosted
  <2>6. OneStep'
    BY <2>1, <2>3, <2>5 DEF OneStep, NoWorkerStep, WorkerStep
  <2>7. StepMeans'
    BY <2>1, <2>2, <2>3, <2>4, <2>5 DEF StepMeans, NoWorkerStep, WorkerStep, ClientStep
  <2>8. Offsets'
    BY <2>1, <2>2, <2>3, <2>4 DEF Handshake, Offsets
  <2>9. QED
    BY <2>6, <2>7, <2>8 DEF Handshake
<1>23. CASE WorkerPauseMsg
  BY <1>23, QueuesKept, HandshakeFrame DEF WorkerPauseMsg
<1>24. CASE WorkerFileSent
  BY <1>24, QueuesKept, HandshakeFrame DEF WorkerFileSent
<1>25. CASE WorkerDisconnected
  BY <1>25, QueuesKept, HandshakeFrame DEF WorkerDisconnected
<1>26. CASE WorkerStops
  BY <1>26, QueuesKept, HandshakeFrame DEF WorkerStops
<1>27. CASE RecvOpen
  <2>1. NoNewClientStep
    BY <1>27, QueuesKept, FailsKeepsQueue DEF RecvOpen
  <2>2. QED
    BY <1>27, <2>1, QueuesKept, HandshakeFrame DEF RecvOpen, Fails
<1>28. CASE RecvUnit
  BY <1>28, QueuesKept, HandshakeFrame DEF RecvUnit
<1>29. CASE RecvAbort
  <2>1. NoNewClientStep
    BY <1>29, FailsKeepsQueue DEF RecvAbort
  <2>2. QED
    BY <1>29, <2>1, QueuesKept, HandshakeFrame DEF RecvAbort, Fails
<1>30. CASE RecvComplete
  BY <1>30, QueuesKept, HandshakeFrame DEF RecvComplete
<1>31. CASE RecvVerify
  <2>1. NoNewClientStep
    BY <1>31, ClientMessages, QueuesKept, FailsKeepsQueue DEF RecvVerify, ClientStep
  <2>2. recvState' # "idle"
    BY <1>31 DEF RecvVerify, Fails
  <2>3. QED
    BY <1>31, <2>1, <2>2, QueuesKept, HandshakeFrame DEF RecvVerify
<1>32. CASE RecvGivesUp
  BY <1>32, QueuesKept, HandshakeFrame DEF RecvGivesUp
<1>33. CASE UNCHANGED vars
  BY <1>33, QueuesKept, HandshakeFrame DEF vars
<1>34. QED
  BY <1>1, <1>2, <1>3, <1>4, <1>5, <1>6, <1>7, <1>8, <1>9, <1>10, <1>11, <1>12, <1>13, <1>14, <1>15,
     <1>16, <1>17, <1>18, <1>19, <1>20, <1>21, <1>22, <1>23, <1>24, <1>25, <1>26, <1>27, <1>28, <1>29,
     <1>30, <1>31, <1>32, <1>33
  DEF Next, UserNext, ClientNext, SendNext, WorkerNext, RecvNext, Finished

-----------------------------------------------------------------------------
\* There is always a file to write to

\* Nothing is being written initially.
LEMMA WritingInit == Init => Writing
  BY DEF Init, Writing

\* A step that leaves the plans and the receiver's files alone keeps Writing.
LEMMA WritingFrame ==
  ASSUME Writing, UNCHANGED <<part, dest, pendingRecv, recvPlan, recvState>>
  PROVE  Writing'
  BY DEF Writing, Writable, Target

\* Accepting an offer keeps it too: no file is open for writing then.
LEMMA WritingAccept ==
  ASSUME TypeOK, Unanswered, UNCHANGED dest,
         NEW o \in Offer, NEW c \in BOOLEAN, NEW r \in BOOLEAN, HandleAccept(o, c, r)
  PROVE  Writing'
<1>1. CASE ResumesPart(o, c)
  BY <1>1, NoneAssumption DEF ResumesPart, PlanOf, Writing, Writable, Unanswered, recvTask, File
<1>2. CASE ResumesDest(o, c)
  BY <1>2, NoneAssumption DEF ResumesDest, PlanOf, Writing, Writable, Unanswered, recvTask
<1>3. CASE StartsAfresh(o, c)
  BY <1>3 DEF StartsAfresh, TriggerRecv, PlanOf, Writing, Writable, Unanswered
<1>4. QED
  BY <1>1, <1>2, <1>3, HandleAcceptCases

\* Every step keeps the file that is written in existence.
LEMMA WritingNext == TypeOK /\ TypeOK' /\ Handshake /\ Writing /\ [Next]_vars => Writing'
<1> SUFFICES ASSUME TypeOK, TypeOK', Handshake, Writing, [Next]_vars PROVE Writing'
  OBVIOUS
<1> USE DEF files, setup, wire, client, sendTask, worker, recvTask, counts
<1>1. ASSUME NEW o \in Options, StartSession(o) PROVE Writing'
  BY <1>1 DEF StartSession, Writing
<1>2. CASE (\E f \in Sources : EditSource(f)) \/ UserPause \/ UserResume \/ UserCancel \/ LoseConnection
  BY <1>2, WritingFrame DEF EditSource, UserPause, UserResume, UserCancel, LoseConnection
<1>3. CASE ClientNext
  BY <1>3, WritingFrame DEF ClientNext, SendFile, ClientReady, ClientResumeReady, ClientVerdict,
     ClientDisconnected, ClientStops
<1>4. CASE SendNext
  BY <1>4, WritingFrame DEF SendNext, SendOpen, SendUnit, SendFinish, SendFails
<1>5. CASE \/ AcceptEarly \/ RejectOffer \/ WorkerPauseMsg \/ WorkerFileSent
           \/ WorkerDisconnected \/ WorkerStops
  BY <1>5, WritingFrame DEF AcceptEarly, RejectOffer, WorkerPauseMsg, WorkerFileSent,
     WorkerDisconnected, WorkerStops
<1>6. CASE WorkerMetadata
  <2> DEFINE m == Head(toWorker)
             o == [size |-> m.size, resume |-> m.resume, checksum |-> m.checksum]
  <2>1. CASE pendingAccept
    <3>1. o \in Offer
      BY <1>6, WorkerHead, WorkerFields DEF TypeOK, WorkerMetadata, Offer
    <3>2. opts.verify \in BOOLEAN /\ opts.wresume \in BOOLEAN
      BY ConstantsAssumption DEF TypeOK, OptionType
    <3>3. HandleAccept(o, opts.verify, opts.wresume) /\ UNCHANGED dest
      BY <1>6, <2>1 DEF WorkerMetadata
    <3>4. Unanswered
      BY <1>6, WorkerStepTaken DEF WorkerMetadata, Handshake, StepMeans
    <3>5. QED
      BY <3>1, <3>2, <3>3, <3>4, WritingAccept
  <2>2. CASE ~pendingAccept
    BY <1>6, <2>2, WritingFrame DEF WorkerMetadata
  <2>3. QED
    BY <2>1, <2>2
<1>7. CASE AcceptOffer
  <2>1. PICK c, r \in BOOLEAN : HandleAccept(offered, c, r)
    BY <1>7, AcceptArguments
  <2>2. offered \in Offer /\ Unanswered /\ UNCHANGED dest
    BY <1>7 DEF TypeOK, AcceptOffer, Handshake, Offsets
  <2>3. QED
    BY <2>1, <2>2, WritingAccept
<1>8. CASE WorkerResumeOk
  <2>1. CASE pendingRecv = None
    BY <1>8, <2>1, WritingFrame DEF WorkerResumeOk
  <2>2. CASE pendingRecv # None
    BY <1>8, <2>2 DEF WorkerResumeOk, TriggerRecv, Writing, Writable
  <2>3. QED
    BY <2>1, <2>2
<1>9. CASE WorkerRestart
  <2>1. CASE pendingRecv = None
    BY <1>9, <2>1, WritingFrame DEF WorkerRestart
  <2>2. CASE pendingRecv # None
    <3>1. Restarted(pendingRecv).offset = 0
      BY <2>2 DEF TypeOK, Restarted, Plan
    <3>2. QED
      BY <1>9, <2>2, <3>1 DEF WorkerRestart, TriggerRecv, Writing, Writable
  <2>3. QED
    BY <2>1, <2>2
<1>10. ASSUME RecvNext PROVE Writing'
  <2>1. recvState # "idle" => pendingRecv = None /\ recvPlan \in Plan
    BY DEF TypeOK, Handshake, Offsets
  <2>2. CASE RecvOpen
    <3>1. <<>> # None
      BY EmptySeq, NoneAssumption
    <3>2. CASE Fails("Etc")
      BY <2>1, <2>2, <3>2 DEF RecvOpen, Fails, Writing
    <3>3. CASE recvState' = "receiving" /\ recvPlan.offset = 0 /\ SetTarget(<<>>)
      BY <2>1, <2>2, <3>1, <3>3 DEF RecvOpen, Writing, SetTarget, Target
    <3>4. CASE recvState' = "receiving" /\ recvPlan.offset # 0 /\ UNCHANGED <<part, dest>>
      BY <2>1, <2>2, <3>4 DEF RecvOpen, Writing, Writable, Target, Plan
    <3>5. QED
      BY <2>2, <3>2, <3>3, <3>4 DEF RecvOpen
  <2>3. CASE RecvUnit
    <3>1. Append(Target, Head(fileStream)) # None
      <4>1. Target \in Seq(Units) /\ Head(fileStream) \in Units
        BY <2>3, TargetType, HeadTailProperties DEF TypeOK, RecvUnit, File
      <4>2. QED
        BY <4>1, AppendProperties, NoneAssumption
    <3>2. QED
      BY <2>1, <2>3, <3>1 DEF RecvUnit, Writing, SetTarget, Target
  <2>4. CASE RecvAbort
    BY <2>1, <2>4 DEF RecvAbort, Fails, Writing
  <2>5. CASE RecvComplete
    BY <2>1, <2>5 DEF RecvComplete, Writing, Target
  <2>6. CASE RecvVerify
    BY <2>1, <2>6 DEF RecvVerify, Fails, Writing
  <2>7. CASE RecvGivesUp
    BY <2>1, <2>7 DEF RecvGivesUp, Writing
  <2>8. QED
    BY <1>10, <2>2, <2>3, <2>4, <2>5, <2>6, <2>7 DEF RecvNext
<1>11. CASE UNCHANGED vars
  BY <1>11, WritingFrame DEF vars
<1>12. QED
  BY <1>1, <1>2, <1>3, <1>4, <1>5, <1>6, <1>7, <1>8, <1>9, <1>10, <1>11
  DEF Next, UserNext, WorkerNext, Finished

-----------------------------------------------------------------------------
\* Theorems

\* The handshake invariant, with the types it needs.
ControlInv == TypeOK /\ Handshake /\ Writing

\* It is inductive: the METADATA / READY / RESUME_READY / RESUME_OK /
\* RESTART_FROM_ZERO exchange of run_peer never has two steps outstanding.
THEOREM ControlCorrect == Spec => []ControlInv
<1>1. Init => ControlInv
  BY TypeInit, HandshakeInit, WritingInit DEF ControlInv
<1>2. ControlInv /\ [Next]_vars => ControlInv'
  BY TypeNext, HandshakeNext, WritingNext DEF ControlInv
<1>3. QED
  BY <1>1, <1>2, PTL DEF Spec

\* Every variable keeps its type, whatever the queues, files and tasks do.
THEOREM TypeCorrect == Spec => []TypeOK
<1>1. ControlInv => TypeOK
  BY DEF ControlInv
<1>2. QED
  BY <1>1, ControlCorrect, PTL

\* The sender reads from the offset the receiver writes to.
THEOREM OffsetsCorrect == Spec => []OffsetsAgree
<1>1. ControlInv => OffsetsAgree
  BY DEF ControlInv, Handshake, Offsets, OffsetsAgree
<1>2. QED
  BY <1>1, ControlCorrect, PTL


-----------------------------------------------------------------------------
\* Where the messages of a queue come from

OldToWorker == \A i \in DOMAIN toWorker' : \E j \in DOMAIN toWorker : toWorker'[i] = toWorker[j]

OldToClient == \A i \in DOMAIN toClient' : \E j \in DOMAIN toClient : toClient'[i] = toClient[j]

\* What a step may do to the queue of the worker.
LEMMA WorkerQueueStep ==
  ASSUME TypeOK
  PROVE  /\ UNCHANGED toWorker => OldToWorker
         /\ toWorker' = <<>> => OldToWorker
         /\ \A t : WorkerTakes(t) => OldToWorker
         /\ \A m \in ToWorkerMsg : PostToWorker(m) =>
               \A i \in DOMAIN toWorker' :
                  \/ toWorker'[i] = m
                  \/ \E j \in DOMAIN toWorker : toWorker'[i] = toWorker[j]
<1>1. UNCHANGED toWorker => OldToWorker
  BY DEF OldToWorker
<1>2. toWorker' = <<>> => OldToWorker
  BY DEF OldToWorker
<1>3. ASSUME NEW t, WorkerTakes(t) PROVE OldToWorker
  BY <1>3, Taken DEF TypeOK, WorkerTakes, OldToWorker
<1>4. ASSUME NEW m \in ToWorkerMsg, PostToWorker(m)
      PROVE  \A i \in DOMAIN toWorker' :
                \/ toWorker'[i] = m
                \/ \E j \in DOMAIN toWorker : toWorker'[i] = toWorker[j]
  BY <1>4, Posted DEF TypeOK, PostToWorker
<1>5. QED
  BY <1>1, <1>2, <1>3, <1>4

\* What a step may do to the queue of the client.
LEMMA ClientQueueStep ==
  ASSUME TypeOK
  PROVE  /\ UNCHANGED toClient => OldToClient
         /\ toClient' = <<>> => OldToClient
         /\ \A t : ClientTakes(t) => OldToClient
         /\ \A m \in ToClientMsg : PostToClient(m) =>
               \A i \in DOMAIN toClient' :
                  \/ toClient'[i] = m
                  \/ \E j \in DOMAIN toClient : toClient'[i] = toClient[j]
<1>1. UNCHANGED toClient => OldToClient
  BY DEF OldToClient
<1>2. toClient' = <<>> => OldToClient
  BY DEF OldToClient
<1>3. ASSUME NEW t, ClientTakes(t) PROVE OldToClient
  BY <1>3, Taken DEF TypeOK, ClientTakes, OldToClient
<1>4. ASSUME NEW m \in ToClientMsg, PostToClient(m)
      PROVE  \A i \in DOMAIN toClient' :
                \/ toClient'[i] = m
                \/ \E j \in DOMAIN toClient : toClient'[i] = toClient[j]
  BY <1>4, Posted DEF TypeOK, PostToClient
<1>5. QED
  BY <1>1, <1>2, <1>3, <1>4

\* The METADATA message, and the offer the worker makes of it.
LEMMA MetadataMessage ==
  ASSUME TypeOK
  PROVE  [type |-> "METADATA", size |-> Len(src), resume |-> opts.resume,
          checksum |-> opts.checksum] \in ToWorkerMsg
<1>1. Len(src) \in Nat /\ opts.resume \in BOOLEAN /\ opts.checksum \in BOOLEAN
  BY ConstantsAssumption, LenProperties DEF TypeOK, OptionType
<1>2. QED
  BY <1>1, WorkerMessages

OfferOf(m) == [size |-> m.size, resume |-> m.resume, checksum |-> m.checksum]

\* The offer has the size the message announced.
LEMMA MetadataOffer ==
  ASSUME TypeOK, WorkerMetadata
  PROVE  /\ OfferOf(Head(toWorker)) \in Offer
         /\ \E j \in DOMAIN toWorker : toWorker[j] = Head(toWorker) /\ toWorker[j].type = "METADATA"
         /\ \/ /\ pendingAccept
               /\ \E c, r \in BOOLEAN : HandleAccept(OfferOf(Head(toWorker)), c, r)
               /\ UNCHANGED <<src, dest, offered>>
            \/ /\ offered' = OfferOf(Head(toWorker))
               /\ UNCHANGED <<files, recvTask, pendingRecv, toClient>>
<1>1. OfferOf(Head(toWorker)) \in Offer
  BY WorkerHead, WorkerFields DEF TypeOK, WorkerMetadata, Offer, OfferOf
<1>2. \E j \in DOMAIN toWorker : toWorker[j] = Head(toWorker) /\ toWorker[j].type = "METADATA"
  BY Taken DEF TypeOK, WorkerMetadata, WorkerTakes
<1>3. opts.verify \in BOOLEAN /\ opts.wresume \in BOOLEAN
  BY ConstantsAssumption DEF TypeOK, OptionType
<1>4. QED
  BY <1>1, <1>2, <1>3 DEF WorkerMetadata, OfferOf, files

\* A file is only handed to the send task when it was idle.
LEMMA ClientTriggers ==
  ASSUME TypeOK, Handshake, ClientReady \/ ClientResumeReady
  PROVE  sendState = "idle"
<1>1. CASE ClientReady
  BY <1>1, Taken DEF TypeOK, ClientReady, ClientTakes, Handshake, StepMeans
<1>2. CASE ClientResumeReady
  BY <1>2, Taken DEF TypeOK, ClientResumeReady, ClientTakes, Handshake, StepMeans
<1>3. QED
  BY <1>1, <1>2

-----------------------------------------------------------------------------
\* Sizes

\* A step that touches no size keeps what is known of it.
LEMMA SizeKnownFrame ==
  ASSUME SizeKnown, OldToWorker, offered' \in {offered, None},
         UNCHANGED <<src, edited, pendingRecv, recvPlan>>,
         (recvState' = "idle") <=> (recvState = "idle")
  PROVE  SizeKnown'
  BY DEF SizeKnown, OldToWorker

\* A posted message that is no METADATA changes nothing.
LEMMA SizeKnownPost ==
  ASSUME TypeOK, SizeKnown, NEW m \in ToWorkerMsg, m.type # "METADATA", PostToWorker(m),
         UNCHANGED <<src, edited, offered, pendingRecv, recvPlan, recvState>>
  PROVE  SizeKnown'
  BY WorkerQueueStep DEF SizeKnown

\* Accepting hands the size on to the plan.
LEMMA SizeKnownAccept ==
  ASSUME TypeOK, SizeKnown, Unanswered, OldToWorker, UNCHANGED <<src, edited>>,
         offered' \in {offered, None},
         NEW o \in Offer, NEW c \in BOOLEAN, NEW r \in BOOLEAN, HandleAccept(o, c, r),
         ~edited => o.size = Len(src)
  PROVE  SizeKnown'
<1>1. CASE ResumesPart(o, c)
  BY <1>1 DEF ResumesPart, PlanOf, SizeKnown, OldToWorker, Unanswered, recvTask
<1>2. CASE ResumesDest(o, c)
  BY <1>2 DEF ResumesDest, PlanOf, SizeKnown, OldToWorker, Unanswered, recvTask
<1>3. CASE StartsAfresh(o, c)
  BY <1>3 DEF StartsAfresh, TriggerRecv, PlanOf, SizeKnown, OldToWorker, Unanswered
<1>4. QED
  BY <1>1, <1>2, <1>3, HandleAcceptCases

\* Every step keeps the announced size that of the source, until it is edited.
LEMMA SizeKnownNext == ControlInv /\ ControlInv' /\ SizeKnown /\ [Next]_vars => SizeKnown'
<1> SUFFICES ASSUME ControlInv, ControlInv', SizeKnown, [Next]_vars PROVE SizeKnown'
  OBVIOUS
<1> USE DEF files, setup, wire, client, sendTask, worker, recvTask, counts
<1>0. TypeOK /\ TypeOK' /\ Handshake
  BY DEF ControlInv
<1>1. ASSUME NEW o \in Options, StartSession(o) PROVE SizeKnown'
  BY <1>1 DEF StartSession, SizeKnown
<1>2. ASSUME NEW f \in Sources, EditSource(f) PROVE SizeKnown'
  BY <1>2 DEF EditSource, SizeKnown
<1>3. CASE UserPause
  BY <1>0, <1>3, WorkerMessages, SizeKnownPost DEF UserPause
<1>4. CASE UserResume
  BY <1>0, <1>4, WorkerMessages, SizeKnownPost DEF UserResume
<1>5. CASE UserCancel \/ LoseConnection \/ SendOpen \/ SendUnit \/ SendFails
  BY <1>0, <1>5, WorkerQueueStep, SizeKnownFrame
  DEF UserCancel, LoseConnection, SendOpen, SendUnit, SendFails
<1>6. CASE SendFile
  <2>1. CASE PostToWorker([type |-> "METADATA", size |-> Len(src), resume |-> opts.resume,
                           checksum |-> opts.checksum])
    BY <1>0, <1>6, <2>1, MetadataMessage, WorkerQueueStep DEF SendFile, SizeKnown
  <2>2. CASE UNCHANGED toWorker
    BY <1>0, <1>6, <2>2, WorkerQueueStep, SizeKnownFrame DEF SendFile
  <2>3. QED
    BY <1>6, <2>1, <2>2 DEF SendFile
<1>7. CASE ClientReady \/ ClientVerdict \/ ClientDisconnected \/ ClientStops
  BY <1>0, <1>7, WorkerQueueStep, SizeKnownFrame
  DEF ClientReady, ClientVerdict, ClientDisconnected, ClientStops
<1>8. CASE ClientResumeReady
  <2>1. \/ UNCHANGED toWorker
        \/ PostToWorker([type |-> "RESUME_OK"]) \/ PostToWorker([type |-> "RESTART_FROM_ZERO"])
    BY <1>8 DEF ClientResumeReady
  <2>2. CASE UNCHANGED toWorker
    BY <1>0, <1>8, <2>2, WorkerQueueStep, SizeKnownFrame DEF ClientResumeReady
  <2>3. QED
    BY <1>0, <1>8, <2>1, <2>2, WorkerMessages, SizeKnownPost DEF ClientResumeReady
<1>9. CASE SendFinish
  <2>1. [type |-> "FILE_SENT", hash |-> sendHash'] \in ToWorkerMsg
    BY <1>0, WorkerMessages DEF TypeOK
  <2>2. QED
    BY <1>0, <1>9, <2>1, SizeKnownPost DEF SendFinish
<1>10. CASE WorkerMetadata
  <2> DEFINE o == OfferOf(Head(toWorker))
  <2>1. (~edited => o.size = Len(src)) /\ UNCHANGED <<src, edited>> /\ OldToWorker
    BY <1>0, <1>10, MetadataOffer, WorkerQueueStep DEF SizeKnown, OfferOf, WorkerMetadata
  <2>2. ASSUME NEW c \in BOOLEAN, NEW r \in BOOLEAN, HandleAccept(o, c, r), UNCHANGED offered
        PROVE  SizeKnown'
    <3>1. Unanswered
      BY <1>0, <1>10, MetadataOffer DEF Handshake, StepMeans
    <3>2. QED
      BY <1>0, <1>10, <2>1, <2>2, <3>1, MetadataOffer, SizeKnownAccept
  <2>3. CASE offered' = o /\ UNCHANGED <<recvTask, pendingRecv>>
    BY <2>1, <2>3 DEF SizeKnown, OldToWorker
  <2>4. QED
    BY <1>0, <1>10, <2>2, <2>3, MetadataOffer
<1>11. CASE AcceptEarly \/ RejectOffer \/ WorkerPauseMsg \/ WorkerFileSent \/ WorkerDisconnected
            \/ WorkerStops
  BY <1>0, <1>11, WorkerQueueStep, SizeKnownFrame
  DEF AcceptEarly, RejectOffer, WorkerPauseMsg, WorkerFileSent, WorkerDisconnected, WorkerStops
<1>12. CASE AcceptOffer
  <2>1. PICK c, r \in BOOLEAN : HandleAccept(offered, c, r)
    BY <1>0, <1>12, AcceptArguments
  <2>2. offered \in Offer /\ Unanswered /\ OldToWorker /\ (~edited => offered.size = Len(src))
    BY <1>0, <1>12, WorkerQueueStep DEF AcceptOffer, TypeOK, Handshake, Offsets, SizeKnown
  <2>3. QED
    BY <1>0, <1>12, <2>1, <2>2, SizeKnownAccept DEF AcceptOffer
<1>13. CASE WorkerResumeOk
  <2>1. OldToWorker
    BY <1>0, <1>13, WorkerQueueStep DEF WorkerResumeOk
  <2>2. QED
    BY <1>13, <2>1 DEF WorkerResumeOk, TriggerRecv, SizeKnown, OldToWorker
<1>14. CASE WorkerRestart
  <2>1. OldToWorker
    BY <1>0, <1>14, WorkerQueueStep DEF WorkerRestart
  <2>2. pendingRecv # None => Restarted(pendingRecv).size = pendingRecv.size
    BY <1>0 DEF TypeOK, Restarted, Plan
  <2>3. QED
    BY <1>14, <2>1, <2>2 DEF WorkerRestart, TriggerRecv, SizeKnown, OldToWorker
<1>15. CASE RecvNext
  BY <1>0, <1>15, WorkerQueueStep, SizeKnownFrame
  DEF RecvNext, RecvOpen, RecvUnit, RecvAbort, RecvComplete, RecvVerify, RecvGivesUp, Fails
<1>16. CASE UNCHANGED vars
  BY <1>0, <1>16, WorkerQueueStep, SizeKnownFrame DEF vars
<1>17. QED
  BY <1>1, <1>2, <1>3, <1>4, <1>5, <1>6, <1>7, <1>8, <1>9, <1>10, <1>11, <1>12, <1>13, <1>14, <1>15,
     <1>16
  DEF Next, UserNext, ClientNext, SendNext, WorkerNext, Finished

-----------------------------------------------------------------------------
\* The sender

\* A step that leaves the send task alone keeps what was sent.
LEMMA SentFromSourceFrame ==
  ASSUME SentFromSource, UNCHANGED <<src, edited, sent, sendOffset, sendState, sendHash>>
  PROVE  SentFromSource'
  BY DEF SentFromSource

\* A file that was read from its first unit to its end was read whole.
LEMMA SentWhole ==
  ASSUME TypeOK, ~edited, SentFromSource, sendOffset = 0, SendPos >= Len(src)
  PROVE  sent = src
<1>1. src \in Seq(Units) /\ sent \in Seq(Units) /\ Len(src) \in Nat /\ Len(sent) \in Nat
  BY ConstantsAssumption, LenProperties DEF TypeOK, File
<1>2. Len(sent) >= Len(src)
  BY <1>1 DEF SendPos
<1>3. Len(sent) <= Len(src)
  <2>1. CASE Len(sent) = 0
    BY <1>1, <2>1
  <2>2. CASE Len(sent) # 0
    BY <1>1, <2>2 DEF SentFromSource
  <2>3. QED
    BY <2>1, <2>2
<1>4. \A i \in 1..Len(sent) : sent[i] = src[i]
  BY <1>1 DEF SentFromSource
<1>5. QED
  BY <1>1, <1>2, <1>3, <1>4, SeqEqual

\* Every step keeps the units sent a part of the source.
LEMMA SentFromSourceNext ==
  ControlInv /\ SentFromSource /\ InOrder /\ [Next]_vars => SentFromSource'
<1> SUFFICES ASSUME ControlInv, SentFromSource, InOrder, [Next]_vars PROVE SentFromSource'
  OBVIOUS
<1> USE DEF files, setup, wire, client, sendTask, worker, recvTask, counts
<1>0. TypeOK /\ Handshake
  BY DEF ControlInv
<1>1. ASSUME NEW o \in Options, StartSession(o) PROVE SentFromSource'
  BY <1>1 DEF StartSession, SentFromSource
<1>2. ASSUME NEW f \in Sources, EditSource(f) PROVE SentFromSource'
  BY <1>2 DEF EditSource, SentFromSource
<1>3. CASE UserPause \/ UserResume \/ UserCancel \/ LoseConnection
  BY <1>3, SentFromSourceFrame DEF UserPause, UserResume, UserCancel, LoseConnection
<1>4. CASE SendFile \/ ClientVerdict \/ ClientDisconnected \/ ClientStops
  BY <1>4, SentFromSourceFrame DEF SendFile, ClientVerdict, ClientDisconnected, ClientStops
<1>5. CASE ClientReady \/ ClientResumeReady
  <2>1. CASE UNCHANGED sendTask
    BY <1>5, <2>1, SentFromSourceFrame DEF ClientReady, ClientResumeReady
  <2>2. ASSUME NEW n, TriggerSend(n) PROVE SentFromSource'
    <3>1. sendState = "idle"
      BY <1>0, <1>5, ClientTriggers
    <3>2. sent = <<>>
      BY <3>1 DEF InOrder
    <3>3. QED
      BY <1>5, <2>2, <3>2, EmptySeq DEF TriggerSend, SentFromSource, ClientReady, ClientResumeReady
  <2>3. QED
    BY <1>5, <2>1, <2>2 DEF ClientReady, ClientResumeReady
<1>6. CASE SendOpen
  BY <1>6 DEF SendOpen, SentFromSource
<1>7. CASE SendUnit
  <2>1. sent \in Seq(Units) /\ src[SendPos + 1] \in Units /\ Len(sent) \in Nat /\ sendOffset \in Nat
        /\ Len(src) \in Nat
    BY <1>0, <1>7, ConstantsAssumption, LenProperties, ElementOfSeq
    DEF TypeOK, SendUnit, SendPos, File
  <2>2. /\ Len(sent') = Len(sent) + 1 /\ sent'[Len(sent) + 1] = src[SendPos + 1]
        /\ \A i \in 1..Len(sent) : sent'[i] = sent[i]
    BY <1>7, <2>1, AppendProperties DEF SendUnit
  <2>3. ASSUME ~edited', NEW i \in 1..Len(sent')
        PROVE  sendOffset' + i <= Len(src') /\ sent'[i] = src'[sendOffset' + i]
    <3>1. CASE i <= Len(sent)
      BY <1>7, <2>1, <2>2, <2>3, <3>1 DEF SendUnit, SentFromSource
    <3>2. CASE i = Len(sent) + 1
      BY <1>7, <2>1, <2>2, <2>3, <3>2 DEF SendUnit, SendPos
    <3>3. QED
      BY <2>1, <2>2, <3>1, <3>2
  <2>4. QED
    BY <1>7, <2>3 DEF SendUnit, SentFromSource
<1>8. CASE SendFinish
  <2>1. ~edited => sendHash' \in {None, src}
    <3>1. ASSUME ~edited PROVE sendHash = src
      BY <1>8, <3>1 DEF SendFinish, SentFromSource
    <3>2. ASSUME ~edited, sendOffset = 0 PROVE sent = src
      BY <1>0, <1>8, <3>2, SentWhole DEF SendFinish
    <3>3. \/ sendHash' = None
          \/ sendOffset = 0 /\ sendHash' = sent
          \/ \E seen \in {sendHash, src} : sendHash' = seen
      <4>1. ASSUME NEW seen \in {sendHash, src}, Digest(seen, sendHash')
            PROVE  sendHash' = None \/ sendHash' = seen
        BY <4>1 DEF Digest
      <4>2. \/ sendHash' = None
            \/ sendOffset = 0 /\ sendHash' = sent
            \/ \E seen \in {sendHash, src} : Digest(seen, sendHash')
        BY <1>8 DEF SendFinish
      <4>3. QED
        BY <4>1, <4>2
    <3>4. QED
      BY <3>1, <3>2, <3>3
  <2>2. QED
    BY <1>8, <2>1 DEF SendFinish, SendPos, SentFromSource
<1>9. CASE SendFails
  BY <1>9 DEF SendFails, SentFromSource
<1>10. CASE WorkerNext
  BY <1>10, SentFromSourceFrame
  DEF WorkerNext, WorkerMetadata, AcceptEarly, AcceptOffer, RejectOffer, WorkerResumeOk, WorkerRestart,
      WorkerPauseMsg, WorkerFileSent, WorkerDisconnected, WorkerStops
<1>11. CASE RecvNext
  BY <1>11, SentFromSourceFrame
  DEF RecvNext, RecvOpen, RecvUnit, RecvAbort, RecvComplete, RecvVerify, RecvGivesUp
<1>12. CASE UNCHANGED vars
  BY <1>12, SentFromSourceFrame DEF vars
<1>13. QED
  BY <1>1, <1>2, <1>3, <1>4, <1>5, <1>6, <1>7, <1>8, <1>9, <1>10, <1>11, <1>12
  DEF Next, UserNext, ClientNext, SendNext, Finished

-----------------------------------------------------------------------------
\* The stream

\* A step that leaves the stream alone keeps its order.
LEMMA InOrderFrame ==
  ASSUME InOrder, UNCHANGED <<sent, rcvd, fileStream>>,
         sendState' \in {"idle", "triggered"} => sendState \in {"idle", "triggered"},
         recvState' \in {"idle", "triggered"} => recvState \in {"idle", "triggered"}
  PROVE  InOrder'
  BY DEF InOrder

\* A unit enters the stream when it is sent and leaves it, oldest first.
LEMMA InOrderSend ==
  ASSUME TypeOK, InOrder, SendUnit
  PROVE  InOrder'
<1> DEFINE u == src[SendPos + 1]
<1>1. u \in Units
  BY ConstantsAssumption, LenProperties, ElementOfSeq DEF TypeOK, SendUnit, SendPos, File
<1>2. /\ Len(sent') = Len(sent) + 1 /\ sent'[Len(sent) + 1] = u
      /\ \A i \in 1..Len(sent) : sent'[i] = sent[i]
  BY <1>1, AppendProperties DEF TypeOK, SendUnit, File
<1>3. /\ Len(fileStream') = Len(fileStream) + 1 /\ fileStream'[Len(fileStream) + 1] = u
      /\ \A i \in 1..Len(fileStream) : fileStream'[i] = fileStream[i]
  BY <1>1, AppendProperties DEF TypeOK, SendUnit, File
<1>4. Len(sent) \in Nat /\ Len(rcvd) \in Nat /\ Len(fileStream) \in Nat /\ UNCHANGED rcvd
  BY LenProperties DEF TypeOK, SendUnit, File, recvTask
<1>5. Len(sent) = Len(rcvd) + Len(fileStream)
  BY DEF InOrder
<1>6. \A i \in 1..Len(rcvd) : rcvd[i] = sent'[i]
  BY <1>2, <1>4, <1>5 DEF InOrder
<1>7. ASSUME NEW i \in 1..Len(fileStream')
      PROVE  fileStream'[i] = sent'[Len(rcvd) + i]
  <2>1. CASE i <= Len(fileStream)
    BY <1>2, <1>3, <1>4, <1>5, <2>1 DEF InOrder
  <2>2. CASE i = Len(fileStream) + 1
    BY <1>2, <1>3, <1>4, <1>5, <2>2
  <2>3. QED
    BY <1>3, <1>4, <2>1, <2>2
<1>8. QED
  BY <1>2, <1>3, <1>4, <1>5, <1>6, <1>7 DEF InOrder, SendUnit, recvTask

\* The receive task appends the oldest unit of the stream.
LEMMA InOrderRecv ==
  ASSUME TypeOK, InOrder, RecvUnit
  PROVE  InOrder'
<1>1. /\ fileStream \in Seq(Units) /\ rcvd \in Seq(Units) /\ fileStream # <<>>
      /\ Len(sent) \in Nat /\ Len(rcvd) \in Nat /\ Len(fileStream) \in Nat /\ Len(fileStream) > 0
  BY LenProperties, EmptySeq DEF TypeOK, RecvUnit, File
<1>2. /\ Len(fileStream') = Len(fileStream) - 1
      /\ \A i \in 1..Len(fileStream') : fileStream'[i] = fileStream[i + 1]
      /\ Head(fileStream) \in Units
  BY <1>1, HeadTailProperties DEF RecvUnit
<1>3. Head(fileStream) = fileStream[1]
  BY <1>1, Taken
<1>4. /\ Len(rcvd') = Len(rcvd) + 1 /\ rcvd'[Len(rcvd) + 1] = fileStream[1]
      /\ \A i \in 1..Len(rcvd) : rcvd'[i] = rcvd[i]
  BY <1>1, <1>2, <1>3, AppendProperties DEF RecvUnit
<1>5. ASSUME NEW i \in 1..Len(rcvd') PROVE rcvd'[i] = sent[i]
  BY <1>1, <1>4, <1>5 DEF InOrder
<1>6. ASSUME NEW i \in 1..Len(fileStream') PROVE fileStream'[i] = sent[Len(rcvd') + i]
  <2>1. i + 1 \in 1..Len(fileStream)
    BY <1>1, <1>2, <1>6
  <2>2. fileStream[i + 1] = sent[Len(rcvd) + (i + 1)]
    BY <2>1 DEF InOrder
  <2>3. Len(rcvd') + i = Len(rcvd) + (i + 1)
    BY <1>1, <1>4, <2>1
  <2>4. QED
    BY <1>2, <1>6, <2>2, <2>3
<1>7. UNCHANGED <<sent, sendState, recvState>> /\ recvState = "receiving"
  BY DEF RecvUnit, sendTask
<1>8. Len(sent') = Len(rcvd') + Len(fileStream')
  <2>1. Len(sent) = Len(rcvd) + Len(fileStream)
    BY DEF InOrder
  <2>2. Len(rcvd') + Len(fileStream') = Len(rcvd) + Len(fileStream)
    BY <1>1, <1>2, <1>4
  <2>3. QED
    BY <1>7, <2>1, <2>2
<1>9. QED
  BY <1>5, <1>6, <1>7, <1>8 DEF InOrder

\* Every step keeps what was received and what is under way equal to what was sent.
LEMMA InOrderNext == ControlInv /\ InOrder /\ [Next]_vars => InOrder'
<1> SUFFICES ASSUME ControlInv, InOrder, [Next]_vars PROVE InOrder'
  OBVIOUS
<1> USE DEF files, setup, wire, client, sendTask, worker, recvTask, counts
<1>0. TypeOK /\ Handshake
  BY DEF ControlInv
<1>1. ASSUME NEW o \in Options, StartSession(o) PROVE InOrder'
  BY <1>1, EmptySeq DEF StartSession, InOrder
<1>2. CASE \/ \E f \in Sources : EditSource(f)
           \/ UserPause \/ UserResume \/ UserCancel \/ LoseConnection
  BY <1>2, InOrderFrame DEF EditSource, UserPause, UserResume, UserCancel, LoseConnection
<1>3. CASE SendFile \/ ClientVerdict \/ ClientDisconnected \/ ClientStops
  BY <1>3, InOrderFrame DEF SendFile, ClientVerdict, ClientDisconnected, ClientStops
<1>4. CASE ClientReady \/ ClientResumeReady
  BY <1>0, <1>4, ClientTriggers, InOrderFrame DEF ClientReady, ClientResumeReady, TriggerSend
<1>5. CASE SendOpen \/ SendFinish \/ SendFails
  BY <1>5, InOrderFrame DEF SendOpen, SendFinish, SendFails
<1>6. CASE SendUnit
  BY <1>0, <1>6, InOrderSend
<1>7. CASE WorkerMetadata
  <2>1. CASE UNCHANGED recvTask
    BY <1>7, <2>1, InOrderFrame DEF WorkerMetadata
  <2>2. ASSUME NEW o, NEW c, StartsAfresh(o, c) PROVE InOrder'
    <3>1. Unanswered
      BY <1>0, <1>7, MetadataOffer DEF Handshake, StepMeans
    <3>2. QED
      BY <1>7, <2>2, <3>1, InOrderFrame DEF WorkerMetadata, StartsAfresh, TriggerRecv, Unanswered
  <2>3. QED
    BY <1>0, <1>7, <2>1, <2>2, MetadataOffer, HandleAcceptCases DEF ResumesPart, ResumesDest
<1>8. CASE AcceptOffer
  <2>1. PICK c, r \in BOOLEAN : HandleAccept(offered, c, r)
    BY <1>0, <1>8, AcceptArguments
  <2>2. offered \in Offer /\ Unanswered
    BY <1>0, <1>8 DEF AcceptOffer, TypeOK, Handshake, Offsets
  <2>3. CASE UNCHANGED recvTask
    BY <1>8, <2>3, InOrderFrame DEF AcceptOffer
  <2>4. CASE StartsAfresh(offered, c)
    BY <1>8, <2>2, <2>4, InOrderFrame DEF AcceptOffer, StartsAfresh, TriggerRecv, Unanswered
  <2>5. QED
    BY <1>0, <2>1, <2>2, <2>3, <2>4, HandleAcceptCases DEF ResumesPart, ResumesDest
<1>9. CASE WorkerResumeOk \/ WorkerRestart
  <2>1. CASE UNCHANGED recvTask
    BY <1>9, <2>1, InOrderFrame DEF WorkerResumeOk, WorkerRestart
  <2>2. ASSUME NEW plan, TriggerRecv(plan), pendingRecv # None PROVE InOrder'
    <3>1. recvState = "idle"
      BY <1>0, <2>2 DEF Handshake, Offsets
    <3>2. QED
      BY <1>9, <2>2, <3>1, InOrderFrame DEF WorkerResumeOk, WorkerRestart, TriggerRecv
  <2>3. QED
    BY <1>9, <2>1, <2>2 DEF WorkerResumeOk, WorkerRestart
<1>10. CASE \/ AcceptEarly \/ RejectOffer \/ WorkerPauseMsg \/ WorkerFileSent
            \/ WorkerDisconnected \/ WorkerStops
  BY <1>10, InOrderFrame
  DEF AcceptEarly, RejectOffer, WorkerPauseMsg, WorkerFileSent, WorkerDisconnected, WorkerStops
<1>11. CASE RecvOpen \/ RecvAbort \/ RecvComplete \/ RecvVerify \/ RecvGivesUp
  BY <1>11, InOrderFrame DEF RecvOpen, RecvAbort, RecvComplete, RecvVerify, RecvGivesUp, Fails
<1>12. CASE RecvUnit
  BY <1>0, <1>12, InOrderRecv
<1>13. CASE UNCHANGED vars
  BY <1>13, InOrderFrame DEF vars
<1>14. QED
  BY <1>1, <1>2, <1>3, <1>4, <1>5, <1>6, <1>7, <1>8, <1>9, <1>10, <1>11, <1>12, <1>13
  DEF Next, UserNext, ClientNext, SendNext, WorkerNext, RecvNext, Finished

-----------------------------------------------------------------------------
\* The announced hash

\* A step that posts nothing keeps the announced hash.
LEMMA HashAnnouncedFrame ==
  ASSUME HashAnnounced, OldToWorker, UNCHANGED hashRx,
         sendState = "finished" => UNCHANGED <<sendState, sendHash>>
  PROVE  HashAnnounced'
  BY DEF HashAnnounced, OldToWorker

\* A message that is no FILE_SENT keeps it too.
LEMMA HashAnnouncedPost ==
  ASSUME TypeOK, HashAnnounced, NEW m \in ToWorkerMsg, m.type # "FILE_SENT", PostToWorker(m),
         UNCHANGED hashRx, sendState = "finished" => UNCHANGED <<sendState, sendHash>>
  PROVE  HashAnnounced'
  BY WorkerQueueStep DEF HashAnnounced

\* Every step keeps the hashes under way those of the send task.
LEMMA HashAnnouncedNext ==
  ControlInv /\ ControlInv' /\ HashAnnounced /\ [Next]_vars => HashAnnounced'
<1> SUFFICES ASSUME ControlInv, ControlInv', HashAnnounced, [Next]_vars PROVE HashAnnounced'
  OBVIOUS
<1> USE DEF files, setup, wire, client, sendTask, worker, recvTask, counts
<1>0. TypeOK /\ TypeOK' /\ Handshake
  BY DEF ControlInv
<1>1. ASSUME NEW o \in Options, StartSession(o) PROVE HashAnnounced'
  BY <1>1 DEF StartSession, HashAnnounced
<1>2. CASE (\E f \in Sources : EditSource(f)) \/ UserCancel \/ LoseConnection
  BY <1>0, <1>2, WorkerQueueStep, HashAnnouncedFrame DEF EditSource, UserCancel, LoseConnection
<1>3. CASE UserPause \/ UserResume
  BY <1>0, <1>3, WorkerMessages, HashAnnouncedPost DEF UserPause, UserResume
<1>4. CASE SendFile
  <2>1. CASE UNCHANGED toWorker
    BY <1>0, <1>4, <2>1, WorkerQueueStep, HashAnnouncedFrame DEF SendFile
  <2>2. CASE PostToWorker([type |-> "METADATA", size |-> Len(src), resume |-> opts.resume,
                           checksum |-> opts.checksum])
    BY <1>0, <1>4, <2>2, MetadataMessage, HashAnnouncedPost DEF SendFile
  <2>3. QED
    BY <1>4, <2>1, <2>2 DEF SendFile
<1>5. CASE ClientReady
  BY <1>0, <1>5, ClientTriggers, WorkerQueueStep, HashAnnouncedFrame DEF ClientReady
<1>6. CASE ClientResumeReady
  <2>1. sendState = "idle"
    BY <1>0, <1>6, ClientTriggers
  <2>2. CASE UNCHANGED toWorker
    BY <1>0, <1>6, <2>1, <2>2, WorkerQueueStep, HashAnnouncedFrame DEF ClientResumeReady
  <2>3. ASSUME NEW t \in {"RESUME_OK", "RESTART_FROM_ZERO"}, PostToWorker([type |-> t])
        PROVE  HashAnnounced'
    BY <1>0, <1>6, <2>1, <2>3, WorkerMessages, HashAnnouncedPost DEF ClientResumeReady
  <2>4. QED
    BY <1>6, <2>2, <2>3 DEF ClientResumeReady
<1>7. CASE ClientVerdict \/ ClientDisconnected \/ ClientStops
  BY <1>0, <1>7, WorkerQueueStep, HashAnnouncedFrame
  DEF ClientVerdict, ClientDisconnected, ClientStops
<1>8. CASE SendOpen \/ SendUnit \/ SendFails
  BY <1>0, <1>8, WorkerQueueStep, HashAnnouncedFrame DEF SendOpen, SendUnit, SendFails
<1>9. CASE SendFinish
  <2> DEFINE m == [type |-> "FILE_SENT", hash |-> sendHash']
  <2>1. m \in ToWorkerMsg
    BY <1>0, WorkerMessages DEF TypeOK
  <2>2. /\ PostToWorker(m) /\ UNCHANGED hashRx /\ sendState = "sending" /\ sendState' = "finished"
    BY <1>9 DEF SendFinish
  <2>3. \A i \in DOMAIN toWorker' : toWorker'[i].type = "FILE_SENT" => toWorker'[i] = m
    BY <1>0, <2>1, <2>2, WorkerQueueStep DEF HashAnnounced
  <2>4. QED
    BY <2>2, <2>3 DEF HashAnnounced
<1>10. CASE WorkerNext
  <2>1. OldToWorker
    BY <1>0, <1>10, WorkerQueueStep
    DEF WorkerNext, WorkerMetadata, AcceptEarly, AcceptOffer, RejectOffer, WorkerResumeOk,
        WorkerRestart, WorkerPauseMsg, WorkerFileSent, WorkerDisconnected, WorkerStops
  <2>2. CASE WorkerFileSent
    <3>1. Head(toWorker).hash \in FileOrNone
      BY <1>0, <2>2, WorkerHead, WorkerFields DEF TypeOK, WorkerFileSent
    <3>2. sendState = "finished" /\ Head(toWorker).hash = sendHash
      BY <1>0, <2>2, Taken DEF TypeOK, WorkerFileSent, WorkerTakes, HashAnnounced
    <3>3. \A i \in DOMAIN hashRx' :
             \/ i \in DOMAIN hashRx /\ hashRx'[i] = hashRx[i]
             \/ hashRx'[i] = Head(toWorker).hash
      BY <1>0, <2>2, <3>1, Posted DEF TypeOK, WorkerFileSent
    <3>4. UNCHANGED <<sendState, sendHash>>
      BY <2>2 DEF WorkerFileSent
    <3>5. QED
      BY <2>1, <3>2, <3>3, <3>4 DEF HashAnnounced, OldToWorker
  <2>3. CASE ~WorkerFileSent
    BY <1>10, <2>1, <2>3, HashAnnouncedFrame
    DEF WorkerNext, WorkerMetadata, AcceptEarly, AcceptOffer, RejectOffer, WorkerResumeOk,
        WorkerRestart, WorkerPauseMsg, WorkerDisconnected, WorkerStops
  <2>4. QED
    BY <2>2, <2>3
<1>11. CASE RecvOpen \/ RecvUnit \/ RecvAbort \/ RecvComplete \/ RecvGivesUp
  BY <1>0, <1>11, WorkerQueueStep, HashAnnouncedFrame
  DEF RecvOpen, RecvUnit, RecvAbort, RecvComplete, RecvGivesUp
<1>12. CASE RecvVerify
  <2>1. OldToWorker /\ UNCHANGED <<sendState, sendHash>>
    BY <1>0, <1>12, WorkerQueueStep DEF RecvVerify
  <2>2. \A i \in DOMAIN hashRx' : i + 1 \in DOMAIN hashRx /\ hashRx'[i] = hashRx[i + 1]
    BY <1>0, <1>12, Taken DEF TypeOK, RecvVerify
  <2>3. QED
    BY <2>1, <2>2 DEF HashAnnounced, OldToWorker
<1>13. CASE UNCHANGED vars
  BY <1>0, <1>13, WorkerQueueStep, HashAnnouncedFrame DEF vars
<1>14. QED
  BY <1>1, <1>2, <1>3, <1>4, <1>5, <1>6, <1>7, <1>8, <1>9, <1>10, <1>11, <1>12, <1>13
  DEF Next, UserNext, ClientNext, SendNext, RecvNext, Finished

-----------------------------------------------------------------------------
\* The receiver's disk

\* A step that touches neither plan nor disk keeps what is on disk.
LEMMA OnDiskFrame ==
  ASSUME OnDisk, UNCHANGED <<part, dest, base, recvState, recvPlan, rcvd, recvHash, pendingRecv>>
  PROVE  OnDisk'
  BY DEF OnDisk, Resumable, Written, Target, RecvPos

\* What an accepted offer resumes from is on disk.
LEMMA OnDiskAccept ==
  ASSUME TypeOK, OnDisk, Unanswered, UNCHANGED <<dest, base>>,
         NEW o \in Offer, NEW c \in BOOLEAN, NEW r \in BOOLEAN, HandleAccept(o, c, r)
  PROVE  OnDisk'
<1>1. /\ part = base.part /\ dest = base.dest /\ recvState = "idle" /\ pendingRecv = None
  BY DEF OnDisk, Unanswered
<1>2. ASSUME pendingRecv' # None, Resumable(pendingRecv)', UNCHANGED recvTask PROVE OnDisk'
  BY <1>1, <1>2 DEF OnDisk, recvTask
<1>3. CASE ResumesPart(o, c) /\ pendingRecv' \in Plan
  <2>1. Resumable(pendingRecv)'
    BY <1>1, <1>3 DEF ResumesPart, PlanOf, Resumable
  <2>2. QED
    BY <1>2, <1>3, <2>1, NoneAssumption DEF ResumesPart
<1>4. CASE ResumesDest(o, c) /\ pendingRecv' \in Plan
  <2>1. Resumable(pendingRecv)'
    BY <1>1, <1>4 DEF ResumesDest, PlanOf, Resumable
  <2>2. QED
    BY <1>2, <1>4, <2>1, NoneAssumption DEF ResumesDest
<1>5. CASE StartsAfresh(o, c)
  BY <1>1, <1>5 DEF StartsAfresh, TriggerRecv, PlanOf, OnDisk, Resumable
<1>6. QED
  BY <1>3, <1>4, <1>5, HandleAcceptCases

\* What is resumed from stands at the beginning of the target.
LEMMA OnDiskOpen ==
  ASSUME ControlInv, InOrder, OnDisk, RecvOpen
  PROVE  OnDisk'
<1>1. /\ recvPlan \in Plan /\ pendingRecv = None /\ rcvd = <<>> /\ Len(rcvd) = 0
      /\ recvPlan.size \in Nat /\ recvPlan.offset \in Nat /\ recvPlan.usePart \in BOOLEAN
  BY EmptySeq DEF ControlInv, TypeOK, Handshake, Offsets, RecvOpen, InOrder, Plan
<1>2. UNCHANGED <<base, recvPlan, rcvd, pendingRecv>>
  BY DEF RecvOpen, setup
<1>3. CASE Fails("Etc")
  BY <1>1, <1>2, <1>3 DEF Fails, OnDisk
<1>4. CASE recvState' = "receiving" /\ recvPlan.offset = 0 /\ SetTarget(<<>>)
  <2>1. Target' = <<>>
    BY <1>1, <1>2, <1>4 DEF SetTarget, Target
  <2>2. <<>> # None /\ Len(<<>>) = 0
    BY EmptySeq, NoneAssumption
  <2>3. Written'
    BY <1>1, <1>2, <1>4, <2>1, <2>2 DEF Written, RecvPos
  <2>4. QED
    BY <1>1, <1>2, <1>4, <2>3 DEF OnDisk
<1>5. CASE recvState' = "receiving" /\ recvPlan.offset > 0 /\ UNCHANGED <<part, dest>>
  <2>1. Resumable(recvPlan)
    BY DEF OnDisk, RecvOpen
  <2>2. Written
    <3>1. CASE /\ recvPlan.usePart /\ base.part # None /\ recvPlan.offset <= Len(base.part)
               /\ part = SubSeq(base.part, 1, recvPlan.offset) /\ recvPlan.offset <= recvPlan.size
      <4>1. base.part \in File
        BY <3>1 DEF ControlInv, TypeOK, FileOrNone
      <4>2. /\ part \in File /\ Len(part) = recvPlan.offset
            /\ \A i \in 1..recvPlan.offset : part[i] = base.part[i]
        BY <1>1, <3>1, <4>1, CutType
      <4>3. part # None
        BY <4>2, NoneAssumption DEF File
      <4>4. Target = part /\ RecvPos = recvPlan.offset
        BY <1>1, <3>1 DEF Target, RecvPos
      <4>5. QED
        BY <1>1, <3>1, <4>2, <4>3, <4>4 DEF Written
    <3>2. CASE /\ ~recvPlan.usePart /\ recvPlan.offset = recvPlan.size
               /\ base.part = None /\ base.dest # None /\ Len(base.dest) = recvPlan.size
               /\ dest = base.dest
      <4>1. Target = dest /\ RecvPos = recvPlan.offset
        BY <1>1, <3>2 DEF Target, RecvPos
      <4>2. QED
        BY <1>1, <3>2, <4>1 DEF Written
    <3>3. QED
      BY <1>5, <2>1, <3>1, <3>2 DEF Resumable
  <2>3. Written'
    BY <1>2, <1>5, <2>2 DEF Written, Target, RecvPos
  <2>4. QED
    BY <1>1, <1>2, <1>5, <2>3 DEF OnDisk
<1>6. QED
  BY <1>1, <1>3, <1>4, <1>5 DEF RecvOpen

\* A unit is written behind the units received before it.
LEMMA OnDiskUnit ==
  ASSUME ControlInv, OnDisk, RecvUnit
  PROVE  OnDisk'
<1> DEFINE u == Head(fileStream)
<1>1. /\ recvPlan \in Plan /\ pendingRecv = None
      /\ recvPlan.size \in Nat /\ recvPlan.offset \in Nat /\ recvPlan.usePart \in BOOLEAN
  BY DEF ControlInv, TypeOK, Handshake, Offsets, RecvUnit, Plan
<1>2. /\ UNCHANGED <<base, recvPlan, pendingRecv, recvState>> /\ recvState = "receiving"
  BY DEF RecvUnit, setup, worker
<1>3. Written
  BY DEF OnDisk, RecvUnit
<1>4. Target \in Seq(Units) /\ u \in Units /\ rcvd \in Seq(Units)
  BY TargetType, HeadTailProperties DEF ControlInv, TypeOK, RecvUnit, File
<1>5. /\ Len(Target) \in Nat /\ Len(rcvd) \in Nat /\ Len(Target) = recvPlan.offset + Len(rcvd)
  BY <1>3, <1>4, LenProperties DEF Written, RecvPos
<1>6. /\ Len(Append(Target, u)) = Len(Target) + 1 /\ Append(Target, u)[Len(Target) + 1] = u
      /\ \A i \in 1..Len(Target) : Append(Target, u)[i] = Target[i]
      /\ Append(Target, u) # None
  BY <1>4, AppendProperties, NoneAssumption
<1>7. /\ Len(rcvd') = Len(rcvd) + 1 /\ rcvd'[Len(rcvd) + 1] = u
      /\ \A i \in 1..Len(rcvd) : rcvd'[i] = rcvd[i]
  BY <1>4, AppendProperties DEF RecvUnit
<1>8. Target' = Append(Target, u)
  BY <1>1, <1>2 DEF RecvUnit, SetTarget, Target
<1>9. RecvPos' = RecvPos + 1 /\ RecvPos < recvPlan.size /\ RecvPos \in Nat
  <2>1. RecvPos < recvPlan.size
    BY DEF RecvUnit
  <2>2. RecvPos' = RecvPos + 1 /\ RecvPos \in Nat
    BY <1>1, <1>2, <1>5, <1>7 DEF RecvPos
  <2>3. QED
    BY <2>1, <2>2
<1>10. ASSUME NEW i \in 1..Len(rcvd') PROVE Target'[recvPlan.offset + i] = rcvd'[i]
  <2>1. CASE i <= Len(rcvd)
    <3>1. i \in 1..Len(rcvd) /\ recvPlan.offset + i \in 1..Len(Target)
      BY <1>1, <1>5, <1>7, <2>1
    <3>2. Target[recvPlan.offset + i] = rcvd[i]
      BY <1>3, <3>1 DEF Written
    <3>3. QED
      BY <1>6, <1>7, <1>8, <3>1, <3>2
  <2>2. CASE i = Len(rcvd) + 1
    <3>1. recvPlan.offset + i = Len(Target) + 1
      BY <1>1, <1>5, <2>2
    <3>2. QED
      BY <1>6, <1>7, <1>8, <2>2, <3>1
  <2>3. QED
    BY <1>5, <1>7, <2>1, <2>2
<1>11. ASSUME recvPlan.offset > 0
       PROVE  /\ recvPlan.usePart /\ base.part # None /\ recvPlan.offset <= Len(base.part)
              /\ \A i \in 1..recvPlan.offset : Target'[i] = base.part[i]
  <2>1. ~(recvPlan.offset = recvPlan.size)
    BY <1>1, <1>5, <1>9 DEF RecvPos
  <2>2. /\ recvPlan.usePart /\ base.part # None /\ recvPlan.offset <= Len(base.part)
        /\ \A i \in 1..recvPlan.offset : Target[i] = base.part[i]
    BY <1>3, <1>11, <2>1 DEF Written
  <2>3. \A i \in 1..recvPlan.offset : i \in 1..Len(Target)
    BY <1>1, <1>5
  <2>4. QED
    BY <1>6, <1>8, <2>2, <2>3
<1>12. /\ Target' # None /\ Len(Target') = RecvPos' /\ RecvPos' <= recvPlan.size
  BY <1>1, <1>5, <1>6, <1>8, <1>9 DEF RecvPos
<1>13. Written'
  BY <1>2, <1>10, <1>11, <1>12 DEF Written
<1>14. QED
  BY <1>1, <1>2, <1>13 DEF OnDisk

\* The digest of a complete file is that of the file on disk.
LEMMA OnDiskComplete ==
  ASSUME ControlInv, OnDisk, RecvComplete
  PROVE  OnDisk'
<1>1. /\ recvPlan \in Plan /\ pendingRecv = None
      /\ recvPlan.size \in Nat /\ recvPlan.offset \in Nat
  BY DEF ControlInv, TypeOK, Handshake, Offsets, RecvComplete, Plan
<1>2. /\ UNCHANGED <<part, dest, base, recvPlan, rcvd, pendingRecv>>
      /\ recvState' = "awaitHash"
  BY DEF RecvComplete, setup, files, worker
<1>3. Written
  BY DEF OnDisk, RecvComplete
<1>4. Target \in Seq(Units) /\ rcvd \in Seq(Units) /\ Len(rcvd) \in Nat
  BY TargetType, LenProperties DEF ControlInv, TypeOK, RecvComplete, File
<1>5. RecvPos = recvPlan.size
  BY <1>1, <1>3, <1>4 DEF Written, RecvComplete, RecvPos
<1>6. recvPlan.offset = 0 => rcvd = Target
  <2>1. SUFFICES ASSUME recvPlan.offset = 0 PROVE rcvd = Target
    OBVIOUS
  <2>2. Len(Target) = Len(rcvd)
    BY <1>3, <1>4, <2>1 DEF Written, RecvPos
  <2>3. ASSUME NEW i \in 1..Len(rcvd) PROVE Target[i] = rcvd[i]
    BY <1>3, <1>4, <2>1 DEF Written
  <2>4. QED
    BY <1>4, <2>2, <2>3, SeqEqual
<1>7. recvHash' \in {None, Target}
  BY <1>6 DEF RecvComplete, Digest
<1>8. Written' /\ UNCHANGED <<Target, RecvPos>>
  BY <1>2, <1>3 DEF Written, Target, RecvPos
<1>9. QED
  BY <1>1, <1>2, <1>5, <1>7, <1>8 DEF OnDisk

\* Every step keeps the target the resumed beginning followed by the received units.
LEMMA OnDiskNext == ControlInv /\ InOrder /\ OnDisk /\ [Next]_vars => OnDisk'
<1> SUFFICES ASSUME ControlInv, InOrder, OnDisk, [Next]_vars PROVE OnDisk'
  OBVIOUS
<1> USE DEF files, setup, wire, client, sendTask, worker, recvTask, counts
<1>0. TypeOK /\ Handshake
  BY DEF ControlInv
<1>1. ASSUME NEW o \in Options, StartSession(o) PROVE OnDisk'
  BY <1>1 DEF StartSession, OnDisk
<1>2. CASE \/ \E f \in Sources : EditSource(f)
           \/ UserPause \/ UserResume \/ UserCancel \/ LoseConnection
  BY <1>2, OnDiskFrame DEF EditSource, UserPause, UserResume, UserCancel, LoseConnection
<1>3. CASE ClientNext
  BY <1>3, OnDiskFrame DEF ClientNext, SendFile, ClientReady, ClientResumeReady, ClientVerdict,
     ClientDisconnected, ClientStops
<1>4. CASE SendNext
  BY <1>4, OnDiskFrame DEF SendNext, SendOpen, SendUnit, SendFinish, SendFails
<1>5. CASE WorkerMetadata
  <2>1. CASE UNCHANGED <<files, recvTask, pendingRecv>>
    BY <1>5, <2>1, OnDiskFrame DEF WorkerMetadata
  <2>2. ASSUME NEW c \in BOOLEAN, NEW r \in BOOLEAN, HandleAccept(OfferOf(Head(toWorker)), c, r)
        PROVE  OnDisk'
    <3>1. Unanswered
      BY <1>0, <1>5, MetadataOffer DEF Handshake, StepMeans
    <3>2. OfferOf(Head(toWorker)) \in Offer /\ UNCHANGED <<dest, base>>
      BY <1>0, <1>5, MetadataOffer DEF WorkerMetadata
    <3>3. QED
      BY <1>0, <2>2, <3>1, <3>2, OnDiskAccept
  <2>3. QED
    BY <1>0, <1>5, <2>1, <2>2, MetadataOffer
<1>6. CASE AcceptOffer
  <2>1. PICK c, r \in BOOLEAN : HandleAccept(offered, c, r)
    BY <1>0, <1>6, AcceptArguments
  <2>2. offered \in Offer /\ Unanswered /\ UNCHANGED <<dest, base>>
    BY <1>0, <1>6 DEF AcceptOffer, TypeOK, Handshake, Offsets
  <2>3. QED
    BY <1>0, <2>1, <2>2, OnDiskAccept
<1>7. CASE WorkerResumeOk
  <2>1. CASE pendingRecv = None
    BY <1>7, <2>1, OnDiskFrame DEF WorkerResumeOk
  <2>2. CASE pendingRecv # None
    BY <1>7, <2>2 DEF WorkerResumeOk, TriggerRecv, OnDisk, Resumable
  <2>3. QED
    BY <2>1, <2>2
<1>8. CASE WorkerRestart
  <2>1. CASE pendingRecv = None
    BY <1>8, <2>1, OnDiskFrame DEF WorkerRestart
  <2>2. CASE pendingRecv # None
    <3>1. Restarted(pendingRecv).offset = 0
      BY <1>0, <2>2 DEF TypeOK, Restarted, Plan
    <3>2. QED
      BY <1>8, <2>2, <3>1 DEF WorkerRestart, TriggerRecv, OnDisk, Resumable
  <2>3. QED
    BY <2>1, <2>2
<1>9. CASE \/ AcceptEarly \/ RejectOffer \/ WorkerPauseMsg \/ WorkerFileSent
           \/ WorkerDisconnected \/ WorkerStops
  BY <1>9, OnDiskFrame
  DEF AcceptEarly, RejectOffer, WorkerPauseMsg, WorkerFileSent, WorkerDisconnected, WorkerStops
<1>10. CASE RecvAbort \/ RecvVerify \/ RecvGivesUp
  <2>1. pendingRecv = None /\ UNCHANGED pendingRecv
    BY <1>0, <1>10 DEF Handshake, Offsets, RecvAbort, RecvVerify, RecvGivesUp
  <2>2. recvState' \in {"done", "failed"}
    BY <1>10 DEF RecvAbort, RecvVerify, RecvGivesUp, Fails
  <2>3. QED
    BY <2>1, <2>2 DEF OnDisk
<1>11. CASE RecvOpen \/ RecvUnit \/ RecvComplete
  BY <1>11, OnDiskOpen, OnDiskUnit, OnDiskComplete
<1>12. CASE UNCHANGED vars
  BY <1>12, OnDiskFrame DEF vars
<1>13. QED
  BY <1>1, <1>2, <1>3, <1>4, <1>5, <1>6, <1>7, <1>8, <1>9, <1>10, <1>11, <1>12
  DEF Next, UserNext, WorkerNext, RecvNext, Finished

-----------------------------------------------------------------------------
\* The verdict

\* A verified transfer puts the source at the destination, if the digests were
\* compared or the bytes resumed from were the source's.
LEMMA CommitDelivers ==
  ASSUME ControlInv, Transfer, RecvVerify, HashOk(Head(hashRx)), ~edited, Compared \/ Honest
  PROVE  Target = src
<1>1. /\ recvPlan \in Plan /\ recvPlan.size \in Nat /\ recvPlan.offset \in Nat
      /\ recvState = "awaitHash" /\ recvPlan.size = Len(src)
  BY DEF ControlInv, TypeOK, Handshake, Offsets, RecvVerify, Plan, Transfer, SizeKnown
<1>2. Written /\ RecvPos = recvPlan.size /\ recvHash \in {None, Target}
  BY <1>1 DEF Transfer, OnDisk
<1>3. sendState = "finished" /\ Head(hashRx) = sendHash /\ sendHash \in {None, src}
  <2>1. hashRx # <<>> /\ hashRx \in Seq(FileOrNone)
    BY DEF RecvVerify, ControlInv, TypeOK
  <2>2. 1 \in DOMAIN hashRx /\ Head(hashRx) = hashRx[1]
    BY <2>1, Taken
  <2>3. QED
    BY <2>2 DEF Transfer, HashAnnounced, SentFromSource
<1>4. CASE Compared
  BY <1>2, <1>3, <1>4 DEF Compared, HashOk
<1>5. CASE Honest
  <2>1. /\ Target \in Seq(Units) /\ src \in Seq(Units)
        /\ Len(rcvd) \in Nat /\ Len(sent) \in Nat /\ Len(fileStream) \in Nat
    BY <1>1, TargetType, ConstantsAssumption, LenProperties DEF ControlInv, TypeOK, File
  <2>2. Len(Target) = Len(src) /\ Len(src) = recvPlan.offset + Len(rcvd)
    BY <1>1, <1>2 DEF Written, RecvPos
  <2>3. sendOffset = recvPlan.offset
    BY <1>1, <1>3 DEF ControlInv, Handshake, Offsets
  <2>4. Len(sent) = Len(rcvd) + Len(fileStream)
    BY DEF Transfer, InOrder
  <2>5. ASSUME NEW k \in 1..Len(rcvd) PROVE Target[recvPlan.offset + k] = src[recvPlan.offset + k]
    <3>1. Target[recvPlan.offset + k] = rcvd[k]
      BY <1>2 DEF Written
    <3>2. rcvd[k] = sent[k] /\ k \in 1..Len(sent)
      BY <2>1, <2>4 DEF Transfer, InOrder
    <3>3. sent[k] = src[sendOffset + k]
      BY <3>2 DEF Transfer, SentFromSource
    <3>4. QED
      BY <2>3, <3>1, <3>2, <3>3
  <2>6. CASE recvPlan.offset = 0
    <3>1. \A i \in 1..Len(Target) : Target[i] = src[i]
      BY <2>1, <2>2, <2>5, <2>6
    <3>2. QED
      BY <2>1, <2>2, <3>1, SeqEqual
  <2>7. CASE /\ recvPlan.usePart /\ base.part # None /\ recvPlan.offset <= Len(base.part)
             /\ \A i \in 1..recvPlan.offset : Target[i] = base.part[i]
    <3>1. Len(base.part) <= Len(src) /\ base.part = SubSeq(src, 1, Len(base.part))
      BY <1>5, <2>7 DEF Honest, IsPrefixOf
    <3>2. Len(base.part) \in Nat
      BY <2>7, LenProperties DEF ControlInv, TypeOK, FileOrNone, File
    <3>3. \A i \in 1..Len(base.part) : base.part[i] = src[i]
      BY <2>1, <3>1, <3>2, CutType DEF File
    <3>4. ASSUME NEW i \in 1..Len(Target) PROVE Target[i] = src[i]
      <4>1. CASE i <= recvPlan.offset
        BY <1>1, <2>7, <3>2, <3>3, <4>1
      <4>2. CASE i > recvPlan.offset
        <5>1. i - recvPlan.offset \in 1..Len(rcvd) /\ recvPlan.offset + (i - recvPlan.offset) = i
          BY <1>1, <2>1, <2>2, <4>2
        <5>2. QED
          BY <2>5, <5>1
      <4>3. QED
        BY <1>1, <2>2, <4>1, <4>2
    <3>5. QED
      BY <2>1, <2>2, <3>4, SeqEqual
  <2>8. CASE /\ ~recvPlan.usePart /\ base.part = None /\ base.dest # None
             /\ Len(base.dest) = recvPlan.size /\ dest = base.dest
    BY <1>1, <1>5, <2>8 DEF Honest, Target
  <2>9. QED
    BY <1>1, <1>2, <2>6, <2>7, <2>8 DEF Written
<1>6. QED
  BY <1>4, <1>5

\* A step that brings no good verdict keeps the committed file.
LEMMA CommittedFrame ==
  ASSUME Committed, OldToClient,
         (recvState' = "done") <=> (recvState = "done"),
         recvState' = "done" => UNCHANGED <<sendState, sendHash, recvHash, dest>>,
         UNCHANGED <<opts, base>>, edited' \/ UNCHANGED <<src, edited>>,
         cliResult' = "Completed" => cliResult = "Completed"
  PROVE  Committed'
  BY DEF Committed, OldToClient, Compared, Honest

\* Posting something else than the good verdict.
LEMMA CommittedPost ==
  ASSUME TypeOK, Committed, NEW m \in ToClientMsg, m.type # "RECEIVED_FILE:OK", PostToClient(m),
         recvState # "done", recvState' # "done", cliResult' = cliResult
  PROVE  Committed'
  BY ClientQueueStep DEF Committed

\* Nothing is committed when an offer is accepted.
LEMMA CommittedAccept ==
  ASSUME TypeOK, Committed, Unanswered, UNCHANGED cliResult,
         NEW o \in Offer, NEW c \in BOOLEAN, NEW r \in BOOLEAN, HandleAccept(o, c, r)
  PROVE  Committed'
<1>1. CASE /\ pendingRecv' \in Plan /\ UNCHANGED recvTask
           /\ \E h \in FileOrNone :
                 PostToClient([type |-> "RESUME_READY", offset |-> pendingRecv'.offset,
                               prefixHash |-> h])
  BY <1>1, ClientMessages, CommittedPost DEF Unanswered, recvTask, Plan
<1>2. CASE StartsAfresh(o, c)
  BY <1>2, ClientMessages, CommittedPost DEF StartsAfresh, TriggerRecv, Unanswered
<1>3. QED
  BY <1>1, <1>2, HandleAcceptCases DEF ResumesPart, ResumesDest

\* A bad verdict commits nothing.
LEMMA CommittedFails ==
  ASSUME TypeOK, Committed, recvState # "done", NEW r, Fails(r), UNCHANGED cliResult
  PROVE  Committed'
  BY ClientMessages, CommittedPost DEF Fails

\* Every step keeps a good verdict backed by a committed file.
LEMMA CommittedNext == ControlInv /\ Transfer /\ [Next]_vars => Committed'
<1> SUFFICES ASSUME ControlInv, Transfer, [Next]_vars PROVE Committed'
  OBVIOUS
<1> USE DEF files, setup, wire, client, sendTask, worker, recvTask, counts
<1>0. TypeOK /\ Handshake /\ Committed
  BY DEF ControlInv, Transfer
<1>1. ASSUME NEW o \in Options, StartSession(o) PROVE Committed'
  BY <1>1 DEF StartSession, Committed
<1>2. ASSUME NEW f \in Sources, EditSource(f) PROVE Committed'
  BY <1>0, <1>2, ClientQueueStep, CommittedFrame DEF EditSource
<1>3. CASE UserPause \/ UserResume \/ UserCancel \/ LoseConnection
  BY <1>0, <1>3, ClientQueueStep, CommittedFrame
  DEF UserPause, UserResume, UserCancel, LoseConnection
<1>4. CASE SendFile
  BY <1>0, <1>4, ClientQueueStep, CommittedFrame DEF SendFile
<1>5. CASE ClientReady \/ ClientResumeReady
  <2>1. recvState # "done"
    BY <1>0, <1>5, ClientTriggers DEF Committed
  <2>2. QED
    BY <1>0, <1>5, <2>1, ClientQueueStep, CommittedFrame DEF ClientReady, ClientResumeReady
<1>6. CASE ClientVerdict
  <2>1. OldToClient /\ UNCHANGED <<src, dest, opts, base, sendTask, recvTask, edited>>
    BY <1>0, <1>6, ClientQueueStep DEF ClientVerdict
  <2>2. cliResult' = "Completed" => cliResult = "Completed" \/ recvState = "done"
    <3>1. CASE ClientTakes("RECEIVED_FILE:OK")
      BY <1>0, <3>1, Taken DEF TypeOK, ClientTakes, Committed
    <3>2. CASE CliEvent("HashFailed") \/ CliEvent("RejectedUnwanted")
      BY <3>2 DEF CliEvent
    <3>3. QED
      BY <1>6, <3>1, <3>2 DEF ClientVerdict
  <2>3. QED
    BY <1>0, <2>1, <2>2 DEF Committed, OldToClient, Compared, Honest
<1>7. CASE ClientDisconnected \/ ClientStops
  BY <1>0, <1>7, ClientQueueStep, CommittedFrame DEF ClientDisconnected, ClientStops, CliEvent
<1>8. CASE SendNext
  <2>1. recvState # "done" \/ sendState = "finished"
    BY <1>0 DEF Committed
  <2>2. UNCHANGED <<recvTask, dest, src, edited, opts, base>> /\ OldToClient
    BY <1>0, <1>8, ClientQueueStep DEF SendNext, SendOpen, SendUnit, SendFinish, SendFails
  <2>3. cliResult' = "Completed" => cliResult = "Completed"
    BY <1>8 DEF SendNext, SendOpen, SendUnit, SendFinish, SendFails, CliEvent
  <2>4. sendState = "finished" => UNCHANGED <<sendState, sendHash>>
    BY <1>8 DEF SendNext, SendOpen, SendUnit, SendFinish, SendFails
  <2>5. QED
    BY <1>0, <2>1, <2>2, <2>3, <2>4, CommittedFrame
<1>9. CASE WorkerMetadata
  <2>1. CASE UNCHANGED <<files, recvTask, pendingRecv, toClient>>
    BY <1>0, <1>9, <2>1, ClientQueueStep, CommittedFrame DEF WorkerMetadata
  <2>2. ASSUME NEW c \in BOOLEAN, NEW r \in BOOLEAN, HandleAccept(OfferOf(Head(toWorker)), c, r)
        PROVE  Committed'
    <3>1. Unanswered
      BY <1>0, <1>9, MetadataOffer DEF Handshake, StepMeans
    <3>2. OfferOf(Head(toWorker)) \in Offer /\ UNCHANGED cliResult
      BY <1>0, <1>9, MetadataOffer DEF WorkerMetadata
    <3>3. QED
      BY <1>0, <2>2, <3>1, <3>2, CommittedAccept
  <2>3. QED
    BY <1>0, <1>9, <2>1, <2>2, MetadataOffer
<1>10. CASE AcceptOffer
  <2>1. PICK c, r \in BOOLEAN : HandleAccept(offered, c, r)
    BY <1>0, <1>10, AcceptArguments
  <2>2. offered \in Offer /\ Unanswered /\ UNCHANGED cliResult
    BY <1>0, <1>10 DEF AcceptOffer, TypeOK, Handshake, Offsets
  <2>3. QED
    BY <1>0, <2>1, <2>2, CommittedAccept
<1>11. CASE RejectOffer
  <2>1. recvState # "done"
    BY <1>0, <1>11 DEF RejectOffer, Handshake, Offsets, Unanswered
  <2>2. QED
    BY <1>0, <1>11, <2>1, ClientMessages, CommittedPost DEF RejectOffer
<1>12. CASE WorkerResumeOk
  <2>1. CASE pendingRecv = None
    BY <1>0, <1>12, <2>1, ClientQueueStep, CommittedFrame DEF WorkerResumeOk
  <2>2. CASE pendingRecv # None
    <3>1. recvState = "idle"
      BY <1>0, <2>2 DEF Handshake, Offsets
    <3>2. QED
      BY <1>0, <1>12, <2>2, <3>1, ClientQueueStep, CommittedFrame DEF WorkerResumeOk, TriggerRecv
  <2>3. QED
    BY <2>1, <2>2
<1>13. CASE WorkerRestart
  <2>1. CASE pendingRecv = None
    BY <1>0, <1>13, <2>1, ClientQueueStep, CommittedFrame DEF WorkerRestart
  <2>2. CASE pendingRecv # None
    <3>1. recvState = "idle"
      BY <1>0, <2>2 DEF Handshake, Offsets
    <3>2. QED
      BY <1>0, <1>13, <2>2, <3>1, ClientMessages, CommittedPost DEF WorkerRestart, TriggerRecv
  <2>3. QED
    BY <2>1, <2>2
<1>14. CASE AcceptEarly \/ WorkerPauseMsg \/ WorkerFileSent \/ WorkerDisconnected \/ WorkerStops
  BY <1>0, <1>14, ClientQueueStep, CommittedFrame
  DEF AcceptEarly, WorkerPauseMsg, WorkerFileSent, WorkerDisconnected, WorkerStops
<1>15. CASE RecvOpen \/ RecvUnit \/ RecvAbort \/ RecvComplete \/ RecvGivesUp
  <2>1. recvState # "done" /\ recvState' # "done" /\ UNCHANGED cliResult
    BY <1>15 DEF RecvOpen, RecvUnit, RecvAbort, RecvComplete, RecvGivesUp, Fails
  <2>2. CASE \E r \in Results : Fails(r)
    BY <1>0, <2>1, <2>2, CommittedFails
  <2>3. CASE UNCHANGED toClient
    BY <2>1, <2>3, <1>0 DEF Committed
  <2>4. QED
    BY <1>15, <2>2, <2>3 DEF RecvOpen, RecvUnit, RecvAbort, RecvComplete, RecvGivesUp, Results
<1>16. CASE RecvVerify
  <2>1. CASE recvState' = "done"
    <3>1. /\ HashOk(Head(hashRx)) /\ UNCHANGED <<cliResult, src, edited, opts, base, sendTask, recvHash>>
          /\ IF recvPlan.usePart THEN dest' = part ELSE UNCHANGED dest
      BY <1>16, <2>1 DEF RecvVerify, Fails
    <3>2. dest' = Target
      <4>1. ~recvPlan.usePart => dest' = dest
        BY <3>1
      <4>2. QED
        BY <3>1, <4>1 DEF Target
    <3>3. sendState = "finished"
      <4>1. hashRx # <<>> /\ hashRx \in Seq(FileOrNone)
        BY <1>0, <1>16 DEF RecvVerify, TypeOK
      <4>2. QED
        BY <4>1, Taken DEF Transfer, HashAnnounced
    <3>4. ~edited /\ (Compared \/ Honest) => Target = src
      BY <1>16, <3>1, CommitDelivers
    <3>5. UNCHANGED <<Compared, Honest>>
      BY <3>1 DEF Compared, Honest
    <3>6. QED
      BY <2>1, <3>1, <3>2, <3>3, <3>4, <3>5 DEF Committed
  <2>2. CASE recvState' # "done"
    <3>1. \E r \in Results : Fails(r)
      BY <1>16, <2>2 DEF RecvVerify, Results
    <3>2. recvState # "done" /\ UNCHANGED cliResult
      BY <1>16 DEF RecvVerify
    <3>3. QED
      BY <1>0, <3>1, <3>2, CommittedFails
  <2>3. QED
    BY <2>1, <2>2
<1>17. CASE UNCHANGED vars
  BY <1>0, <1>17, ClientQueueStep, CommittedFrame DEF vars
<1>18. QED
  BY <1>1, <1>2, <1>3, <1>4, <1>5, <1>6, <1>7, <1>8, <1>9, <1>10, <1>11, <1>12, <1>13, <1>14, <1>15,
     <1>16, <1>17
  DEF Next, UserNext, ClientNext, WorkerNext, RecvNext, Finished

-----------------------------------------------------------------------------
\* Staging

\* A step that leaves the destination alone keeps the staging.
LEMMA StagedFrame ==
  ASSUME Staged, OldToWorker, offered' \in {offered, None},
         UNCHANGED <<src, dest, edited, opts, base, pendingRecv, recvPlan>>,
         (recvState' = "idle") <=> (recvState = "idle"),
         recvState = "done" => recvState' = "done"
  PROVE  Staged'
  BY DEF Staged, OldToWorker

\* So does a METADATA that carries the wish of the options.
LEMMA StagedPost ==
  ASSUME TypeOK, Staged, NEW m \in ToWorkerMsg, m.type = "METADATA" /\ ~opts.resume => ~m.resume,
         PostToWorker(m),
         UNCHANGED <<src, dest, edited, opts, base, offered, pendingRecv, recvPlan, recvState>>
  PROVE  Staged'
  BY WorkerQueueStep DEF Staged

\* An offer that does not ask to resume starts afresh.
LEMMA StagedAccept ==
  ASSUME TypeOK, Staged, SizeKnown, OnDisk, Unanswered, OldToWorker,
         offered' \in {offered, None}, UNCHANGED <<src, dest, edited, opts, base>>,
         NEW o \in Offer, NEW c \in BOOLEAN, NEW r \in BOOLEAN, HandleAccept(o, c, r),
         ~edited => o.size = Len(src), ~edited /\ ~opts.resume => ~o.resume
  PROVE  Staged'
<1>1. CASE ResumesPart(o, c) \/ ResumesDest(o, c)
  BY <1>1 DEF ResumesPart, ResumesDest, Staged
<1>2. CASE StartsAfresh(o, c)
  BY <1>2 DEF StartsAfresh, TriggerRecv, PlanOf, Staged, OldToWorker, Unanswered
<1>3. QED
  BY <1>1, <1>2, HandleAcceptCases

\* Every step keeps a large file that is not resumed in its part file.
LEMMA StagedNext == ControlInv /\ ControlInv' /\ Transfer /\ [Next]_vars => Staged'
<1> SUFFICES ASSUME ControlInv, ControlInv', Transfer, [Next]_vars PROVE Staged'
  OBVIOUS
<1> USE DEF files, setup, wire, client, sendTask, worker, recvTask, counts
<1>0. TypeOK /\ TypeOK' /\ Handshake /\ Staged /\ SizeKnown /\ OnDisk
  BY DEF ControlInv, Transfer
<1>1. ASSUME NEW o \in Options, StartSession(o) PROVE Staged'
  BY <1>1 DEF StartSession, Staged
<1>2. ASSUME NEW f \in Sources, EditSource(f) PROVE Staged'
  BY <1>2 DEF EditSource, Staged
<1>3. CASE UserPause \/ UserResume
  BY <1>0, <1>3, WorkerMessages, StagedPost DEF UserPause, UserResume
<1>4. CASE UserCancel \/ LoseConnection \/ SendOpen \/ SendUnit \/ SendFails
  BY <1>0, <1>4, WorkerQueueStep, StagedFrame
  DEF UserCancel, LoseConnection, SendOpen, SendUnit, SendFails
<1>5. CASE SendFile
  <2>1. CASE UNCHANGED toWorker
    BY <1>0, <1>5, <2>1, WorkerQueueStep, StagedFrame DEF SendFile
  <2>2. CASE PostToWorker([type |-> "METADATA", size |-> Len(src), resume |-> opts.resume,
                           checksum |-> opts.checksum])
    BY <1>0, <1>5, <2>2, MetadataMessage, StagedPost DEF SendFile
  <2>3. QED
    BY <1>5, <2>1, <2>2 DEF SendFile
<1>6. CASE ClientReady \/ ClientVerdict \/ ClientDisconnected \/ ClientStops
  BY <1>0, <1>6, WorkerQueueStep, StagedFrame
  DEF ClientReady, ClientVerdict, ClientDisconnected, ClientStops
<1>7. CASE ClientResumeReady
  <2>1. CASE UNCHANGED toWorker
    BY <1>0, <1>7, <2>1, WorkerQueueStep, StagedFrame DEF ClientResumeReady
  <2>2. ASSUME NEW t \in {"RESUME_OK", "RESTART_FROM_ZERO"}, PostToWorker([type |-> t])
        PROVE  Staged'
    BY <1>0, <1>7, <2>2, WorkerMessages, StagedPost DEF ClientResumeReady
  <2>3. QED
    BY <1>7, <2>1, <2>2 DEF ClientResumeReady
<1>8. CASE SendFinish
  <2>1. [type |-> "FILE_SENT", hash |-> sendHash'] \in ToWorkerMsg
    BY <1>0, WorkerMessages DEF TypeOK
  <2>2. QED
    BY <1>0, <1>8, <2>1, StagedPost DEF SendFinish
<1>9. CASE WorkerMetadata
  <2> DEFINE o == OfferOf(Head(toWorker))
  <2>1. /\ ~edited => o.size = Len(src)
        /\ ~edited /\ ~opts.resume => ~o.resume
        /\ UNCHANGED <<src, dest, edited, opts, base>> /\ OldToWorker
    BY <1>0, <1>9, MetadataOffer, WorkerQueueStep DEF SizeKnown, Staged, OfferOf, WorkerMetadata
  <2>2. ASSUME NEW c \in BOOLEAN, NEW r \in BOOLEAN, HandleAccept(o, c, r), UNCHANGED offered
        PROVE  Staged'
    <3>1. Unanswered
      BY <1>0, <1>9, MetadataOffer DEF Handshake, StepMeans
    <3>2. QED
      BY <1>0, <1>9, <2>1, <2>2, <3>1, MetadataOffer, StagedAccept
  <2>3. CASE offered' = o /\ UNCHANGED <<recvTask, pendingRecv>>
    BY <1>0, <2>1, <2>3 DEF Staged, OldToWorker
  <2>4. QED
    BY <1>0, <1>9, <2>2, <2>3, MetadataOffer
<1>10. CASE AcceptOffer
  <2>1. PICK c, r \in BOOLEAN : HandleAccept(offered, c, r)
    BY <1>0, <1>10, AcceptArguments
  <2>2. /\ offered \in Offer /\ Unanswered /\ OldToWorker
        /\ (~edited => offered.size = Len(src)) /\ (~edited /\ ~opts.resume => ~offered.resume)
    BY <1>0, <1>10, WorkerQueueStep DEF AcceptOffer, TypeOK, Handshake, Offsets, SizeKnown, Staged
  <2>3. UNCHANGED <<src, dest, edited, opts, base>> /\ offered' \in {offered, None}
    BY <1>10 DEF AcceptOffer
  <2>4. QED
    BY <1>0, <2>1, <2>2, <2>3, StagedAccept
<1>11. CASE AcceptEarly \/ RejectOffer \/ WorkerPauseMsg \/ WorkerFileSent \/ WorkerDisconnected
            \/ WorkerStops
  BY <1>0, <1>11, WorkerQueueStep, StagedFrame
  DEF AcceptEarly, RejectOffer, WorkerPauseMsg, WorkerFileSent, WorkerDisconnected, WorkerStops
<1>12. CASE WorkerResumeOk \/ WorkerRestart
  <2>1. OldToWorker
    BY <1>0, <1>12, WorkerQueueStep DEF WorkerResumeOk, WorkerRestart
  <2>2. CASE pendingRecv = None
    BY <1>0, <1>12, <2>1, <2>2, StagedFrame DEF WorkerResumeOk, WorkerRestart
  <2>3. CASE pendingRecv # None
    <3>1. edited \/ opts.resume
      BY <1>0, <2>3 DEF Staged
    <3>2. UNCHANGED <<edited, opts>>
      BY <1>12 DEF WorkerResumeOk, WorkerRestart
    <3>3. QED
      BY <3>1, <3>2 DEF Staged
  <2>4. QED
    BY <2>2, <2>3
<1>13. CASE RecvNext
  <2>1. /\ OldToWorker /\ UNCHANGED <<src, edited, opts, base, offered, pendingRecv, recvPlan>>
        /\ recvState \notin {"idle", "done"} /\ recvState' # "idle"
    BY <1>0, <1>13, WorkerQueueStep
    DEF RecvNext, RecvOpen, RecvUnit, RecvAbort, RecvComplete, RecvVerify, RecvGivesUp, Fails
  <2>2. recvPlan.usePart /\ recvState' # "done" => UNCHANGED dest
    BY <1>13 DEF RecvNext, RecvOpen, RecvUnit, RecvAbort, RecvComplete, RecvVerify, RecvGivesUp, Fails,
       SetTarget
  <2>3. QED
    BY <1>0, <2>1, <2>2 DEF Staged, OldToWorker
<1>14. CASE UNCHANGED vars
  BY <1>0, <1>14, WorkerQueueStep, StagedFrame DEF vars
<1>15. QED
  BY <1>1, <1>2, <1>3, <1>4, <1>5, <1>6, <1>7, <1>8, <1>9, <1>10, <1>11, <1>12, <1>13, <1>14
  DEF Next, UserNext, ClientNext, SendNext, WorkerNext, Finished

-----------------------------------------------------------------------------
\* Resuming

\* Whole chunks lose less than one chunk, and are at least one if there are any.
LEMMA AlignDownKeeps ==
  ASSUME NEW n \in Nat
  PROVE  AlignDown(n) > n - Align /\ (AlignDown(n) > 0 => AlignDown(n) >= Align)
<1> DEFINE q == n \div Align
<1>1. Align \in Nat /\ Align > 0
  BY ConstantsAssumption
<1>2. q \in Nat /\ n < q * Align + Align
  BY <1>1
<1>3. q = 0 \/ q * Align >= Align
  BY <1>1, <1>2
<1>4. AlignDown(n) = q * Align
  BY DEF AlignDown
<1> HIDE DEF q
<1>5. q * Align \in Nat /\ (q = 0 => q * Align = 0)
  BY <1>1, <1>2
<1>6. QED
  BY <1>1, <1>2, <1>3, <1>4, <1>5

\* Files that begin alike, and for at least a fingerprint, have one fingerprint.
LEMMA SameFingerprint ==
  ASSUME NEW f \in File, NEW g \in File, PrefixLen <= Len(f), PrefixLen <= Len(g),
         \A i \in 1..PrefixLen : f[i] = g[i]
  PROVE  Fingerprint(f) = Fingerprint(g)
<1>1. PrefixLen \in Nat /\ Len(f) \in Nat /\ Len(g) \in Nat
  BY ConstantsAssumption, LenProperties DEF File
<1>2. Fingerprint(f) = SubSeq(f, 1, PrefixLen) /\ Fingerprint(g) = SubSeq(g, 1, PrefixLen)
  BY <1>1 DEF Fingerprint
<1>3. SubSeq(f, 1, PrefixLen) = [i \in 1..PrefixLen |-> f[i]]
  BY <1>1 DEF File
<1>4. SubSeq(g, 1, PrefixLen) = [i \in 1..PrefixLen |-> g[i]]
  BY <1>1 DEF File
<1>5. QED
  BY <1>2, <1>3, <1>4

\* So has the part file of a resuming session, cut to whole chunks.
LEMMA KeptFingerprint ==
  ASSUME PrefixLen <= Align, TypeOK, Resuming, Kept > 0
  PROVE  /\ SubSeq(base.part, 1, Kept) \in File /\ Len(SubSeq(base.part, 1, Kept)) = Kept
         /\ Fingerprint(SubSeq(base.part, 1, Kept)) = Fingerprint(src)
<1> DEFINE cut == SubSeq(base.part, 1, Kept)
<1>1. src \in File /\ base.part \in File
  BY ConstantsAssumption DEF TypeOK, Resuming, FileOrNone, File
<1>2. Len(src) \in Nat /\ Len(base.part) \in Nat
  BY <1>1, LenProperties DEF File
<1>3. /\ Kept \in Nat /\ Kept <= Len(base.part) /\ Kept >= Align
      /\ Len(base.part) <= Len(src) /\ base.part = SubSeq(src, 1, Len(base.part))
  BY <1>2, AlignDownBounds, AlignDownKeeps DEF Kept, Resuming, Honest, IsPrefixOf
<1>4. \A i \in 1..Len(base.part) : base.part[i] = src[i]
  BY <1>1, <1>2, <1>3, CutType
<1>5. cut \in File /\ Len(cut) = Kept /\ \A i \in 1..Kept : cut[i] = base.part[i]
  BY <1>1, <1>3, CutType
<1>6. PrefixLen \in Nat /\ Align \in Nat
  BY ConstantsAssumption
<1>7. /\ PrefixLen <= Len(cut) /\ PrefixLen <= Len(src)
      /\ \A i \in 1..PrefixLen : cut[i] = src[i]
  <2>1. PrefixLen <= Kept /\ PrefixLen <= Len(src) /\ \A i \in 1..PrefixLen : i \in 1..Kept /\ i \in 1..Len(base.part)
    BY <1>2, <1>3, <1>6
  <2> QED
    BY <1>4, <1>5, <2>1
<1>8. QED
  BY <1>1, <1>5, <1>7, SameFingerprint

\* What a session has supposed it supposed before, and no operation failed.
LEMMA ResumingBefore ==
  ASSUME TypeOK, UNCHANGED <<src, opts, base, edited>>, faults' \in {faults, faults + 1}, Resuming'
  PROVE  Resuming /\ faults' = faults /\ Kept' = Kept
<1>1. faults \in Nat
  BY ConstantsAssumption DEF TypeOK
<1>2. faults' = 0 /\ faults = 0
  BY <1>1 DEF Resuming
<1>3. QED
  BY <1>2 DEF Resuming, Honest, Kept

\* An operation failed, or none did.
LEMMA FaultCounts ==
  ASSUME TypeOK
  PROVE  /\ \A k : Fault(k) => faults' = faults + 1 /\ faults' # faults
         /\ \A f, d : Digest(f, d) => faults' \in {faults, faults + 1} /\ (faults' = faults => d = f)
<1>1. faults \in Nat
  BY ConstantsAssumption DEF TypeOK
<1>2. QED
  BY <1>1 DEF Fault, Digest

\* Messages that say nothing of a resume.
PlainToWorker ==
  \A i \in DOMAIN toWorker' :
     \/ \E j \in DOMAIN toWorker : toWorker'[i] = toWorker[j]
     \/ toWorker'[i].type \notin {"METADATA", "RESTART_FROM_ZERO"}

PlainToClient ==
  \A i \in DOMAIN toClient' :
     \/ \E j \in DOMAIN toClient : toClient'[i] = toClient[j]
     \/ toClient'[i].type # "RESUME_READY"

\* A step that goes no further with a resume keeps what was resumed.
LEMMA ResumedFrame ==
  ASSUME TypeOK, Resumed, PlainToWorker, PlainToClient,
         UNCHANGED <<src, opts, base, edited, recvPlan>>, faults' \in {faults, faults + 1},
         pendingAccept' => pendingAccept \/ opts.early,
         offered' \in {offered, None}, pendingRecv' \in {pendingRecv, None},
         recvState' # "idle" => recvState # "idle",
         recvState' # "done" =>
            recvState # "done" /\ (part' = part \/ (Resuming => part' # None /\ Len(part') >= Kept))
  PROVE  Resumed'
<1>1. CASE ~Resuming'
  BY <1>1 DEF Resumed
<1>2. CASE Resuming'
  <2>1. Resuming /\ Kept' = Kept
    BY <1>2, ResumingBefore
  <2>2. /\ pendingAccept' => opts'.early
        /\ offered' # None => offered'.resume
        /\ pendingRecv' # None => pendingRecv'.usePart /\ pendingRecv'.offset = Kept'
        /\ recvState' # "idle" => recvPlan'.usePart /\ recvPlan'.offset = Kept'
        /\ recvState' # "done" => part' # None /\ Len(part') >= Kept'
    BY <2>1 DEF Resumed
  <2>3. \A i \in DOMAIN toWorker' :
           /\ toWorker'[i].type = "METADATA" => toWorker'[i].resume
           /\ toWorker'[i].type # "RESTART_FROM_ZERO"
    BY <2>1 DEF Resumed, PlainToWorker
  <2>4. \A i \in DOMAIN toClient' :
           toClient'[i].type = "RESUME_READY" => toClient'[i].prefixHash = Fingerprint(src')
    BY <2>1 DEF Resumed, PlainToClient
  <2>5. QED
    BY <2>2, <2>3, <2>4 DEF Resumed
<1>3. QED
  BY <1>1, <1>2

\* handle_accept of a resuming session offers the whole chunks of the part file.
LEMMA ResumedAccept ==
  ASSUME PrefixLen <= Align, TypeOK, Resumed, OnDisk, Unanswered, OldToWorker,
         UNCHANGED <<src, opts, base, edited>>,
         pendingAccept' => pendingAccept, offered' \in {offered, None},
         NEW o \in Offer, NEW c \in BOOLEAN, NEW r \in BOOLEAN, HandleAccept(o, c, r),
         Resuming => o.size = Len(src) /\ o.resume /\ r
  PROVE  Resumed'
<1>0. faults' \in {faults, faults + 1}
  BY FaultCounts DEF HandleAccept, OfferResume
<1>1. CASE ~Resuming'
  BY <1>1 DEF Resumed
<1>2. CASE Resuming'
  <2>1. Resuming /\ faults' = faults /\ Kept' = Kept
    BY <1>0, <1>2, ResumingBefore
  <2>2. /\ recvState = "idle" /\ pendingRecv = None /\ part = base.part /\ part # None
        /\ part \in File /\ src \in File
    BY <2>1, ConstantsAssumption DEF Unanswered, OnDisk, Resuming, TypeOK, FileOrNone, File
  <2>3. Len(part) \in Nat /\ Len(src) \in Nat /\ Kept \in Nat /\ Kept <= Len(part) /\ Kept <= Len(src)
    <3>1. Len(part) \in Nat /\ Len(src) \in Nat
      BY <2>2, LenProperties DEF File
    <3>2. Len(part) <= Len(src)
      BY <2>1, <2>2 DEF Resuming, Honest, IsPrefixOf
    <3>3. QED
      BY <2>2, <3>1, <3>2, AlignDownBounds DEF Kept
  <2>4. UsePart(o.size) /\ AlignDown(Len(part)) = Kept /\ Kept <= o.size
    BY <2>1, <2>2, <2>3 DEF Resuming, UsePart, Kept
  <2>5. /\ pendingAccept' => opts'.early
        /\ \A i \in DOMAIN toWorker' :
              /\ toWorker'[i].type = "METADATA" => toWorker'[i].resume
              /\ toWorker'[i].type # "RESTART_FROM_ZERO"
        /\ offered' # None => offered'.resume
    BY <2>1 DEF Resumed, OldToWorker
  <2>6. CASE Kept > 0
    <3>1. /\ part' = SubSeq(base.part, 1, Kept) /\ OfferResume(PlanOf(o, c, Kept, TRUE), part')
          /\ UNCHANGED recvTask
      BY <2>1, <2>2, <2>4, <2>6 DEF HandleAccept
    <3>2. part' \in File /\ Len(part') = Kept /\ Fingerprint(part') = Fingerprint(src)
      BY <2>1, <2>6, <3>1, KeptFingerprint
    <3>3. pendingRecv' = PlanOf(o, c, Kept, TRUE) /\ recvState' = "idle"
      BY <2>2, <3>1 DEF OfferResume, recvTask
    <3>4. PICK m \in ToClientMsg : m.prefixHash = Fingerprint(src) /\ PostToClient(m)
      <4>1. PICK fp : /\ Digest(Fingerprint(part'), fp)
                      /\ PostToClient([type |-> "RESUME_READY", offset |-> PlanOf(o, c, Kept, TRUE).offset,
                                       prefixHash |-> fp])
        BY <3>1 DEF OfferResume, PostToClient
      <4>2. fp = Fingerprint(src) /\ fp \in FileOrNone
        BY <2>1, <3>2, <4>1, FaultCounts, FingerprintType DEF FileOrNone
      <4>3. PlanOf(o, c, Kept, TRUE).offset \in Nat
        BY <2>3 DEF PlanOf
      <4>4. QED
        BY <4>1, <4>2, <4>3, ClientMessages
    <3>5. \A i \in DOMAIN toClient' :
             toClient'[i].type = "RESUME_READY" => toClient'[i].prefixHash = Fingerprint(src')
      BY <2>1, <3>4, ClientQueueStep DEF Resumed
    <3>6. /\ pendingRecv'.usePart /\ pendingRecv'.offset = Kept'
          /\ part' # None /\ Len(part') >= Kept'
      BY <2>1, <2>3, <3>2, <3>3, NoneAssumption DEF PlanOf, File
    <3>7. QED
      BY <2>5, <3>3, <3>5, <3>6 DEF Resumed
  <2>7. CASE Kept = 0
    <3> DEFINE plan == PlanOf(o, c, 0, UsePart(o.size))
    <3>1. /\ TriggerRecv(plan) /\ PostToClient([type |-> "READY"])
          /\ part' = part /\ pendingRecv' = None
      <4>1. ~(AlignDown(Len(part)) > 0) /\ part # None /\ pendingRecv = None
        BY <2>2, <2>4, <2>7
      <4>2. QED
        BY <4>1 DEF HandleAccept
    <3>2. \A i \in DOMAIN toClient' :
             toClient'[i].type = "RESUME_READY" => toClient'[i].prefixHash = Fingerprint(src')
      BY <2>1, <3>1, ClientMessages, ClientQueueStep DEF Resumed
    <3>3. /\ recvState' = "triggered" /\ recvPlan'.usePart /\ recvPlan'.offset = Kept'
          /\ part' # None /\ Len(part') >= Kept'
      BY <2>1, <2>2, <2>3, <2>4, <2>7, <3>1 DEF TriggerRecv, PlanOf
    <3>4. QED
      BY <2>5, <3>1, <3>2, <3>3 DEF Resumed
  <2>8. QED
    BY <2>3, <2>6, <2>7
<1>3. QED
  BY <1>1, <1>2

\* A step that posts nothing about a resume.
LEMMA PlainQueues ==
  ASSUME TypeOK
  PROVE  /\ OldToWorker => PlainToWorker
         /\ OldToClient => PlainToClient
         /\ \A m \in ToWorkerMsg :
               PostToWorker(m) /\ m.type \notin {"METADATA", "RESTART_FROM_ZERO"} => PlainToWorker
         /\ \A m \in ToClientMsg : PostToClient(m) /\ m.type # "RESUME_READY" => PlainToClient
  BY WorkerQueueStep, ClientQueueStep DEF OldToWorker, OldToClient, PlainToWorker, PlainToClient

\* The verdict of a receive task says nothing of a resume.
LEMMA PlainVerdict ==
  ASSUME TypeOK, NEW result, Fails(result)
  PROVE  PlainToClient /\ recvState' = "failed"
  BY ClientMessages, PlainQueues DEF Fails

\* Every step keeps what a resuming session relies on.
LEMMA ResumedNext ==
  ASSUME PrefixLen <= Align
  PROVE  ControlInv /\ ControlInv' /\ Transfer /\ Resumed /\ [Next]_vars => Resumed'
<1> SUFFICES ASSUME ControlInv, ControlInv', Transfer, Resumed, [Next]_vars PROVE Resumed'
  OBVIOUS
<1> USE DEF files, setup, wire, client, sendTask, worker, recvTask, counts
<1>0. TypeOK /\ TypeOK' /\ Handshake /\ SizeKnown /\ OnDisk
  BY DEF ControlInv, Transfer
<1>1. ASSUME NEW o \in Options, StartSession(o) PROVE Resumed'
  <2>1. part' = base'.part /\ (part' # None => part' \in File)
    BY <1>0, <1>1 DEF StartSession, TypeOK, FileOrNone
  <2>2. Resuming' => part' # None /\ Len(part') >= Kept'
    BY <2>1, LenProperties, AlignDownBounds DEF Resuming, Kept, File
  <2>3. QED
    BY <1>1, <2>2, EmptySeq DEF StartSession, Resumed
<1>2. ASSUME NEW f \in Sources, EditSource(f) PROVE Resumed'
  BY <1>2 DEF EditSource, Resumed, Resuming
<1>3. CASE UserPause \/ UserResume
  BY <1>0, <1>3, WorkerMessages, PlainQueues, ClientQueueStep, ResumedFrame DEF UserPause, UserResume
<1>4. CASE UserCancel \/ LoseConnection \/ SendUnit
  BY <1>0, <1>4, WorkerQueueStep, ClientQueueStep, PlainQueues, ResumedFrame
  DEF UserCancel, LoseConnection, SendUnit
<1>5. CASE SendOpen \/ SendFails
  BY <1>0, <1>5, FaultCounts, WorkerQueueStep, ClientQueueStep, PlainQueues, ResumedFrame
  DEF SendOpen, SendFails
<1>6. CASE SendFile
  <2>1. CASE UNCHANGED toWorker /\ Fault("stat")
    BY <1>0, <1>6, <2>1, FaultCounts, WorkerQueueStep, ClientQueueStep, PlainQueues, ResumedFrame
    DEF SendFile
  <2>2. CASE /\ PostToWorker([type |-> "METADATA", size |-> Len(src), resume |-> opts.resume,
                              checksum |-> opts.checksum])
             /\ UNCHANGED faults
    <3>1. Resuming' => Resuming /\ Kept' = Kept /\ opts.resume
      BY <1>0, <1>6, <2>2, ResumingBefore DEF SendFile, Resuming
    <3>2. Resuming' => \A i \in DOMAIN toWorker' :
             /\ toWorker'[i].type = "METADATA" => toWorker'[i].resume
             /\ toWorker'[i].type # "RESTART_FROM_ZERO"
      BY <1>0, <2>2, <3>1, MetadataMessage, WorkerQueueStep DEF Resumed
    <3>3. QED
      BY <1>6, <2>2, <3>1, <3>2 DEF SendFile, Resumed
  <2>3. QED
    BY <1>6, <2>1, <2>2 DEF SendFile
<1>7. CASE ClientReady \/ ClientVerdict \/ ClientDisconnected \/ ClientStops
  BY <1>0, <1>7, WorkerQueueStep, ClientQueueStep, PlainQueues, ResumedFrame
  DEF ClientReady, ClientVerdict, ClientDisconnected, ClientStops
<1>8. CASE ClientResumeReady
  <2>1. OldToClient
    BY <1>0, <1>8, ClientQueueStep DEF ClientResumeReady
  <2>2. CASE OldToWorker /\ UNCHANGED faults
    BY <1>0, <1>8, <2>1, <2>2, PlainQueues, ResumedFrame DEF ClientResumeReady
  <2>3. ASSUME NEW local, Digest(Fingerprint(src), local),
               \/ PostToWorker([type |-> "RESUME_OK"])
               \/ local # Head(toClient).prefixHash /\ PostToWorker([type |-> "RESTART_FROM_ZERO"])
        PROVE  Resumed'
    <3>1. faults' \in {faults, faults + 1} /\ (faults' = faults => local = Fingerprint(src))
      BY <1>0, <2>3, FaultCounts
    <3>2. CASE PostToWorker([type |-> "RESUME_OK"])
      <4>1. PlainToWorker /\ PlainToClient
        BY <1>0, <2>1, <3>2, WorkerMessages, PlainQueues
      <4>2. QED
        BY <1>0, <1>8, <3>1, <4>1, ResumedFrame DEF ClientResumeReady
    <3>3. CASE local # Head(toClient).prefixHash
      <4>1. PICK j \in DOMAIN toClient : toClient[j] = Head(toClient) /\ toClient[j].type = "RESUME_READY"
        BY <1>0, <1>8, Taken DEF TypeOK, ClientResumeReady, ClientTakes
      <4>2. ~Resuming'
        BY <1>0, <1>8, <3>1, <3>3, <4>1, ResumingBefore DEF ClientResumeReady, Resumed
      <4>3. QED
        BY <1>8, <4>2 DEF ClientResumeReady, Resumed
    <3>4. QED
      BY <2>3, <3>2, <3>3
  <2>4. QED
    <3>1. CASE ~pendingSend
      BY <1>0, <1>8, <2>2, <3>1, WorkerQueueStep DEF ClientResumeReady
    <3>2. CASE pendingSend
      BY <1>8, <2>3, <3>2 DEF ClientResumeReady
    <3>3. QED
      BY <3>1, <3>2
<1>9. CASE SendFinish
  <2>1. [type |-> "FILE_SENT", hash |-> sendHash'] \in ToWorkerMsg
    BY <1>0, WorkerMessages DEF TypeOK
  <2>2. faults' \in {faults, faults + 1} /\ PlainToWorker /\ PlainToClient
    BY <1>0, <1>9, <2>1, FaultCounts, PlainQueues, ClientQueueStep DEF SendFinish
  <2>3. QED
    BY <1>0, <1>9, <2>2, ResumedFrame DEF SendFinish
<1>10. CASE WorkerMetadata
  <2> DEFINE o == OfferOf(Head(toWorker))
  <2>1. PICK j \in DOMAIN toWorker : toWorker[j] = Head(toWorker) /\ toWorker[j].type = "METADATA"
    BY <1>0, <1>10, MetadataOffer
  <2>2. Unanswered /\ o \in Offer
    BY <1>0, <1>10, <2>1, MetadataOffer DEF Handshake, StepMeans
  <2>3. Resuming => o.size = Len(src) /\ o.resume
    BY <1>0, <2>1 DEF Resuming, Resumed, SizeKnown, OfferOf
  <2>4. OldToWorker /\ UNCHANGED <<src, opts, base, edited>>
    BY <1>0, <1>10, WorkerQueueStep DEF WorkerMetadata
  <2>5. CASE pendingAccept
    <3>1. /\ HandleAccept(o, opts.verify, opts.wresume) /\ UNCHANGED offered /\ ~pendingAccept'
          /\ opts.verify \in BOOLEAN /\ opts.wresume \in BOOLEAN
      BY <1>0, <1>10, <2>5, ConstantsAssumption DEF WorkerMetadata, OfferOf, TypeOK, OptionType
    <3>2. Resuming => opts.wresume
      BY <2>5 DEF Resuming, Resumed
    <3>3. QED
      BY <1>0, <2>2, <2>3, <2>4, <3>1, <3>2, ResumedAccept
  <2>6. CASE ~pendingAccept
    <3>1. offered' = o /\ UNCHANGED <<part, pendingAccept, pendingRecv, recvTask, toClient, faults>>
      BY <1>10, <2>6 DEF WorkerMetadata, OfferOf
    <3>2. Resuming' => Resuming /\ Kept' = Kept
      BY <1>0, <2>4, <3>1, ResumingBefore
    <3>3. QED
      BY <2>3, <2>4, <2>6, <3>1, <3>2 DEF Resumed, OldToWorker
  <2>7. QED
    BY <2>5, <2>6
<1>11. CASE AcceptOffer
  <2>1. /\ Unanswered /\ offered \in Offer /\ offered # None /\ OldToWorker
        /\ UNCHANGED <<src, opts, base, edited, pendingAccept>> /\ offered' = None
    BY <1>0, <1>11, WorkerQueueStep DEF AcceptOffer, TypeOK, Handshake, Offsets
  <2>2. Resuming => offered.size = Len(src) /\ offered.resume /\ (opts.early => opts.wresume)
    BY <1>0, <2>1 DEF Resuming, Resumed, SizeKnown
  <2>3. /\ opts.verify \in BOOLEAN /\ opts.wresume \in BOOLEAN /\ opts.early \in BOOLEAN
        /\ offered.checksum \in BOOLEAN /\ (opts.verify \/ offered.checksum) \in BOOLEAN
        /\ ResumeRequested \in BOOLEAN
    BY <1>0, <2>1, ConstantsAssumption DEF TypeOK, OptionType, Offer, ResumeRequested
  <2>4. CASE opts.early
    <3>1. HandleAccept(offered, opts.verify, opts.wresume)
      BY <1>11, <2>4 DEF AcceptOffer
    <3>2. QED
      BY <1>0, <2>1, <2>2, <2>3, <2>4, <3>1, ResumedAccept
  <2>5. CASE ~opts.early
    <3>1. HandleAccept(offered, opts.verify \/ offered.checksum, ResumeRequested)
      BY <1>11, <2>5 DEF AcceptOffer
    <3>2. Resuming => offered.size = Len(src) /\ offered.resume /\ ResumeRequested
      BY <2>2 DEF ResumeRequested
    <3>3. QED
      BY <1>0, <2>1, <2>3, <3>1, <3>2, ResumedAccept
  <2>6. QED
    BY <2>4, <2>5
<1>12. CASE AcceptEarly \/ WorkerPauseMsg \/ WorkerFileSent \/ WorkerDisconnected \/ WorkerStops
  BY <1>0, <1>12, WorkerQueueStep, ClientQueueStep, PlainQueues, ResumedFrame
  DEF AcceptEarly, WorkerPauseMsg, WorkerFileSent, WorkerDisconnected, WorkerStops
<1>13. CASE RejectOffer
  BY <1>0, <1>13, WorkerQueueStep, ClientMessages, PlainQueues, ResumedFrame DEF RejectOffer
<1>14. CASE WorkerResumeOk
  <2>1. OldToWorker /\ OldToClient /\ UNCHANGED <<src, opts, base, edited, faults>>
    BY <1>0, <1>14, WorkerQueueStep, ClientQueueStep DEF WorkerResumeOk
  <2>2. CASE pendingRecv = None
    BY <1>0, <1>14, <2>1, <2>2, PlainQueues, ResumedFrame DEF WorkerResumeOk
  <2>3. CASE pendingRecv # None
    <3>1. Resuming' => Resuming /\ Kept' = Kept
      BY <1>0, <2>1, ResumingBefore
    <3>2. recvState # "done"
      BY <1>0, <2>3 DEF Handshake, Offsets
    <3>3. /\ recvState' = "triggered" /\ recvPlan' = pendingRecv /\ pendingRecv' = None
          /\ UNCHANGED <<part, offered, pendingAccept, toClient>>
      BY <1>14, <2>3 DEF WorkerResumeOk, TriggerRecv
    <3>4. QED
      BY <2>1, <2>3, <3>1, <3>2, <3>3 DEF Resumed, OldToWorker
  <2>4. QED
    BY <2>2, <2>3
<1>15. CASE WorkerRestart
  <2>1. faults' \in {faults, faults + 1} /\ UNCHANGED <<src, opts, base, edited, pendingAccept>>
    BY <1>0, <1>15, FaultCounts DEF WorkerRestart
  <2>2. PICK j \in DOMAIN toWorker : toWorker[j].type = "RESTART_FROM_ZERO"
    BY <1>0, <1>15, Taken DEF TypeOK, WorkerRestart, WorkerTakes
  <2>3. ~Resuming'
    BY <1>0, <2>1, <2>2, ResumingBefore DEF Resumed
  <2>4. QED
    BY <2>1, <2>3 DEF Resumed
<1>16. CASE RecvNext
  <2>1. /\ OldToWorker /\ UNCHANGED <<src, opts, base, edited, offered, pendingRecv, recvPlan, pendingAccept>>
        /\ recvState \notin {"idle", "done"}
    BY <1>0, <1>16, WorkerQueueStep
    DEF RecvNext, RecvOpen, RecvUnit, RecvAbort, RecvComplete, RecvVerify, RecvGivesUp
  <2>2. faults' \in {faults, faults + 1}
    BY <1>0, <1>16, FaultCounts
    DEF RecvNext, RecvOpen, RecvUnit, RecvAbort, RecvComplete, RecvVerify, RecvGivesUp
  <2>3. PlainToClient
    <3>1. UNCHANGED toClient => PlainToClient
      BY <1>0, ClientQueueStep, PlainQueues
    <3>2. PostToClient([type |-> "RECEIVED_FILE:OK"]) => PlainToClient
      BY <1>0, ClientMessages, PlainQueues
    <3>3. \A r : Fails(r) => PlainToClient
      BY <1>0, PlainVerdict
    <3>4. QED
      BY <1>16, <3>1, <3>2, <3>3
      DEF RecvNext, RecvOpen, RecvUnit, RecvAbort, RecvComplete, RecvVerify, RecvGivesUp
  <2>4. Resuming /\ recvState' # "done" => part' # None /\ Len(part') >= Kept
    <3> SUFFICES ASSUME Resuming, recvState' # "done" PROVE part' # None /\ Len(part') >= Kept
      OBVIOUS
    <3>1. recvPlan.usePart /\ recvPlan.offset = Kept /\ part # None /\ part \in File /\ Len(part) >= Kept
      BY <1>0, <2>1 DEF Resumed, TypeOK, FileOrNone
    <3>2. Kept \in Nat /\ Len(part) \in Nat /\ base.part \in File
      <4>1. base.part \in File
        BY <1>0 DEF Resuming, TypeOK, FileOrNone
      <4>2. QED
        BY <3>1, <4>1, LenProperties, AlignDownBounds DEF Kept, File
    <3>3. ASSUME NEW f \in File, SetTarget(f), Len(f) >= Kept PROVE part' # None /\ Len(part') >= Kept
      BY <3>1, <3>3, NoneAssumption DEF SetTarget, File
    <3>4. CASE part' = part
      BY <3>1, <3>4
    <3>5. CASE RecvOpen
      <4>1. CASE recvPlan.offset = 0 /\ SetTarget(<<>>)
        <5>1. <<>> \in File /\ Len(<<>>) = 0 /\ Len(<<>>) >= Kept
          BY <3>1, <3>2, <4>1, EmptySeq DEF File
        <5>2. QED
          BY <3>3, <4>1, <5>1
      <4>2. QED
        BY <1>0, <3>4, <3>5, <4>1 DEF RecvOpen
    <3>6. CASE RecvUnit
      <4>1. Head(fileStream) \in Units /\ SetTarget(Append(part, Head(fileStream)))
        BY <1>0, <3>1, <3>6, HeadTailProperties DEF RecvUnit, Target, TypeOK, File
      <4>2. /\ Append(part, Head(fileStream)) \in File
            /\ Len(Append(part, Head(fileStream))) = Len(part) + 1
        BY <3>1, <4>1, AppendProperties DEF File
      <4>3. Len(Append(part, Head(fileStream))) >= Kept
        BY <3>1, <3>2, <4>2
      <4>4. QED
        BY <3>3, <4>1, <4>2, <4>3
    <3>7. CASE RecvAbort
      <4>1. PICK lost \in 0..Len(rcvd) : SetTarget(SubSeq(part, 1, Len(part) - lost))
        BY <3>1, <3>7 DEF RecvAbort, Target
      <4>2. Len(part) = Kept + Len(rcvd) /\ Len(rcvd) \in Nat
        BY <1>0, <3>1, <3>7, LenProperties DEF RecvAbort, OnDisk, Written, Target, RecvPos, TypeOK, File
      <4>3. Len(part) - lost \in Nat /\ Len(part) - lost <= Len(part) /\ Len(part) - lost >= Kept
        BY <3>2, <4>1, <4>2
      <4>4. QED
        BY <3>1, <3>3, <4>1, <4>3, CutType
    <3>8. QED
      BY <1>16, <3>4, <3>5, <3>6, <3>7 DEF RecvNext, RecvComplete, RecvVerify, RecvGivesUp
  <2>5. QED
    BY <1>0, <2>1, <2>2, <2>3, <2>4, PlainQueues, ResumedFrame
<1>17. CASE UNCHANGED vars
  BY <1>0, <1>17, WorkerQueueStep, ClientQueueStep, PlainQueues, ResumedFrame DEF vars
<1>18. QED
  BY <1>1, <1>2, <1>3, <1>4, <1>5, <1>6, <1>7, <1>8, <1>9, <1>10, <1>11, <1>12, <1>13, <1>14, <1>15,
     <1>16, <1>17
  DEF Next, UserNext, ClientNext, SendNext, WorkerNext, Finished

-----------------------------------------------------------------------------
\* Theorems

\* Nothing is sent, received or committed initially.
LEMMA TransferInit == Init => Transfer
<1> SUFFICES ASSUME Init PROVE Transfer
  OBVIOUS
<1>1. SizeKnown /\ HashAnnounced /\ OnDisk /\ Committed /\ Staged
  BY DEF Init, SizeKnown, HashAnnounced, OnDisk, Committed, Staged
<1>2. InOrder
  BY EmptySeq DEF Init, InOrder
<1>3. SentFromSource
  BY EmptySeq DEF Init, SentFromSource
<1>4. QED
  BY <1>1, <1>2, <1>3 DEF Transfer

\* From the announced size to the committed file: the invariants of the data that
\* moves through the send task, the file stream and the receive task hold.
THEOREM TransferCorrect == Spec => []Transfer
<1>1. ControlInv /\ ControlInv' /\ Transfer /\ [Next]_vars => Transfer'
  BY SizeKnownNext, SentFromSourceNext, InOrderNext, HashAnnouncedNext, OnDiskNext, CommittedNext,
     StagedNext
  DEF Transfer
<1>2. QED
  BY <1>1, TransferInit, ControlCorrect, PTL DEF Spec

\* A transfer the CLI reports as completed was committed by the worker, and the
\* destination then is the source.
THEOREM DeliveryCorrect == Spec => []CompletedMeansIdentical
<1>1. Transfer => CompletedMeansIdentical
  BY DEF Transfer, Committed, CompletedMeansIdentical
<1>2. QED
  BY <1>1, TransferCorrect, PTL

\* The destination of a large file keeps its content until the received file
\* is verified.
THEOREM StagingCorrect == Spec => []UntouchedUntilVerified
<1>1. ControlInv /\ Transfer => UntouchedUntilVerified
  BY DEF Transfer, Staged, UntouchedUntilVerified, UsePart
<1>2. QED
  BY <1>1, ControlCorrect, TransferCorrect, PTL

\* A session that resumes a part file which is the beginning of the source gives
\* up less than a chunk of it, however it ends.  That the fingerprint is no longer
\* than a chunk (64 KiB and 2 MiB) is needed: of a shorter part file it would not
\* be that of the source.
THEOREM ResumeCorrect ==
  ASSUME PrefixLen <= Align
  PROVE  Spec => []ResumeKeepsProgress
<1>1. Init => Resumed
  BY EmptySeq DEF Init, Resumed, Resuming
<1>2. ControlInv /\ ControlInv' /\ Transfer /\ Resumed /\ [Next]_vars => Resumed'
  BY ResumedNext
<1>3. ControlInv /\ Resumed => ResumeKeepsProgress
  <2> SUFFICES ASSUME ControlInv, Resumed, Resuming, recvState # "done"
               PROVE  part # None /\ Len(part) > Len(base.part) - Align
    BY DEF ResumeKeepsProgress, Resuming
  <2>1. part \in File /\ base.part \in File /\ part # None /\ Len(part) >= Kept
    BY DEF ControlInv, TypeOK, Resumed, Resuming, FileOrNone
  <2>2. Len(part) \in Nat /\ Len(base.part) \in Nat
    BY <2>1, LenProperties DEF File
  <2>3. AlignDown(Len(base.part)) \in Nat /\ AlignDown(Len(base.part)) > Len(base.part) - Align
    BY <2>2, AlignDownBounds, AlignDownKeeps
  <2>4. QED
    BY <2>1, <2>2, <2>3, ConstantsAssumption DEF Kept
<1>4. QED
  BY <1>1, <1>2, <1>3, ControlCorrect, TransferCorrect, PTL DEF Spec

-----------------------------------------------------------------------------
\* A session as its user sees it

\* What Vouched and HasToStage speak of stays.
Held == UNCHANGED <<src, opts, edited, base>>

\* Then so do they, while the receive task keeps its state.
LEMMA HeldKeeps ==
  ASSUME Held
  PROVE  /\ HasToStage' = HasToStage
         /\ recvState' # "done" => Vouched' = FALSE
         /\ recvState # "done" => Vouched = FALSE
         /\ recvState = "done" /\ recvState' = "done" /\ UNCHANGED <<sendHash, recvHash>>
               => Vouched' = Vouched
<1>1. HasToStage' = HasToStage
  BY DEF Held, HasToStage
<1>2. recvState' # "done" => Vouched' = FALSE
  BY DEF Vouched
<1>3. recvState # "done" => Vouched = FALSE
  BY DEF Vouched
<1>4. (Honest' <=> Honest) /\ (UNCHANGED <<sendHash, recvHash>> => (Compared' <=> Compared))
  BY DEF Held, Honest, Compared
<1>5. ASSUME recvState = "done", recvState' = "done", UNCHANGED <<sendHash, recvHash>>
      PROVE  Vouched' = Vouched
  <2>1. edited' = edited
    BY DEF Held
  <2>2. QED
    BY <1>4, <1>5, <2>1 DEF Vouched
<1>6. QED
  BY <1>1, <1>2, <1>3, <1>5

\* Both states of the receive task are ones in which it works.
AtWork(a, b) == {a, b} \subseteq {"triggered", "receiving", "awaitHash"}

\* A step that leaves the destination, the verdict and the report alone.
LEMMA DeliveryFrame ==
  ASSUME Held, UNCHANGED dest, recvState' = recvState \/ AtWork(recvState, recvState'),
         recvState # "idle" => UNCHANGED recvPlan,
         recvState = "done" => UNCHANGED <<sendHash, recvHash>>,
         (cliResult' = "Completed") <=> (cliResult = "Completed")
  PROVE  UNCHANGED Delivery!vars
<1>1. Mode' = Mode /\ Outcome' = Outcome
  BY DEF Mode, Outcome, AtWork
<1>2. Reported' = Reported
  BY DEF Reported
<1>3. HasToStage' = HasToStage
  BY HeldKeeps
<1>4. Vouched' = Vouched
  <2>1. CASE recvState = "done"
    BY <2>1, HeldKeeps DEF AtWork
  <2>2. CASE recvState # "done"
    <3>1. recvState' # "done"
      BY <2>2 DEF AtWork
    <3>2. QED
      BY <2>2, <3>1, HeldKeeps
  <2>3. QED
    BY <2>1, <2>2
<1>5. QED
  BY <1>1, <1>2, <1>3, <1>4 DEF Held, Delivery!vars

\* handle_accept, RESUME_OK and RESTART_FROM_ZERO decide how the session writes.
LEMMA DeliveryChoice ==
  ASSUME ControlInv, ControlInv', Transfer', Held, UNCHANGED <<dest, cliResult>>,
         recvState = "idle", recvState' = "triggered"
  PROVE  Delivery!Choose
<1>1. Mode = "undecided" /\ Outcome' = Outcome /\ Mode' \in {"staged", "inPlace"}
  BY DEF Mode, Outcome
<1>2. HasToStage' = HasToStage /\ Vouched' = Vouched /\ Reported' = Reported
  BY HeldKeeps DEF Reported
<1>3. HasToStage => Mode' = "staged"
  <2> SUFFICES ASSUME HasToStage PROVE Mode' = "staged"
    OBVIOUS
  <2>1. ~edited' /\ ~opts'.resume /\ UsePart(Len(src'))
    BY DEF HasToStage, Held, UsePart
  <2>2. recvPlan'.usePart = UsePart(Len(src'))
    BY <2>1 DEF Transfer, Staged
  <2>3. QED
    BY <2>1, <2>2 DEF Mode
<1>4. QED
  BY <1>1, <1>2, <1>3 DEF Held, Delivery!Choose

\* A receive task at work that fails.
LEMMA DeliveryFailure ==
  ASSUME TypeOK, Held, UNCHANGED <<recvPlan, cliResult>>,
         recvState \in {"triggered", "receiving", "awaitHash"}, recvState' = "failed",
         dest' = dest \/ (~recvPlan.usePart /\ dest' \in File)
  PROVE  Delivery!Fail
<1>1. Mode # "undecided" /\ Mode' = Mode /\ Outcome = "none" /\ Outcome' = "failed"
  BY DEF Mode, Outcome
<1>2. HasToStage' = HasToStage /\ Vouched' = Vouched /\ Reported' = Reported
  BY HeldKeeps DEF Reported
<1>3. dest' = dest \/ (Mode = "inPlace" /\ dest' \in File)
  BY DEF Mode
<1>4. QED
  BY <1>1, <1>2, <1>3 DEF Held, Delivery!Fail

\* A receive task at work that writes to the destination itself.
LEMMA DeliveryWrite ==
  ASSUME TypeOK, Held, UNCHANGED <<recvPlan, cliResult>>,
         recvState \in {"triggered", "receiving"}, recvState' = "receiving",
         ~recvPlan.usePart, dest' \in File
  PROVE  Delivery!Write
<1>1. Mode = "inPlace" /\ Mode' = Mode /\ Outcome = "none" /\ Outcome' = Outcome
  BY DEF Mode, Outcome
<1>2. HasToStage' = HasToStage /\ Vouched' = Vouched /\ Reported' = Reported
  BY HeldKeeps DEF Reported
<1>3. QED
  BY <1>1, <1>2 DEF Held, Delivery!Write

\* Starting a session, editing the source and reporting the verdict.
LEMMA DeliveryUser ==
  ASSUME ControlInv, Transfer,
         (\E o \in Options : StartSession(o)) \/ (\E f \in Sources : EditSource(f)) \/ ClientVerdict
  PROVE  Delivery!Start \/ Delivery!Edit \/ Delivery!Report \/ UNCHANGED Delivery!vars
<1>1. ASSUME NEW o \in Options, StartSession(o) PROVE Delivery!Start
  <2>1. Mode = "undecided" \/ Outcome # "none"
    BY <1>1 DEF StartSession, Mode, Outcome, ControlInv, TypeOK, RecvStates
  <2>2. Mode' = "undecided" /\ Outcome' = "none" /\ Reported' = FALSE /\ Vouched' = FALSE
    BY <1>1 DEF StartSession, Mode, Outcome, Reported, Vouched
  <2>3. HasToStage' \in BOOLEAN
    BY DEF HasToStage
  <2>4. UNCHANGED <<src, dest>>
    BY <1>1 DEF StartSession, files
  <2>5. QED
    BY <2>1, <2>2, <2>3, <2>4 DEF Delivery!Start
<1>2. ASSUME NEW f \in Sources, EditSource(f) PROVE Delivery!Edit
  <2>1. HasToStage' = FALSE /\ Vouched' = FALSE
    BY <1>2 DEF EditSource, HasToStage, Vouched
  <2>2. UNCHANGED <<dest, recvState, recvPlan, cliResult>>
    BY <1>2 DEF EditSource, recvTask, client
  <2>3. UNCHANGED <<Mode, Outcome, Reported>>
    BY <2>2 DEF Mode, Outcome, Reported
  <2>4. QED
    BY <2>1, <2>2, <2>3 DEF Delivery!Edit
<1>3. CASE ClientVerdict
  <2>1. Held /\ UNCHANGED <<dest, recvState, recvPlan, sendHash, recvHash>>
    BY <1>3 DEF ClientVerdict, Held, files, setup, recvTask, sendTask, counts
  <2>2. CASE (cliResult' = "Completed") <=> (cliResult = "Completed")
    BY <2>1, <2>2, DeliveryFrame
  <2>3. CASE ~((cliResult' = "Completed") <=> (cliResult = "Completed"))
    <3>1. ClientTakes("RECEIVED_FILE:OK") /\ cliResult' = "Completed"
      BY <1>3, <2>3 DEF ClientVerdict, CliEvent
    <3>2. recvState = "done"
      BY <3>1, Taken DEF ControlInv, TypeOK, ClientTakes, Transfer, Committed
    <3>3. Outcome = "delivered" /\ UNCHANGED <<Mode, Outcome>> /\ Reported' = TRUE
      BY <2>1, <3>1, <3>2 DEF Mode, Outcome, Reported
    <3>4. HasToStage' = HasToStage /\ Vouched' = Vouched
      BY <2>1, <3>2, HeldKeeps
    <3>5. QED
      BY <2>1, <3>3, <3>4 DEF Held, Delivery!Report
  <2>4. QED
    BY <2>2, <2>3
<1>4. QED
  BY <1>1, <1>2, <1>3

\* Everything else on the client's side is none of the user's business.
LEMMA DeliveryClient ==
  ASSUME ControlInv, Transfer,
         \/ SendFile \/ ClientReady \/ ClientResumeReady \/ ClientDisconnected \/ ClientStops
         \/ SendNext \/ UserPause \/ UserResume \/ UserCancel \/ LoseConnection \/ Finished
         \/ UNCHANGED vars
  PROVE  UNCHANGED Delivery!vars
<1>1. Held /\ UNCHANGED <<dest, recvState, recvPlan, recvHash>>
  BY DEF SendFile, ClientReady, ClientResumeReady, ClientDisconnected, ClientStops, SendNext,
     SendOpen, SendUnit, SendFinish, SendFails, UserPause, UserResume, UserCancel, LoseConnection,
     Finished, vars, Held, files, setup, recvTask, counts
<1>2. (cliResult' = "Completed") <=> (cliResult = "Completed")
  BY DEF SendFile, ClientReady, ClientResumeReady, ClientDisconnected, ClientStops, SendNext,
     SendOpen, SendUnit, SendFinish, SendFails, UserPause, UserResume, UserCancel, LoseConnection,
     Finished, vars, client, CliEvent
<1>3. recvState = "done" => UNCHANGED sendHash
  <2>1. recvState = "done" => sendState = "finished"
    BY DEF Transfer, Committed
  <2>2. QED
    BY <2>1 DEF SendFile, ClientReady, ClientResumeReady, ClientDisconnected, ClientStops, SendNext,
       SendOpen, SendUnit, SendFinish, SendFails, UserPause, UserResume, UserCancel, LoseConnection,
       Finished, vars, sendTask, TriggerSend
<1>4. QED
  BY <1>1, <1>2, <1>3, DeliveryFrame

\* The main loop of the worker starts the receive task or leaves it alone.
LEMMA DeliveryWorker ==
  ASSUME ControlInv, ControlInv', Transfer', WorkerNext
  PROVE  Delivery!Choose \/ UNCHANGED Delivery!vars
<1>1. Held /\ UNCHANGED <<dest, cliResult, sendHash>>
  BY DEF WorkerNext, WorkerMetadata, AcceptEarly, AcceptOffer, RejectOffer, WorkerResumeOk,
     WorkerRestart, WorkerPauseMsg, WorkerFileSent, WorkerDisconnected, WorkerStops,
     Held, files, setup, client, sendTask, counts
<1>2. UNCHANGED recvTask \/ (recvState = "idle" /\ recvState' = "triggered")
  <2>1. CASE WorkerMetadata
    <3>1. \E j \in DOMAIN toWorker : toWorker[j].type = "METADATA"
      BY <2>1, Taken DEF ControlInv, TypeOK, WorkerMetadata, WorkerTakes
    <3>2. recvState = "idle"
      BY <3>1 DEF ControlInv, Handshake, StepMeans, Unanswered
    <3>3. QED
      BY <2>1, <3>2 DEF WorkerMetadata, HandleAccept, TriggerRecv
  <2>2. CASE AcceptOffer
    <3>1. recvState = "idle"
      BY <2>2 DEF AcceptOffer, ControlInv, Handshake, Offsets, Unanswered
    <3>2. QED
      BY <2>2, <3>1 DEF AcceptOffer, HandleAccept, TriggerRecv
  <2>3. pendingRecv # None => recvState = "idle"
    BY DEF ControlInv, Handshake, Offsets
  <2>4. CASE WorkerResumeOk
    BY <2>3, <2>4 DEF WorkerResumeOk, TriggerRecv
  <2>5. CASE WorkerRestart
    BY <2>3, <2>5 DEF WorkerRestart, TriggerRecv
  <2>6. QED
    BY <2>1, <2>2, <2>4, <2>5
    DEF WorkerNext, AcceptEarly, RejectOffer, WorkerPauseMsg, WorkerFileSent, WorkerDisconnected,
        WorkerStops
<1>3. CASE UNCHANGED recvTask
  BY <1>1, <1>3, DeliveryFrame DEF recvTask
<1>4. QED
  BY <1>1, <1>2, <1>3, DeliveryChoice

\* The receive task writes, fails or delivers; what it does to a part file is not seen.
LEMMA DeliveryReceiver ==
  ASSUME ControlInv, Transfer, ControlInv', Transfer', RecvNext
  PROVE  \/ Delivery!Write \/ Delivery!Deliver \/ Delivery!Fail
         \/ UNCHANGED Delivery!vars
<1>0. TypeOK /\ TypeOK' /\ Writing
  BY DEF ControlInv
<1>1. Held /\ UNCHANGED <<recvPlan, cliResult, sendHash>>
  BY DEF RecvNext, RecvOpen, RecvUnit, RecvAbort, RecvComplete, RecvVerify, RecvGivesUp,
     Held, files, setup, client, sendTask, counts
<1>2. ASSUME NEW f, SetTarget(f), recvPlan.usePart PROVE UNCHANGED dest
  BY <1>2 DEF SetTarget
<1>3. ASSUME NEW f, SetTarget(f), ~recvPlan.usePart PROVE dest' = f
  BY <1>3 DEF SetTarget
<1>4. CASE RecvOpen
  <2>1. recvState = "triggered"
    BY <1>4 DEF RecvOpen
  <2>2. CASE Fails("Etc") /\ UNCHANGED dest
    BY <1>0, <1>1, <2>1, <2>2, DeliveryFailure DEF Fails
  <2>3. CASE recvState' = "receiving" /\ UNCHANGED dest
    BY <1>1, <2>1, <2>3, DeliveryFrame DEF AtWork
  <2>4. CASE recvState' = "receiving" /\ SetTarget(<<>>)
    <3>1. CASE recvPlan.usePart
      BY <1>2, <2>3, <2>4, <3>1
    <3>2. CASE ~recvPlan.usePart
      <4>1. dest' = <<>>
        BY <1>3, <2>4, <3>2
      <4>2. dest' \in File
        BY <4>1, EmptySeq DEF File
      <4>3. QED
        BY <1>0, <1>1, <2>1, <2>4, <3>2, <4>2, DeliveryWrite
    <3>3. QED
      BY <3>1, <3>2
  <2>5. QED
    BY <1>4, <2>2, <2>3, <2>4 DEF RecvOpen
<1>5. CASE RecvUnit
  <2>1. recvState = "receiving" /\ recvState' = "receiving"
    BY <1>5 DEF RecvUnit
  <2>2. Append(Target, Head(fileStream)) \in File /\ SetTarget(Append(Target, Head(fileStream)))
    BY <1>0, <1>5, <2>1, TargetType, HeadTailProperties, AppendProperties DEF RecvUnit, TypeOK, File
  <2>3. CASE recvPlan.usePart
    BY <1>1, <1>2, <2>1, <2>2, <2>3, DeliveryFrame DEF AtWork
  <2>4. CASE ~recvPlan.usePart
    <3>1. dest' \in File
      BY <1>3, <2>2, <2>4
    <3>2. QED
      BY <1>0, <1>1, <2>1, <2>4, <3>1, DeliveryWrite
  <2>5. QED
    BY <2>3, <2>4
<1>6. CASE RecvAbort
  <2>1. recvState = "receiving" /\ recvState' = "failed"
    BY <1>6 DEF RecvAbort, Fails
  <2>2. PICK lost \in 0..Len(rcvd) : SetTarget(SubSeq(Target, 1, Len(Target) - lost))
    BY <1>6 DEF RecvAbort
  <2>3. Target \in File /\ Len(Target) \in Nat /\ Len(rcvd) \in Nat
    BY <1>0, <2>1, TargetType, LenProperties DEF TypeOK, File
  <2>4. Len(Target) = recvPlan.offset + Len(rcvd) /\ recvPlan.offset \in Nat
    BY <1>0, <2>1 DEF Transfer, OnDisk, Written, RecvPos, ControlInv, Handshake, Offsets, TypeOK, Plan
  <2>5. Len(Target) - lost \in Nat /\ Len(Target) - lost <= Len(Target)
    BY <2>2, <2>3, <2>4
  <2>6. SubSeq(Target, 1, Len(Target) - lost) \in File
    BY <2>3, <2>5, CutType
  <2>7. dest' = dest \/ (~recvPlan.usePart /\ dest' \in File)
    BY <1>2, <1>3, <2>2, <2>6
  <2>8. QED
    BY <1>0, <1>1, <2>1, <2>7, DeliveryFailure
<1>7. CASE RecvComplete
  BY <1>1, <1>7, DeliveryFrame DEF RecvComplete, files, AtWork
<1>8. CASE RecvVerify
  <2>1. recvState = "awaitHash" /\ recvState' \in {"done", "failed"}
    BY <1>8 DEF RecvVerify, Fails
  <2>2. CASE recvState' = "failed"
    <3>1. UNCHANGED dest
      BY <1>8, <2>2 DEF RecvVerify
    <3>2. QED
      BY <1>0, <1>1, <2>1, <2>2, <3>1, DeliveryFailure
  <2>3. CASE recvState' = "done"
    <3>1. IF recvPlan.usePart THEN dest' = part ELSE UNCHANGED dest
      BY <1>8, <2>3 DEF RecvVerify, Fails
    <3>2. dest' \in File
      BY <1>0, <2>1, <3>1, TargetType DEF Target
    <3>3. /\ Mode # "undecided" /\ Mode' = Mode /\ Outcome = "none" /\ Outcome' = "delivered"
          /\ Mode = "inPlace" => UNCHANGED dest
      BY <1>1, <2>1, <2>3, <3>1 DEF Mode, Outcome
    <3>4. HasToStage' = HasToStage /\ Reported' = Reported /\ src' = src
      BY <1>1, HeldKeeps DEF Reported, Held
    <3>5. Vouched' => dest' = src'
      BY DEF Transfer, Committed, Vouched
    <3>6. Vouched' \in BOOLEAN
      BY DEF Vouched, Compared, Honest
    <3>7. QED
      BY <3>2, <3>3, <3>4, <3>5, <3>6 DEF Delivery!Deliver
  <2>4. QED
    BY <2>1, <2>2, <2>3
<1>9. CASE RecvGivesUp
  BY <1>0, <1>1, <1>9, DeliveryFailure DEF RecvGivesUp, files
<1>10. QED
  BY <1>4, <1>5, <1>6, <1>7, <1>8, <1>9 DEF RecvNext

\* A transfer keeps the promise of FileDelivery: a staged destination is replaced in
\* one step or not at all, nothing touches it after the verdict, what is vouched for
\* is the source, and the CLI reports nothing complete that was not delivered.
THEOREM DeliveryImplemented == Spec => ImplementsFileDelivery
<1>1. Init => Delivery!Init
  <2> SUFFICES ASSUME Init PROVE Delivery!Init
    OBVIOUS
  <2>1. Mode = "undecided" /\ Outcome = "none" /\ Reported = FALSE /\ Vouched = FALSE
    BY DEF Init, Mode, Outcome, Reported, Vouched
  <2>2. HasToStage \in BOOLEAN
    BY DEF HasToStage
  <2>3. QED
    BY <2>1, <2>2 DEF Delivery!Init
<1>2. ControlInv /\ ControlInv' /\ Transfer /\ Transfer' /\ [Next]_vars => [Delivery!Next]_(Delivery!vars)
  <2> SUFFICES ASSUME ControlInv, ControlInv', Transfer, Transfer', [Next]_vars
               PROVE  [Delivery!Next]_(Delivery!vars)
    OBVIOUS
  <2>1. CASE (\E o \in Options : StartSession(o)) \/ (\E f \in Sources : EditSource(f)) \/ ClientVerdict
    BY <2>1, DeliveryUser DEF Delivery!Next
  <2>2. CASE \/ SendFile \/ ClientReady \/ ClientResumeReady \/ ClientDisconnected \/ ClientStops
             \/ SendNext \/ UserPause \/ UserResume \/ UserCancel \/ LoseConnection \/ Finished
             \/ UNCHANGED vars
    BY <2>2, DeliveryClient
  <2>3. CASE WorkerNext
    BY <2>3, DeliveryWorker DEF Delivery!Next
  <2>4. CASE RecvNext
    BY <2>4, DeliveryReceiver DEF Delivery!Next
  <2>5. QED
    BY <2>1, <2>2, <2>3, <2>4 DEF Next, ClientNext, UserNext
<1>3. QED
  BY <1>1, <1>2, ControlCorrect, TransferCorrect, PTL DEF Spec, ImplementsFileDelivery, Delivery!Spec
=============================================================================

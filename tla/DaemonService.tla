---------------------------- MODULE DaemonService ----------------------------
(***************************************************************************)
(* quic daemon and its clients: sessions that run at the same time and     *)
(* write files of one basename into one --save-dir.                        *)
(*                                                                         *)
(* Every connection gets a task of its own that knows nothing of the       *)
(* others; sessions of other basenames share nothing with these.  What a   *)
(* session does on the wire is PeerTransfer's subject: here a session is   *)
(* the steps that touch the directory, with all that others may do between *)
(* them.  Clients are quic direct with --checksum, one file each.          *)
(*                                                                         *)
(* A file is an inode that keeps its content under whatever name it has: a *)
(* session that opened the part file goes on writing to that inode after   *)
(* another session has renamed it.                                         *)
(***************************************************************************)
EXTENDS Naturals, Sequences

CONSTANTS
    Sessions,  \* a session is one run of quic direct
    Files,     \* the files that one may send
    Threshold, \* RESUME_THRESHOLD_BYTES, in units; FILE_CHUNK_SIZE is one unit
    Before,    \* what may be at the destination before the daemon starts
    Failing,   \* sessions whose operations on files may fail, at either end
    Hole,      \* a unit that nobody wrote
    None

Unit == {Hole} \cup UNION {{f[i] : i \in DOMAIN f} : f \in Files \cup (Before \ {None})}

ASSUME DaemonAssumption ==
    /\ Files \subseteq Seq(Unit) \ {<<>>} /\ Files # {}
    /\ Threshold \in Nat \ {0} /\ Before \subseteq Seq(Unit) \cup {None} /\ None \notin Seq(Unit)
    /\ Failing \subseteq Sessions

VARIABLES
    refuse,   \* --on-conflict refuse
    wresume,  \* the daemon's own --resume
    inodes,   \* contents, in the order of their creation
    dir,      \* the inode of the destination and of its part file, 0 if there is none
    client,   \* the process of the client
    file,     \* what it sends
    resume,   \* its -c
    up,       \* the connection
    state,    \* the session's task and the tasks it started
    plan,     \* resume_offset, use_part, and whether the fingerprint sent is the client's
    fd, pos,  \* the inode that is written, and how far
    outcome,  \* what the session reports
    alone,    \* history: no other session had the files meanwhile
    asked,    \* history: the destination existed at the session's conflict check
    unread    \* history: sessions whose file could not be read back for its hash

options == <<refuse, wresume>>
vars == <<options, inodes, dir, client, file, resume, up, state, plan, fd, pos, outcome,
          alone, asked, unread>>
disk == <<inodes, dir>>
request == <<file, resume>>
writer == <<plan, fd, pos>>
history == <<alone, asked, unread>>

Outcomes == {"none", "Completed", "HashFailed", "Etc", "RejectedUnwanted"}

From(offset, usePart) == [offset |-> offset, usePart |-> usePart, same |-> FALSE]

\* From AcceptFile until it reports: the session has the files.
Busy(s) == state[s] \in {"accepted", "resuming", "triggered", "receiving", "hashing", "renaming"}

TypeOK ==
    /\ refuse \in BOOLEAN /\ wresume \in BOOLEAN
    /\ inodes \in Seq(Seq(Unit)) /\ dir \in [{"part", "dest"} -> 0 .. Len(inodes)]
    /\ client \in [Sessions -> {"off", "connected", "offered", "failed", "refused"} \cup Outcomes]
    /\ file \in [Sessions -> Files] /\ resume \in [Sessions -> BOOLEAN] /\ up \in [Sessions -> BOOLEAN]
    /\ state \in [Sessions -> {"none", "accept", "offer", "accepted", "resuming", "triggered",
                               "receiving", "hashing", "renaming", "reported", "done"}]
    /\ plan \in [Sessions -> [offset : Nat, usePart : BOOLEAN, same : BOOLEAN]]
    /\ fd \in [Sessions -> 0 .. Len(inodes)] /\ pos \in [Sessions -> Nat]
    /\ \A s \in Sessions : pos[s] <= Len(file[s]) /\ plan[s].offset <= Len(file[s])
    /\ outcome \in [Sessions -> Outcomes]
    /\ alone \in [Sessions -> BOOLEAN] /\ asked \in [Sessions -> BOOLEAN]
    /\ unread \subseteq Sessions

Init ==
    /\ refuse \in BOOLEAN /\ wresume \in BOOLEAN
    /\ \E before \in Before :
         /\ inodes = IF before = None THEN <<>> ELSE <<before>>
         /\ dir = [n \in {"part", "dest"} |-> IF n = "dest" /\ before # None THEN 1 ELSE 0]
    /\ client = [s \in Sessions |-> "off"]
    /\ file = [s \in Sessions |-> CHOOSE f \in Files : TRUE]
    /\ resume = [s \in Sessions |-> FALSE] /\ up = [s \in Sessions |-> FALSE]
    /\ state = [s \in Sessions |-> "none"]
    /\ plan = [s \in Sessions |-> From(0, FALSE)]
    /\ fd = [s \in Sessions |-> 0] /\ pos = [s \in Sessions |-> 0]
    /\ outcome = [s \in Sessions |-> "none"]
    /\ alone = [s \in Sessions |-> TRUE] /\ asked = [s \in Sessions |-> FALSE] /\ unread = {}

Becomes(s, st) == state' = [state EXCEPT ![s] = st]

-----------------------------------------------------------------------------
\* The directory

Exists(n) == dir[n] # 0
Content(n) == inodes[dir[n]]
Held(n) == IF Exists(n) THEN Content(n) ELSE None

\* Opens a name, creating the file if there is none; truncated or as it is.
OpenFile(s, n, truncate) ==
    IF Exists(n)
    THEN /\ inodes' = IF truncate THEN [inodes EXCEPT ![dir[n]] = <<>>] ELSE inodes
         /\ fd' = [fd EXCEPT ![s] = dir[n]] /\ UNCHANGED dir
    ELSE /\ inodes' = Append(inodes, <<>>)
         /\ fd' = [fd EXCEPT ![s] = Len(inodes) + 1]
         /\ dir' = [dir EXCEPT ![n] = Len(inodes) + 1]

Put(content, i, unit) ==
    [k \in 1 .. (IF i > Len(content) THEN i ELSE Len(content)) |->
        IF k = i THEN unit ELSE IF k <= Len(content) THEN content[k] ELSE Hole]

-----------------------------------------------------------------------------
\* The client: run_direct_cli

\* The daemon hands a connection to a task when it appears, before the handshake.
Connect(s) ==
    /\ client[s] = "off"
    /\ client' = [client EXCEPT ![s] = "connected"] /\ up' = [up EXCEPT ![s] = TRUE]
    /\ \E f \in Files : file' = [file EXCEPT ![s] = f]
    /\ \E r \in BOOLEAN : resume' = [resume EXCEPT ![s] = r]
    /\ Becomes(s, "accept")
    /\ UNCHANGED <<options, disk, writer, outcome, history>>

\* Not in the allow-list, or another certificate than the client has pinned.
HandshakeFails(s) ==
    /\ client[s] = "off"
    /\ client' = [client EXCEPT ![s] = "refused"] /\ Becomes(s, "accept")
    /\ UNCHANGED <<options, disk, request, up, writer, outcome, history>>

\* Both streams with their headers, then the offer.
OfferFile(s) ==
    /\ client[s] = "connected" /\ client' = [client EXCEPT ![s] = "offered"]
    /\ UNCHANGED <<options, disk, request, up, state, writer, outcome, history>>

\* The session's report ends the client; so do 15 seconds without an event
\* (nothing counts while the daemon hashes), Ctrl-C and the loss of the connection.
HearReport(s) ==
    /\ client[s] = "offered" /\ up[s] /\ outcome[s] # "none"
    /\ client' = [client EXCEPT ![s] = outcome[s]] /\ up' = [up EXCEPT ![s] = FALSE]
    /\ UNCHANGED <<options, disk, request, state, writer, outcome, history>>

GiveUp(s) ==
    /\ client[s] \in {"connected", "offered"}
    /\ client' = [client EXCEPT ![s] = "failed"] /\ up' = [up EXCEPT ![s] = FALSE]
    /\ UNCHANGED <<options, disk, request, state, writer, outcome, history>>

-----------------------------------------------------------------------------
\* A session: handle_incoming_connection and the receiving side of run_peer

\* accept_stream and read_exact of the headers, for both streams.
TakeStreams(s) ==
    /\ state[s] = "accept" /\ up[s] /\ client[s] = "offered"
    /\ Becomes(s, "offer")
    /\ UNCHANGED <<options, disk, client, request, up, writer, outcome, history>>

\* The connection ends with a stream accepted; with none the task waits for ever.
StreamsEnd(s) ==
    /\ state[s] = "accept" /\ ~up[s] /\ client[s] = "failed"
    /\ Becomes(s, "done")
    /\ UNCHANGED <<options, disk, client, request, up, writer, outcome, history>>

\* Variant for the checks: the policy is forgotten.
OverwritesAnyway(s) == FALSE

\* resume_requested: the daemon's own --resume lifts the policy for every client.
Refused(s) == refuse /\ Exists("dest") /\ ~(wresume \/ resume[s])

\* FileOffered.
Decide(s) ==
    /\ state[s] = "offer"
    /\ asked' = [asked EXCEPT ![s] = Exists("dest")]
    /\ IF Refused(s)
       THEN /\ Becomes(s, "reported")
            /\ outcome' = [outcome EXCEPT ![s] = "RejectedUnwanted"] /\ UNCHANGED alone
       ELSE /\ Becomes(s, "accepted") /\ UNCHANGED outcome
            /\ alone' = IF \E o \in Sessions \ {s} : Busy(o)
                        THEN [o \in Sessions |-> alone[o] /\ ~Busy(o) /\ o # s]
                        ELSE alone
    /\ UNCHANGED <<options, disk, client, request, up, writer, unread>>

\* Variant for the checks: no file is staged.
NeverStaged(s) == FALSE

UsePart(s) == Len(file[s]) >= Threshold

\* Variant for the checks: the part file of a longer version is taken as it is.
ResumesAnyLength(s) ==
    CASE Exists("part") -> From(Len(Content("part")), TRUE)
      [] Exists("dest") /\ Len(Content("dest")) = Len(file[s]) -> From(Len(file[s]), FALSE)
      [] OTHER -> From(0, TRUE)

\* Of a part file, or of a destination of the right size: where to go on.
ResumeFrom(s) ==
    LET size == Len(file[s]) IN
    CASE Exists("part") /\ Len(Content("part")) <= size -> From(Len(Content("part")), TRUE)
      [] ~Exists("part") /\ Exists("dest") /\ Len(Content("dest")) = size -> From(size, FALSE)
      [] OTHER -> From(0, TRUE)

Target(from) == IF from.usePart THEN "part" ELSE "dest"

\* handle_accept, after the command has come round to the main loop.  The
\* fingerprint is of what there is to resume, and of the first unit; should_resume
\* needs the client's -c.  A fingerprint that cannot be computed differs from one
\* that can, and two of them are equal.
Accept(s) ==
    /\ state[s] = "accepted"
    /\ LET from == ResumeFrom(s) IN
       IF UsePart(s) /\ resume[s] /\ from.offset > 0
       THEN /\ Becomes(s, "resuming")
            /\ \E same \in BOOLEAN :
                 /\ same = (Content(Target(from))[1] = file[s][1]) \/ s \in Failing
                 /\ plan' = [plan EXCEPT ![s] = [from EXCEPT !.same = same]]
       ELSE Becomes(s, "triggered") /\ plan' = [plan EXCEPT ![s] = From(0, UsePart(s))]
    /\ UNCHANGED <<options, disk, client, request, up, fd, pos, outcome, history>>

\* RESUME_OK, or RESTART_FROM_ZERO: then the part file is emptied, whichever
\* file was to be resumed; nobody asks whether that failed.
EmptyPart ==
    IF Exists("part")
    THEN inodes' = [inodes EXCEPT ![dir["part"]] = <<>>] /\ UNCHANGED dir
    ELSE /\ inodes' = Append(inodes, <<>>)
         /\ dir' = [dir EXCEPT !["part"] = Len(inodes) + 1]

Resume(s) ==
    /\ state[s] = "resuming" /\ up[s] /\ Becomes(s, "triggered")
    /\ IF plan[s].same THEN UNCHANGED <<disk, plan>>
       ELSE /\ plan' = [plan EXCEPT ![s].offset = 0]
            /\ EmptyPart \/ (s \in Failing /\ UNCHANGED disk)
    /\ UNCHANGED <<options, client, request, up, fd, pos, outcome, history>>

Reports(s, result) == Becomes(s, "reported") /\ outcome' = [outcome EXCEPT ![s] = result]

\* The directory, the open, the seek or the create may fail.
Open(s) ==
    /\ state[s] = "triggered"
    /\ \/ /\ Becomes(s, "receiving") /\ OpenFile(s, Target(plan[s]), plan[s].offset = 0)
          /\ pos' = [pos EXCEPT ![s] = plan[s].offset] /\ UNCHANGED outcome
       \/ s \in Failing /\ Reports(s, "Etc") /\ UNCHANGED <<disk, fd, pos>>
    /\ UNCHANGED <<options, client, request, up, plan, history>>

Receive(s) ==
    /\ state[s] = "receiving" /\ pos[s] < Len(file[s]) /\ up[s]
    /\ inodes' = [inodes EXCEPT ![fd[s]] = Put(@, pos[s] + 1, file[s][pos[s] + 1])]
    /\ pos' = [pos EXCEPT ![s] = @ + 1]
    /\ UNCHANGED <<options, dir, client, request, up, state, plan, fd, outcome, history>>

\* The stream ends, or a write or the flush fails.  What was written stays in the
\* part file, or at the destination.
Interrupted(s) ==
    /\ state[s] = "receiving"
    /\ s \in Failing \/ (pos[s] < Len(file[s]) /\ ~up[s])
    /\ Reports(s, "Etc")
    /\ UNCHANGED <<options, disk, client, request, up, writer, history>>

Received(s) ==
    /\ state[s] = "receiving" /\ pos[s] = Len(file[s]) /\ Becomes(s, "hashing")
    /\ UNCHANGED <<options, disk, client, request, up, writer, outcome, history>>

\* Variant for the checks: a resumed file is not read again.
TrustsTheRest(s) == file[s]

\* A file received in one go is hashed as it comes; a resumed one is read back
\* by its name, and counts as verified when it cannot be read.
Hashed(s) ==
    IF plan[s].offset = 0 \/ ~Exists(Target(plan[s])) THEN file[s] ELSE Content(Target(plan[s]))

\* Both ends read a resumed file again; a hash that one of them could not
\* compute is NONE, and counts as equal.
Verify(s) ==
    /\ state[s] = "hashing" /\ up[s]
    /\ \/ Hashed(s) = file[s] /\ Becomes(s, "renaming") /\ UNCHANGED <<outcome, unread>>
       \/ Hashed(s) # file[s] /\ Reports(s, "HashFailed") /\ UNCHANGED unread
       \/ /\ s \in Failing /\ plan[s].offset > 0
          /\ Becomes(s, "renaming") /\ unread' = unread \cup {s} /\ UNCHANGED outcome
    /\ UNCHANGED <<options, disk, client, request, up, writer, alone, asked>>

\* FILE_SENT does not come any more.
HashLost(s) ==
    /\ state[s] = "hashing" /\ ~up[s] /\ Becomes(s, "reported")
    /\ UNCHANGED <<options, disk, client, request, up, writer, outcome, history>>

Finish(s) ==
    /\ state[s] = "renaming"
    /\ \/ ~plan[s].usePart /\ Reports(s, "Completed") /\ UNCHANGED dir
       \/ /\ plan[s].usePart /\ Exists("part") /\ Reports(s, "Completed")
          /\ dir' = [dir EXCEPT !["dest"] = dir["part"], !["part"] = 0]
       \/ /\ plan[s].usePart /\ (~Exists("part") \/ s \in Failing)
          /\ Reports(s, "HashFailed") /\ UNCHANGED dir
    /\ UNCHANGED <<options, inodes, client, request, up, writer, history>>

\* Variant for the checks: a rejected session goes on waiting for another offer.
KeepsRejected(s) ==
    \/ state[s] = "reported" /\ outcome[s] # "RejectedUnwanted"
    \/ state[s] \in {"offer", "accepted", "resuming"} /\ ~up[s]

\* The event loop cancels the session 200 ms after its report, a rejected one
\* when its client has gone; so too when the loss of the connection comes before
\* the command or the client's answer.
Ending(s) ==
    \/ state[s] = "reported" /\ (outcome[s] # "RejectedUnwanted" \/ ~up[s])
    \/ state[s] \in {"offer", "accepted", "resuming"} /\ ~up[s]

End(s) ==
    /\ Ending(s) /\ Becomes(s, "done") /\ up' = [up EXCEPT ![s] = FALSE]
    /\ UNCHANGED <<options, disk, client, request, writer, outcome, history>>

ClientNext(s) == OfferFile(s) \/ HearReport(s) \/ GiveUp(s)

SessionNext(s) ==
    \/ TakeStreams(s) \/ Decide(s) \/ Accept(s) \/ Resume(s) \/ Open(s)
    \/ Receive(s) \/ Interrupted(s) \/ Received(s) \/ Verify(s) \/ HashLost(s) \/ Finish(s) \/ End(s)

\* A daemon that nobody calls.
Listening == (\A s \in Sessions : client[s] \notin {"connected", "offered"}) /\ UNCHANGED vars

Next ==
    \/ \E s \in Sessions : Connect(s) \/ HandshakeFails(s) \/ ClientNext(s) \/ StreamsEnd(s) \/ SessionNext(s)
    \/ Listening

Spec == Init /\ [][Next]_vars

\* The daemon's tasks are scheduled, and a client waits for no event longer
\* than 15 seconds; nobody need connect.
FairSpec == Spec /\ \A s \in Sessions : WF_vars(ClientNext(s)) /\ WF_vars(SessionNext(s))

-----------------------------------------------------------------------------
\* Properties

\* The session that changes the disk in this step.
Acts(s) == Busy(s) /\ <<state[s], pos[s]>>' # <<state[s], pos[s]>>

CompletesWhole(s) ==
    outcome[s] # "Completed" /\ outcome'[s] = "Completed" /\ alone[s] /\ s \notin unread
        => Held("dest")' = file[s]

\* A verified transfer that is reported complete is at the destination, down to
\* the last unit: what an interrupted one left there or in the part file does
\* not show.  Unless another session had the files meanwhile, or an end could not
\* read a resumed file again.
DeliveredWhole == [][\A s \in Sessions : CompletesWhole(s)]_vars

ChangesAllowed ==
    refuse /\ ~wresume /\ Exists("dest") /\ Held("dest")' # Held("dest")
        => \E s \in Sessions : Acts(s) /\ (~asked[s] \/ resume[s])

\* Under --on-conflict refuse, without a --resume of the daemon's own, a file that
\* is at the destination is changed only by a session that asked before it was
\* there, or by one whose client resumes.
RefuseHolds == [][ChangesAllowed]_vars

ReplacesWhole(s) ==
    Exists("dest") /\ Held("dest")' # Held("dest") /\ Acts(s)
    /\ Len(file[s]) >= Threshold /\ ~resume[s] /\ alone[s]
        => outcome'[s] = "Completed"

\* A file of 20 MiB or more that is not resumed replaces the destination in one
\* step, with its completion; what is there stays whole however the transfer
\* ends.  Unless another session had the files meanwhile.
ReplacedAtOnce == [][\A s \in Sessions : ReplacesWhole(s)]_vars

\* A session whose streams have been accepted ends, whatever its client does
\* and whatever other sessions do to its files.
SessionsEnd == \A s \in Sessions : state[s] = "offer" ~> state[s] = "done"

\* docs/PRODUCTION_TEST_PLAN.md:71: "No incomplete file is presented as complete."
\* Seen at the moment of the report.
CompleteIsWhole ==
    [][ \A s \in Sessions :
          outcome[s] # "Completed" /\ outcome'[s] = "Completed"
              => Len(Held("dest")') = Len(file[s]) ]_vars
=============================================================================

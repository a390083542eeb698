------------------------ MODULE ConnectionSelection ------------------------
(***************************************************************************)
(* How one run of quiczilla-cli gets a file to the remote side: it races   *)
(* the direct and the STUN candidate, hands the first authenticated        *)
(* connection to the transfer, and falls back to SSH.                      *)
(*                                                                         *)
(* The select! loop of the CLI, the MsQuic callbacks of both machines and  *)
(* the one-shot worker interleave.  The worker was started over SSH and    *)
(* serves one connection: the first its listener reported, which happens   *)
(* before that connection's handshake.  The transfer itself is the subject *)
(* of PeerTransfer and is one step here.                                   *)
(***************************************************************************)
EXTENDS Integers, Sequences

CONSTANTS
    Transports,   \* values of --transport that are tried
    None

TransportPreference == {"auto", "direct", "manual", "stun", "ssh"}

ASSUME TransportAssumption ==
    /\ Transports \subseteq TransportPreference
    /\ None \notin {"direct", "stun"} /\ None \notin Int

VARIABLES
    transport,                 \* --transport
    stunAddr,                  \* the worker reported a public candidate
    cli,                       \* what the CLI is doing
    attempt,                   \* per candidate: its connect_client future
    directPending, stunPending, headStart,    \* locals of the race
    selected,                  \* the connection given to the transfer
    sshTried, exitCode,
    remote,                    \* per candidate: the connection at the worker
    connRx, served, worker     \* listener queue, connection being served

race == <<directPending, stunPending, headStart>>
cliVars == <<cli, selected, sshTried, exitCode>>
workerVars == <<connRx, served, worker>>
vars == <<transport, stunAddr, attempt, race, cliVars, remote, workerVars>>

Candidates == {"direct", "stun"}

\* "idle": never polled; "ok", "err": completed but not polled since; "used":
\* polled to completion; "dropped": the loser of the race.
AttemptStates == {"idle", "connecting", "ok", "err", "used", "dropped"}

ExitCodes == {0, 1, 3, 4, 5, 6, 130}
Aborted   == 134     \* a panic, which the release profile turns into an abort

TypeOK ==
    /\ transport \in Transports /\ stunAddr \in BOOLEAN
    /\ cli \in {"start", "single", "racing", "transfer", "ssh", "ended"}
    /\ attempt \in [Candidates -> AttemptStates]
    /\ directPending \in BOOLEAN /\ stunPending \in BOOLEAN /\ headStart \in {"running", "elapsed"}
    /\ selected \in Candidates \cup {None} /\ sshTried \in BOOLEAN
    /\ exitCode \in ExitCodes \cup {Aborted, None}
    /\ remote \in [Candidates -> {"none", "new", "open", "closed"}]
    /\ connRx \in Seq(Candidates) /\ served \in Candidates \cup {None}
    /\ worker \in {"waiting", "serving", "ended"}

Init ==
    /\ transport \in Transports /\ stunAddr \in BOOLEAN
    /\ cli = "start" /\ selected = None /\ sshTried = FALSE /\ exitCode = None
    /\ attempt = [c \in Candidates |-> "idle"]
    /\ directPending = TRUE /\ stunPending = FALSE /\ headStart = "running"
    /\ remote = [c \in Candidates |-> "none"]
    /\ connRx = <<>> /\ served = None /\ worker = "waiting"

-----------------------------------------------------------------------------
\* The CLI

\* The local ssh process is killed; the remote worker is not told.
Exit(code) == cli' = "ended" /\ exitCode' = code

FallBack == cli' = "ssh" /\ UNCHANGED exitCode

\* Variant for the checks: an exit code of another failure.
GiveUpAsUsageError(codes) == IF transport = "auto" THEN FallBack ELSE Exit(2)

\* No connection, or the connection is gone: only auto mode goes on over SSH.
GiveUp(codes) ==
    IF transport = "auto" THEN FallBack ELSE \E code \in codes : Exit(code)

\* STUN discovery by the client fails: an error only where STUN was asked for.
DiscoveryFails ==
    /\ cli = "start" /\ transport = "stun"
    /\ Exit(1)
    /\ UNCHANGED <<transport, stunAddr, attempt, race, selected, sshTried, remote, workerVars>>

\* The candidates of the transport; a connection attempt starts when its
\* future is first polled.
ChooseCandidates ==
    /\ cli = "start"
    /\ \/ /\ transport = "ssh"
          /\ FallBack /\ UNCHANGED attempt
       \/ /\ transport \in {"direct", "manual"} \/ (transport = "auto" /\ ~stunAddr)
          /\ cli' = "single" /\ attempt' = [attempt EXCEPT !["direct"] = "connecting"]
          /\ UNCHANGED exitCode
       \/ /\ transport = "stun" /\ stunAddr
          /\ cli' = "single" /\ attempt' = [attempt EXCEPT !["stun"] = "connecting"]
          /\ UNCHANGED exitCode
       \/ /\ transport = "stun" /\ ~stunAddr
          /\ Exit(1) /\ UNCHANGED attempt
       \/ /\ transport = "auto" /\ stunAddr
          /\ cli' = "racing" /\ attempt' = [attempt EXCEPT !["direct"] = "connecting"]
          /\ UNCHANGED exitCode
    /\ UNCHANGED <<transport, stunAddr, race, selected, sshTried, remote, workerVars>>

\* c wins; the other future is dropped, which closes its connection.
Select(c) ==
    /\ cli' = "transfer" /\ selected' = c
    /\ attempt' = [d \in Candidates |-> IF d = c THEN "used"
                                        ELSE IF attempt[d] \in {"idle", "used"} THEN attempt[d]
                                        ELSE "dropped"]
    /\ remote' = [d \in Candidates |-> IF d # c /\ remote[d] \in {"new", "open"}
                                       THEN "closed" ELSE remote[d]]
    /\ UNCHANGED exitCode

\* Variant for the checks: only a success ends the wait.
SingleSucceeds(c) ==
    /\ cli = "single" /\ attempt[c] = "ok" /\ Select(c)
    /\ UNCHANGED <<transport, stunAddr, race, sshTried, workerVars>>

\* A single candidate is awaited.
SingleResolved(c) ==
    /\ cli = "single"
    /\ \/ attempt[c] = "ok" /\ Select(c)
       \/ /\ attempt[c] = "err" /\ GiveUp({1, 3, 4})
          /\ attempt' = [attempt EXCEPT ![c] = "used"] /\ UNCHANGED <<selected, remote>>
    /\ UNCHANGED <<transport, stunAddr, race, sshTried, workerVars>>

\* The three branches of select!, in whichever order it finds them ready.

\* Variant for the checks: only the direct candidate's failure is awaited.
BailOnEither(dp, sp) == ~dp

\* The test after select!; the race is auto mode's, which answers with SSH.
Bail(dp, sp) == ~dp /\ ~sp

AfterSelect(dp, sp) ==
    IF Bail(dp, sp) THEN FallBack ELSE UNCHANGED <<cli, exitCode>>

DirectResolved ==
    /\ cli = "racing" /\ directPending /\ attempt["direct"] \in {"ok", "err"}
    /\ directPending' = FALSE
    /\ \/ attempt["direct"] = "ok" /\ Select("direct") /\ UNCHANGED stunPending
       \/ /\ attempt["direct"] = "err" /\ stunPending' = TRUE
          /\ attempt' = [attempt EXCEPT !["direct"] = "used"]
          /\ AfterSelect(FALSE, TRUE) /\ UNCHANGED <<selected, remote>>
    /\ UNCHANGED <<transport, stunAddr, headStart, sshTried, workerVars>>

\* The branch is enabled whenever the STUN candidate is not pending, and a
\* timer that has elapsed stays ready.
HeadStartOver == cli = "racing" /\ ~stunPending /\ headStart = "elapsed"

HeadStart ==
    /\ HeadStartOver
    /\ stunPending' = TRUE
    /\ UNCHANGED <<transport, stunAddr, attempt, directPending, headStart, cliVars, remote,
                   workerVars>>

\* First poll of the STUN future.
StunStarted ==
    /\ cli = "racing" /\ stunPending /\ attempt["stun"] = "idle"
    /\ attempt' = [attempt EXCEPT !["stun"] = "connecting"]
    /\ UNCHANGED <<transport, stunAddr, race, cliVars, remote, workerVars>>

StunResolved ==
    /\ cli = "racing" /\ stunPending /\ attempt["stun"] \in {"ok", "err"}
    /\ stunPending' = FALSE
    /\ \/ attempt["stun"] = "ok" /\ Select("stun")
       \/ /\ attempt["stun"] = "err"
          /\ attempt' = [attempt EXCEPT !["stun"] = "used"]
          /\ AfterSelect(directPending, FALSE) /\ UNCHANGED <<selected, remote>>
    /\ UNCHANGED <<transport, stunAddr, directPending, headStart, sshTried, workerVars>>

\* An async fn that has completed panics when it is polled again.
StunPolledAgain ==
    /\ cli = "racing" /\ stunPending /\ attempt["stun"] = "used"
    /\ Exit(Aborted)
    /\ UNCHANGED <<transport, stunAddr, attempt, race, selected, sshTried, remote, workerVars>>

\* The transfer's last event.  Disconnected is the only one SSH can follow.
TransferEnds ==
    /\ cli = "transfer" /\ served = selected /\ worker = "serving"
    /\ worker' = "ended" /\ \E code \in {0, 5, 6} : Exit(code)
    /\ UNCHANGED <<transport, stunAddr, attempt, race, selected, sshTried, remote, connRx, served>>

TransferLost ==
    /\ cli = "transfer"
    /\ GiveUp({1, 3, 4})
    /\ remote' = [remote EXCEPT ![selected] = "closed"]
    /\ UNCHANGED <<transport, stunAddr, attempt, race, selected, sshTried, workerVars>>

\* run_ssh_fallback: "mkdir && cat"; a digest that differs is not an error.
SshTransfer ==
    /\ cli = "ssh" /\ sshTried' = TRUE
    /\ \E code \in {0, 1} : Exit(code)
    /\ UNCHANGED <<transport, stunAddr, attempt, race, selected, remote, workerVars>>

\* q or Ctrl+C, which is listened to during the transfer only.
UserCancel ==
    /\ cli = "transfer"
    /\ Exit(130)
    /\ UNCHANGED <<transport, stunAddr, attempt, race, selected, sshTried, remote, workerVars>>

-----------------------------------------------------------------------------
\* The network, as the callbacks of both machines see it

HeadStartElapses ==
    /\ cli = "racing" /\ headStart = "running" /\ headStart' = "elapsed"
    /\ UNCHANGED <<transport, stunAddr, attempt, directPending, stunPending, cliVars, remote,
                   workerVars>>

\* NEW_CONNECTION: the first packet of an attempt arrives, and the connection
\* is queued for the worker before its handshake.
NewConnection(c) ==
    /\ attempt[c] = "connecting" /\ remote[c] = "none" /\ worker # "ended"
    /\ remote' = [remote EXCEPT ![c] = "new"]
    /\ connRx' = Append(connRx, c)
    /\ UNCHANGED <<transport, stunAddr, attempt, race, cliVars, served, worker>>

\* CONNECTED: certificates were accepted.
Connected(c) ==
    /\ attempt[c] = "connecting" /\ remote[c] = "new"
    /\ attempt' = [attempt EXCEPT ![c] = "ok"] /\ remote' = [remote EXCEPT ![c] = "open"]
    /\ UNCHANGED <<transport, stunAddr, race, cliVars, workerVars>>

\* SHUTDOWN_INITIATED_BY_TRANSPORT or _BY_PEER before CONNECTED: unreachable,
\* timed out, or a certificate with another thumbprint.
ConnectFails(c) ==
    /\ attempt[c] = "connecting"
    /\ attempt' = [attempt EXCEPT ![c] = "err"]
    /\ remote' = [remote EXCEPT ![c] = IF @ = "new" THEN "closed" ELSE @]
    /\ UNCHANGED <<transport, stunAddr, race, cliVars, workerVars>>

-----------------------------------------------------------------------------
\* The one-shot worker

\* The first connection in conn_rx is the only one; its streams are awaited
\* for ever, since a connection holds its own stream_tx.
TakeConnection ==
    /\ worker = "waiting" /\ connRx # <<>>
    /\ worker' = "serving" /\ served' = Head(connRx) /\ connRx' = Tail(connRx)
    /\ UNCHANGED <<transport, stunAddr, attempt, race, cliVars, remote>>

Finished == cli = "ended" /\ UNCHANGED vars

-----------------------------------------------------------------------------
CliNext == \/ DiscoveryFails \/ ChooseCandidates
           \/ \E c \in Candidates : SingleResolved(c)
           \/ DirectResolved \/ HeadStart \/ StunStarted \/ StunResolved \/ StunPolledAgain
           \/ SshTransfer
HandshakeNext(c) == Connected(c) \/ ConnectFails(c)
Next == \/ CliNext \/ HeadStartElapses \/ TakeConnection
        \/ \E c \in Candidates : NewConnection(c) \/ HandshakeNext(c)
        \/ TransferEnds \/ TransferLost \/ UserCancel \/ Finished

Spec == Init /\ [][Next]_vars

\* The runtime polls what is ready, timers elapse, a handshake ends (MsQuic
\* times it out) and a transfer that is served ends (PeerTransfer).
FairSpec == /\ Spec
            /\ WF_vars(CliNext) /\ WF_vars(HeadStartElapses) /\ WF_vars(TakeConnection)
            /\ WF_vars(TransferEnds)
            /\ \A c \in Candidates : WF_vars(HandshakeNext(c))

-----------------------------------------------------------------------------
\* Properties

\* The CLI turns from QUIC to SSH only after every candidate it had failed,
\* or after the connection it had selected was lost.
SshIsLastResort ==
    cli = "ssh" /\ transport = "auto" /\ selected = None =>
        \A c \in Candidates : attempt[c] = "used" \/ (c = "stun" /\ ~stunAddr)

\* With one candidate the worker serves the connection the client selected,
\* and the CLI comes to an end whatever the network does.
SingleCandidateSettles == (transport # "auto" \/ ~stunAddr) ~> exitCode # None

-----------------------------------------------------------------------------
\* What the documentation says and the code does not do

\* README, "Connection selection": if neither UDP candidate works, auto mode
\* falls back to SSH streaming.
AutoFallsBack ==
    transport = "auto" /\ exitCode # None /\ selected = None => sshTried

\* README, "Connection selection": the first authenticated connection wins,
\* that is, carries the transfer.
WinnerIsServed == selected # None ~> exitCode # None
=============================================================================

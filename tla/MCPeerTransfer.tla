-------------------------- MODULE MCPeerTransfer --------------------------
(***************************************************************************)
(* PeerTransfer with files of at most three units: chunks are two units    *)
(* long, the fingerprint covers one unit, and three units make a file      *)
(* large enough to be staged and resumed.                                  *)
(***************************************************************************)
EXTENDS PeerTransfer

Small    == <<0>>
Long     == <<0, 0, 0>>
LongTail == <<0, 1, 0>>   \* Long changed behind its fingerprint
LongHead == <<1, 0, 0>>   \* Long changed within its fingerprint

Session(checksum, resume) ==
    [checksum |-> checksum, resume |-> resume, verify |-> FALSE, wresume |-> FALSE,
     refuse |-> FALSE, early |-> FALSE]

MCUnits == {0, 1}

\* Safety: every combination of the client's options, and between them each worker
\* option that changes a path.
SafetySources == {Small, Long, LongTail, LongHead}
SafetyLeftovers == {None, LongTail}
SafetyOptions ==
    {Session(TRUE, FALSE), Session(TRUE, TRUE),
     [Session(FALSE, FALSE) EXCEPT !.refuse = TRUE, !.verify = TRUE],
     [Session(FALSE, TRUE) EXCEPT !.early = TRUE, !.wresume = TRUE, !.refuse = TRUE]}

\* Liveness: the size of the source does not change within a session.
LivenessSources   == {Long, LongHead}
LivenessLeftovers == {None, LongHead}
LivenessOptions   == {Session(TRUE, TRUE), [Session(FALSE, FALSE) EXCEPT !.refuse = TRUE]}
=============================================================================

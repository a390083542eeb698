--------------------- MODULE ConnectionSelectionProofs ---------------------
(***************************************************************************)
(* Theorems about ConnectionSelection, for any set of transports: SSH is   *)
(* the last resort, in whatever order candidates, timer and worker report. *)
(***************************************************************************)
EXTENDS ConnectionSelection, SequenceTheorems, TLAPS

\* What the CLI is doing says which candidates there are and how they stand.  In
\* the race, the flag of the direct candidate is whether it is still awaited.
Choosing ==
    /\ cli = "start" => directPending /\ \A c \in Candidates : attempt[c] = "idle"
    /\ cli = "single" /\ transport = "auto" => ~stunAddr /\ attempt["stun"] = "idle"
    /\ cli = "racing" => transport = "auto" /\ (directPending \/ attempt["direct"] = "used")
    /\ cli = "transfer" => selected # None

IInv == TypeOK /\ Choosing /\ SshIsLastResort

\* An attempt that has been awaited to its end changes no more.
LEMMA AttemptUsed ==
  ASSUME TypeOK, NEW c \in Candidates, Connected(c) \/ ConnectFails(c)
  PROVE  \A d \in Candidates : attempt[d] \in {"idle", "used"} => attempt'[d] = attempt[d]
  BY DEF TypeOK, Connected, ConnectFails

Flags == <<stunAddr, directPending, stunPending, sshTried>> \in BOOLEAN \X BOOLEAN \X BOOLEAN \X BOOLEAN

\* The flags are set and cleared.
LEMMA FlagsNext == TypeOK /\ [Next]_vars => Flags'
<1> SUFFICES ASSUME TypeOK, [Next]_vars PROVE Flags'
  OBVIOUS
<1>1. stunAddr' = stunAddr
  BY DEF Next, CliNext, DiscoveryFails, ChooseCandidates, SingleResolved, DirectResolved, HeadStart,
     StunStarted, StunResolved, StunPolledAgain, SshTransfer, HeadStartElapses, TakeConnection,
     NewConnection, HandshakeNext, Connected, ConnectFails, TransferEnds, TransferLost, UserCancel,
     Finished, vars
<1>2. directPending' \in {directPending, FALSE}
  BY DEF Next, CliNext, DiscoveryFails, ChooseCandidates, SingleResolved, DirectResolved, HeadStart,
     StunStarted, StunResolved, StunPolledAgain, SshTransfer, HeadStartElapses, TakeConnection,
     NewConnection, HandshakeNext, Connected, ConnectFails, TransferEnds, TransferLost, UserCancel,
     Finished, vars, race
<1>3. stunPending' \in {stunPending, TRUE, FALSE}
  BY DEF Next, CliNext, DiscoveryFails, ChooseCandidates, SingleResolved, DirectResolved, HeadStart,
     StunStarted, StunResolved, StunPolledAgain, SshTransfer, HeadStartElapses, TakeConnection,
     NewConnection, HandshakeNext, Connected, ConnectFails, TransferEnds, TransferLost, UserCancel,
     Finished, vars, race
<1>4. sshTried' \in {sshTried, TRUE}
  BY DEF Next, CliNext, DiscoveryFails, ChooseCandidates, SingleResolved, DirectResolved, HeadStart,
     StunStarted, StunResolved, StunPolledAgain, SshTransfer, HeadStartElapses, TakeConnection,
     NewConnection, HandshakeNext, Connected, ConnectFails, TransferEnds, TransferLost, UserCancel,
     Finished, vars, cliVars
<1>5. QED
  BY <1>1, <1>2, <1>3, <1>4 DEF TypeOK, Flags

\* The other variables.
Values ==
    /\ transport \in Transports
    /\ cli \in {"start", "single", "racing", "transfer", "ssh", "ended"}
    /\ attempt \in [Candidates -> AttemptStates] /\ headStart \in {"running", "elapsed"}
    /\ selected \in Candidates \cup {None} /\ exitCode \in ExitCodes \cup {Aborted, None}
    /\ remote \in [Candidates -> {"none", "new", "open", "closed"}]
    /\ connRx \in Seq(Candidates) /\ served \in Candidates \cup {None}
    /\ worker \in {"waiting", "serving", "ended"}

\* Every step keeps their types.
LEMMA ValuesNext == TypeOK /\ Choosing /\ [Next]_vars => Values'
<1> SUFFICES ASSUME Values, Choosing, [Next]_vars PROVE Values'
  BY DEF TypeOK, Values
<1> USE DEF Values, race, cliVars, workerVars, Candidates, AttemptStates, ExitCodes, Aborted
<1>1. CASE DiscoveryFails
  BY <1>1 DEF DiscoveryFails, Exit
<1>2. CASE ChooseCandidates
  BY <1>2 DEF ChooseCandidates, FallBack, Exit
<1>3. ASSUME NEW c \in Candidates, Select(c)
      PROVE  /\ attempt' \in [Candidates -> AttemptStates] /\ selected' \in Candidates \cup {None}
             /\ remote' \in [Candidates -> {"none", "new", "open", "closed"}]
             /\ cli' = "transfer" /\ exitCode' = exitCode
  BY <1>3 DEF Select
<1>4. ASSUME NEW c \in Candidates, SingleResolved(c) PROVE Values'
  <2>1. CASE Select(c)
    BY <1>3, <1>4, <2>1 DEF SingleResolved
  <2>2. CASE ~Select(c)
    BY <1>4, <2>2 DEF SingleResolved, GiveUp, FallBack, Exit
  <2>3. QED
    BY <2>1, <2>2
<1>5. CASE DirectResolved
  <2>1. CASE Select("direct")
    BY <1>3, <1>5, <2>1 DEF DirectResolved
  <2>2. CASE ~Select("direct")
    <3>1. AfterSelect(FALSE, TRUE) /\ UNCHANGED <<transport, headStart, selected, remote, workerVars>>
      BY <1>5, <2>2 DEF DirectResolved
    <3>2. cli' \in {cli, "ssh"} /\ exitCode' = exitCode
      BY <3>1 DEF AfterSelect, FallBack
    <3>3. attempt' \in [Candidates -> AttemptStates]
      BY <1>5, <2>2 DEF DirectResolved
    <3>4. QED
      BY <3>1, <3>2, <3>3
  <2>3. QED
    BY <2>1, <2>2
<1>6. CASE HeadStart \/ StunStarted \/ StunPolledAgain
  BY <1>6 DEF HeadStart, StunStarted, StunPolledAgain, Exit
<1>7. CASE StunResolved
  <2>1. CASE Select("stun")
    BY <1>3, <1>7, <2>1 DEF StunResolved
  <2>2. CASE ~Select("stun")
    <3>1. AfterSelect(directPending, FALSE) /\ UNCHANGED <<transport, headStart, selected, remote, workerVars>>
      BY <1>7, <2>2 DEF StunResolved
    <3>2. cli' \in {cli, "ssh"} /\ exitCode' = exitCode
      BY <3>1 DEF AfterSelect, FallBack
    <3>3. attempt' \in [Candidates -> AttemptStates]
      BY <1>7, <2>2 DEF StunResolved
    <3>4. QED
      BY <3>1, <3>2, <3>3
  <2>3. QED
    BY <2>1, <2>2
<1>8. CASE SshTransfer \/ HeadStartElapses \/ TransferEnds \/ UserCancel
  BY <1>8 DEF SshTransfer, HeadStartElapses, TransferEnds, UserCancel, Exit
<1>9. CASE TransferLost
  BY <1>9 DEF TransferLost, GiveUp, FallBack, Exit, Choosing
<1>10. CASE TakeConnection
  BY <1>10, HeadTailProperties DEF TakeConnection
<1>11. ASSUME NEW c \in Candidates, NewConnection(c) PROVE Values'
  <2>1. connRx' \in Seq(Candidates)
    BY <1>11, AppendProperties DEF NewConnection
  <2>2. QED
    BY <1>11, <2>1 DEF NewConnection
<1>12. ASSUME NEW c \in Candidates, HandshakeNext(c) PROVE Values'
  BY <1>12 DEF HandshakeNext, Connected, ConnectFails
<1>13. CASE UNCHANGED vars
  BY <1>13 DEF vars
<1>14. QED
  BY <1>1, <1>2, <1>4, <1>5, <1>6, <1>7, <1>8, <1>9, <1>10, <1>11, <1>12, <1>13
  DEF Next, CliNext, Finished

\* Every step keeps what the state of the CLI says of the candidates.
LEMMA ChoosingNext == IInv /\ TypeOK' /\ [Next]_vars => Choosing' /\ SshIsLastResort'
<1> SUFFICES ASSUME IInv, TypeOK', [Next]_vars PROVE Choosing' /\ SshIsLastResort'
  OBVIOUS
<1> USE DEF IInv, TypeOK, Choosing, SshIsLastResort, Candidates, race, cliVars, workerVars
<1>1. CASE DiscoveryFails \/ SshTransfer \/ HeadStartElapses \/ TransferEnds \/ UserCancel
            \/ TakeConnection \/ StunPolledAgain
  BY <1>1
  DEF DiscoveryFails, SshTransfer, HeadStartElapses, TransferEnds, UserCancel, TakeConnection,
      StunPolledAgain, Exit
<1>2. CASE ChooseCandidates
  BY <1>2 DEF ChooseCandidates, FallBack, Exit
<1>3. ASSUME NEW c \in Candidates, Select(c) PROVE Choosing' /\ SshIsLastResort'
  BY <1>3, TransportAssumption DEF Select
<1>4. ASSUME NEW c \in Candidates, SingleResolved(c) PROVE Choosing' /\ SshIsLastResort'
  BY <1>3, <1>4 DEF SingleResolved, GiveUp, FallBack, Exit
<1>5. CASE DirectResolved
  BY <1>3, <1>5 DEF DirectResolved, AfterSelect, Bail
<1>6. CASE HeadStart \/ StunStarted
  BY <1>6 DEF HeadStart, StunStarted
<1>7. CASE StunResolved
  BY <1>3, <1>7 DEF StunResolved, AfterSelect, Bail, FallBack
<1>8. CASE TransferLost
  BY <1>8 DEF TransferLost, GiveUp, FallBack, Exit
<1>9. ASSUME NEW c \in Candidates, NewConnection(c) PROVE Choosing' /\ SshIsLastResort'
  BY <1>9 DEF NewConnection
<1>10. ASSUME NEW c \in Candidates, HandshakeNext(c) PROVE Choosing' /\ SshIsLastResort'
  <2>1. UNCHANGED <<transport, stunAddr, cli, directPending, selected>>
    BY <1>10 DEF HandshakeNext, Connected, ConnectFails
  <2>2. /\ \A d \in Candidates : attempt[d] \in {"idle", "used"} => attempt'[d] = attempt[d]
    BY <1>10, AttemptUsed DEF HandshakeNext
  <2>3. QED
    BY <2>1, <2>2
<1>11. CASE UNCHANGED vars
  BY <1>11 DEF vars
<1>12. QED
  BY <1>1, <1>2, <1>4, <1>5, <1>6, <1>7, <1>8, <1>9, <1>10, <1>11 DEF Next, CliNext, Finished

\* The inductive invariant of the selection: what the CLI is doing says which
\* candidates it has and how far they are.
THEOREM InvariantHolds == Spec => []IInv
<1>1. Init => IInv
  <2>1. Init => TypeOK
    BY EmptySeq DEF Init, TypeOK, AttemptStates
  <2>2. QED
    BY <2>1 DEF Init, IInv, Choosing, SshIsLastResort
<1>2. IInv /\ [Next]_vars => IInv'
  <2>1. TypeOK /\ Choosing /\ [Next]_vars => TypeOK'
    BY FlagsNext, ValuesNext DEF Flags, Values, TypeOK
  <2>2. QED
    BY <2>1, ChoosingNext DEF IInv
<1>3. QED
  BY <1>1, <1>2, PTL DEF Spec

\* Every variable keeps its type; an exit code is one of the documented ones, or
\* the abort.
THEOREM TypeCorrect == Spec => []TypeOK
<1>1. IInv => TypeOK
  BY DEF IInv
<1>2. QED
  BY <1>1, InvariantHolds, PTL

\* In auto mode the CLI turns to SSH without a transfer only when every candidate
\* it had was awaited and failed, whatever the order in select!.
THEOREM LastResortCorrect == Spec => []SshIsLastResort
<1>1. IInv => SshIsLastResort
  BY DEF IInv
<1>2. QED
  BY <1>1, InvariantHolds, PTL

=============================================================================

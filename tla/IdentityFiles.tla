---------------------------- MODULE IdentityFiles ----------------------------
(***************************************************************************)
(* The certificate, the key and the thumbprint of a node, as files that    *)
(* several starts of its programs create, complete and read.               *)
(*                                                                         *)
(* A persistent start (quic daemon, identity, direct) keeps the three in   *)
(* its identity directory and creates them when one is missing.  Any other *)
(* start makes a new certificate each time and hands it to MsQuic through  *)
(* two files of fixed names in the temporary directory, which all users of *)
(* the host share.  A certificate is named by the start that generated it; *)
(* its thumbprint is that name.  This is the code for Unix.                *)
(***************************************************************************)
EXTENDS FiniteSets

CONSTANTS
    Persistent, \* the starts that use one identity directory
    Temporary,  \* the starts that use the temporary directory
    Absent, Partial \* what a file may be, other than whole

Starts == Persistent \cup Temporary

ASSUME StartsAssumption ==
    /\ Persistent \cap Temporary = {}
    /\ Absent # Partial /\ Absent \notin Starts /\ Partial \notin Starts

VARIABLES
    files,    \* per directory: what each file holds
    pc,
    writing,  \* the file that a start creates or writes
    reported, \* the thumbprint it announces
    loaded,   \* what MsQuic has read of the two files
    mixed     \* history: directories that a start used while another wrote there

vars == <<files, pc, writing, reported, loaded, mixed>>

Directories == {"identity", "temporary"}
Home(p) == IF p \in Persistent THEN "identity" ELSE "temporary"

Names == {"cert", "key", "thumbprint"}
NamesIn(d) == IF d = "identity" THEN Names ELSE {"cert", "key"}

\* A file is opened, which truncates it, before it is written: a crash in
\* between, or in the middle of the write, leaves it partial; so does a write
\* that fails.
Content == Starts \cup {Absent, Partial}

TypeOK ==
    /\ files \in [Directories -> [Names -> Content]]
    /\ pc \in [Starts -> {"off", "check", "open", "write", "read", "load", "ready",
                       "failed", "error", "dead"}]
    /\ writing \in [Starts -> Names]
    /\ reported \in [Starts -> Starts \cup {Absent}]
    /\ loaded \in [Starts -> [{"cert", "key"} -> Content]]
    /\ mixed \in SUBSET Directories

Init ==
    /\ files = [d \in Directories |-> [n \in Names |-> Absent]]
    /\ pc = [p \in Starts |-> "off"]
    /\ writing = [p \in Starts |-> "cert"]
    /\ reported = [p \in Starts |-> Absent]
    /\ loaded = [p \in Starts |-> [n \in {"cert", "key"} |-> Absent]]
    /\ mixed = {}

\* "failed" is a start that does not like what it found in the files, "error"
\* one of whose own operations failed.
Active(p) == pc[p] \notin {"off", "ready", "failed", "error", "dead"}
Goes(p, step) == pc' = [pc EXCEPT ![p] = step]

Creates(p) == pc[p] \in {"open", "write"}

\* The other starts that have p's directory.
Others(p) == {q \in Starts \ {p} : Active(q) /\ Home(q) = Home(p)}

MixedIf(p, together) == mixed' = IF together THEN mixed \cup {Home(p)} ELSE mixed

\* Variant for the checks: what is already there in full is not replaced.
WritesOnce(p, content) ==
    /\ files' = IF files[Home(p)][writing[p]] \in Starts \ {p} THEN files
                ELSE [files EXCEPT ![Home(p)][writing[p]] = content]
    /\ MixedIf(p, Others(p) # {})

Writes(p, content) ==
    /\ files' = [files EXCEPT ![Home(p)][writing[p]] = content]
    /\ MixedIf(p, Others(p) # {})

-----------------------------------------------------------------------------
\* One start

\* A temporary start knows its thumbprint from the certificate it generated.
Start(p) ==
    /\ pc[p] = "off"
    /\ IF p \in Persistent
       THEN Goes(p, "check") /\ UNCHANGED reported
       ELSE Goes(p, "open") /\ reported' = [reported EXCEPT ![p] = p]
    /\ MixedIf(p, \E q \in Others(p) : Creates(q))
    /\ UNCHANGED <<files, writing, loaded>>

\* Variant for the checks: every start makes a new identity.
AlwaysMissing(f) == TRUE

\* is_file: a partial file is there.
Missing(f) == \E n \in Names : f[n] = Absent

\* Files only ever appear, so three tests in a row find what one would.
Check(p) ==
    /\ pc[p] = "check"
    /\ Goes(p, IF Missing(files["identity"]) THEN "open" ELSE "read")
    /\ UNCHANGED <<files, writing, reported, loaded, mixed>>

Open(p) ==
    /\ pc[p] = "open" /\ Goes(p, "write") /\ Writes(p, Partial)
    /\ UNCHANGED <<writing, reported, loaded>>

\* Variant for the checks: the thumbprint is written before the key.
ThumbprintEarly(n) == CASE n = "cert" -> "thumbprint" [] n = "thumbprint" -> "key" [] OTHER -> "cert"

\* The order of creation; nothing follows the thumbprint.
Following(n) == CASE n = "cert" -> "key" [] n = "key" -> "thumbprint" [] OTHER -> "cert"

Write(p) ==
    /\ pc[p] = "write" /\ Writes(p, p)
    /\ LET next == Following(writing[p]) IN
       IF next # "cert" /\ next \in NamesIn(Home(p))
       THEN Goes(p, "open") /\ writing' = [writing EXCEPT ![p] = next]
       ELSE Goes(p, IF p \in Persistent THEN "read" ELSE "load") /\ UNCHANGED writing
    /\ UNCHANGED <<reported, loaded>>

\* Variant for the checks: the thumbprint is not looked at.
AnyText(t) == TRUE

\* normalize_thumbprint: 40 digits.
IsThumbprint(t) == t \in Starts

\* Also the start that has just written it reads the thumbprint back.
Read(p) ==
    /\ pc[p] = "read"
    /\ LET t == files["identity"]["thumbprint"] IN
       IF IsThumbprint(t)
       THEN Goes(p, "load") /\ reported' = [reported EXCEPT ![p] = t]
       ELSE Goes(p, "failed") /\ UNCHANGED reported
    /\ UNCHANGED <<files, writing, loaded, mixed>>

\* MsQuic reads the two files by name, and refuses a key of another certificate.
Matches(pair) == pair["cert"] \in Starts /\ pair["cert"] = pair["key"]

Load(p) ==
    /\ pc[p] = "load"
    /\ \E n \in {"cert", "key"} :
         /\ loaded[p][n] = Absent
         /\ loaded' = [loaded EXCEPT ![p][n] = files[Home(p)][n]]
    /\ IF \E n \in {"cert", "key"} : loaded'[p][n] = Absent
       THEN UNCHANGED pc
       ELSE Goes(p, IF Matches(loaded'[p]) THEN "ready" ELSE "failed")
    /\ UNCHANGED <<files, writing, reported, mixed>>

\* The directory, an open, a write (a full disk, another user's file in the
\* temporary directory), a read or MsQuic fails: a ? of the code, which leaves
\* the files as they are.
OperationFails(p) ==
    /\ Active(p) /\ Goes(p, "error")
    /\ UNCHANGED <<files, writing, reported, loaded, mixed>>

Crash(p) ==
    /\ Active(p) /\ Goes(p, "dead")
    /\ UNCHANGED <<files, writing, reported, loaded, mixed>>

\* Nobody need start anything.
Idle == (\A p \in Starts : ~Active(p)) /\ UNCHANGED vars

StartNext(p) ==
    Start(p) \/ Check(p) \/ Open(p) \/ Write(p) \/ Read(p) \/ Load(p) \/ OperationFails(p) \/ Crash(p)

Next == (\E p \in Starts : StartNext(p)) \/ Idle

Spec == Init /\ [][Next]_vars

-----------------------------------------------------------------------------
\* Properties

\* A node that is ready announces the thumbprint of the certificate it uses:
\* else every peer that pins the one refuses the other.  Unless two starts had
\* the directory at once.
Coherent ==
    \A p \in Starts : pc[p] = "ready" =>
        reported[p] = loaded[p]["cert"] \/ Home(p) \in mixed

\* Every start that becomes ready announces the same identity, whatever start
\* was cut short before it; unless two had the directory at once.
IdentityStable ==
    \A p, q \in Persistent : pc[p] = "ready" /\ pc[q] = "ready" =>
        reported[p] = reported[q] \/ "identity" \in mixed

\* What earlier starts left fails a start, all of whose own operations succeed,
\* only if two had the directory at once, or if the write of a thumbprint was
\* cut short by a crash or a full disk: what else was left half-written, and
\* all of the temporary directory, is written anew.
FailureExplained ==
    \A p \in Starts : pc[p] = "failed" =>
        \/ Home(p) \in mixed
        \/ p \in Persistent /\ files["identity"]["thumbprint"] = Partial
=============================================================================

---------------------------- MODULE FileDelivery ----------------------------
(***************************************************************************)
(* What a file transfer promises the user, session by session: which steps *)
(* touch the destination, when, and what is in it once the transfer is     *)
(* reported as completed.                                                  *)
(*                                                                         *)
(* A session writes in place or stages.  One that stages replaces the      *)
(* destination in one step, when it delivers, or not at all.               *)
(***************************************************************************)

CONSTANT File     \* contents the destination may have

VARIABLES
    source,        \* the file to send
    destination,   \* what is there under the final name
    mode,          \* how the session writes: not decided yet, staged or in place
    outcome,       \* of the receiver: none yet, delivered or failed
    bound,         \* the session has to stage
    vouched,       \* what was delivered was the source
    completed      \* the user was told that the transfer is complete

vars == <<source, destination, mode, outcome, bound, vouched, completed>>

Init ==
    /\ mode = "undecided" /\ outcome = "none" /\ bound \in BOOLEAN
    /\ vouched = FALSE /\ completed = FALSE

\* A session begins when nothing of the one before is under way.
Start ==
    /\ mode = "undecided" \/ outcome # "none"
    /\ mode' = "undecided" /\ outcome' = "none" /\ bound' \in BOOLEAN
    /\ vouched' = FALSE /\ completed' = FALSE
    /\ UNCHANGED <<source, destination>>

\* The user changes the source under way: nothing is promised of its content.
Edit ==
    /\ bound' = FALSE /\ vouched' = FALSE
    /\ UNCHANGED <<destination, mode, outcome, completed>>

Choose ==
    /\ mode = "undecided"
    /\ mode' \in IF bound THEN {"staged"} ELSE {"staged", "inPlace"}
    /\ UNCHANGED <<source, destination, outcome, bound, vouched, completed>>

Write ==
    /\ mode = "inPlace" /\ outcome = "none"
    /\ destination' \in File
    /\ UNCHANGED <<source, mode, outcome, bound, vouched, completed>>

Deliver ==
    /\ mode # "undecided" /\ outcome = "none"
    /\ outcome' = "delivered" /\ vouched' \in BOOLEAN
    /\ destination' \in File /\ (mode = "inPlace" => destination' = destination)
    /\ vouched' => destination' = source
    /\ UNCHANGED <<source, mode, bound, completed>>

\* What was written in place may lose its end.
Fail ==
    /\ mode # "undecided" /\ outcome = "none"
    /\ outcome' = "failed"
    /\ \/ UNCHANGED destination
       \/ mode = "inPlace" /\ destination' \in File
    /\ UNCHANGED <<source, mode, bound, vouched, completed>>

\* The user hears of a completed transfer after its delivery.
Report ==
    /\ outcome = "delivered"
    /\ completed' = TRUE
    /\ UNCHANGED <<source, destination, mode, outcome, bound, vouched>>

Next == Start \/ Edit \/ Choose \/ Write \/ Deliver \/ Fail \/ Report

Spec == Init /\ [][Next]_vars
=============================================================================

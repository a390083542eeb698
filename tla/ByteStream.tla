----------------------------- MODULE ByteStream -----------------------------
(***************************************************************************)
(* What one direction of a stream promises the code above it: the reader   *)
(* gets the bytes that were accepted from the writer, in order and without *)
(* gaps, and is told that the stream ended only after the last of them,    *)
(* unless the stream was cut.                                              *)
(***************************************************************************)
EXTENDS Naturals, Sequences

VARIABLES
    sent,      \* bytes accepted from the writer
    got,       \* got[i]: the i-th byte handed to the reader
    closed,    \* the writer finished the stream
    cut,       \* the connection was lost, or a side gave the stream up
    ended      \* the reader was told that nothing more comes

vars == <<sent, got, closed, cut, ended>>

Init == sent = 0 /\ got = <<>> /\ closed = FALSE /\ cut = FALSE /\ ended = FALSE

\* What a cut stream still accepts is lost.
Write ==
    /\ ~closed /\ sent' > sent
    /\ UNCHANGED <<got, closed, cut, ended>>

Read ==
    /\ ~ended
    /\ \E n \in Len(got) + 1 .. sent : got' = [i \in 1 .. n |-> i]
    /\ UNCHANGED <<sent, closed, cut, ended>>

Close == closed' = TRUE /\ UNCHANGED <<sent, got, cut, ended>>

Cut == cut' = TRUE /\ UNCHANGED <<sent, got, closed, ended>>

End ==
    /\ cut \/ (closed /\ got = [i \in 1 .. sent |-> i])
    /\ ended' = TRUE
    /\ UNCHANGED <<sent, got, closed, cut>>

Next == Write \/ Read \/ Close \/ Cut \/ End

Spec == Init /\ [][Next]_vars
=============================================================================

---------------------------- MODULE MCQuicStream ----------------------------
(***************************************************************************)
(* The client writes up to two bytes, at once or one by one, and one byte  *)
(* fills the limit in flight; the worker's half only ends.                 *)
(***************************************************************************)
EXTENDS QuicStream

MCTotal     == [e \in Ends |-> IF e = "client" THEN 2 ELSE 0]
MCChunks    == {1, 2}
MCReadSizes == {1}
=============================================================================

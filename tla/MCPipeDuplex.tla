---------------------------- MODULE MCPipeDuplex ----------------------------
(***************************************************************************)
(* PipeDuplex with every kind of command, and with the one whose output is *)
(* all that matters.                                                       *)
(***************************************************************************)
EXTENDS PipeDuplex

\* Of the local inputs and outputs one fails, with or without the connection.
OneFailure == Cardinality(inputFailed) + (IF outputFailed THEN 1 ELSE 0) <= 1

Sources == {"source"}
=============================================================================

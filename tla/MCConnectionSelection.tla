----------------------- MODULE MCConnectionSelection -----------------------
(***************************************************************************)
(* Every transport, with and without a public candidate of the worker.     *)
(***************************************************************************)
EXTENDS ConnectionSelection

MCTransports == TransportPreference
=============================================================================

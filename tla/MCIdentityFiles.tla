--------------------------- MODULE MCIdentityFiles ---------------------------
(***************************************************************************)
(* IdentityFiles with starts that follow or overlap each other.            *)
(***************************************************************************)
EXTENDS IdentityFiles, TLC

CONSTANTS p1, p2, p3, t1, t2

\* Starts of different directories share no file: one directory at a time.
OneDirectory ==
    \A p \in Persistent, t \in Temporary : pc[p] = "off" \/ pc[t] = "off"

Symmetry == Permutations(Persistent) \cup Permutations(Temporary)
=============================================================================

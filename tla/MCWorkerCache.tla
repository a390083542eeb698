--------------------------- MODULE MCWorkerCache ---------------------------
(***************************************************************************)
(* Two invocations, of the same or of different builds, on a host with a   *)
(* cache of other builds and at most one installed worker.                 *)
(***************************************************************************)
EXTENDS WorkerCache, TLC

Same  == [c \in Clients |-> "b1"]
Other == ("c1" :> "b1") @@ ("c2" :> "b2")

Situation(deploys, host, cached) == [deploys |-> deploys, host |-> host, cached |-> cached]

Bare == [build |-> None, starts |-> FALSE, protocol |-> None, noexec |-> FALSE]

\* An installed worker beside a cache that cannot be executed.
NoExec(protocol) == [build |-> "b3", starts |-> TRUE, protocol |-> protocol, noexec |-> TRUE]

\* The installed worker of the first client's own build.
Own(starts) == [build |-> "b1", starts |-> starts, protocol |-> 1, noexec |-> FALSE]

\* Nothing cached, or the first client's bundle cached and the oldest.  An
\* installed worker that is older, too new, or the one to deploy.
MCWorlds ==
    {Situation(Same, Bare, <<>>), Situation(Same, Bare, <<"b2", "b1">>),
     Situation(Other, Bare, <<>>), Situation(Other, Bare, <<"b2", "b1">>),
     Situation(Same, NoExec(None), <<>>), Situation(Other, NoExec(2), <<"b2">>),
     Situation(Other, Own(TRUE), <<>>), Situation(Other, Own(FALSE), <<>>)}
=============================================================================

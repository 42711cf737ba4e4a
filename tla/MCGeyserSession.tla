-------------------------- MODULE MCGeyserSession --------------------------
(* One pool, of any kind; the runs that are about a kind fix it.             *)
EXTENDS GeyserSession

CONSTANTS p1, f1

MCPools == {p1}
MCKinds ==
    {[type |-> "plain", owns |-> TRUE], [type |-> "curve", owns |-> TRUE],
     [type |-> "async", owns |-> FALSE], [type |-> "remote", owns |-> FALSE]}
MCPlain == {[type |-> "plain", owns |-> FALSE]}
MCFetchers == {f1}
=============================================================================

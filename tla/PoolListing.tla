---------------------------- MODULE PoolListing ----------------------------
(***************************************************************************)
(* What the pool registry promises to the quoter (src/pool/registry.rs):   *)
(* seen through lookup, a pool is listed under at most one mint pair, and  *)
(* the listing changes by one pool appearing under a pair or one pool      *)
(* disappearing.  A pool never moves from a pair to another in one step    *)
(* and is never found under two pairs.                                     *)
(***************************************************************************)
CONSTANTS
    Pools,      \* pool addresses
    PairKeys    \* canonical mint pairs

VARIABLE
    listed      \* listed[k]: the pools a lookup of pair k can return

Init == listed = [k \in PairKeys |-> {}]

\* A pool that is listed nowhere appears under pair k.
List(p, k) ==
    /\ \A j \in PairKeys : p \notin listed[j]
    /\ listed' = [listed EXCEPT ![k] = @ \cup {p}]

\* A listed pool disappears.
Unlist(p) ==
    /\ \E k \in PairKeys : p \in listed[k]
    /\ listed' = [k \in PairKeys |-> listed[k] \ {p}]

Next ==
    \E p \in Pools :
        \/ \E k \in PairKeys : List(p, k)
        \/ Unlist(p)

Spec == Init /\ [][Next]_listed
=============================================================================

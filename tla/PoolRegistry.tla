---------------------------- MODULE PoolRegistry ----------------------------
(***************************************************************************)
(* The concurrent pool registry, src/pool/registry.rs.                     *)
(*                                                                         *)
(* Two DashMaps: pools (address -> entry) and mint_index (sorted mint      *)
(* pair -> addresses).  Each map is split into shards with a reader-writer *)
(* lock per shard, and no lock spans both maps, so add, remove and lookup  *)
(* are sequences of locked steps that interleave.  A step that takes a     *)
(* write lock and releases it at once is one action whose guard says that  *)
(* no reader guard is held on the shard; the two guards that the code      *)
(* keeps across a second lock acquisition are the program counters         *)
(* "AddUnindex" (read guard on pools) and "LookScan" (read guard on        *)
(* mint_index).                                                            *)
(***************************************************************************)
EXTENDS Naturals

CONSTANTS
    Pools,       \* pool addresses
    Mints,       \* mint addresses, Pubkey::default() among them
    Entries,     \* the entries callers add: records with mint_a and mint_b
    NoEntry,     \* absence from the pools map
    NoPool,      \* the address of a call that has none
    Threads,     \* tasks that call the registry
    PoolShard,   \* PoolShard[p]: the shard of pools that holds address p
    IndexShard,  \* IndexShard[k]: the shard of mint_index that holds pair k
    MaxCalls     \* bound on the calls made

PairKeys == {{a, b} : a, b \in Mints}

ASSUME EntriesAssumption == Entries \subseteq [mint_a : Mints, mint_b : Mints]
ASSUME SentinelAssumption == NoEntry \notin Entries /\ NoPool \notin Pools
ASSUME ShardAssumption == DOMAIN PoolShard = Pools /\ DOMAIN IndexShard = PairKeys
ASSUME MaxCallsAssumption == MaxCalls \in Nat

VARIABLES
    pools,       \* pools[p]: the entry of address p, or NoEntry
    mint_index,  \* mint_index[k]: the addresses listed under pair k
    pc,          \* pc[t]: the step thread t is at
    address,     \* address[t]: the pool an add or a remove is about
    entry,       \* entry[t]: the entry an add stores
    pair,        \* pair[t]: the pair a call indexes, unindexes or looks up
    todo,        \* todo[t]: addresses of the pair a lookup has still to read
    found,       \* found[t]: entries a lookup has cloned, as <<address, entry>>
    must,        \* must[t]: ghost, pools settled under the pair since the lookup began
    settled,     \* ghost, pools whose last add returned and that no later call moves
    raced,       \* ghost, addresses that had conflicting calls in progress at once
    calls        \* calls made so far

vars == <<pools, mint_index, pc, address, entry, pair, todo, found, must, settled, raced, calls>>

\* sorted_pair: (A, B) and (B, A) are the same key.
sorted_pair(e) == {e.mint_a, e.mint_b}

AddSteps == {"AddRead", "AddUnindex", "AddInsert", "AddIndex"}
RemoveSteps == {"RemoveTake", "RemoveUnindex"}

Adding(t, p) == pc[t] \in AddSteps /\ address[t] = p
Removing(t, p) == pc[t] \in RemoveSteps /\ address[t] = p
Writing(t, p) == Adding(t, p) \/ Removing(t, p)

-----------------------------------------------------------------------------
(* Locks.                                                                  *)

\* The guard `old` of add lives as long as the body of the if let.
HoldsPoolsGuardToTheEnd(t) == pc[t] \in {"AddUnindex", "AddInsert"}
HoldsPoolsGuard(t) == pc[t] = "AddUnindex"

\* lookup keeps the guard on the pair's address list while it reads pools.
HoldsIndexGuard(t) == pc[t] = "LookScan"

PoolsWritable(p) ==
    \A u \in Threads : HoldsPoolsGuard(u) => PoolShard[address[u]] # PoolShard[p]

IndexWritable(k) ==
    \A u \in Threads : HoldsIndexGuard(u) => IndexShard[pair[u]] # IndexShard[k]

\* A reader of pools that queues behind a waiting writer of its shard.
PoolsReadableInTurn(p) ==
    \A u \in Threads :
        pc[u] \in {"AddInsert", "RemoveTake"} => PoolShard[address[u]] # PoolShard[p]

\* dashmap's shard lock admits a reader whenever no writer holds it: waiting
\* writers do not hold readers back.
PoolsReadable(p) == TRUE

-----------------------------------------------------------------------------
Init ==
    /\ pools = [p \in Pools |-> NoEntry]
    /\ mint_index = [k \in PairKeys |-> {}]
    /\ pc = [t \in Threads |-> "idle"]
    /\ address = [t \in Threads |-> NoPool]
    /\ entry = [t \in Threads |-> NoEntry]
    /\ pair = [t \in Threads |-> {}]
    /\ todo = [t \in Threads |-> {}]
    /\ found = [t \in Threads |-> {}]
    /\ must = [t \in Threads |-> {}]
    /\ settled = {}
    /\ raced = {}
    /\ calls = 0

Call(t) == pc[t] = "idle" /\ calls < MaxCalls /\ calls' = calls + 1
Goto(t, step) == pc' = [pc EXCEPT ![t] = step]

Return(t) ==
    /\ Goto(t, "idle")
    /\ address' = [address EXCEPT ![t] = NoPool]
    /\ entry' = [entry EXCEPT ![t] = NoEntry]
    /\ pair' = [pair EXCEPT ![t] = {}]

\* Two adds of one address under one pair do not conflict; any other two
\* writers of one address do.
Conflict(p, harmless) ==
    raced' = IF \E u \in Threads \ harmless : Writing(u, p) THEN raced \cup {p} ELSE raced

AddCall(t, p, e) ==
    LET k == sorted_pair(e) IN
    /\ Call(t)
    /\ Goto(t, "AddRead")
    /\ address' = [address EXCEPT ![t] = p]
    /\ entry' = [entry EXCEPT ![t] = e]
    /\ pair' = [pair EXCEPT ![t] = k]
    /\ Conflict(p, {u \in Threads : Adding(u, p) /\ pair[u] = k})
    \* A pool that is about to change its pair is bound to be found no longer.
    /\ settled' = IF pools[p] # NoEntry /\ sorted_pair(pools[p]) = k THEN settled ELSE settled \ {p}
    /\ must' = [u \in Threads |-> IF pair[u] = k THEN must[u] ELSE must[u] \ {p}]
    /\ UNCHANGED <<pools, mint_index, todo, found>>

\* pools.get: the guard is kept only when the mint pair changed.
AddReadUnindexAlways(t) ==
    LET p == address[t] IN
    /\ pc[t] = "AddRead"
    /\ PoolsReadable(p)
    /\ Goto(t, IF pools[p] # NoEntry THEN "AddUnindex" ELSE "AddInsert")
    /\ UNCHANGED <<pools, mint_index, address, entry, pair, todo, found, must, settled, raced, calls>>

AddReadSkipUnindex(t) ==
    LET p == address[t] IN
    /\ pc[t] = "AddRead"
    /\ PoolsReadable(p)
    /\ Goto(t, "AddInsert")
    /\ UNCHANGED <<pools, mint_index, address, entry, pair, todo, found, must, settled, raced, calls>>

AddReadWrongPair(t) ==
    LET p == address[t] IN
    /\ pc[t] = "AddRead"
    /\ PoolsReadable(p)
    /\ Goto(t, IF pools[p] # NoEntry /\ sorted_pair(pools[p]) # pair[t]
               THEN "AddUnindex"
               ELSE "AddInsert")
    /\ pair' = [pair EXCEPT ![t] = IF pools[p] # NoEntry THEN sorted_pair(pools[p]) ELSE @]
    /\ UNCHANGED <<pools, mint_index, address, entry, todo, found, must, settled, raced, calls>>

AddRead(t) ==
    LET p == address[t] IN
    /\ pc[t] = "AddRead"
    /\ PoolsReadable(p)
    /\ Goto(t, IF pools[p] # NoEntry /\ sorted_pair(pools[p]) # pair[t]
               THEN "AddUnindex"
               ELSE "AddInsert")
    /\ UNCHANGED <<pools, mint_index, address, entry, pair, todo, found, must, settled, raced, calls>>

\* Still under the guard: drop the address from its old pair, then the guard.
AddUnindex(t) ==
    LET p == address[t]
        old_pair == sorted_pair(pools[p]) IN
    /\ pc[t] = "AddUnindex"
    /\ IndexWritable(old_pair)
    /\ mint_index' = [mint_index EXCEPT ![old_pair] = @ \ {p}]
    /\ Goto(t, "AddInsert")
    /\ UNCHANGED <<pools, address, entry, pair, todo, found, must, settled, raced, calls>>

AddInsert(t) ==
    LET p == address[t] IN
    /\ pc[t] = "AddInsert"
    /\ PoolsWritable(p)
    /\ pools' = [pools EXCEPT ![p] = entry[t]]
    /\ Goto(t, "AddIndex")
    /\ UNCHANGED <<mint_index, address, entry, pair, todo, found, must, settled, raced, calls>>

AddIndex(t) ==
    /\ pc[t] = "AddIndex"
    /\ IndexWritable(pair[t])
    /\ mint_index' = [mint_index EXCEPT ![pair[t]] = @ \cup {address[t]}]
    /\ Return(t)
    /\ settled' = settled \cup ({address[t]} \ raced)
    /\ UNCHANGED <<pools, todo, found, must, raced, calls>>

-----------------------------------------------------------------------------
RemoveCall(t, p) ==
    /\ Call(t)
    /\ Goto(t, "RemoveTake")
    /\ address' = [address EXCEPT ![t] = p]
    /\ Conflict(p, {})
    /\ settled' = settled \ {p}
    /\ must' = [u \in Threads |-> must[u] \ {p}]
    /\ UNCHANGED <<pools, mint_index, entry, pair, todo, found>>

\* Removing an address that is not registered returns at once.
RemoveAbsent(t) ==
    /\ pc[t] = "RemoveTake"
    /\ PoolsWritable(address[t])
    /\ pools[address[t]] = NoEntry
    /\ Return(t)
    /\ UNCHANGED <<pools, mint_index, todo, found, must, settled, raced, calls>>

RemoveTakeForgetIndex(t) ==
    LET p == address[t] IN
    /\ pc[t] = "RemoveTake"
    /\ PoolsWritable(p)
    /\ pools[p] # NoEntry
    /\ pools' = [pools EXCEPT ![p] = NoEntry]
    /\ Return(t)
    /\ UNCHANGED <<mint_index, todo, found, must, settled, raced, calls>>

RemoveTake(t) ==
    LET p == address[t] IN
    /\ pc[t] = "RemoveTake"
    /\ PoolsWritable(p)
    /\ pools[p] # NoEntry
    /\ pools' = [pools EXCEPT ![p] = NoEntry]
    /\ pair' = [pair EXCEPT ![t] = sorted_pair(pools[p])]
    /\ Goto(t, "RemoveUnindex")
    /\ UNCHANGED <<mint_index, address, entry, todo, found, must, settled, raced, calls>>

RemoveUnindex(t) ==
    /\ pc[t] = "RemoveUnindex"
    /\ IndexWritable(pair[t])
    /\ mint_index' = [mint_index EXCEPT ![pair[t]] = @ \ {address[t]}]
    /\ Return(t)
    /\ UNCHANGED <<pools, todo, found, must, settled, raced, calls>>

-----------------------------------------------------------------------------
\* mint_index.get: the guard stays until lookup returns.
LookupCall(t, k) ==
    /\ Call(t)
    /\ Goto(t, "LookScan")
    /\ pair' = [pair EXCEPT ![t] = k]
    /\ todo' = [todo EXCEPT ![t] = mint_index[k]]
    /\ must' = [must EXCEPT ![t] =
                   {p \in settled \ raced : pools[p] # NoEntry /\ sorted_pair(pools[p]) = k}]
    /\ UNCHANGED <<pools, mint_index, address, entry, found, settled, raced>>

\* One pools.get of the filter_map; an address with no entry is skipped.
LookupGet(t, p) ==
    /\ pc[t] = "LookScan"
    /\ p \in todo[t]
    /\ PoolsReadable(p)
    /\ todo' = [todo EXCEPT ![t] = @ \ {p}]
    /\ found' = [found EXCEPT ![t] =
                    IF pools[p] # NoEntry THEN @ \cup {<<p, pools[p]>>} ELSE @]
    /\ UNCHANGED <<pools, mint_index, pc, address, entry, pair, must, settled, raced, calls>>

LookupReturn(t) ==
    /\ pc[t] = "LookScan"
    /\ todo[t] = {}
    /\ Return(t)
    /\ found' = [found EXCEPT ![t] = {}]
    /\ must' = [must EXCEPT ![t] = {}]
    /\ UNCHANGED <<pools, mint_index, todo, settled, raced, calls>>

-----------------------------------------------------------------------------
\* A step of a call in progress.
Step(t) ==
    \/ AddRead(t) \/ AddUnindex(t) \/ AddInsert(t) \/ AddIndex(t)
    \/ RemoveAbsent(t) \/ RemoveTake(t) \/ RemoveUnindex(t)
    \/ \E p \in Pools : LookupGet(t, p)
    \/ LookupReturn(t)

NewCall(t) ==
    \/ \E p \in Pools, e \in Entries : AddCall(t, p, e)
    \/ \E p \in Pools : RemoveCall(t, p)
    \/ \E k \in PairKeys : LookupCall(t, k)

Next == \E t \in Threads : NewCall(t) \/ Step(t)

Spec == Init /\ [][Next]_vars

\* A call that can go on does; calls need not be made.
FairSpec == Spec /\ \A t \in Threads : WF_vars(Step(t))

-----------------------------------------------------------------------------
(* Properties.                                                             *)

\* Types; a call carries the pair of its own entry from its first step to its
\* last, so that the address ends up indexed under the entry it was given.
TypeOK ==
    /\ pools \in [Pools -> Entries \cup {NoEntry}]
    /\ mint_index \in [PairKeys -> SUBSET Pools]
    /\ pc \in [Threads -> AddSteps \cup RemoveSteps \cup {"idle", "LookScan"}]
    /\ address \in [Threads -> Pools \cup {NoPool}]
    /\ entry \in [Threads -> Entries \cup {NoEntry}]
    /\ pair \in [Threads -> PairKeys \cup {{}}]
    /\ todo \in [Threads -> SUBSET Pools]
    /\ found \in [Threads -> SUBSET (Pools \X Entries)]
    /\ must \in [Threads -> SUBSET Pools]
    /\ settled \subseteq Pools
    /\ raced \subseteq Pools
    /\ calls \in 0..MaxCalls
    /\ \A t \in Threads :
          /\ pc[t] \in AddSteps => entry[t] \in Entries /\ pair[t] = sorted_pair(entry[t])
          /\ pc[t] \in AddSteps \cup RemoveSteps => address[t] \in Pools
          /\ pc[t] \in {"RemoveUnindex", "LookScan"} => pair[t] \in PairKeys

\* An address is listed under the pair of its entry and under no other, except
\* for the steps a call in progress still owes: remove has to take it off the
\* list, add has to put it on.  Addresses with conflicting calls are excluded.
IndexAgrees ==
    \A p \in Pools \ raced :
        /\ \A k \in PairKeys : p \in mint_index[k] =>
              \/ pools[p] # NoEntry /\ sorted_pair(pools[p]) = k
              \/ \E t \in Threads : pc[t] = "RemoveUnindex" /\ address[t] = p /\ pair[t] = k
        /\ pools[p] # NoEntry =>
              \/ p \in mint_index[sorted_pair(pools[p])]
              \/ \E t \in Threads : pc[t] \in {"AddInsert", "AddIndex"} /\ address[t] = p

\* lookup(A, B) returns only pools of A and B, although it reads the address
\* list and the entries at different moments and checks no mint itself.
LookupSound ==
    \A t \in Threads : pc[t] = "LookScan" =>
        \A f \in found[t] : f[1] \notin raced => sorted_pair(f[2]) = pair[t]

\* lookup misses no pool that an add had put under the pair before the lookup
\* began and that nobody removes or moves meanwhile, re-adds of it under the same
\* pair notwithstanding.
LookupComplete ==
    \A t \in Threads : pc[t] = "LookScan" /\ todo[t] = {} =>
        must[t] \subseteq {f[1] : f \in found[t]}

\* The three locked steps of add and the guard lookup holds across its reads of
\* pools never leave calls waiting for each other: every call returns.
CallsFinish == \A t \in Threads : pc[t] # "idle" ~> pc[t] = "idle"

\* What the quoter can see of the registry is a PoolListing.
visible == [k \in PairKeys |-> {p \in mint_index[k] \ raced : pools[p] # NoEntry}]
Listing == INSTANCE PoolListing WITH listed <- visible
ImplementsListing == Listing!Spec
=============================================================================

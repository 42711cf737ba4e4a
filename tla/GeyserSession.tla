--------------------------- MODULE GeyserSession ---------------------------
(***************************************************************************)
(* Pool discovery and upkeep from a Geyser stream: src/stream/geyser.rs    *)
(* with the mirror (src/stream/account_mirror.rs), the SQLite table        *)
(* (src/storage/sqlite.rs), the prune task and the bootstrap (src/main.rs) *)
(* the quoter's cold path (src/quote/router.rs) and the swap builder's     *)
(* read of its pools (src/api/swap.rs).                                    *)
(*                                                                         *)
(* One task reads the stream and handles a message to its end before the   *)
(* next, awaiting RPC answers in between; a second one turns the queued    *)
(* accounts into a new subscription every two seconds.  A subscription     *)
(* request replaces the one before it.  Pool accounts always arrive, by    *)
(* the filter on the programs; vaults and companion accounts arrive when   *)
(* they are in the request.                                                *)
(***************************************************************************)
EXTENDS Integers

CONSTANTS
    Pools,       \* pool addresses
    Kinds,       \* what pools can be: a subset of AllKinds
    Fetchers,    \* slots for the fetches of quotes and swaps
    NoPool,      \* no address
    NoState,     \* absence from the cache
    MaxVersion   \* bound on the changes of a pool on chain

\* "curve": type PumpFun, its mint comes from a transaction; "async": its state
\* needs a companion account (Meteora, MeteoraDbc); "remote": always fetched
\* (Pumpup); "plain": all the others, parsed from the bytes delivered.
\* owns: the pool is the token owner of its vaults.
AllKinds == [type : {"plain", "curve", "async", "remote"}, owns : BOOLEAN]

ASSUME KindsAssumption == Kinds \subseteq AllKinds
ASSUME PoolsAssumption == NoPool \notin Pools
ASSUME VersionAssumption == MaxVersion \in Nat /\ NoState \notin 0..MaxVersion

VARIABLES
    kind,                \* kind[p]: what the pool is (never changes)
    chain,               \* chain[p]: version of the pool account on chain
    seen,                \* seen[p]: the last version the stream has delivered or lost
    registry,            \* registry[p]: "none", "placeholder" or "real" (has its mints)
    db,                  \* db[p]: the row of the SQLite table, as registry[p]
    cached,              \* cached[p]: version of the cached state, or NoState
    vaults,              \* pools whose vaults the mirror has registered
    companions,          \* companions[p]: "none", "good", or "bad" (other bytes)
    pending_vaults,      \* pools whose vaults wait for the next flush
    pending_pool_subs,   \* pools that wait for it
    pending_companions,  \* pools whose companions wait for it
    tracked,             \* the accounts of the subscription in force
    stream,              \* what the stream task is doing
    flush,               \* what the flush task is doing
    fetch,               \* fetch[f]: the fetch of a quote or of a swap in slot f
    pruning,             \* what the prune task still has to do
    unqueued,            \* ghost: pools whose vaults were registered but not queued since the last request
    overtaken,           \* ghost: unregistered pools that a writer has, or had, in its hands
    unrecorded           \* ghost: registered pools whose row was not written, or deleted unseen

vars == <<kind, chain, seen, registry, db, cached, vaults, companions, pending_vaults, pending_pool_subs,
          pending_companions, tracked, stream, flush, fetch, pruning, unqueued, overtaken,
          unrecorded>>

queueVars == <<pending_vaults, pending_pool_subs, pending_companions>>
poolVars == <<registry, db, cached>>
mirrorVars == <<vaults, companions>>
chainVars == <<kind, chain, seen>>
ghostVars == <<unqueued, overtaken, unrecorded>>

Waiting == [at |-> "idle", pool |-> NoPool, known |-> FALSE, version |-> 0]
Sleeping == [at |-> "wait", any |-> FALSE]
NoFetch == [at |-> "idle", pool |-> NoPool, version |-> 0]
Prunes(listed) == [at |-> IF listed = {} THEN "idle" ELSE "registry", pool |-> NoPool, listed |-> listed]
NotPruning == Prunes({})

IsCached(p) == cached[p] # NoState

Curves == {p \in Pools : kind[p].type = "curve"}
Async == {p \in Pools : kind[p].type = "async"}
OwnVaults == {p \in Pools : kind[p].owns}

Init ==
    /\ kind \in [Pools -> Kinds]
    /\ chain = [p \in Pools |-> 0]
    /\ seen = chain
    /\ db \in [Pools -> {"none", "real"}]
    /\ registry = db
    /\ cached = [p \in Pools |-> NoState]
    /\ vaults = {}
    /\ companions = [p \in Pools |-> "none"]
    /\ pending_vaults = {} /\ pending_pool_subs = {} /\ pending_companions = {}
    /\ tracked = [vaults |-> {}, companions |-> {}]
    /\ stream = Waiting
    /\ flush = Sleeping
    /\ fetch = [f \in Fetchers |-> NoFetch]
    /\ pruning = NotPruning
    /\ unqueued = {} /\ overtaken = {} /\ unrecorded = {}

\* A swap changes the pool on chain.
Trade(p) ==
    /\ chain[p] < MaxVersion
    /\ chain' = [chain EXCEPT ![p] = @ + 1]
    /\ UNCHANGED <<kind, seen, poolVars, mirrorVars, queueVars, tracked, stream, flush, fetch, pruning, ghostVars>>

-----------------------------------------------------------------------------
(* Blocks.                                                                 *)

\* INSERT OR IGNORE: a row that is there stays as it is.  It may fail, and no caller
\* looks at the error.
insert_pool(p, mints) ==
    /\ db' \in {db, [db EXCEPT ![p] = IF @ = "none" THEN mints ELSE @]}
    /\ unrecorded' = IF db'[p] = "none" THEN unrecorded \cup {p} ELSE unrecorded

\* The balances after the transaction: an account whose owner is a known pool
\* becomes a vault, without a place in the queue.
BlockVaults(p) ==
    /\ vaults' = vaults \cup ({p} \cap OwnVaults)
    /\ unqueued' = unqueued \cup (({p} \cap OwnVaults) \ vaults)

\* process_ix: the pool of a swap that is not known yet, registered on the spot.
BlockDiscovers(p) ==
    /\ stream = Waiting
    /\ chain[p] > 0
    /\ registry[p] = "none"
    /\ companions' = IF p \in Curves THEN [companions EXCEPT ![p] = "good"] ELSE companions
    /\ insert_pool(p, "placeholder")
    /\ registry' = [registry EXCEPT ![p] = "placeholder"]
    /\ pending_pool_subs' = IF flush.at # "pools" THEN pending_pool_subs \cup {p} ELSE pending_pool_subs
    /\ BlockVaults(p)
    /\ overtaken' = overtaken \ {p}
    /\ UNCHANGED <<chainVars, cached, pending_vaults, pending_companions, tracked, stream, flush, fetch, pruning>>

BlockOfKnown(p) ==
    /\ stream = Waiting
    /\ chain[p] > 0
    /\ registry[p] # "none"
    /\ BlockVaults(p)
    /\ UNCHANGED <<chainVars, poolVars, companions, queueVars, tracked, stream, flush, fetch, pruning, overtaken,
                   unrecorded>>

-----------------------------------------------------------------------------
(* Account updates.  The server sends every change in order.               *)

Delivered(p, v) ==
    /\ stream = Waiting
    /\ v \in seen[p] + 1 .. chain[p]
    /\ seen' = [seen EXCEPT ![p] = v]

\* Check 2 comes before the pool is parsed, and a bonding curve's mint is filed
\* under the address of the curve.
CompanionUpdate(p, v) ==
    /\ Delivered(p, v)
    /\ p \in Curves
    /\ companions[p] # "none"
    /\ companions' = [companions EXCEPT ![p] = "bad"]
    /\ UNCHANGED <<kind, chain, poolVars, vaults, queueVars, tracked, stream, flush, fetch, pruning, ghostVars>>

\* parse_with_mirror succeeds without asking anyone.
Parses(p) == kind[p].type = "plain" \/ (kind[p].type = "async" /\ companions[p] = "good")

PoolUpdate(p, v) ==
    /\ Delivered(p, v)
    /\ p \notin Curves
    /\ stream' = [at |-> IF Parses(p) THEN "store" ELSE "fetch", pool |-> p,
                  known |-> registry[p] # "none", version |-> v]
    /\ UNCHANGED <<kind, chain, poolVars, mirrorVars, queueVars, tracked, flush, fetch, pruning, ghostVars>>

\* A curve whose mint no block has shown: the RPC fallback.
CurveUpdate(p, v) ==
    /\ Delivered(p, v)
    /\ p \in Curves
    /\ companions[p] = "none"
    /\ stream' = [at |-> "fetch", pool |-> p, known |-> registry[p] # "none", version |-> v]
    /\ UNCHANGED <<kind, chain, poolVars, mirrorVars, queueVars, tracked, flush, fetch, pruning, ghostVars>>

\* A state younger than the debounce is not fetched again: the update is dropped.
UpdateDebounced(p, v) ==
    /\ Delivered(p, v)
    /\ IF p \in Curves THEN companions[p] = "none" ELSE ~Parses(p)
    /\ registry[p] # "none" /\ IsCached(p)
    /\ UNCHANGED <<kind, chain, poolVars, mirrorVars, queueVars, tracked, stream, flush, fetch, pruning, ghostVars>>

FallbackOkAllCompanions ==
    /\ stream.at = "fetch"
    /\ stream' = [stream EXCEPT !.version = chain[stream.pool], !.at = "companions"]
    /\ UNCHANGED <<chainVars, poolVars, mirrorVars, queueVars, tracked, flush, fetch, pruning, ghostVars>>

FallbackOk ==
    /\ stream.at = "fetch"
    /\ stream' = [stream EXCEPT !.version = chain[stream.pool],
                                !.at = IF stream.pool \in Async THEN "companions" ELSE "store"]
    /\ UNCHANGED <<chainVars, poolVars, mirrorVars, queueVars, tracked, flush, fetch, pruning, ghostVars>>

FallbackFailed ==
    /\ stream.at = "fetch"
    /\ stream' = Waiting
    /\ UNCHANGED <<chainVars, poolVars, mirrorVars, queueVars, tracked, flush, fetch, pruning, ghostVars>>

\* The companion is fetched if it can be, and queued in any case.
FallbackCompanions ==
    LET p == stream.pool IN
    /\ stream.at = "companions"
    /\ companions' \in {companions, [companions EXCEPT ![p] = "good"]}
    /\ pending_companions' = IF flush.at # "companions" THEN pending_companions \cup {p} ELSE pending_companions
    /\ stream' = [stream EXCEPT !.at = "store"]
    /\ UNCHANGED <<chainVars, poolVars, vaults, pending_vaults, pending_pool_subs, tracked, flush, fetch,
                   pruning, ghostVars>>

\* register_pool_vaults: queued unless the flush task holds the queue just now.
register_pool_vaults(p) ==
    LET new == {p} \ (Curves \cup vaults)
        queued == IF flush.at # "vaults" THEN new ELSE {} IN
    /\ vaults' = vaults \cup new
    /\ pending_vaults' = pending_vaults \cup queued
    /\ unqueued' = unqueued \cup (new \ queued)

StoreUpgradesRegistry ==
    LET p == stream.pool IN
    /\ stream.at = "store"
    /\ insert_pool(p, "real")
    /\ registry' = [registry EXCEPT ![p] = "real"]
    /\ register_pool_vaults(p)
    /\ cached' = [cached EXCEPT ![p] = stream.version]
    /\ stream' = Waiting
    /\ overtaken' = overtaken \ {p}
    /\ UNCHANGED <<chainVars, companions, pending_pool_subs, pending_companions, tracked, flush, fetch, pruning>>

\* What follows a state, parsed or fetched: known is what contains() said when
\* the message came in.
Store ==
    LET p == stream.pool IN
    /\ stream.at = "store"
    /\ IF stream.known
       THEN UNCHANGED <<db, registry, overtaken, unrecorded>>
       ELSE /\ insert_pool(p, "real")
            /\ registry' = [registry EXCEPT ![p] = "real"]
            /\ overtaken' = overtaken \ {p}
    /\ register_pool_vaults(p)
    /\ cached' = [cached EXCEPT ![p] = stream.version]
    /\ stream' = Waiting
    /\ UNCHANGED <<chainVars, companions, pending_pool_subs, pending_companions, tracked, flush, fetch, pruning>>

StreamStep == FallbackOk \/ FallbackFailed \/ FallbackCompanions \/ Store

AccountUpdate(p) ==
    \E v \in 1..MaxVersion :
        CompanionUpdate(p, v) \/ PoolUpdate(p, v) \/ CurveUpdate(p, v) \/ UpdateDebounced(p, v)

-----------------------------------------------------------------------------
(* The flush task: the three queues one after the other, each under its    *)
(* lock, then one request with everything the mirror knows.                *)

FlushTick ==
    /\ flush.at = "wait"
    /\ flush' = [at |-> "vaults", any |-> FALSE]
    /\ UNCHANGED <<chainVars, poolVars, mirrorVars, queueVars, tracked, stream, fetch, pruning, ghostVars>>

FlushVaults ==
    /\ flush.at = "vaults"
    /\ flush' = [at |-> "pools", any |-> pending_vaults # {}]
    /\ pending_vaults' = {}
    /\ UNCHANGED <<chainVars, poolVars, mirrorVars, pending_pool_subs, pending_companions, tracked, stream, fetch,
                   pruning, ghostVars>>

FlushPoolsForgets ==
    /\ flush.at = "pools"
    /\ flush' = [at |-> "companions", any |-> pending_pool_subs # {}]
    /\ pending_pool_subs' = {}
    /\ UNCHANGED <<chainVars, poolVars, mirrorVars, pending_vaults, pending_companions, tracked, stream, fetch,
                   pruning, ghostVars>>

FlushPools ==
    /\ flush.at = "pools"
    /\ flush' = [at |-> "companions", any |-> flush.any \/ pending_pool_subs # {}]
    /\ pending_pool_subs' = {}
    /\ UNCHANGED <<chainVars, poolVars, mirrorVars, pending_vaults, pending_companions, tracked, stream, fetch,
                   pruning, ghostVars>>

FlushCompanionsForgets ==
    /\ flush.at = "companions"
    /\ flush' = IF pending_companions # {} THEN [at |-> "send", any |-> TRUE] ELSE Sleeping
    /\ pending_companions' = {}
    /\ UNCHANGED <<chainVars, poolVars, mirrorVars, pending_vaults, pending_pool_subs, tracked, stream, fetch,
                   pruning, ghostVars>>

\* Nothing queued, nothing sent.
FlushCompanions ==
    /\ flush.at = "companions"
    /\ flush' = IF flush.any \/ pending_companions # {} THEN [at |-> "send", any |-> TRUE] ELSE Sleeping
    /\ pending_companions' = {}
    /\ UNCHANGED <<chainVars, poolVars, mirrorVars, pending_vaults, pending_pool_subs, tracked, stream, fetch,
                   pruning, ghostVars>>

known_companions == {p \in Pools : companions[p] # "none"}

FlushSend ==
    /\ flush.at = "send"
    /\ tracked' = [vaults |-> vaults, companions |-> known_companions]
    /\ flush' = Sleeping
    /\ unqueued' = {}
    /\ UNCHANGED <<chainVars, poolVars, mirrorVars, queueVars, stream, fetch, pruning, overtaken, unrecorded>>

\* The loop ends; the session goes on.
FlushSendFails ==
    /\ flush.at = "send"
    /\ flush' = [at |-> "dead", any |-> FALSE]
    /\ UNCHANGED <<chainVars, poolVars, mirrorVars, queueVars, tracked, stream, fetch, pruning, ghostVars>>

FlushStep == FlushTick \/ FlushVaults \/ FlushPools \/ FlushCompanions \/ FlushSend

\* The stream ends or fails, and a new session starts: new queues, a request
\* with the vaults the mirror knows.  What happened in between is not sent again.
Reconnect ==
    /\ stream = Waiting
    /\ seen' = chain
    /\ pending_vaults' = {} /\ pending_pool_subs' = {} /\ pending_companions' = {}
    /\ tracked' = [vaults |-> vaults, companions |-> {}]
    /\ flush' = Sleeping
    /\ unqueued' = {}
    /\ UNCHANGED <<kind, chain, poolVars, mirrorVars, stream, fetch, pruning, overtaken, unrecorded>>

-----------------------------------------------------------------------------
(* The quoter's cold path (its failure counts are in PoolRefresh) and the  *)
(* swap builder's reads.                                                   *)

\* A pool without a state, or one whose balances the mirror does not have.
ColdStart(f, p) ==
    /\ fetch[f] = NoFetch
    /\ registry[p] = "real"
    /\ IsCached(p) => p \notin Curves
    /\ fetch' = [fetch EXCEPT ![f] = [at |-> IF IsCached(p) THEN "reserves" ELSE "call", pool |-> p, version |-> 0]]
    /\ UNCHANGED <<chainVars, poolVars, mirrorVars, queueVars, tracked, stream, flush, pruning, ghostVars>>

\* load_pool_state: a swap names its pools itself, registered or not, and reads
\* those that are not cached or have been for too long.
SwapLoads(f, p) ==
    /\ fetch[f] = NoFetch
    /\ fetch' = [fetch EXCEPT ![f] = [at |-> "load", pool |-> p, version |-> 0]]
    /\ overtaken' = IF registry[p] = "none" THEN overtaken \cup {p} ELSE overtaken
    /\ UNCHANGED <<chainVars, poolVars, mirrorVars, queueVars, tracked, stream, flush, pruning, unqueued, unrecorded>>

ColdRead(f) ==
    LET p == fetch[f].pool IN
    /\ fetch[f].at \in {"call", "load"}
    /\ fetch' = [fetch EXCEPT ![f] = [at |-> IF fetch[f].at = "call" THEN "insert" ELSE "keep", pool |-> p,
                                      version |-> chain[p]]]
    /\ UNCHANGED <<chainVars, poolVars, mirrorVars, queueVars, tracked, stream, flush, pruning, ghostVars>>

ColdInsert(f) ==
    LET p == fetch[f].pool IN
    /\ fetch[f].at \in {"insert", "keep"}
    /\ cached' = [cached EXCEPT ![p] = fetch[f].version]
    /\ fetch' = IF p \in Curves \/ fetch[f].at = "keep"
                THEN [fetch EXCEPT ![f] = NoFetch]
                ELSE [fetch EXCEPT ![f].at = "reserves"]
    /\ UNCHANGED <<chainVars, registry, db, mirrorVars, queueVars, tracked, stream, flush, pruning, ghostVars>>

\* The balances are read once, and the vaults registered but not queued.
ColdReserves(f) ==
    LET p == fetch[f].pool IN
    /\ fetch[f].at = "reserves"
    /\ vaults' = vaults \cup {p}
    /\ unqueued' = unqueued \cup ({p} \ vaults)
    /\ fetch' = [fetch EXCEPT ![f] = NoFetch]
    /\ UNCHANGED <<chainVars, poolVars, companions, queueVars, tracked, stream, flush, pruning, overtaken, unrecorded>>

\* An RPC error, or no need for the balances.
ColdEnds(f) ==
    /\ fetch[f].at \in {"call", "load", "reserves"}
    /\ fetch' = [fetch EXCEPT ![f] = NoFetch]
    /\ UNCHANGED <<chainVars, poolVars, mirrorVars, queueVars, tracked, stream, flush, pruning, ghostVars>>

FetchStep(f) == ColdRead(f) \/ ColdInsert(f) \/ ColdReserves(f) \/ ColdEnds(f)

-----------------------------------------------------------------------------
(* Pruning and restart.                                                    *)

\* The rows that the SELECT finds a week old are listed; the DELETE reads the clock
\* again, and a row that has got old in between slips out with them.  The list may
\* be of other pools only.
PruneDb ==
    \E listed, slipped \in SUBSET {p \in Pools : db[p] # "none"} :
        /\ pruning = NotPruning
        /\ listed \cap slipped = {}
        /\ db' = [p \in Pools |-> IF p \in listed \cup slipped THEN "none" ELSE db[p]]
        /\ pruning' = Prunes(listed)
        /\ unrecorded' = unrecorded \cup slipped
        /\ UNCHANGED <<chainVars, registry, cached, mirrorVars, queueVars, tracked, stream, flush, fetch, unqueued,
                       overtaken>>

PruneRegistry ==
    \E p \in pruning.listed :
        /\ pruning.at = "registry"
        /\ registry' = [registry EXCEPT ![p] = "none"]
        /\ pruning' = [at |-> "cache", pool |-> p, listed |-> pruning.listed \ {p}]
        /\ overtaken' = IF stream.pool = p \/ \E f \in Fetchers : fetch[f].pool = p
                        THEN overtaken \cup {p}
                        ELSE overtaken
        /\ UNCHANGED <<chainVars, db, cached, mirrorVars, queueVars, tracked, stream, flush, fetch, unqueued,
                       unrecorded>>

PruneCacheKeepsState ==
    /\ pruning.at = "cache"
    /\ pruning' = Prunes(pruning.listed)
    /\ UNCHANGED <<chainVars, poolVars, mirrorVars, queueVars, tracked, stream, flush, fetch, ghostVars>>

PruneCache ==
    /\ pruning.at = "cache"
    /\ cached' = [cached EXCEPT ![pruning.pool] = NoState]
    /\ pruning' = Prunes(pruning.listed)
    /\ UNCHANGED <<chainVars, registry, db, mirrorVars, queueVars, tracked, stream, flush, fetch, ghostVars>>

\* A crash and try_bootstrap from a table with rows, of these or of other pools (only
\* an empty one makes it look at the other files).
Restart ==
    /\ registry' = db
    /\ cached' = [p \in Pools |-> NoState]
    /\ vaults' = {} /\ companions' = [p \in Pools |-> "none"]
    /\ pending_vaults' = {} /\ pending_pool_subs' = {} /\ pending_companions' = {}
    /\ tracked' = [vaults |-> {}, companions |-> {}]
    /\ stream' = Waiting /\ flush' = Sleeping /\ pruning' = NotPruning
    /\ fetch' = [f \in Fetchers |-> NoFetch]
    /\ seen' = chain
    /\ unqueued' = {} /\ overtaken' = {} /\ unrecorded' = {}
    /\ UNCHANGED <<kind, chain, db>>

-----------------------------------------------------------------------------
SteadyNext ==
    \/ \E p \in Pools : Trade(p) \/ BlockDiscovers(p) \/ BlockOfKnown(p) \/ AccountUpdate(p)
    \/ StreamStep
    \/ FlushStep
    \/ \E f \in Fetchers :
          \/ \E p \in Pools : ColdStart(f, p) \/ SwapLoads(f, p)
          \/ FetchStep(f)

Next ==
    \/ SteadyNext
    \/ FlushSendFails
    \/ Reconnect
    \/ PruneDb
    \/ PruneRegistry
    \/ PruneCache
    \/ Restart

Spec == Init /\ [][Next]_vars

\* Delivered messages are handled, RPC calls are answered or time out, and the
\* spawned tasks run.
Fairness ==
    /\ \A p \in Pools : WF_vars(AccountUpdate(p))
    /\ WF_vars(StreamStep)
    /\ WF_vars(FlushStep)
    /\ \A f \in Fetchers : WF_vars(FetchStep(f))

FairSpec == Spec /\ Fairness

\* One session without a crash, a disconnect, a send error or a prune.
SteadySpec == Init /\ [][SteadyNext]_vars /\ Fairness

-----------------------------------------------------------------------------
(* Properties.                                                             *)

Listed == {"none", "placeholder", "real"}
Versions == 0..MaxVersion

\* Types; companions are fetched only for a pool that needs one, vaults looked up
\* only for a pool that has some.
TypeOK ==
    /\ kind \in [Pools -> Kinds]
    /\ chain \in [Pools -> Versions] /\ seen \in [Pools -> Versions]
    /\ registry \in [Pools -> Listed] /\ db \in [Pools -> Listed]
    /\ cached \in [Pools -> Versions \cup {NoState}]
    /\ vaults \subseteq Pools
    /\ companions \in [Pools -> {"none", "good", "bad"}]
    /\ pending_vaults \subseteq Pools /\ pending_pool_subs \subseteq Pools /\ pending_companions \subseteq Pools
    /\ tracked \in [vaults : SUBSET Pools, companions : SUBSET Pools]
    /\ \/ stream = Waiting
       \/ stream \in [at : {"fetch", "companions", "store"}, pool : Pools, known : BOOLEAN, version : Versions]
    /\ flush \in [at : {"wait", "vaults", "pools", "companions", "send", "dead"}, any : BOOLEAN]
    /\ fetch \in [Fetchers -> {NoFetch} \cup [at : {"call", "insert", "reserves", "load", "keep"}, pool : Pools, version : Versions]]
    /\ pruning \in [at : {"idle", "registry", "cache"}, pool : Pools \cup {NoPool}, listed : SUBSET Pools]
    /\ pruning.at = "cache" => pruning.pool \in Pools
    /\ unqueued \subseteq Pools /\ overtaken \subseteq Pools /\ unrecorded \subseteq Pools
    /\ stream.at = "companions" => stream.pool \in Async
    /\ \A f \in Fetchers : fetch[f].at = "reserves" => fetch[f].pool \notin Curves

\* What the table has of a pool is what the registry has, the pool and whether its
\* mints are known, so that a restart brings back nothing that was not registered; and
\* a registered pool has its row, unless the insert failed, the row slipped out with
\* those of other pools, or the prune task is taking the pool out.
TableAgrees ==
    \A p \in Pools :
        /\ db[p] # "none" => db[p] = registry[p]
        /\ registry[p] # "none" /\ db[p] = "none" => p \in unrecorded \cup pruning.listed

\* A vault that was registered and queued is in the subscription in force, still
\* queued, or in the hands of a flush that has drained it and will send: the task
\* that drains the queues and the one that fills them lose none between them.
NoQueuedVaultLost ==
    flush.at # "dead" =>
        \A p \in vaults \ unqueued :
            \/ p \in tracked.vaults
            \/ p \in pending_vaults
            \/ flush.at \in {"pools", "companions", "send"} /\ flush.any

\* A state is cached without its pool being registered only while the pool is
\* being pruned, or when it was pruned under the hands of a task that then stored
\* what it held, or when a swap named it, and only until it is registered again.
CachedIsRegistered ==
    \A p \in Pools :
        IsCached(p) /\ registry[p] = "none" => p \in overtaken \/ (pruning.at = "cache" /\ pruning.pool = p)

\* A queued vault gets into a subscription, unless the flush task has ended.
QueuedVaultsTracked ==
    \A p \in Pools : p \in pending_vaults ~> (p \in tracked.vaults \/ flush.at = "dead" \/ p \notin vaults)

\* As main has it, "Geyser keeps state fresh": in a steady session a registered
\* pool that is traded no more ends up cached as it is on chain.
GeyserKeepsFresh ==
    \A p \in Pools : <>[](registry[p] = "real" /\ IsCached(p) => cached[p] = chain[p])
=============================================================================

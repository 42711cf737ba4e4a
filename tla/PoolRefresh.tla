---------------------------- MODULE PoolRefresh ----------------------------
(***************************************************************************)
(* How cached pool state is kept fresh without Geyser:                     *)
(* src/stream/block_refresh.rs (a task per block re-reads the pools the    *)
(* block touched), src/quote/router.rs (cold fetch and background          *)
(* revalidation), src/api/swap.rs (re-read before a swap is built),        *)
(* src/stream/block_scanner.rs (discovery), src/main.rs (dormant retry,    *)
(* prune), all of them writing src/pool/cache.rs.                          *)
(*                                                                         *)
(* Every writer awaits an RPC answer between reading the cache and writing *)
(* it, and only two of them exclude each other: block tasks by the         *)
(* in_flight set, revalidations by the revalidating set.  An action is the *)
(* code between two awaits, split further where two threads can meet on    *)
(* one of those structures.  A loop over a batch is one step: its rounds   *)
(* are about different pools, and no property relates two pools.           *)
(***************************************************************************)
EXTENDS Naturals, FiniteSets

CONSTANTS
    Pools,       \* pool addresses
    MeteoraStd,  \* the pools of type Meteora (reserves in six other accounts)
    OracleRead,  \* the Byreal pools whose fee reads a price oracle
    Tasks,       \* slots for the tokio tasks that refresh_touched runs in
    Fetchers,    \* slots for the tasks that fetch one pool in full
    NoPool,      \* no address
    NoState,     \* absence from the cache
    Cap,         \* MAX_STATE_REFRESH_PER_BLOCK
    Threshold,   \* DORMANT_THRESHOLD
    MaxVersion   \* bound on the changes of a pool on chain

ASSUME PoolsAssumption == MeteoraStd \subseteq Pools /\ NoPool \notin Pools /\ IsFiniteSet(Pools)
ASSUME CapAssumption == Cap \in Nat \ {0} /\ Threshold \in Nat \ {0} /\ MaxVersion \in Nat

\* A parsed state: the version of the account it was read from, and whether its
\* fee rates come from a full fetch (they live in other accounts).
States == [version : 0..MaxVersion, fees : BOOLEAN]
ASSUME NoStateAssumption == NoState \notin States

VARIABLES
    chain,         \* chain[p]: version of the pool on chain
    registry,      \* registry[p]: "none", "placeholder" or "real" (has its mints)
    cached,        \* PoolCache.inner: cached[p], or NoState
    failures,      \* PoolCache.failures, counted up to Threshold
    in_flight,     \* BlockRefreshCtx.in_flight
    revalidating,  \* Quoter.revalidating
    step,          \* step[t]: where block task t is
    batch,         \* batch[t]: the pools it works on
    work,          \* work[t][p]: the state it holds for p, or NoState
    fetch,         \* fetch[f]: the full fetch in slot f
    pruning,       \* the address the prune task is at, or NoPool
    pruned         \* ghost: pools dropped from the cache under a running block task

vars == <<chain, registry, cached, failures, in_flight, revalidating,
          step, batch, work, fetch, pruning, pruned>>

taskVars == <<step, batch, work>>
Idle == [job |-> "idle", pool |-> NoPool, at |-> "idle", version |-> 0]
NoWork == [p \in Pools |-> NoState]

IsCached(p) == cached[p] # NoState
is_dormant(p) == failures[p] >= Threshold

Init ==
    /\ chain = [p \in Pools |-> 0]
    /\ registry \in [Pools -> {"none", "real"}]
    /\ cached = [p \in Pools |-> NoState]
    /\ failures = [p \in Pools |-> 0]
    /\ in_flight = {}
    /\ revalidating = {}
    /\ step = [t \in Tasks |-> "idle"]
    /\ batch = [t \in Tasks |-> {}]
    /\ work = [t \in Tasks |-> NoWork]
    /\ fetch = [f \in Fetchers |-> Idle]
    /\ pruning = NoPool
    /\ pruned = {}

\* A swap changes the pool on chain.
Trade(p) ==
    /\ chain[p] < MaxVersion
    /\ chain' = [chain EXCEPT ![p] = @ + 1]
    /\ UNCHANGED <<registry, cached, failures, in_flight, revalidating, taskVars, fetch, pruning, pruned>>

-----------------------------------------------------------------------------
(* The block task, refresh_touched.                                        *)

Goto(t, s) == step' = [step EXCEPT ![t] = s]

Finish(t) ==
    /\ Goto(t, "idle")
    /\ batch' = [batch EXCEPT ![t] = {}]
    /\ work' = [work EXCEPT ![t] = NoWork]

\* mirror_block lists the known pools with real mints that the block touched, and
\* with an oracle the pools that read it, known or not; a block that touched any
\* spawns a task, however many are still running.
BlockTouches(t, touched) ==
    /\ step[t] = "idle"
    /\ touched # {}
    /\ \A p \in touched : registry[p] = "real" \/ p \in OracleRead
    /\ Goto(t, "filter")
    /\ batch' = [batch EXCEPT ![t] = touched]
    /\ UNCHANGED <<chain, registry, cached, failures, in_flight, revalidating, work, fetch, pruning, pruned>>

\* Both retains and the truncation.
Refreshable(t) == {p \in batch[t] : IsCached(p) /\ p \notin in_flight}

RefreshFilterAll(t) ==
    /\ step[t] = "filter"
    /\ \E kept \in SUBSET batch[t] :
          /\ \A p \in kept : p \notin in_flight
          /\ IF Cardinality({p \in batch[t] : p \notin in_flight}) > Cap
             THEN Cardinality(kept) = Cap
             ELSE kept = {p \in batch[t] : p \notin in_flight}
          /\ IF kept = {}
             THEN Finish(t)
             ELSE Goto(t, "claim") /\ batch' = [batch EXCEPT ![t] = kept] /\ UNCHANGED work
    /\ UNCHANGED <<chain, registry, cached, failures, in_flight, revalidating, fetch, pruning, pruned>>

RefreshFilterClaimFirst(t) ==
    /\ step[t] = "filter"
    /\ in_flight' = in_flight \cup Refreshable(t)
    /\ \E kept \in SUBSET Refreshable(t) :
          /\ IF Cardinality(Refreshable(t)) > Cap THEN Cardinality(kept) = Cap ELSE kept = Refreshable(t)
          /\ IF kept = {}
             THEN Finish(t)
             ELSE Goto(t, "claim") /\ batch' = [batch EXCEPT ![t] = kept] /\ UNCHANGED work
    /\ UNCHANGED <<chain, registry, cached, failures, revalidating, fetch, pruning, pruned>>

RefreshFilter(t) ==
    /\ step[t] = "filter"
    /\ \E kept \in SUBSET Refreshable(t) :
          /\ IF Cardinality(Refreshable(t)) > Cap THEN Cardinality(kept) = Cap ELSE kept = Refreshable(t)
          /\ IF kept = {}
             THEN Finish(t)
             ELSE Goto(t, "claim") /\ batch' = [batch EXCEPT ![t] = kept] /\ UNCHANGED work
    /\ UNCHANGED <<chain, registry, cached, failures, in_flight, revalidating, fetch, pruning, pruned>>

\* The marks go in only now, unconditionally.
RefreshClaim(t) ==
    /\ step[t] = "claim"
    /\ in_flight' = in_flight \cup batch[t]
    /\ Goto(t, IF batch[t] \cap MeteoraStd # {} THEN "std_plan" ELSE "read")
    /\ UNCHANGED <<chain, registry, cached, failures, revalidating, batch, work, fetch, pruning, pruned>>

\* refresh_meteora_std clones the cached states before its RPC call.
StdPlan(t) ==
    /\ step[t] = "std_plan"
    /\ work' = [work EXCEPT ![t] = [p \in Pools |-> IF p \in batch[t] \cap MeteoraStd THEN cached[p] ELSE NoState]]
    /\ Goto(t, "std_read")
    /\ UNCHANGED <<chain, registry, cached, failures, in_flight, revalidating, batch, fetch, pruning, pruned>>

StdReadOk(t) ==
    /\ step[t] = "std_read"
    /\ work' = [work EXCEPT ![t] = [p \in Pools |->
                   IF work[t][p] # NoState THEN [work[t][p] EXCEPT !.version = chain[p]] ELSE NoState]]
    /\ Goto(t, "std_insert")
    /\ UNCHANGED <<chain, registry, cached, failures, in_flight, revalidating, batch, fetch, pruning, pruned>>

\* A batch that fails ends the loop; the marks are cleared all the same.
StdReadFailed(t) ==
    /\ step[t] = "std_read"
    /\ Goto(t, "std_release")
    /\ UNCHANGED <<chain, registry, cached, failures, in_flight, revalidating, batch, work, fetch, pruning, pruned>>

\* Pools whose six accounts do not parse are left as they are.
StdInsert(t) ==
    /\ step[t] = "std_insert"
    /\ \E ok \in SUBSET {p \in batch[t] : work[t][p] # NoState} :
          cached' = [p \in Pools |-> IF p \in ok THEN work[t][p] ELSE cached[p]]
    /\ Goto(t, "std_release")
    /\ UNCHANGED <<chain, registry, failures, in_flight, revalidating, batch, work, fetch, pruning, pruned>>

StdRelease(t) ==
    /\ step[t] = "std_release"
    /\ in_flight' = in_flight \ (batch[t] \cap MeteoraStd)
    /\ IF batch[t] \subseteq MeteoraStd
       THEN Finish(t)
       ELSE /\ Goto(t, "read")
            /\ batch' = [batch EXCEPT ![t] = @ \ MeteoraStd]
            /\ work' = [work EXCEPT ![t] = NoWork]
    /\ UNCHANGED <<chain, registry, cached, failures, revalidating, fetch, pruning, pruned>>

\* getMultipleAccounts: the raw accounts carry no fee rates.
ReadOk(t) ==
    /\ step[t] = "read"
    /\ work' = [work EXCEPT ![t] = [p \in Pools |->
                   IF p \in batch[t] THEN [version |-> chain[p], fees |-> FALSE] ELSE NoState]]
    /\ Goto(t, "reparse")
    /\ UNCHANGED <<chain, registry, cached, failures, in_flight, revalidating, batch, fetch, pruning, pruned>>

ReadFailed(t) ==
    /\ step[t] = "read"
    /\ in_flight' = in_flight \ batch[t]
    /\ Finish(t)
    /\ UNCHANGED <<chain, registry, cached, failures, revalidating, fetch, pruning, pruned>>

\* reparse_pool_state takes the fee rates over from the state cached by now; a
\* closed account or a failed parse drops the pool.  The tick and bin arrays are
\* awaited after this step, and their failure is ignored.
Reparse(t) ==
    /\ step[t] = "reparse"
    /\ \E ok \in SUBSET batch[t] :
          work' = [work EXCEPT ![t] = [p \in Pools |->
                     IF p \in ok
                     THEN [work[t][p] EXCEPT !.fees = IsCached(p) /\ cached[p].fees]
                     ELSE NoState]]
    /\ Goto(t, "publish")
    /\ UNCHANGED <<chain, registry, cached, failures, in_flight, revalidating, batch, fetch, pruning, pruned>>

Publish(t) ==
    /\ step[t] = "publish"
    /\ cached' = [p \in Pools |-> IF work[t][p] # NoState THEN work[t][p] ELSE cached[p]]
    /\ Goto(t, "release")
    /\ UNCHANGED <<chain, registry, failures, in_flight, revalidating, batch, work, fetch, pruning, pruned>>

ReleaseKeepsWork(t) ==
    /\ step[t] = "release"
    /\ in_flight' = in_flight \ batch[t]
    /\ Goto(t, "idle")
    /\ batch' = [batch EXCEPT ![t] = {}]
    /\ UNCHANGED <<chain, registry, cached, failures, revalidating, work, fetch, pruning, pruned>>

Release(t) ==
    /\ step[t] = "release"
    /\ in_flight' = in_flight \ batch[t]
    /\ Finish(t)
    /\ UNCHANGED <<chain, registry, cached, failures, revalidating, fetch, pruning, pruned>>

TaskStep(t) ==
    \/ RefreshFilter(t) \/ RefreshClaim(t)
    \/ StdPlan(t) \/ StdReadOk(t) \/ StdReadFailed(t) \/ StdInsert(t) \/ StdRelease(t)
    \/ ReadOk(t) \/ ReadFailed(t) \/ Reparse(t) \/ Publish(t) \/ Release(t)

-----------------------------------------------------------------------------
(* Full fetches, fetch_pool_state and what follows it.                     *)

Begin(f, job, p, at) ==
    /\ fetch[f] = Idle
    /\ fetch' = [fetch EXCEPT ![f] = [job |-> job, pool |-> p, at |-> at, version |-> 0]]

End(f) == fetch' = [fetch EXCEPT ![f] = Idle]

record_failure(p) == failures' = [failures EXCEPT ![p] = IF @ < Threshold THEN @ + 1 ELSE @]
reset_failure(p) == failures' = [failures EXCEPT ![p] = 0]

Quotable(p) == registry[p] = "real" /\ ~is_dormant(p)

\* A quote of a pool that is not cached.
QuoteCold(f, p) ==
    /\ Quotable(p)
    /\ ~IsCached(p)
    /\ Begin(f, "cold", p, "call")
    /\ UNCHANGED <<chain, registry, cached, failures, in_flight, revalidating, taskVars, pruning, pruned>>

\* A quote of a cached pool that cannot be priced from memory: no state fetch.
QuoteUnmirrored(f, p) ==
    /\ Quotable(p)
    /\ IsCached(p)
    /\ Begin(f, "cold", p, "price")
    /\ UNCHANGED <<chain, registry, cached, failures, in_flight, revalidating, taskVars, pruning, pruned>>

\* A quote of a cached pool older than revalidate_after: one in flight per pool.
QuoteRevalidatesUnmarked(f, p) ==
    /\ Quotable(p)
    /\ IsCached(p)
    /\ revalidating' = revalidating \cup {p}
    /\ Begin(f, "revalidate", p, "call")
    /\ UNCHANGED <<chain, registry, cached, failures, in_flight, taskVars, pruning, pruned>>

QuoteRevalidates(f, p) ==
    /\ Quotable(p)
    /\ IsCached(p)
    /\ p \notin revalidating
    /\ revalidating' = revalidating \cup {p}
    /\ Begin(f, "revalidate", p, "call")
    /\ UNCHANGED <<chain, registry, cached, failures, in_flight, taskVars, pruning, pruned>>

\* load_pool_state: not cached, or older than PAMM_RESERVE_MAX_AGE.
SwapLoads(f, p) ==
    /\ Begin(f, "swap", p, "call")
    /\ UNCHANGED <<chain, registry, cached, failures, in_flight, revalidating, taskVars, pruning, pruned>>

\* The hourly retry.
RetriesDormant(f, p) ==
    /\ is_dormant(p)
    /\ registry[p] # "none"
    /\ Begin(f, "retry", p, "call")
    /\ UNCHANGED <<chain, registry, cached, failures, in_flight, revalidating, taskVars, pruning, pruned>>

\* A block shows an unknown pool: a placeholder until its fetch is done.
Discovers(f, p) ==
    /\ registry[p] = "none"
    /\ registry' = [registry EXCEPT ![p] = "placeholder"]
    /\ Begin(f, "discover", p, "call")
    /\ UNCHANGED <<chain, cached, failures, in_flight, revalidating, taskVars, pruning, pruned>>

FetchOk(f) ==
    LET p == fetch[f].pool IN
    /\ fetch[f].at = "call"
    /\ fetch' = [fetch EXCEPT ![f].version = chain[p],
                              ![f].at = IF fetch[f].job = "discover" THEN "register" ELSE "insert"]
    /\ UNCHANGED <<chain, registry, cached, failures, in_flight, revalidating, taskVars, pruning, pruned>>

FetchFailedKeepsMark(f) ==
    LET p == fetch[f].pool IN
    /\ fetch[f].at = "call"
    /\ End(f)
    /\ IF fetch[f].job = "cold" THEN record_failure(p) ELSE UNCHANGED failures
    /\ registry' = IF fetch[f].job = "discover" THEN [registry EXCEPT ![p] = "none"] ELSE registry
    /\ UNCHANGED <<chain, cached, in_flight, revalidating, taskVars, pruning, pruned>>

\* A failed discovery takes the placeholder back; a swap uses what it has; a
\* dormant pool stays dormant.
FetchFailed(f) ==
    LET p == fetch[f].pool IN
    /\ fetch[f].at = "call"
    /\ End(f)
    /\ IF fetch[f].job = "cold" THEN record_failure(p) ELSE UNCHANGED failures
    /\ registry' = IF fetch[f].job = "discover" THEN [registry EXCEPT ![p] = "none"] ELSE registry
    /\ revalidating' = IF fetch[f].job = "revalidate" THEN revalidating \ {p} ELSE revalidating
    /\ UNCHANGED <<chain, cached, in_flight, taskVars, pruning, pruned>>

\* A discovered pool is registered under its mints before it is cached.
Register(f) ==
    /\ fetch[f].at = "register"
    /\ registry' = [registry EXCEPT ![fetch[f].pool] = "real"]
    /\ fetch' = [fetch EXCEPT ![f].at = "insert"]
    /\ UNCHANGED <<chain, cached, failures, in_flight, revalidating, taskVars, pruning, pruned>>

Insert(f) ==
    LET p == fetch[f].pool IN
    /\ fetch[f].at = "insert"
    /\ cached' = [cached EXCEPT ![p] = [version |-> fetch[f].version, fees |-> TRUE]]
    /\ IF fetch[f].job \in {"swap", "discover"}
       THEN End(f)
       ELSE fetch' = [fetch EXCEPT ![f].at = IF fetch[f].job = "cold" THEN "price" ELSE "clear"]
    /\ UNCHANGED <<chain, registry, failures, in_flight, revalidating, taskVars, pruning, pruned>>

\* evaluate_cold resets the failures only when the pool could be priced: tick
\* arrays that do not load and a walk that finds no price count as failures.
ColdPriced(f) ==
    /\ fetch[f].at = "price"
    /\ reset_failure(fetch[f].pool)
    /\ End(f)
    /\ UNCHANGED <<chain, registry, cached, in_flight, revalidating, taskVars, pruning, pruned>>

ColdUnpriced(f) ==
    /\ fetch[f].at = "price"
    /\ record_failure(fetch[f].pool)
    /\ End(f)
    /\ UNCHANGED <<chain, registry, cached, in_flight, revalidating, taskVars, pruning, pruned>>

\* The revalidation takes its mark off; the retry resets the failures.
ClearAfterInsert(f) ==
    LET p == fetch[f].pool IN
    /\ fetch[f].at = "clear"
    /\ End(f)
    /\ revalidating' = IF fetch[f].job = "revalidate" THEN revalidating \ {p} ELSE revalidating
    /\ IF fetch[f].job = "retry" THEN reset_failure(p) ELSE UNCHANGED failures
    /\ UNCHANGED <<chain, registry, cached, in_flight, taskVars, pruning, pruned>>

FetchBegins(f, p) ==
    \/ QuoteCold(f, p) \/ QuoteUnmirrored(f, p) \/ QuoteRevalidates(f, p)
    \/ SwapLoads(f, p) \/ RetriesDormant(f, p) \/ Discovers(f, p)

FetchStep(f) ==
    \/ FetchOk(f) \/ FetchFailed(f) \/ Register(f) \/ Insert(f)
    \/ ColdPriced(f) \/ ColdUnpriced(f) \/ ClearAfterInsert(f)

-----------------------------------------------------------------------------
(* The prune task: the database names the stale addresses.                 *)

PruneRegistry(p) ==
    /\ pruning = NoPool
    /\ registry[p] = "real"
    /\ registry' = [registry EXCEPT ![p] = "none"]
    /\ pruning' = p
    /\ UNCHANGED <<chain, cached, failures, in_flight, revalidating, taskVars, fetch, pruned>>

PruneCache ==
    /\ pruning # NoPool
    /\ cached' = [cached EXCEPT ![pruning] = NoState]
    /\ failures' = [failures EXCEPT ![pruning] = 0]
    /\ pruned' = IF \E t \in Tasks : pruning \in batch[t] /\ step[t] # "filter"
                 THEN pruned \cup {pruning}
                 ELSE pruned
    /\ pruning' = NoPool
    /\ UNCHANGED <<chain, registry, in_flight, revalidating, taskVars, fetch>>

-----------------------------------------------------------------------------
Next ==
    \/ \E p \in Pools : Trade(p) \/ PruneRegistry(p)
    \/ PruneCache
    \/ \E t \in Tasks :
          \/ \E touched \in SUBSET Pools : BlockTouches(t, touched)
          \/ TaskStep(t)
    \/ \E f \in Fetchers :
          \/ \E p \in Pools : FetchBegins(f, p)
          \/ FetchStep(f)

Spec == Init /\ [][Next]_vars

\* Every RPC call is answered or times out, and spawned tasks run.
TasksFair == (\A t \in Tasks : WF_vars(TaskStep(t))) /\ (\A f \in Fetchers : WF_vars(FetchStep(f)))

\* The environment in which freshness is promised: calls do not fail for ever,
\* the pool is quoted again and again, and the hourly retry comes round.
QuotedAndReachable ==
    /\ \A f \in Fetchers : SF_vars(FetchOk(f))
    /\ \A p \in Pools :
          /\ SF_vars(\E f \in Fetchers : QuoteRevalidates(f, p))
          /\ SF_vars(\E f \in Fetchers : RetriesDormant(f, p))
    /\ WF_vars(PruneCache)

FairSpec == Spec /\ TasksFair
QuotedSpec == FairSpec /\ QuotedAndReachable

-----------------------------------------------------------------------------
(* Properties.                                                             *)

Steps == {"idle", "filter", "claim", "std_plan", "std_read", "std_insert",
          "std_release", "read", "reparse", "publish", "release"}
Jobs == {"cold", "revalidate", "swap", "retry", "discover"}
Holding == Steps \ {"idle", "filter", "claim"}

\* Types; the states a block task carries are of pools in its batch.
TypeOK ==
    /\ chain \in [Pools -> 0..MaxVersion]
    /\ registry \in [Pools -> {"none", "placeholder", "real"}]
    /\ cached \in [Pools -> States \cup {NoState}]
    /\ failures \in [Pools -> 0..Threshold]
    /\ in_flight \subseteq Pools
    /\ revalidating \subseteq Pools
    /\ step \in [Tasks -> Steps]
    /\ batch \in [Tasks -> SUBSET Pools]
    /\ work \in [Tasks -> [Pools -> States \cup {NoState}]]
    /\ fetch \in [Fetchers -> {Idle} \cup
                    [job : Jobs, pool : Pools, at : {"call", "register", "insert", "price", "clear"},
                     version : 0..MaxVersion]]
    /\ pruning \in Pools \cup {NoPool}
    /\ pruned \subseteq Pools
    /\ \A t \in Tasks : \A p \in Pools : work[t][p] # NoState => p \in batch[t]

\* A pool marked in flight is in the hands of a task that will take the mark off:
\* no path of refresh_touched (the cap, a failed batch, the Meteora branch) leaves
\* a mark behind that would keep the pool from ever being refreshed.
MarksOwned == \A p \in in_flight : \E t \in Tasks : p \in batch[t] /\ step[t] \in Holding

\* A pool is revalidated by at most one task, and a pool marked as being
\* revalidated has one: the mark neither leaks nor lets a second task in.
RevalidationsOwned ==
    \A p \in Pools :
        LET running == {f \in Fetchers : fetch[f].job = "revalidate" /\ fetch[f].pool = p} IN
        /\ \A f, g \in running : f = g
        /\ p \in revalidating <=> running # {}

\* A state whose fee rates were never fetched reaches the cache only if the pool
\* was pruned while a block task was at work on it.
FeesKnown == \A p \in Pools \ pruned : IsCached(p) => cached[p].fees

\* A registered pool that is traded no more and still quoted ends up cached as it
\* is on chain, although block tasks, revalidations, swaps, retries and discoveries
\* overwrite each other's states in any order.
QuietPoolsCatchUp == 
    \A p \in Pools : <>[](registry[p] = "real" /\ IsCached(p) => cached[p].version = chain[p])
=============================================================================

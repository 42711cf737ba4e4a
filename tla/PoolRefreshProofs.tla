------------------------- MODULE PoolRefreshProofs -------------------------
(***************************************************************************)
(* Proofs about the upkeep of the pool cache, for any number of pools,     *)
(* block tasks and concurrent fetches, any cap and any threshold.          *)
(***************************************************************************)
EXTENDS PoolRefresh, TLAPS

\* A task that has not filtered its pools yet holds no states; one that has read
\* the accounts of its batch holds them all.
WorkInv ==
    \A t \in Tasks :
        /\ step[t] \in {"idle", "filter"} => work[t] = NoWork
        /\ step[t] = "reparse" => \A p \in batch[t] : work[t][p] # NoState

\* Only a cold fetch is priced after its insert.
PriceInv == \A f \in Fetchers : fetch[f].at = "price" => fetch[f].job = "cold"

\* Between its filter and its last read of the cache a block task counts on its
\* pools being cached; only the prune task can disappoint it.  The states it is
\* about to publish have their fee rates.
BatchInv ==
    \A t \in Tasks : \A p \in Pools \ pruned :
        /\ p \in batch[t] /\ step[t] \notin {"idle", "filter", "publish", "release"} => IsCached(p)
        /\ work[t][p] # NoState /\ step[t] \in {"std_read", "std_insert", "publish"} => work[t][p].fees

FeesInv == BatchInv /\ FeesKnown

\* The inductive invariant.
RefreshInv == TypeOK /\ WorkInv /\ PriceInv /\ MarksOwned /\ RevalidationsOwned /\ FeesInv

-----------------------------------------------------------------------------
\* A task that holds nothing.
LEMMA NoWorkType == NoWork \in [Pools -> States \cup {NoState}] /\ \A p \in Pools : NoWork[p] = NoState
  BY DEF NoWork

\* A fetch that is under way has a pool and a version.
Active == [job : Jobs, pool : Pools, at : {"call", "register", "insert", "price", "clear"},
           version : 0..MaxVersion]

\* A fetcher at work is one of the active records, so its pool, its job and the
\* version it read have their types at every step (pool/mod.rs).
LEMMA ActiveFetch ==
  ASSUME TypeOK, NEW f \in Fetchers, fetch[f].at # "idle"
  PROVE  /\ fetch[f] \in Active
         /\ fetch[f].pool \in Pools /\ fetch[f].version \in 0..MaxVersion /\ fetch[f].job \in Jobs
  BY DEF TypeOK, Idle, Active

\* Versions read are versions of the chain; a finished task forgets its states.
LEMMA TypeStep == TypeOK /\ WorkInv /\ [Next]_vars => TypeOK' /\ WorkInv'
  <1> SUFFICES ASSUME TypeOK, WorkInv, [Next]_vars PROVE TypeOK' /\ WorkInv'
    OBVIOUS
  <1> USE NoWorkType, PoolsAssumption, CapAssumption, NoStateAssumption
      DEF TypeOK, WorkInv, States, Steps, Jobs, Idle, Goto, Finish, Begin, End, taskVars,
          record_failure, reset_failure, Refreshable, IsCached
  <1>1. ASSUME NEW p \in Pools, Trade(p) PROVE TypeOK' /\ WorkInv'
    BY <1>1 DEF Trade
  <1>2. ASSUME NEW p \in Pools, PruneRegistry(p) PROVE TypeOK' /\ WorkInv'
    BY <1>2 DEF PruneRegistry
  <1>3. ASSUME PruneCache PROVE TypeOK' /\ WorkInv'
    BY <1>3 DEF PruneCache
  <1>4. ASSUME NEW t \in Tasks, NEW touched \in SUBSET Pools, BlockTouches(t, touched) PROVE TypeOK' /\ WorkInv'
    BY <1>4 DEF BlockTouches
  <1>5. ASSUME NEW t \in Tasks, RefreshFilter(t) PROVE TypeOK' /\ WorkInv'
    <2>1. PICK kept \in SUBSET Refreshable(t) :
             IF kept = {} THEN Finish(t)
             ELSE Goto(t, "claim") /\ batch' = [batch EXCEPT ![t] = kept] /\ UNCHANGED work
      BY <1>5 DEF RefreshFilter
    <2>2. /\ step[t] = "filter"
          /\ UNCHANGED <<chain, registry, cached, failures, in_flight, revalidating, fetch, pruning, pruned>>
      BY <1>5 DEF RefreshFilter
    <2>3. kept \in SUBSET Pools /\ kept \subseteq batch[t] /\ \A p \in kept : cached[p] # NoState
      BY <2>1
    <2>4. CASE Finish(t)
      BY <2>2, <2>4
    <2>5. CASE Goto(t, "claim") /\ batch' = [batch EXCEPT ![t] = kept] /\ UNCHANGED work
      BY <2>2, <2>3, <2>5
    <2>6. QED
      BY <2>1, <2>4, <2>5
  <1>6. ASSUME NEW t \in Tasks, RefreshClaim(t) PROVE TypeOK' /\ WorkInv'
    BY <1>6 DEF RefreshClaim
  <1>7. ASSUME NEW t \in Tasks, StdPlan(t) PROVE TypeOK' /\ WorkInv'
    BY <1>7 DEF StdPlan
  <1>8. ASSUME NEW t \in Tasks, StdReadOk(t) PROVE TypeOK' /\ WorkInv'
    <2>1. \A p \in Pools : work[t][p] # NoState => [work[t][p] EXCEPT !.version = chain[p]] \in States
      <3> SUFFICES ASSUME NEW p \in Pools, work[t][p] # NoState
                   PROVE  [work[t][p] EXCEPT !.version = chain[p]] \in States
        OBVIOUS
      <3>1. work[t][p] \in States /\ chain[p] \in 0..MaxVersion
        OBVIOUS
      <3>2. QED
        BY <3>1 DEF States
    <2>2. /\ work' \in [Tasks -> [Pools -> States \cup {NoState}]]
          /\ \A p \in Pools : work'[t][p] # NoState => work[t][p] # NoState
          /\ \A u \in Tasks \ {t} : work'[u] = work[u]
      BY <1>8, <2>1 DEF StdReadOk
    <2>3. QED
      BY <1>8, <2>2 DEF StdReadOk
  <1>9. ASSUME NEW t \in Tasks, StdReadFailed(t) PROVE TypeOK' /\ WorkInv'
    BY <1>9 DEF StdReadFailed
  <1>10. ASSUME NEW t \in Tasks, StdInsert(t) PROVE TypeOK' /\ WorkInv'
    BY <1>10 DEF StdInsert
  <1>11. ASSUME NEW t \in Tasks, StdRelease(t) PROVE TypeOK' /\ WorkInv'
    <2>1. /\ step[t] = "std_release"
          /\ in_flight' \subseteq in_flight
          /\ UNCHANGED <<chain, registry, cached, failures, revalidating, fetch, pruning, pruned>>
      BY <1>11 DEF StdRelease
    <2>2. CASE Finish(t)
      BY <2>1, <2>2
    <2>3. CASE /\ Goto(t, "read")
               /\ batch' = [batch EXCEPT ![t] = @ \ MeteoraStd]
               /\ work' = [work EXCEPT ![t] = NoWork]
      BY <2>1, <2>3
    <2>4. QED
      BY <1>11, <2>2, <2>3 DEF StdRelease
  <1>12. ASSUME NEW t \in Tasks, ReadOk(t) PROVE TypeOK' /\ WorkInv'
    <2> DEFINE raw(p) == [version |-> chain[p], fees |-> FALSE]
    <2>1. \A p \in Pools : raw(p) \in States
      BY DEF States
    <2>2. work' = [work EXCEPT ![t] = [p \in Pools |-> IF p \in batch[t] THEN raw(p) ELSE NoState]]
      BY <1>12 DEF ReadOk
    <2> HIDE DEF raw
    <2>3. \A p \in Pools : raw(p) # NoState
      BY <2>1
    <2>4. /\ work' \in [Tasks -> [Pools -> States \cup {NoState}]]
          /\ \A p \in Pools : work'[t][p] # NoState <=> p \in batch[t]
          /\ \A u \in Tasks \ {t} : work'[u] = work[u]
      BY <2>1, <2>2, <2>3
    <2>5. QED
      BY <1>12, <2>4 DEF ReadOk
  <1>13. ASSUME NEW t \in Tasks, ReadFailed(t) PROVE TypeOK' /\ WorkInv'
    BY <1>13 DEF ReadFailed
  <1>14. ASSUME NEW t \in Tasks, Reparse(t) PROVE TypeOK' /\ WorkInv'
    <2>1. PICK ok \in SUBSET batch[t] :
             work' = [work EXCEPT ![t] = [p \in Pools |->
                        IF p \in ok THEN [work[t][p] EXCEPT !.fees = IsCached(p) /\ cached[p].fees] ELSE NoState]]
      BY <1>14 DEF Reparse
    <2>2. work[t] \in [Pools -> States \cup {NoState}] /\ \A p \in batch[t] : work[t][p] # NoState
      BY <1>14 DEF Reparse, WorkInv
    <2>3. \A p \in batch[t] : [work[t][p] EXCEPT !.fees = IsCached(p) /\ cached[p].fees] \in States
      <3> SUFFICES ASSUME NEW p \in batch[t]
                   PROVE  [work[t][p] EXCEPT !.fees = IsCached(p) /\ cached[p].fees] \in States
        OBVIOUS
      <3>1. (IsCached(p) /\ cached[p].fees) \in BOOLEAN
        OBVIOUS
      <3>2. work[t][p] \in States
        BY <2>2
      <3>3. QED
        BY <3>1, <3>2 DEF States
    <2>4. work'[t] \in [Pools -> States \cup {NoState}] /\ \A p \in Pools : work'[t][p] # NoState => p \in batch[t]
      BY <2>1, <2>3
    <2>5. work' \in [Tasks -> [Pools -> States \cup {NoState}]] /\ \A u \in Tasks \ {t} : work'[u] = work[u]
      BY <2>1, <2>4
    <2>6. QED
      BY <1>14, <2>4, <2>5 DEF Reparse
  <1>15. ASSUME NEW t \in Tasks, Publish(t) PROVE TypeOK' /\ WorkInv'
    BY <1>15 DEF Publish
  <1>16. ASSUME NEW t \in Tasks, Release(t) PROVE TypeOK' /\ WorkInv'
    BY <1>16 DEF Release
  <1>17. ASSUME NEW f \in Fetchers, NEW p \in Pools, QuoteCold(f, p) PROVE TypeOK' /\ WorkInv'
    BY <1>17 DEF QuoteCold
  <1>18. ASSUME NEW f \in Fetchers, NEW p \in Pools, QuoteUnmirrored(f, p) PROVE TypeOK' /\ WorkInv'
    BY <1>18 DEF QuoteUnmirrored
  <1>19. ASSUME NEW f \in Fetchers, NEW p \in Pools, QuoteRevalidates(f, p) PROVE TypeOK' /\ WorkInv'
    BY <1>19 DEF QuoteRevalidates
  <1>20. ASSUME NEW f \in Fetchers, NEW p \in Pools, SwapLoads(f, p) PROVE TypeOK' /\ WorkInv'
    BY <1>20 DEF SwapLoads
  <1>21. ASSUME NEW f \in Fetchers, NEW p \in Pools, RetriesDormant(f, p) PROVE TypeOK' /\ WorkInv'
    BY <1>21 DEF RetriesDormant
  <1>22. ASSUME NEW f \in Fetchers, NEW p \in Pools, Discovers(f, p) PROVE TypeOK' /\ WorkInv'
    BY <1>22 DEF Discovers
  <1>23. ASSUME NEW f \in Fetchers, FetchOk(f) PROVE TypeOK' /\ WorkInv'
    BY <1>23 DEF FetchOk
  <1>24. ASSUME NEW f \in Fetchers, FetchFailed(f) PROVE TypeOK' /\ WorkInv'
    BY <1>24 DEF FetchFailed
  <1>25. ASSUME NEW f \in Fetchers, Register(f) PROVE TypeOK' /\ WorkInv'
    <2>1. fetch[f] \in Active
      BY <1>25, ActiveFetch DEF Register
    <2>2. [fetch[f] EXCEPT !.at = "insert"] \in Active
      BY <2>1 DEF Active
    <2>3. fetch' \in [Fetchers -> {Idle} \cup Active]
      BY <1>25, <2>2 DEF Register, Active
    <2>4. registry' \in [Pools -> {"none", "placeholder", "real"}]
      BY <1>25, <2>1 DEF Register, Active
    <2>5. QED
      BY <1>25, <2>3, <2>4 DEF Register, Active
  <1>26. ASSUME NEW f \in Fetchers, Insert(f) PROVE TypeOK' /\ WorkInv'
    <2>1. CASE fetch' = [fetch EXCEPT ![f] = Idle]
      BY <1>26, <2>1 DEF Insert
    <2>2. ASSUME NEW at \in {"price", "clear"}, at = "price" => fetch[f].job = "cold",
                 fetch' = [fetch EXCEPT ![f].at = at]
          PROVE  TypeOK' /\ WorkInv'
      <3>1. fetch[f] \in Active
        BY <1>26, ActiveFetch DEF Insert
      <3>2. [fetch[f] EXCEPT !.at = at] \in Active
        BY <3>1 DEF Active
      <3>3. fetch' \in [Fetchers -> {Idle} \cup Active] /\ fetch'[f].at = at /\ fetch'[f].job = fetch[f].job
        BY <1>26, <2>2, <3>1, <3>2 DEF Insert, Active
      <3>4. cached' \in [Pools -> States \cup {NoState}]
        BY <1>26, <3>1 DEF Insert, Active, States
      <3>5. QED
        BY <1>26, <2>2, <3>3, <3>4 DEF Insert, Active
    <2>3. QED
      BY <1>26, <2>1, <2>2 DEF Insert
  <1>27. ASSUME NEW f \in Fetchers, ColdPriced(f) PROVE TypeOK' /\ WorkInv'
    BY <1>27 DEF ColdPriced
  <1>28. ASSUME NEW f \in Fetchers, ColdUnpriced(f) PROVE TypeOK' /\ WorkInv'
    BY <1>28 DEF ColdUnpriced
  <1>29. ASSUME NEW f \in Fetchers, ClearAfterInsert(f) PROVE TypeOK' /\ WorkInv'
    BY <1>29 DEF ClearAfterInsert
  <1>30. CASE UNCHANGED vars
    BY <1>30 DEF vars
  <1>31. QED
    BY <1>1, <1>2, <1>3, <1>4, <1>5, <1>6, <1>7, <1>8, <1>9, <1>10,
       <1>11, <1>12, <1>13, <1>14, <1>15, <1>16, <1>17, <1>18, <1>19,
       <1>20, <1>21, <1>22, <1>23, <1>24, <1>25, <1>26, <1>27, <1>28,
       <1>29, <1>30
    DEF Next, TaskStep, FetchBegins, FetchStep

-----------------------------------------------------------------------------
\* Whatever a cold fetch does next, other fetches are never priced.
LEMMA PriceStep == TypeOK /\ PriceInv /\ [Next]_vars => PriceInv'
  <1> SUFFICES ASSUME TypeOK, PriceInv, [Next]_vars PROVE PriceInv'
    OBVIOUS
  <1> USE DEF TypeOK, PriceInv, Idle, Begin, End, taskVars
  <1>1. ASSUME NEW p \in Pools, Trade(p) PROVE PriceInv'
    BY <1>1 DEF Trade
  <1>2. ASSUME NEW p \in Pools, PruneRegistry(p) PROVE PriceInv'
    BY <1>2 DEF PruneRegistry
  <1>3. ASSUME PruneCache PROVE PriceInv'
    BY <1>3 DEF PruneCache
  <1>4. ASSUME NEW t \in Tasks, NEW touched \in SUBSET Pools, BlockTouches(t, touched) PROVE PriceInv'
    BY <1>4 DEF BlockTouches
  <1>5. ASSUME NEW t \in Tasks, RefreshFilter(t) PROVE PriceInv'
    BY <1>5 DEF RefreshFilter
  <1>6. ASSUME NEW t \in Tasks, RefreshClaim(t) PROVE PriceInv'
    BY <1>6 DEF RefreshClaim
  <1>7. ASSUME NEW t \in Tasks, StdPlan(t) PROVE PriceInv'
    BY <1>7 DEF StdPlan
  <1>8. ASSUME NEW t \in Tasks, StdReadOk(t) PROVE PriceInv'
    BY <1>8 DEF StdReadOk
  <1>9. ASSUME NEW t \in Tasks, StdReadFailed(t) PROVE PriceInv'
    BY <1>9 DEF StdReadFailed
  <1>10. ASSUME NEW t \in Tasks, StdInsert(t) PROVE PriceInv'
    BY <1>10 DEF StdInsert
  <1>11. ASSUME NEW t \in Tasks, StdRelease(t) PROVE PriceInv'
    BY <1>11 DEF StdRelease
  <1>12. ASSUME NEW t \in Tasks, ReadOk(t) PROVE PriceInv'
    BY <1>12 DEF ReadOk
  <1>13. ASSUME NEW t \in Tasks, ReadFailed(t) PROVE PriceInv'
    BY <1>13 DEF ReadFailed
  <1>14. ASSUME NEW t \in Tasks, Reparse(t) PROVE PriceInv'
    BY <1>14 DEF Reparse
  <1>15. ASSUME NEW t \in Tasks, Publish(t) PROVE PriceInv'
    BY <1>15 DEF Publish
  <1>16. ASSUME NEW t \in Tasks, Release(t) PROVE PriceInv'
    BY <1>16 DEF Release
  <1>17. ASSUME NEW f \in Fetchers, NEW p \in Pools, QuoteCold(f, p) PROVE PriceInv'
    BY <1>17 DEF QuoteCold
  <1>18. ASSUME NEW f \in Fetchers, NEW p \in Pools, QuoteUnmirrored(f, p) PROVE PriceInv'
    BY <1>18 DEF QuoteUnmirrored
  <1>19. ASSUME NEW f \in Fetchers, NEW p \in Pools, QuoteRevalidates(f, p) PROVE PriceInv'
    BY <1>19 DEF QuoteRevalidates
  <1>20. ASSUME NEW f \in Fetchers, NEW p \in Pools, SwapLoads(f, p) PROVE PriceInv'
    BY <1>20 DEF SwapLoads
  <1>21. ASSUME NEW f \in Fetchers, NEW p \in Pools, RetriesDormant(f, p) PROVE PriceInv'
    BY <1>21 DEF RetriesDormant
  <1>22. ASSUME NEW f \in Fetchers, NEW p \in Pools, Discovers(f, p) PROVE PriceInv'
    BY <1>22 DEF Discovers
  <1>23. ASSUME NEW f \in Fetchers, FetchOk(f) PROVE PriceInv'
    BY <1>23 DEF FetchOk
  <1>24. ASSUME NEW f \in Fetchers, FetchFailed(f) PROVE PriceInv'
    BY <1>24 DEF FetchFailed
  <1>25. ASSUME NEW f \in Fetchers, Register(f) PROVE PriceInv'
    BY <1>25 DEF Register
  <1>26. ASSUME NEW f \in Fetchers, Insert(f) PROVE PriceInv'
    <2>1. CASE fetch' = [fetch EXCEPT ![f] = Idle]
      BY <1>26, <2>1 DEF Insert
    <2>2. ASSUME NEW at \in {"price", "clear"}, at = "price" => fetch[f].job = "cold",
                 fetch' = [fetch EXCEPT ![f].at = at]
          PROVE  PriceInv'
      BY <1>26, <2>2, ActiveFetch DEF Insert
    <2>3. QED
      BY <1>26, <2>1, <2>2 DEF Insert
  <1>27. ASSUME NEW f \in Fetchers, ColdPriced(f) PROVE PriceInv'
    BY <1>27 DEF ColdPriced
  <1>28. ASSUME NEW f \in Fetchers, ColdUnpriced(f) PROVE PriceInv'
    BY <1>28 DEF ColdUnpriced
  <1>29. ASSUME NEW f \in Fetchers, ClearAfterInsert(f) PROVE PriceInv'
    BY <1>29 DEF ClearAfterInsert
  <1>30. CASE UNCHANGED vars
    BY <1>30 DEF vars
  <1>31. QED
    BY <1>1, <1>2, <1>3, <1>4, <1>5, <1>6, <1>7, <1>8, <1>9, <1>10,
       <1>11, <1>12, <1>13, <1>14, <1>15, <1>16, <1>17, <1>18, <1>19,
       <1>20, <1>21, <1>22, <1>23, <1>24, <1>25, <1>26, <1>27, <1>28,
       <1>29, <1>30
    DEF Next, TaskStep, FetchBegins, FetchStep

-----------------------------------------------------------------------------
\* The task that takes a mark off is not the one another mark is owned by.
LEMMA MarksStep == TypeOK /\ MarksOwned /\ [Next]_vars => MarksOwned'
  <1> SUFFICES ASSUME TypeOK, MarksOwned, [Next]_vars PROVE MarksOwned'
    OBVIOUS
  <1> USE DEF TypeOK, MarksOwned, Holding, Steps, Goto, Finish, taskVars, Refreshable
  <1>1. ASSUME NEW p \in Pools, Trade(p) PROVE MarksOwned'
    BY <1>1 DEF Trade
  <1>2. ASSUME NEW p \in Pools, PruneRegistry(p) PROVE MarksOwned'
    BY <1>2 DEF PruneRegistry
  <1>3. ASSUME PruneCache PROVE MarksOwned'
    BY <1>3 DEF PruneCache
  <1>4. ASSUME NEW t \in Tasks, NEW touched \in SUBSET Pools, BlockTouches(t, touched) PROVE MarksOwned'
    BY <1>4 DEF BlockTouches
  <1>5. ASSUME NEW t \in Tasks, RefreshFilter(t) PROVE MarksOwned'
    BY <1>5 DEF RefreshFilter
  <1>6. ASSUME NEW t \in Tasks, RefreshClaim(t) PROVE MarksOwned'
    BY <1>6 DEF RefreshClaim
  <1>7. ASSUME NEW t \in Tasks, StdPlan(t) PROVE MarksOwned'
    BY <1>7 DEF StdPlan
  <1>8. ASSUME NEW t \in Tasks, StdReadOk(t) PROVE MarksOwned'
    BY <1>8 DEF StdReadOk
  <1>9. ASSUME NEW t \in Tasks, StdReadFailed(t) PROVE MarksOwned'
    BY <1>9 DEF StdReadFailed
  <1>10. ASSUME NEW t \in Tasks, StdInsert(t) PROVE MarksOwned'
    BY <1>10 DEF StdInsert
  <1>11. ASSUME NEW t \in Tasks, StdRelease(t) PROVE MarksOwned'
    BY <1>11 DEF StdRelease
  <1>12. ASSUME NEW t \in Tasks, ReadOk(t) PROVE MarksOwned'
    BY <1>12 DEF ReadOk
  <1>13. ASSUME NEW t \in Tasks, ReadFailed(t) PROVE MarksOwned'
    BY <1>13 DEF ReadFailed
  <1>14. ASSUME NEW t \in Tasks, Reparse(t) PROVE MarksOwned'
    BY <1>14 DEF Reparse
  <1>15. ASSUME NEW t \in Tasks, Publish(t) PROVE MarksOwned'
    BY <1>15 DEF Publish
  <1>16. ASSUME NEW t \in Tasks, Release(t) PROVE MarksOwned'
    BY <1>16 DEF Release
  <1>17. ASSUME NEW f \in Fetchers, NEW p \in Pools, QuoteCold(f, p) PROVE MarksOwned'
    BY <1>17 DEF QuoteCold
  <1>18. ASSUME NEW f \in Fetchers, NEW p \in Pools, QuoteUnmirrored(f, p) PROVE MarksOwned'
    BY <1>18 DEF QuoteUnmirrored
  <1>19. ASSUME NEW f \in Fetchers, NEW p \in Pools, QuoteRevalidates(f, p) PROVE MarksOwned'
    BY <1>19 DEF QuoteRevalidates
  <1>20. ASSUME NEW f \in Fetchers, NEW p \in Pools, SwapLoads(f, p) PROVE MarksOwned'
    BY <1>20 DEF SwapLoads
  <1>21. ASSUME NEW f \in Fetchers, NEW p \in Pools, RetriesDormant(f, p) PROVE MarksOwned'
    BY <1>21 DEF RetriesDormant
  <1>22. ASSUME NEW f \in Fetchers, NEW p \in Pools, Discovers(f, p) PROVE MarksOwned'
    BY <1>22 DEF Discovers
  <1>23. ASSUME NEW f \in Fetchers, FetchOk(f) PROVE MarksOwned'
    BY <1>23 DEF FetchOk
  <1>24. ASSUME NEW f \in Fetchers, FetchFailed(f) PROVE MarksOwned'
    BY <1>24 DEF FetchFailed
  <1>25. ASSUME NEW f \in Fetchers, Register(f) PROVE MarksOwned'
    BY <1>25 DEF Register
  <1>26. ASSUME NEW f \in Fetchers, Insert(f) PROVE MarksOwned'
    BY <1>26 DEF Insert
  <1>27. ASSUME NEW f \in Fetchers, ColdPriced(f) PROVE MarksOwned'
    BY <1>27 DEF ColdPriced
  <1>28. ASSUME NEW f \in Fetchers, ColdUnpriced(f) PROVE MarksOwned'
    BY <1>28 DEF ColdUnpriced
  <1>29. ASSUME NEW f \in Fetchers, ClearAfterInsert(f) PROVE MarksOwned'
    BY <1>29 DEF ClearAfterInsert
  <1>30. CASE UNCHANGED vars
    BY <1>30 DEF vars
  <1>31. QED
    BY <1>1, <1>2, <1>3, <1>4, <1>5, <1>6, <1>7, <1>8, <1>9, <1>10,
       <1>11, <1>12, <1>13, <1>14, <1>15, <1>16, <1>17, <1>18, <1>19,
       <1>20, <1>21, <1>22, <1>23, <1>24, <1>25, <1>26, <1>27, <1>28,
       <1>29, <1>30
    DEF Next, TaskStep, FetchBegins, FetchStep

-----------------------------------------------------------------------------
\* The mark goes in with the task and comes off with it.
LEMMA RevalidationsStep == TypeOK /\ PriceInv /\ RevalidationsOwned /\ [Next]_vars => RevalidationsOwned'
  <1> SUFFICES ASSUME TypeOK, PriceInv, RevalidationsOwned, [Next]_vars PROVE RevalidationsOwned'
    OBVIOUS
  <1> USE DEF TypeOK, PriceInv, RevalidationsOwned, Idle, Jobs, Begin, End, taskVars
  <1>1. ASSUME NEW p \in Pools, Trade(p) PROVE RevalidationsOwned'
    BY <1>1 DEF Trade
  <1>2. ASSUME NEW p \in Pools, PruneRegistry(p) PROVE RevalidationsOwned'
    BY <1>2 DEF PruneRegistry
  <1>3. ASSUME PruneCache PROVE RevalidationsOwned'
    BY <1>3 DEF PruneCache
  <1>4. ASSUME NEW t \in Tasks, NEW touched \in SUBSET Pools, BlockTouches(t, touched) PROVE RevalidationsOwned'
    BY <1>4 DEF BlockTouches
  <1>5. ASSUME NEW t \in Tasks, RefreshFilter(t) PROVE RevalidationsOwned'
    BY <1>5 DEF RefreshFilter
  <1>6. ASSUME NEW t \in Tasks, RefreshClaim(t) PROVE RevalidationsOwned'
    BY <1>6 DEF RefreshClaim
  <1>7. ASSUME NEW t \in Tasks, StdPlan(t) PROVE RevalidationsOwned'
    BY <1>7 DEF StdPlan
  <1>8. ASSUME NEW t \in Tasks, StdReadOk(t) PROVE RevalidationsOwned'
    BY <1>8 DEF StdReadOk
  <1>9. ASSUME NEW t \in Tasks, StdReadFailed(t) PROVE RevalidationsOwned'
    BY <1>9 DEF StdReadFailed
  <1>10. ASSUME NEW t \in Tasks, StdInsert(t) PROVE RevalidationsOwned'
    BY <1>10 DEF StdInsert
  <1>11. ASSUME NEW t \in Tasks, StdRelease(t) PROVE RevalidationsOwned'
    BY <1>11 DEF StdRelease
  <1>12. ASSUME NEW t \in Tasks, ReadOk(t) PROVE RevalidationsOwned'
    BY <1>12 DEF ReadOk
  <1>13. ASSUME NEW t \in Tasks, ReadFailed(t) PROVE RevalidationsOwned'
    BY <1>13 DEF ReadFailed
  <1>14. ASSUME NEW t \in Tasks, Reparse(t) PROVE RevalidationsOwned'
    BY <1>14 DEF Reparse
  <1>15. ASSUME NEW t \in Tasks, Publish(t) PROVE RevalidationsOwned'
    BY <1>15 DEF Publish
  <1>16. ASSUME NEW t \in Tasks, Release(t) PROVE RevalidationsOwned'
    BY <1>16 DEF Release
  <1>17. ASSUME NEW f \in Fetchers, NEW p \in Pools, QuoteCold(f, p) PROVE RevalidationsOwned'
    BY <1>17 DEF QuoteCold
  <1>18. ASSUME NEW f \in Fetchers, NEW p \in Pools, QuoteUnmirrored(f, p) PROVE RevalidationsOwned'
    BY <1>18 DEF QuoteUnmirrored
  <1>19. ASSUME NEW f \in Fetchers, NEW p \in Pools, QuoteRevalidates(f, p) PROVE RevalidationsOwned'
    BY <1>19 DEF QuoteRevalidates
  <1>20. ASSUME NEW f \in Fetchers, NEW p \in Pools, SwapLoads(f, p) PROVE RevalidationsOwned'
    BY <1>20 DEF SwapLoads
  <1>21. ASSUME NEW f \in Fetchers, NEW p \in Pools, RetriesDormant(f, p) PROVE RevalidationsOwned'
    BY <1>21 DEF RetriesDormant
  <1>22. ASSUME NEW f \in Fetchers, NEW p \in Pools, Discovers(f, p) PROVE RevalidationsOwned'
    BY <1>22 DEF Discovers
  <1>23. ASSUME NEW f \in Fetchers, FetchOk(f) PROVE RevalidationsOwned'
    BY <1>23 DEF FetchOk
  <1>24. ASSUME NEW f \in Fetchers, FetchFailed(f) PROVE RevalidationsOwned'
    BY <1>24 DEF FetchFailed
  <1>25. ASSUME NEW f \in Fetchers, Register(f) PROVE RevalidationsOwned'
    BY <1>25 DEF Register
  <1>26. ASSUME NEW f \in Fetchers, Insert(f) PROVE RevalidationsOwned'
    <2>1. CASE fetch' = [fetch EXCEPT ![f] = Idle]
      BY <1>26, <2>1 DEF Insert
    <2>2. ASSUME NEW at \in {"price", "clear"}, at = "price" => fetch[f].job = "cold",
                 fetch' = [fetch EXCEPT ![f].at = at]
          PROVE  RevalidationsOwned'
      BY <1>26, <2>2, ActiveFetch DEF Insert
    <2>3. QED
      BY <1>26, <2>1, <2>2 DEF Insert
  <1>27. ASSUME NEW f \in Fetchers, ColdPriced(f) PROVE RevalidationsOwned'
    BY <1>27 DEF ColdPriced
  <1>28. ASSUME NEW f \in Fetchers, ColdUnpriced(f) PROVE RevalidationsOwned'
    BY <1>28 DEF ColdUnpriced
  <1>29. ASSUME NEW f \in Fetchers, ClearAfterInsert(f) PROVE RevalidationsOwned'
    BY <1>29 DEF ClearAfterInsert
  <1>30. CASE UNCHANGED vars
    BY <1>30 DEF vars
  <1>31. QED
    BY <1>1, <1>2, <1>3, <1>4, <1>5, <1>6, <1>7, <1>8, <1>9, <1>10,
       <1>11, <1>12, <1>13, <1>14, <1>15, <1>16, <1>17, <1>18, <1>19,
       <1>20, <1>21, <1>22, <1>23, <1>24, <1>25, <1>26, <1>27, <1>28,
       <1>29, <1>30
    DEF Next, TaskStep, FetchBegins, FetchStep

-----------------------------------------------------------------------------
\* Fee rates pass from a full fetch to every re-parse.
LEMMA FeesStep == TypeOK /\ WorkInv /\ FeesInv /\ [Next]_vars => FeesInv'
  <1> SUFFICES ASSUME TypeOK, WorkInv, FeesInv, [Next]_vars PROVE FeesInv'
    OBVIOUS
  <1> USE NoWorkType, PoolsAssumption, NoStateAssumption
      DEF TypeOK, WorkInv, FeesInv, BatchInv, FeesKnown, IsCached, States, Steps, Goto, Finish, taskVars, Refreshable
  <1>1. ASSUME NEW p \in Pools, Trade(p) PROVE FeesInv'
    BY <1>1 DEF Trade
  <1>2. ASSUME NEW p \in Pools, PruneRegistry(p) PROVE FeesInv'
    BY <1>2 DEF PruneRegistry
  <1>3. ASSUME PruneCache PROVE FeesInv'
    BY <1>3 DEF PruneCache
  <1>4. ASSUME NEW t \in Tasks, NEW touched \in SUBSET Pools, BlockTouches(t, touched) PROVE FeesInv'
    BY <1>4 DEF BlockTouches
  <1>5. ASSUME NEW t \in Tasks, RefreshFilter(t) PROVE FeesInv'
    <2>1. PICK kept \in SUBSET Refreshable(t) :
             IF kept = {} THEN Finish(t)
             ELSE Goto(t, "claim") /\ batch' = [batch EXCEPT ![t] = kept] /\ UNCHANGED work
      BY <1>5 DEF RefreshFilter
    <2>2. /\ step[t] = "filter"
          /\ UNCHANGED <<chain, registry, cached, failures, in_flight, revalidating, fetch, pruning, pruned>>
      BY <1>5 DEF RefreshFilter
    <2>3. kept \in SUBSET Pools /\ kept \subseteq batch[t] /\ \A p \in kept : cached[p] # NoState
      BY <2>1
    <2>4. CASE Finish(t)
      BY <2>2, <2>4
    <2>5. CASE Goto(t, "claim") /\ batch' = [batch EXCEPT ![t] = kept] /\ UNCHANGED work
      BY <2>2, <2>3, <2>5
    <2>6. QED
      BY <2>1, <2>4, <2>5
  <1>6. ASSUME NEW t \in Tasks, RefreshClaim(t) PROVE FeesInv'
    BY <1>6 DEF RefreshClaim
  <1>7. ASSUME NEW t \in Tasks, StdPlan(t) PROVE FeesInv'
    BY <1>7 DEF StdPlan
  <1>8. ASSUME NEW t \in Tasks, StdReadOk(t) PROVE FeesInv'
    BY <1>8 DEF StdReadOk
  <1>9. ASSUME NEW t \in Tasks, StdReadFailed(t) PROVE FeesInv'
    BY <1>9 DEF StdReadFailed
  <1>10. ASSUME NEW t \in Tasks, StdInsert(t) PROVE FeesInv'
    BY <1>10 DEF StdInsert
  <1>11. ASSUME NEW t \in Tasks, StdRelease(t) PROVE FeesInv'
    <2>1. /\ step[t] = "std_release"
          /\ in_flight' \subseteq in_flight
          /\ UNCHANGED <<chain, registry, cached, failures, revalidating, fetch, pruning, pruned>>
      BY <1>11 DEF StdRelease
    <2>2. CASE Finish(t)
      BY <2>1, <2>2
    <2>3. CASE /\ Goto(t, "read")
               /\ batch' = [batch EXCEPT ![t] = @ \ MeteoraStd]
               /\ work' = [work EXCEPT ![t] = NoWork]
      BY <2>1, <2>3
    <2>4. QED
      BY <1>11, <2>2, <2>3 DEF StdRelease
  <1>12. ASSUME NEW t \in Tasks, ReadOk(t) PROVE FeesInv'
    BY <1>12 DEF ReadOk
  <1>13. ASSUME NEW t \in Tasks, ReadFailed(t) PROVE FeesInv'
    BY <1>13 DEF ReadFailed
  <1>14. ASSUME NEW t \in Tasks, Reparse(t) PROVE FeesInv'
    BY <1>14 DEF Reparse
  <1>15. ASSUME NEW t \in Tasks, Publish(t) PROVE FeesInv'
    BY <1>15 DEF Publish
  <1>16. ASSUME NEW t \in Tasks, Release(t) PROVE FeesInv'
    BY <1>16 DEF Release
  <1>17. ASSUME NEW f \in Fetchers, NEW p \in Pools, QuoteCold(f, p) PROVE FeesInv'
    BY <1>17 DEF QuoteCold
  <1>18. ASSUME NEW f \in Fetchers, NEW p \in Pools, QuoteUnmirrored(f, p) PROVE FeesInv'
    BY <1>18 DEF QuoteUnmirrored
  <1>19. ASSUME NEW f \in Fetchers, NEW p \in Pools, QuoteRevalidates(f, p) PROVE FeesInv'
    BY <1>19 DEF QuoteRevalidates
  <1>20. ASSUME NEW f \in Fetchers, NEW p \in Pools, SwapLoads(f, p) PROVE FeesInv'
    BY <1>20 DEF SwapLoads
  <1>21. ASSUME NEW f \in Fetchers, NEW p \in Pools, RetriesDormant(f, p) PROVE FeesInv'
    BY <1>21 DEF RetriesDormant
  <1>22. ASSUME NEW f \in Fetchers, NEW p \in Pools, Discovers(f, p) PROVE FeesInv'
    BY <1>22 DEF Discovers
  <1>23. ASSUME NEW f \in Fetchers, FetchOk(f) PROVE FeesInv'
    BY <1>23 DEF FetchOk
  <1>24. ASSUME NEW f \in Fetchers, FetchFailed(f) PROVE FeesInv'
    BY <1>24 DEF FetchFailed
  <1>25. ASSUME NEW f \in Fetchers, Register(f) PROVE FeesInv'
    BY <1>25 DEF Register
  <1>26. ASSUME NEW f \in Fetchers, Insert(f) PROVE FeesInv'
    <2>1. fetch[f].pool \in Pools /\ fetch[f].version \in 0..MaxVersion
      BY <1>26, ActiveFetch DEF Insert
    <2>2. [version |-> fetch[f].version, fees |-> TRUE] \in States
      BY <2>1 DEF States
    <2>3. \A p \in Pools : \/ cached'[p] = cached[p]
                         \/ cached'[p] = [version |-> fetch[f].version, fees |-> TRUE]
      BY <1>26 DEF Insert
    <2>4. UNCHANGED <<taskVars, pruned>>
      BY <1>26 DEF Insert
    <2>5. \A p \in Pools : (cached[p] # NoState => cached'[p] # NoState) /\ (cached'[p] = cached[p] \/ cached'[p].fees)
      BY <2>2, <2>3, NoStateAssumption
    <2>6. QED
      BY <2>4, <2>5
  <1>27. ASSUME NEW f \in Fetchers, ColdPriced(f) PROVE FeesInv'
    BY <1>27 DEF ColdPriced
  <1>28. ASSUME NEW f \in Fetchers, ColdUnpriced(f) PROVE FeesInv'
    BY <1>28 DEF ColdUnpriced
  <1>29. ASSUME NEW f \in Fetchers, ClearAfterInsert(f) PROVE FeesInv'
    BY <1>29 DEF ClearAfterInsert
  <1>30. CASE UNCHANGED vars
    BY <1>30 DEF vars
  <1>31. QED
    BY <1>1, <1>2, <1>3, <1>4, <1>5, <1>6, <1>7, <1>8, <1>9, <1>10,
       <1>11, <1>12, <1>13, <1>14, <1>15, <1>16, <1>17, <1>18, <1>19,
       <1>20, <1>21, <1>22, <1>23, <1>24, <1>25, <1>26, <1>27, <1>28,
       <1>29, <1>30
    DEF Next, TaskStep, FetchBegins, FetchStep

-----------------------------------------------------------------------------
\* Nothing is cached and no task is at work in the first state.
LEMMA InitRefreshInv == Init => RefreshInv
  BY NoWorkType, PoolsAssumption, CapAssumption, NoStateAssumption
  DEF Init, RefreshInv, TypeOK, WorkInv, PriceInv, MarksOwned, RevalidationsOwned, FeesInv, BatchInv, FeesKnown,
      States, Steps, Idle, IsCached

\* The invariant holds in every state of every behaviour.
THEOREM RefreshInvariant == Spec => []RefreshInv
  <1>1. RefreshInv /\ [Next]_vars => RefreshInv'
    BY TypeStep, PriceStep, MarksStep, RevalidationsStep, FeesStep DEF RefreshInv
  <1>2. QED
    BY InitRefreshInv, <1>1, PTL DEF Spec

\* A block task carries states of its own batch only, and everything has its type.
THEOREM TypeCorrect == Spec => []TypeOK
  <1>1. RefreshInv => TypeOK
    BY DEF RefreshInv
  <1>2. QED
    BY RefreshInvariant, <1>1, PTL

\* refresh_touched leaves no in-flight mark behind, whatever is capped, fails or
\* overlaps.
THEOREM MarksAreOwned == Spec => []MarksOwned
  <1>1. RefreshInv => MarksOwned
    BY DEF RefreshInv
  <1>2. QED
    BY RefreshInvariant, <1>1, PTL

\* revalidate_in_background runs at most once per pool and leaves no mark behind.
THEOREM RevalidationsAreOwned == Spec => []RevalidationsOwned
  <1>1. RefreshInv => RevalidationsOwned
    BY DEF RefreshInv
  <1>2. QED
    BY RefreshInvariant, <1>1, PTL

\* A state with default fees enters the cache only through a prune that overtakes
\* a block task.
THEOREM FeesAreKnown == Spec => []FeesKnown
  <1>1. RefreshInv => FeesKnown
    BY DEF RefreshInv, FeesInv
  <1>2. QED
    BY RefreshInvariant, <1>1, PTL
=============================================================================

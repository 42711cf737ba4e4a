------------------------ MODULE GeyserSessionProofs ------------------------
(***************************************************************************)
(* Proofs about the Geyser session, for any number of pools of any kind    *)
(* and any number of concurrent fetches.                                   *)
(***************************************************************************)
EXTENDS GeyserSession, TLAPS

\* What the stream task read when a message came in still holds of the pool it
\* has in its hands, or the prune task has overtaken it; the same for the quoter.
HandsInv ==
    /\ stream.at # "idle" =>
          IF stream.known
          THEN registry[stream.pool] # "none" \/ stream.pool \in overtaken
          ELSE registry[stream.pool] = "none"
    /\ \A f \in Fetchers : fetch[f].at # "idle" =>
          registry[fetch[f].pool] # "none" \/ fetch[f].pool \in overtaken

\* Of the pools that the prune task has yet to unregister, it has deleted the rows only.
PruneInv == \A p \in pruning.listed : db[p] = "none" /\ registry[p] # "none"

\* The inductive invariant.
SessionInv ==
    TypeOK /\ HandsInv /\ PruneInv /\ TableAgrees /\ CachedIsRegistered /\ NoQueuedVaultLost

-----------------------------------------------------------------------------
\* What a task at work holds.
LEMMA BusyStream ==
  ASSUME TypeOK, stream.at # "idle"
  PROVE  stream \in [at : {"fetch", "companions", "store"}, pool : Pools, known : BOOLEAN, version : Versions]
  BY DEF TypeOK, Waiting

\* A fetcher at work holds a pool and the version its read answered.
LEMMA BusyFetch ==
  ASSUME TypeOK, NEW f \in Fetchers, fetch[f].at # "idle"
  PROVE  fetch[f] \in [at : {"call", "insert", "reserves", "load", "keep"}, pool : Pools, version : Versions]
  BY DEF TypeOK, NoFetch

\* Messages carry versions of the chain, and only bonding curves have no vaults.
LEMMA TypeStep == TypeOK /\ [Next]_vars => TypeOK'
  <1> SUFFICES ASSUME TypeOK, [Next]_vars PROVE TypeOK'
    OBVIOUS
  <1> USE PoolsAssumption, KindsAssumption, VersionAssumption
      DEF chainVars, poolVars, mirrorVars, queueVars, ghostVars, TypeOK, Listed, Versions, Waiting, Sleeping, NoFetch, NotPruning, Prunes, Curves, Async, OwnVaults, IsCached
  <1>1. ASSUME NEW p \in Pools, Trade(p) PROVE TypeOK'
    BY <1>1 DEF Trade
  <1>2. ASSUME NEW p \in Pools, BlockDiscovers(p) PROVE TypeOK'
    BY <1>2 DEF BlockDiscovers, BlockVaults, insert_pool
  <1>3. ASSUME NEW p \in Pools, BlockOfKnown(p) PROVE TypeOK'
    BY <1>3 DEF BlockOfKnown, BlockVaults
  <1>4. ASSUME NEW p \in Pools, NEW v \in 1..MaxVersion, CompanionUpdate(p, v) PROVE TypeOK'
    BY <1>4 DEF CompanionUpdate, Delivered
  <1>5. ASSUME NEW p \in Pools, NEW v \in 1..MaxVersion, PoolUpdate(p, v) PROVE TypeOK'
    BY <1>5 DEF PoolUpdate, Delivered
  <1>6. ASSUME NEW p \in Pools, NEW v \in 1..MaxVersion, CurveUpdate(p, v) PROVE TypeOK'
    BY <1>6 DEF CurveUpdate, Delivered
  <1>7. ASSUME NEW p \in Pools, NEW v \in 1..MaxVersion, UpdateDebounced(p, v) PROVE TypeOK'
    BY <1>7 DEF UpdateDebounced, Delivered
  <1>8. ASSUME FallbackOk PROVE TypeOK'
    BY <1>8, BusyStream DEF FallbackOk
  <1>9. ASSUME FallbackFailed PROVE TypeOK'
    BY <1>9 DEF FallbackFailed
  <1>10. ASSUME FallbackCompanions PROVE TypeOK'
    BY <1>10, BusyStream DEF FallbackCompanions
  <1>11. ASSUME Store PROVE TypeOK'
    BY <1>11, BusyStream DEF Store, register_pool_vaults, insert_pool
  <1>12. ASSUME FlushTick PROVE TypeOK'
    BY <1>12 DEF FlushTick
  <1>13. ASSUME FlushVaults PROVE TypeOK'
    BY <1>13 DEF FlushVaults
  <1>14. ASSUME FlushPools PROVE TypeOK'
    BY <1>14 DEF FlushPools
  <1>15. ASSUME FlushCompanions PROVE TypeOK'
    BY <1>15 DEF FlushCompanions
  <1>16. ASSUME FlushSend PROVE TypeOK'
    BY <1>16 DEF FlushSend, known_companions
  <1>17. ASSUME FlushSendFails PROVE TypeOK'
    BY <1>17 DEF FlushSendFails
  <1>18. ASSUME Reconnect PROVE TypeOK'
    BY <1>18 DEF Reconnect
  <1>19. ASSUME NEW f \in Fetchers, NEW p \in Pools, ColdStart(f, p) PROVE TypeOK'
    BY <1>19 DEF ColdStart
  <1>20. ASSUME NEW f \in Fetchers, NEW p \in Pools, SwapLoads(f, p) PROVE TypeOK'
    BY <1>20 DEF SwapLoads
  <1>21. ASSUME NEW f \in Fetchers, ColdRead(f) PROVE TypeOK'
    BY <1>21, BusyFetch DEF ColdRead
  <1>22. ASSUME NEW f \in Fetchers, ColdInsert(f) PROVE TypeOK'
    BY <1>22, BusyFetch DEF ColdInsert
  <1>23. ASSUME NEW f \in Fetchers, ColdReserves(f) PROVE TypeOK'
    BY <1>23, BusyFetch DEF ColdReserves
  <1>24. ASSUME NEW f \in Fetchers, ColdEnds(f) PROVE TypeOK'
    BY <1>24, BusyFetch DEF ColdEnds
  <1>25. ASSUME PruneDb PROVE TypeOK'
    BY <1>25 DEF PruneDb, Prunes
  <1>26. ASSUME PruneRegistry PROVE TypeOK'
    BY <1>26 DEF PruneRegistry
  <1>27. ASSUME PruneCache PROVE TypeOK'
    BY <1>27 DEF PruneCache, Prunes
  <1>28. ASSUME Restart PROVE TypeOK'
    BY <1>28 DEF Restart
  <1>29. CASE UNCHANGED vars
    BY <1>29 DEF vars
  <1>30. QED
    BY <1>1, <1>2, <1>3, <1>4, <1>5, <1>6, <1>7, <1>8, <1>9, <1>10,
       <1>11, <1>12, <1>13, <1>14, <1>15, <1>16, <1>17, <1>18, <1>19, <1>20,
       <1>21, <1>22, <1>23, <1>24, <1>25, <1>26, <1>27, <1>28, <1>29
    DEF Next, SteadyNext, AccountUpdate, StreamStep, FlushStep, FetchStep

\* Only the stream task registers pools, and it has one in its hands at a time.
LEMMA HandsStep == TypeOK /\ HandsInv /\ [Next]_vars => HandsInv'
  <1> SUFFICES ASSUME TypeOK, HandsInv, [Next]_vars PROVE HandsInv'
    OBVIOUS
  <1> USE PoolsAssumption, KindsAssumption, VersionAssumption
      DEF chainVars, poolVars, mirrorVars, queueVars, ghostVars, HandsInv, TypeOK, Waiting, NoFetch, Listed
  <1>1. ASSUME NEW p \in Pools, Trade(p) PROVE HandsInv'
    BY <1>1 DEF Trade
  <1>2. ASSUME NEW p \in Pools, BlockDiscovers(p) PROVE HandsInv'
    BY <1>2 DEF BlockDiscovers, BlockVaults, insert_pool
  <1>3. ASSUME NEW p \in Pools, BlockOfKnown(p) PROVE HandsInv'
    BY <1>3 DEF BlockOfKnown, BlockVaults
  <1>4. ASSUME NEW p \in Pools, NEW v \in 1..MaxVersion, CompanionUpdate(p, v) PROVE HandsInv'
    BY <1>4 DEF CompanionUpdate, Delivered
  <1>5. ASSUME NEW p \in Pools, NEW v \in 1..MaxVersion, PoolUpdate(p, v) PROVE HandsInv'
    BY <1>5 DEF PoolUpdate, Delivered
  <1>6. ASSUME NEW p \in Pools, NEW v \in 1..MaxVersion, CurveUpdate(p, v) PROVE HandsInv'
    BY <1>6 DEF CurveUpdate, Delivered
  <1>7. ASSUME NEW p \in Pools, NEW v \in 1..MaxVersion, UpdateDebounced(p, v) PROVE HandsInv'
    BY <1>7 DEF UpdateDebounced, Delivered
  <1>8. ASSUME FallbackOk PROVE HandsInv'
    BY <1>8, BusyStream DEF FallbackOk
  <1>9. ASSUME FallbackFailed PROVE HandsInv'
    BY <1>9 DEF FallbackFailed
  <1>10. ASSUME FallbackCompanions PROVE HandsInv'
    BY <1>10, BusyStream DEF FallbackCompanions
  <1>11. ASSUME Store PROVE HandsInv'
    BY <1>11, BusyStream DEF Store, register_pool_vaults, insert_pool
  <1>12. ASSUME FlushTick PROVE HandsInv'
    BY <1>12 DEF FlushTick
  <1>13. ASSUME FlushVaults PROVE HandsInv'
    BY <1>13 DEF FlushVaults
  <1>14. ASSUME FlushPools PROVE HandsInv'
    BY <1>14 DEF FlushPools
  <1>15. ASSUME FlushCompanions PROVE HandsInv'
    BY <1>15 DEF FlushCompanions
  <1>16. ASSUME FlushSend PROVE HandsInv'
    BY <1>16 DEF FlushSend, known_companions
  <1>17. ASSUME FlushSendFails PROVE HandsInv'
    BY <1>17 DEF FlushSendFails
  <1>18. ASSUME Reconnect PROVE HandsInv'
    BY <1>18 DEF Reconnect
  <1>19. ASSUME NEW f \in Fetchers, NEW p \in Pools, ColdStart(f, p) PROVE HandsInv'
    BY <1>19 DEF ColdStart
  <1>20. ASSUME NEW f \in Fetchers, NEW p \in Pools, SwapLoads(f, p) PROVE HandsInv'
    BY <1>20 DEF SwapLoads
  <1>21. ASSUME NEW f \in Fetchers, ColdRead(f) PROVE HandsInv'
    BY <1>21, BusyFetch DEF ColdRead
  <1>22. ASSUME NEW f \in Fetchers, ColdInsert(f) PROVE HandsInv'
    BY <1>22, BusyFetch DEF ColdInsert
  <1>23. ASSUME NEW f \in Fetchers, ColdReserves(f) PROVE HandsInv'
    BY <1>23, BusyFetch DEF ColdReserves
  <1>24. ASSUME NEW f \in Fetchers, ColdEnds(f) PROVE HandsInv'
    BY <1>24, BusyFetch DEF ColdEnds
  <1>25. ASSUME PruneDb PROVE HandsInv'
    BY <1>25 DEF PruneDb, Prunes
  <1>26. ASSUME PruneRegistry PROVE HandsInv'
    BY <1>26 DEF PruneRegistry
  <1>27. ASSUME PruneCache PROVE HandsInv'
    BY <1>27 DEF PruneCache, Prunes
  <1>28. ASSUME Restart PROVE HandsInv'
    BY <1>28 DEF Restart
  <1>29. CASE UNCHANGED vars
    BY <1>29 DEF vars
  <1>30. QED
    BY <1>1, <1>2, <1>3, <1>4, <1>5, <1>6, <1>7, <1>8, <1>9, <1>10,
       <1>11, <1>12, <1>13, <1>14, <1>15, <1>16, <1>17, <1>18, <1>19, <1>20,
       <1>21, <1>22, <1>23, <1>24, <1>25, <1>26, <1>27, <1>28, <1>29
    DEF Next, SteadyNext, AccountUpdate, StreamStep, FlushStep, FetchStep

\* A row is written with the entry, or not at all, and goes before it.
LEMMA TableStep == TypeOK /\ HandsInv /\ PruneInv /\ TableAgrees /\ [Next]_vars => (PruneInv' /\ TableAgrees')
  <1> SUFFICES ASSUME TypeOK, HandsInv, PruneInv, TableAgrees, [Next]_vars PROVE (PruneInv' /\ TableAgrees')
    OBVIOUS
  <1> USE PoolsAssumption, KindsAssumption, VersionAssumption
      DEF chainVars, poolVars, mirrorVars, queueVars, ghostVars, HandsInv, TypeOK, PruneInv, TableAgrees, Waiting, NotPruning, Prunes, Listed
  <1>1. ASSUME NEW p \in Pools, Trade(p) PROVE (PruneInv' /\ TableAgrees')
    BY <1>1 DEF Trade
  <1>2. ASSUME NEW p \in Pools, BlockDiscovers(p) PROVE (PruneInv' /\ TableAgrees')
    BY <1>2 DEF BlockDiscovers, BlockVaults, insert_pool
  <1>3. ASSUME NEW p \in Pools, BlockOfKnown(p) PROVE (PruneInv' /\ TableAgrees')
    BY <1>3 DEF BlockOfKnown, BlockVaults
  <1>4. ASSUME NEW p \in Pools, NEW v \in 1..MaxVersion, CompanionUpdate(p, v) PROVE (PruneInv' /\ TableAgrees')
    BY <1>4 DEF CompanionUpdate, Delivered
  <1>5. ASSUME NEW p \in Pools, NEW v \in 1..MaxVersion, PoolUpdate(p, v) PROVE (PruneInv' /\ TableAgrees')
    BY <1>5 DEF PoolUpdate, Delivered
  <1>6. ASSUME NEW p \in Pools, NEW v \in 1..MaxVersion, CurveUpdate(p, v) PROVE (PruneInv' /\ TableAgrees')
    BY <1>6 DEF CurveUpdate, Delivered
  <1>7. ASSUME NEW p \in Pools, NEW v \in 1..MaxVersion, UpdateDebounced(p, v) PROVE (PruneInv' /\ TableAgrees')
    BY <1>7 DEF UpdateDebounced, Delivered
  <1>8. ASSUME FallbackOk PROVE (PruneInv' /\ TableAgrees')
    BY <1>8, BusyStream DEF FallbackOk
  <1>9. ASSUME FallbackFailed PROVE (PruneInv' /\ TableAgrees')
    BY <1>9 DEF FallbackFailed
  <1>10. ASSUME FallbackCompanions PROVE (PruneInv' /\ TableAgrees')
    BY <1>10, BusyStream DEF FallbackCompanions
  <1>11. ASSUME Store PROVE (PruneInv' /\ TableAgrees')
    BY <1>11, BusyStream DEF Store, register_pool_vaults, insert_pool
  <1>12. ASSUME FlushTick PROVE (PruneInv' /\ TableAgrees')
    BY <1>12 DEF FlushTick
  <1>13. ASSUME FlushVaults PROVE (PruneInv' /\ TableAgrees')
    BY <1>13 DEF FlushVaults
  <1>14. ASSUME FlushPools PROVE (PruneInv' /\ TableAgrees')
    BY <1>14 DEF FlushPools
  <1>15. ASSUME FlushCompanions PROVE (PruneInv' /\ TableAgrees')
    BY <1>15 DEF FlushCompanions
  <1>16. ASSUME FlushSend PROVE (PruneInv' /\ TableAgrees')
    BY <1>16 DEF FlushSend, known_companions
  <1>17. ASSUME FlushSendFails PROVE (PruneInv' /\ TableAgrees')
    BY <1>17 DEF FlushSendFails
  <1>18. ASSUME Reconnect PROVE (PruneInv' /\ TableAgrees')
    BY <1>18 DEF Reconnect
  <1>19. ASSUME NEW f \in Fetchers, NEW p \in Pools, ColdStart(f, p) PROVE (PruneInv' /\ TableAgrees')
    BY <1>19 DEF ColdStart
  <1>20. ASSUME NEW f \in Fetchers, NEW p \in Pools, SwapLoads(f, p) PROVE (PruneInv' /\ TableAgrees')
    BY <1>20 DEF SwapLoads
  <1>21. ASSUME NEW f \in Fetchers, ColdRead(f) PROVE (PruneInv' /\ TableAgrees')
    BY <1>21, BusyFetch DEF ColdRead
  <1>22. ASSUME NEW f \in Fetchers, ColdInsert(f) PROVE (PruneInv' /\ TableAgrees')
    BY <1>22, BusyFetch DEF ColdInsert
  <1>23. ASSUME NEW f \in Fetchers, ColdReserves(f) PROVE (PruneInv' /\ TableAgrees')
    BY <1>23, BusyFetch DEF ColdReserves
  <1>24. ASSUME NEW f \in Fetchers, ColdEnds(f) PROVE (PruneInv' /\ TableAgrees')
    BY <1>24, BusyFetch DEF ColdEnds
  <1>25. ASSUME PruneDb PROVE (PruneInv' /\ TableAgrees')
    BY <1>25 DEF PruneDb, Prunes
  <1>26. ASSUME PruneRegistry PROVE (PruneInv' /\ TableAgrees')
    BY <1>26 DEF PruneRegistry
  <1>27. ASSUME PruneCache PROVE (PruneInv' /\ TableAgrees')
    BY <1>27 DEF PruneCache, Prunes
  <1>28. ASSUME Restart PROVE (PruneInv' /\ TableAgrees')
    BY <1>28 DEF Restart
  <1>29. CASE UNCHANGED vars
    BY <1>29 DEF vars
  <1>30. QED
    BY <1>1, <1>2, <1>3, <1>4, <1>5, <1>6, <1>7, <1>8, <1>9, <1>10,
       <1>11, <1>12, <1>13, <1>14, <1>15, <1>16, <1>17, <1>18, <1>19, <1>20,
       <1>21, <1>22, <1>23, <1>24, <1>25, <1>26, <1>27, <1>28, <1>29
    DEF Next, SteadyNext, AccountUpdate, StreamStep, FlushStep, FetchStep

\* Who stores a state has seen the pool registered, or registers it.
LEMMA CacheStep == TypeOK /\ HandsInv /\ PruneInv /\ CachedIsRegistered /\ [Next]_vars => CachedIsRegistered'
  <1> SUFFICES ASSUME TypeOK, HandsInv, PruneInv, CachedIsRegistered, [Next]_vars PROVE CachedIsRegistered'
    OBVIOUS
  <1> USE PoolsAssumption, KindsAssumption, VersionAssumption
      DEF chainVars, poolVars, mirrorVars, queueVars, ghostVars, HandsInv, TypeOK, PruneInv, CachedIsRegistered, Waiting, NoFetch, NotPruning, Prunes, Listed, IsCached, Versions
  <1>1. ASSUME NEW p \in Pools, Trade(p) PROVE CachedIsRegistered'
    BY <1>1 DEF Trade
  <1>2. ASSUME NEW p \in Pools, BlockDiscovers(p) PROVE CachedIsRegistered'
    BY <1>2 DEF BlockDiscovers, BlockVaults, insert_pool
  <1>3. ASSUME NEW p \in Pools, BlockOfKnown(p) PROVE CachedIsRegistered'
    BY <1>3 DEF BlockOfKnown, BlockVaults
  <1>4. ASSUME NEW p \in Pools, NEW v \in 1..MaxVersion, CompanionUpdate(p, v) PROVE CachedIsRegistered'
    BY <1>4 DEF CompanionUpdate, Delivered
  <1>5. ASSUME NEW p \in Pools, NEW v \in 1..MaxVersion, PoolUpdate(p, v) PROVE CachedIsRegistered'
    BY <1>5 DEF PoolUpdate, Delivered
  <1>6. ASSUME NEW p \in Pools, NEW v \in 1..MaxVersion, CurveUpdate(p, v) PROVE CachedIsRegistered'
    BY <1>6 DEF CurveUpdate, Delivered
  <1>7. ASSUME NEW p \in Pools, NEW v \in 1..MaxVersion, UpdateDebounced(p, v) PROVE CachedIsRegistered'
    BY <1>7 DEF UpdateDebounced, Delivered
  <1>8. ASSUME FallbackOk PROVE CachedIsRegistered'
    BY <1>8, BusyStream DEF FallbackOk
  <1>9. ASSUME FallbackFailed PROVE CachedIsRegistered'
    BY <1>9 DEF FallbackFailed
  <1>10. ASSUME FallbackCompanions PROVE CachedIsRegistered'
    BY <1>10, BusyStream DEF FallbackCompanions
  <1>11. ASSUME Store PROVE CachedIsRegistered'
    BY <1>11, BusyStream DEF Store, register_pool_vaults, insert_pool
  <1>12. ASSUME FlushTick PROVE CachedIsRegistered'
    BY <1>12 DEF FlushTick
  <1>13. ASSUME FlushVaults PROVE CachedIsRegistered'
    BY <1>13 DEF FlushVaults
  <1>14. ASSUME FlushPools PROVE CachedIsRegistered'
    BY <1>14 DEF FlushPools
  <1>15. ASSUME FlushCompanions PROVE CachedIsRegistered'
    BY <1>15 DEF FlushCompanions
  <1>16. ASSUME FlushSend PROVE CachedIsRegistered'
    BY <1>16 DEF FlushSend, known_companions
  <1>17. ASSUME FlushSendFails PROVE CachedIsRegistered'
    BY <1>17 DEF FlushSendFails
  <1>18. ASSUME Reconnect PROVE CachedIsRegistered'
    BY <1>18 DEF Reconnect
  <1>19. ASSUME NEW f \in Fetchers, NEW p \in Pools, ColdStart(f, p) PROVE CachedIsRegistered'
    BY <1>19 DEF ColdStart
  <1>20. ASSUME NEW f \in Fetchers, NEW p \in Pools, SwapLoads(f, p) PROVE CachedIsRegistered'
    BY <1>20 DEF SwapLoads
  <1>21. ASSUME NEW f \in Fetchers, ColdRead(f) PROVE CachedIsRegistered'
    BY <1>21, BusyFetch DEF ColdRead
  <1>22. ASSUME NEW f \in Fetchers, ColdInsert(f) PROVE CachedIsRegistered'
    BY <1>22, BusyFetch DEF ColdInsert
  <1>23. ASSUME NEW f \in Fetchers, ColdReserves(f) PROVE CachedIsRegistered'
    BY <1>23, BusyFetch DEF ColdReserves
  <1>24. ASSUME NEW f \in Fetchers, ColdEnds(f) PROVE CachedIsRegistered'
    BY <1>24, BusyFetch DEF ColdEnds
  <1>25. ASSUME PruneDb PROVE CachedIsRegistered'
    BY <1>25 DEF PruneDb, Prunes
  <1>26. ASSUME PruneRegistry PROVE CachedIsRegistered'
    BY <1>26 DEF PruneRegistry
  <1>27. ASSUME PruneCache PROVE CachedIsRegistered'
    BY <1>27 DEF PruneCache, Prunes
  <1>28. ASSUME Restart PROVE CachedIsRegistered'
    BY <1>28 DEF Restart
  <1>29. CASE UNCHANGED vars
    BY <1>29 DEF vars
  <1>30. QED
    BY <1>1, <1>2, <1>3, <1>4, <1>5, <1>6, <1>7, <1>8, <1>9, <1>10,
       <1>11, <1>12, <1>13, <1>14, <1>15, <1>16, <1>17, <1>18, <1>19, <1>20,
       <1>21, <1>22, <1>23, <1>24, <1>25, <1>26, <1>27, <1>28, <1>29
    DEF Next, SteadyNext, AccountUpdate, StreamStep, FlushStep, FetchStep

\* A vault is registered before it is queued, and the mirror is read after the
\* queues are drained.
LEMMA QueueStep == TypeOK /\ NoQueuedVaultLost /\ [Next]_vars => NoQueuedVaultLost'
  <1> SUFFICES ASSUME TypeOK, NoQueuedVaultLost, [Next]_vars PROVE NoQueuedVaultLost'
    OBVIOUS
  <1> USE PoolsAssumption, KindsAssumption, VersionAssumption
      DEF chainVars, poolVars, mirrorVars, queueVars, ghostVars, TypeOK, NoQueuedVaultLost, Waiting, Sleeping, NoFetch
  <1>1. ASSUME NEW p \in Pools, Trade(p) PROVE NoQueuedVaultLost'
    BY <1>1 DEF Trade
  <1>2. ASSUME NEW p \in Pools, BlockDiscovers(p) PROVE NoQueuedVaultLost'
    BY <1>2 DEF BlockDiscovers, BlockVaults, insert_pool
  <1>3. ASSUME NEW p \in Pools, BlockOfKnown(p) PROVE NoQueuedVaultLost'
    BY <1>3 DEF BlockOfKnown, BlockVaults
  <1>4. ASSUME NEW p \in Pools, NEW v \in 1..MaxVersion, CompanionUpdate(p, v) PROVE NoQueuedVaultLost'
    BY <1>4 DEF CompanionUpdate, Delivered
  <1>5. ASSUME NEW p \in Pools, NEW v \in 1..MaxVersion, PoolUpdate(p, v) PROVE NoQueuedVaultLost'
    BY <1>5 DEF PoolUpdate, Delivered
  <1>6. ASSUME NEW p \in Pools, NEW v \in 1..MaxVersion, CurveUpdate(p, v) PROVE NoQueuedVaultLost'
    BY <1>6 DEF CurveUpdate, Delivered
  <1>7. ASSUME NEW p \in Pools, NEW v \in 1..MaxVersion, UpdateDebounced(p, v) PROVE NoQueuedVaultLost'
    BY <1>7 DEF UpdateDebounced, Delivered
  <1>8. ASSUME FallbackOk PROVE NoQueuedVaultLost'
    BY <1>8, BusyStream DEF FallbackOk
  <1>9. ASSUME FallbackFailed PROVE NoQueuedVaultLost'
    BY <1>9 DEF FallbackFailed
  <1>10. ASSUME FallbackCompanions PROVE NoQueuedVaultLost'
    BY <1>10, BusyStream DEF FallbackCompanions
  <1>11. ASSUME Store PROVE NoQueuedVaultLost'
    BY <1>11, BusyStream DEF Store, register_pool_vaults, insert_pool
  <1>12. ASSUME FlushTick PROVE NoQueuedVaultLost'
    BY <1>12 DEF FlushTick
  <1>13. ASSUME FlushVaults PROVE NoQueuedVaultLost'
    BY <1>13 DEF FlushVaults
  <1>14. ASSUME FlushPools PROVE NoQueuedVaultLost'
    BY <1>14 DEF FlushPools
  <1>15. ASSUME FlushCompanions PROVE NoQueuedVaultLost'
    BY <1>15 DEF FlushCompanions
  <1>16. ASSUME FlushSend PROVE NoQueuedVaultLost'
    BY <1>16 DEF FlushSend, known_companions
  <1>17. ASSUME FlushSendFails PROVE NoQueuedVaultLost'
    BY <1>17 DEF FlushSendFails
  <1>18. ASSUME Reconnect PROVE NoQueuedVaultLost'
    BY <1>18 DEF Reconnect
  <1>19. ASSUME NEW f \in Fetchers, NEW p \in Pools, ColdStart(f, p) PROVE NoQueuedVaultLost'
    BY <1>19 DEF ColdStart
  <1>20. ASSUME NEW f \in Fetchers, NEW p \in Pools, SwapLoads(f, p) PROVE NoQueuedVaultLost'
    BY <1>20 DEF SwapLoads
  <1>21. ASSUME NEW f \in Fetchers, ColdRead(f) PROVE NoQueuedVaultLost'
    BY <1>21, BusyFetch DEF ColdRead
  <1>22. ASSUME NEW f \in Fetchers, ColdInsert(f) PROVE NoQueuedVaultLost'
    BY <1>22, BusyFetch DEF ColdInsert
  <1>23. ASSUME NEW f \in Fetchers, ColdReserves(f) PROVE NoQueuedVaultLost'
    BY <1>23, BusyFetch DEF ColdReserves
  <1>24. ASSUME NEW f \in Fetchers, ColdEnds(f) PROVE NoQueuedVaultLost'
    BY <1>24, BusyFetch DEF ColdEnds
  <1>25. ASSUME PruneDb PROVE NoQueuedVaultLost'
    BY <1>25 DEF PruneDb, Prunes
  <1>26. ASSUME PruneRegistry PROVE NoQueuedVaultLost'
    BY <1>26 DEF PruneRegistry
  <1>27. ASSUME PruneCache PROVE NoQueuedVaultLost'
    BY <1>27 DEF PruneCache, Prunes
  <1>28. ASSUME Restart PROVE NoQueuedVaultLost'
    BY <1>28 DEF Restart
  <1>29. CASE UNCHANGED vars
    BY <1>29 DEF vars
  <1>30. QED
    BY <1>1, <1>2, <1>3, <1>4, <1>5, <1>6, <1>7, <1>8, <1>9, <1>10,
       <1>11, <1>12, <1>13, <1>14, <1>15, <1>16, <1>17, <1>18, <1>19, <1>20,
       <1>21, <1>22, <1>23, <1>24, <1>25, <1>26, <1>27, <1>28, <1>29
    DEF Next, SteadyNext, AccountUpdate, StreamStep, FlushStep, FetchStep

-----------------------------------------------------------------------------
\* A session starts with nothing in the mirror, the queues or any task's hands,
\* so the invariant holds of the first state.
LEMMA InitSessionInv == Init => SessionInv
  BY PoolsAssumption, KindsAssumption, VersionAssumption
  DEF Init, SessionInv, TypeOK, HandsInv, PruneInv, TableAgrees, CachedIsRegistered, NoQueuedVaultLost,
      Listed, Versions, Waiting, Sleeping, NoFetch, NotPruning, Prunes, IsCached

\* The invariant holds in every state of every behaviour.
THEOREM SessionInvariant == Spec => []SessionInv
  <1>1. SessionInv /\ [Next]_vars => SessionInv'
    BY TypeStep, HandsStep, TableStep, CacheStep, QueueStep DEF SessionInv
  <1>2. QED
    BY InitSessionInv, <1>1, PTL DEF Spec

\* Everything has its type, and companions are fetched only for pools that need one.
THEOREM TypeCorrect == Spec => []TypeOK
  <1>1. SessionInv => TypeOK
    BY DEF SessionInv
  <1>2. QED
    BY SessionInvariant, <1>1, PTL

\* The table says of a pool what the registry says, placeholders included, and misses a
\* registered pool only when its row failed to be written, slipped out or is being pruned.
THEOREM TableAgreement == Spec => []TableAgrees
  <1>1. SessionInv => TableAgrees
    BY DEF SessionInv
  <1>2. QED
    BY SessionInvariant, <1>1, PTL

\* No queued vault is lost between the stream task and the flush task, whatever the
\* interleaving of their four locked steps.
THEOREM QueuedVaultSafety == Spec => []NoQueuedVaultLost
  <1>1. SessionInv => NoQueuedVaultLost
    BY DEF SessionInv
  <1>2. QED
    BY SessionInvariant, <1>1, PTL

\* A cached pool is registered, unless the prune task has overtaken who cached it.
THEOREM CachedAreRegistered == Spec => []CachedIsRegistered
  <1>1. SessionInv => CachedIsRegistered
    BY DEF SessionInv
  <1>2. QED
    BY SessionInvariant, <1>1, PTL
=============================================================================

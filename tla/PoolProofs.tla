----------------------------- MODULE PoolProofs -----------------------------
(***************************************************************************)
(* Which pools there are, and what is known of one of them.                *)
(*                                                                         *)
(* The pool registry, for any number of threads, addresses, mints and      *)
(* calls: RegInv is the inductive invariant, the types, what the two       *)
(* guards protect, what an unfinished call still owes, and what the        *)
(* ghosts settled and must stand for.                                      *)
(*                                                                         *)
(* The life of a pool, for every venue, any number of discoveries, any     *)
(* threshold and any number of crashes: it is never quoted on rates that   *)
(* nobody has read, and what was read of a listed pool is not lost.  Zero  *)
(* rates come from one parser only, LaunchLab's, and only by way of an     *)
(* account update with no state before it.  LifeInv says so of the cache   *)
(* and, since a start may bring the state back, of the file.               *)
(***************************************************************************)
EXTENDS PoolRegistry, PoolLife, TLAPS

-----------------------------------------------------------------------------
(* The registry                                                            *)

\* The guard kept by add protects the entry it read.
GuardInv ==
    \A t \in Threads : pc[t] = "AddUnindex" =>
        /\ pools[address[t]] \in Entries
        /\ sorted_pair(pools[address[t]]) # pair[t]

\* Unless an address is raced, its writers are adds under one pair.
WritersInv ==
    \A p \in Pools \ raced : \A t, u \in Threads :
        t # u /\ Writing(t, p) /\ Writing(u, p) =>
            Adding(t, p) /\ Adding(u, p) /\ pair[t] = pair[u]

\* What the second half of an unfinished call relies on.
PendingInv ==
    \A t \in Threads : address[t] \notin raced =>
        /\ pc[t] = "RemoveUnindex" => pools[address[t]] = NoEntry
        /\ pc[t] = "AddInsert" =>
              \A k \in PairKeys \ {pair[t]} : address[t] \notin mint_index[k]
        /\ pc[t] = "AddIndex" =>
              /\ pools[address[t]] # NoEntry
              /\ sorted_pair(pools[address[t]]) = pair[t]

\* The guard kept by lookup protects the address list it iterates over.
ScanInv ==
    \A t \in Threads :
        /\ pc[t] = "LookScan" => todo[t] \subseteq mint_index[pair[t]]
        /\ pc[t] # "LookScan" => found[t] = {}

\* A settled pool is indexed under its pair, and whoever writes it re-adds it.
SettledInv ==
    \A p \in settled \ raced :
        /\ pools[p] # NoEntry
        /\ p \in mint_index[sorted_pair(pools[p])]
        /\ \A t \in Threads : Writing(t, p) =>
              Adding(t, p) /\ pair[t] = sorted_pair(pools[p])

\* A pool that a lookup must return stays put, and is read or still to be read.
MustInv ==
    \A t \in Threads : pc[t] = "LookScan" => \A p \in must[t] :
        /\ p \notin raced
        /\ pools[p] # NoEntry
        /\ sorted_pair(pools[p]) = pair[t]
        /\ \A u \in Threads : Writing(u, p) => Adding(u, p) /\ pair[u] = pair[t]
        /\ p \in todo[t] \/ \E f \in found[t] : f[1] = p

RegInv ==
    /\ TypeOK
    /\ GuardInv
    /\ WritersInv
    /\ PendingInv
    /\ IndexAgrees
    /\ ScanInv
    /\ LookupSound
    /\ SettledInv
    /\ MustInv

-----------------------------------------------------------------------------
\* The key of an entry is a key of the index.
LEMMA SortedPairType == \A e \in Entries : sorted_pair(e) \in PairKeys
  BY EntriesAssumption DEF sorted_pair, PairKeys

\* Every step is one action of one thread.
LEMMA TypeStep == TypeOK /\ [Next]_vars => TypeOK'
  <1> SUFFICES ASSUME TypeOK, [Next]_vars PROVE TypeOK'
    OBVIOUS
  <1> USE SortedPairType, SentinelAssumption, MaxCallsAssumption
      DEF TypeOK, AddSteps, RemoveSteps, Goto, Return, Call, Conflict
  <1>1. ASSUME NEW t \in Threads, NEW p \in Pools, NEW e \in Entries, AddCall(t, p, e)
        PROVE  TypeOK'
    BY <1>1 DEF AddCall
  <1>2. ASSUME NEW t \in Threads, NEW p \in Pools, RemoveCall(t, p)
        PROVE  TypeOK'
    BY <1>2 DEF RemoveCall
  <1>3. ASSUME NEW t \in Threads, NEW k \in PairKeys, LookupCall(t, k)
        PROVE  TypeOK'
    BY <1>3 DEF LookupCall
  <1>4. ASSUME NEW t \in Threads, AddRead(t)
        PROVE  TypeOK'
    BY <1>4 DEF AddRead
  <1>5. ASSUME NEW t \in Threads, AddUnindex(t)
        PROVE  TypeOK'
    BY <1>5 DEF AddUnindex
  <1>6. ASSUME NEW t \in Threads, AddInsert(t)
        PROVE  TypeOK'
    BY <1>6 DEF AddInsert
  <1>7. ASSUME NEW t \in Threads, AddIndex(t)
        PROVE  TypeOK'
    BY <1>7 DEF AddIndex
  <1>8. ASSUME NEW t \in Threads, RemoveAbsent(t)
        PROVE  TypeOK'
    BY <1>8 DEF RemoveAbsent
  <1>9. ASSUME NEW t \in Threads, RemoveTake(t)
        PROVE  TypeOK'
    BY <1>9 DEF RemoveTake
  <1>10. ASSUME NEW t \in Threads, RemoveUnindex(t)
         PROVE  TypeOK'
    BY <1>10 DEF RemoveUnindex
  <1>11. ASSUME NEW t \in Threads, NEW p \in Pools, LookupGet(t, p)
         PROVE  TypeOK'
    BY <1>11 DEF LookupGet
  <1>12. ASSUME NEW t \in Threads, LookupReturn(t)
         PROVE  TypeOK'
    BY <1>12 DEF LookupReturn
  <1>13. CASE UNCHANGED vars
    BY <1>13 DEF vars
  <1>14. QED
    BY <1>1, <1>2, <1>3, <1>4, <1>5, <1>6, <1>7, <1>8, <1>9, <1>10, <1>11, <1>12, <1>13
    DEF Next, NewCall, Step

-----------------------------------------------------------------------------
\* A new add races the address unless its writers re-add it under the same pair.
LEMMA AddCallStep ==
  ASSUME RegInv, TypeOK', NEW t \in Threads, NEW p \in Pools, NEW e \in Entries, AddCall(t, p, e)
  PROVE  RegInv'
  <1> USE SortedPairType, SentinelAssumption
      DEF RegInv, TypeOK, AddCall, Call, Goto, Conflict, AddSteps,
          RemoveSteps, Adding, Removing, Writing
  <1>1. /\ GuardInv' /\ WritersInv' /\ PendingInv' /\ IndexAgrees'
       /\ ScanInv' /\ LookupSound' /\ SettledInv' /\ MustInv'
    BY DEF GuardInv, WritersInv, PendingInv, IndexAgrees, ScanInv, LookupSound, SettledInv, MustInv
  <1>2. QED
    BY <1>1

\* Past this step, other pairs no longer list the address unless it has an old entry.
LEMMA AddReadStep ==
  ASSUME RegInv, TypeOK', NEW t \in Threads, AddRead(t)
  PROVE  RegInv'
  <1> USE SortedPairType, SentinelAssumption
      DEF RegInv, TypeOK, AddRead, Goto, AddSteps, RemoveSteps,
          Adding, Removing, Writing
  <1>1. /\ GuardInv' /\ WritersInv' /\ IndexAgrees' /\ ScanInv'
       /\ LookupSound' /\ SettledInv' /\ MustInv'
    BY DEF GuardInv, WritersInv, IndexAgrees, ScanInv, LookupSound, SettledInv, MustInv
  <1>2. PendingInv'
    BY DEF PendingInv, IndexAgrees, WritersInv
  <1>3. QED
    BY <1>1, <1>2

\* The old pair was the only one that listed the address.
LEMMA AddUnindexStep ==
  ASSUME RegInv, TypeOK', NEW t \in Threads, AddUnindex(t)
  PROVE  RegInv'
  <1> USE SortedPairType, SentinelAssumption
      DEF RegInv, TypeOK, AddUnindex, Goto, AddSteps, RemoveSteps,
          Adding, Removing, Writing
  <1>1. /\ GuardInv' /\ WritersInv' /\ IndexAgrees' /\ LookupSound'
       /\ MustInv'
    BY DEF GuardInv, WritersInv, IndexAgrees, LookupSound, MustInv
  <1>2. PendingInv'
    BY DEF PendingInv, GuardInv, IndexAgrees, WritersInv
  <1>3. ScanInv'
    BY DEF ScanInv, IndexWritable, HoldsIndexGuard
  <1>4. SettledInv'
    BY DEF SettledInv, GuardInv
  <1>5. QED
    BY <1>1, <1>2, <1>3, <1>4

\* No one holds a guard on the old entry, and no other writer stores another pair.
LEMMA AddInsertStep ==
  ASSUME RegInv, TypeOK', NEW t \in Threads, AddInsert(t)
  PROVE  RegInv'
  <1> USE SortedPairType, SentinelAssumption
      DEF RegInv, TypeOK, AddInsert, Goto, AddSteps, RemoveSteps,
          Adding, Removing, Writing
  <1>1. /\ WritersInv' /\ ScanInv' /\ LookupSound' /\ SettledInv'
       /\ MustInv'
    BY DEF WritersInv, ScanInv, LookupSound, SettledInv, MustInv
  <1>2. GuardInv'
    BY DEF GuardInv, PoolsWritable, HoldsPoolsGuard
  <1>3. PendingInv'
    BY DEF PendingInv, WritersInv
  <1>4. IndexAgrees'
    BY DEF IndexAgrees, PendingInv, WritersInv
  <1>5. QED
    BY <1>1, <1>2, <1>3, <1>4

\* The address is listed under the pair of the entry stored, and is settled.
LEMMA AddIndexStep ==
  ASSUME RegInv, TypeOK', NEW t \in Threads, AddIndex(t)
  PROVE  RegInv'
  <1> USE SortedPairType, SentinelAssumption
      DEF RegInv, TypeOK, AddIndex, Return, Goto, AddSteps,
          RemoveSteps, Adding, Removing, Writing
  <1>1. /\ GuardInv' /\ WritersInv' /\ ScanInv' /\ LookupSound'
       /\ MustInv'
    BY DEF GuardInv, WritersInv, ScanInv, LookupSound, MustInv
  <1>2. PendingInv'
    BY DEF PendingInv, WritersInv
  <1>3. IndexAgrees'
    BY DEF IndexAgrees, PendingInv
  <1>4. SettledInv'
    BY DEF SettledInv, WritersInv, PendingInv
  <1>5. QED
    BY <1>1, <1>2, <1>3, <1>4

\* A new remove races the address if anyone writes it, and releases the lookups.
LEMMA RemoveCallStep ==
  ASSUME RegInv, TypeOK', NEW t \in Threads, NEW p \in Pools, RemoveCall(t, p)
  PROVE  RegInv'
  <1> USE SortedPairType, SentinelAssumption
      DEF RegInv, TypeOK, RemoveCall, Call, Goto, Conflict, AddSteps,
          RemoveSteps, Adding, Removing, Writing
  <1>1. /\ GuardInv' /\ WritersInv' /\ PendingInv' /\ IndexAgrees'
       /\ ScanInv' /\ LookupSound' /\ SettledInv' /\ MustInv'
    BY DEF GuardInv, WritersInv, PendingInv, IndexAgrees, ScanInv, LookupSound, SettledInv, MustInv
  <1>2. QED
    BY <1>1

\* Nothing but the call changes.
LEMMA RemoveAbsentStep ==
  ASSUME RegInv, TypeOK', NEW t \in Threads, RemoveAbsent(t)
  PROVE  RegInv'
  <1> USE SortedPairType, SentinelAssumption
      DEF RegInv, TypeOK, RemoveAbsent, Return, Goto, AddSteps,
          RemoveSteps, Adding, Removing, Writing
  <1>1. /\ GuardInv' /\ WritersInv' /\ PendingInv' /\ IndexAgrees'
       /\ ScanInv' /\ LookupSound' /\ SettledInv' /\ MustInv'
    BY DEF GuardInv, WritersInv, PendingInv, IndexAgrees, ScanInv, LookupSound, SettledInv, MustInv
  <1>2. QED
    BY <1>1

\* No one holds a guard on the entry taken, and no add is under way.
LEMMA RemoveTakeStep ==
  ASSUME RegInv, TypeOK', NEW t \in Threads, RemoveTake(t)
  PROVE  RegInv'
  <1> USE SortedPairType, SentinelAssumption
      DEF RegInv, TypeOK, RemoveTake, Goto, AddSteps, RemoveSteps,
          Adding, Removing, Writing
  <1>1. /\ WritersInv' /\ IndexAgrees' /\ ScanInv' /\ LookupSound'
       /\ SettledInv' /\ MustInv'
    BY DEF WritersInv, IndexAgrees, ScanInv, LookupSound, SettledInv, MustInv
  <1>2. GuardInv'
    BY DEF GuardInv, PoolsWritable, HoldsPoolsGuard
  <1>3. PendingInv'
    BY DEF PendingInv, WritersInv
  <1>4. QED
    BY <1>1, <1>2, <1>3

\* The entry is gone, and no lookup holds the list.
LEMMA RemoveUnindexStep ==
  ASSUME RegInv, TypeOK', NEW t \in Threads, RemoveUnindex(t)
  PROVE  RegInv'
  <1> USE SortedPairType, SentinelAssumption
      DEF RegInv, TypeOK, RemoveUnindex, Return, Goto, AddSteps,
          RemoveSteps, Adding, Removing, Writing
  <1>1. /\ GuardInv' /\ WritersInv' /\ PendingInv' /\ LookupSound'
       /\ SettledInv' /\ MustInv'
    BY DEF GuardInv, WritersInv, PendingInv, LookupSound, SettledInv, MustInv
  <1>2. IndexAgrees'
    BY DEF IndexAgrees, PendingInv
  <1>3. ScanInv'
    BY DEF ScanInv, IndexWritable, HoldsIndexGuard
  <1>4. QED
    BY <1>1, <1>2, <1>3

\* A new lookup holds the list it reads; what it must return is settled.
LEMMA LookupCallStep ==
  ASSUME RegInv, TypeOK', NEW t \in Threads, NEW k \in PairKeys, LookupCall(t, k)
  PROVE  RegInv'
  <1> USE SortedPairType, SentinelAssumption
      DEF RegInv, TypeOK, LookupCall, Call, Goto, AddSteps,
          RemoveSteps, Adding, Removing, Writing
  <1>1. /\ GuardInv' /\ WritersInv' /\ PendingInv' /\ IndexAgrees'
       /\ ScanInv' /\ SettledInv'
    BY DEF GuardInv, WritersInv, PendingInv, IndexAgrees, ScanInv, SettledInv
  <1>2. LookupSound'
    BY DEF LookupSound, ScanInv
  <1>3. MustInv'
    BY DEF MustInv, SettledInv
  <1>4. QED
    BY <1>1, <1>2, <1>3

\* The address is still listed, so its entry has the pair or is being removed.
LEMMA LookupGetStep ==
  ASSUME RegInv, TypeOK', NEW t \in Threads, NEW p \in Pools, LookupGet(t, p)
  PROVE  RegInv'
  <1> USE SortedPairType, SentinelAssumption
      DEF RegInv, TypeOK, LookupGet, AddSteps, RemoveSteps, Adding,
          Removing, Writing
  <1>1. /\ GuardInv' /\ WritersInv' /\ PendingInv' /\ IndexAgrees'
       /\ ScanInv' /\ SettledInv'
    BY DEF GuardInv, WritersInv, PendingInv, IndexAgrees, ScanInv, SettledInv
  <1>2. LookupSound'
    BY DEF LookupSound, IndexAgrees, ScanInv, PendingInv
  <1>3. MustInv'
    <2> SUFFICES ASSUME NEW u \in Threads, pc[u] = "LookScan", NEW q \in must[u]
                 PROVE  \/ q \in todo'[u]
                        \/ \E f \in found'[u] : f[1] = q
      BY DEF MustInv
    <2>1. CASE u # t
      BY <2>1 DEF MustInv
    <2>2. CASE u = t /\ q = p
      <3>1. <<p, pools[p]>> \in found'[u]
        BY <2>2 DEF MustInv
      <3>2. <<p, pools[p]>>[1] = q
        BY <2>2
      <3>3. QED
        BY <3>1, <3>2
    <2>3. CASE u = t /\ q # p
      BY <2>3 DEF MustInv
    <2>4. QED
      BY <2>1, <2>2, <2>3
  <1>4. QED
    BY <1>1, <1>2, <1>3

\* Nothing but the call changes.
LEMMA LookupReturnStep ==
  ASSUME RegInv, TypeOK', NEW t \in Threads, LookupReturn(t)
  PROVE  RegInv'
  <1> USE SortedPairType, SentinelAssumption
      DEF RegInv, TypeOK, LookupReturn, Return, Goto, AddSteps,
          RemoveSteps, Adding, Removing, Writing
  <1>1. /\ GuardInv' /\ WritersInv' /\ PendingInv' /\ IndexAgrees'
       /\ ScanInv' /\ LookupSound' /\ SettledInv' /\ MustInv'
    BY DEF GuardInv, WritersInv, PendingInv, IndexAgrees, ScanInv, LookupSound, SettledInv, MustInv
  <1>2. QED
    BY <1>1

-----------------------------------------------------------------------------
(* RegInv is inductive.                                                    *)

\* RegInv holds at first.
LEMMA RegInvInit == Init => RegInv
  <1> SUFFICES ASSUME Init PROVE RegInv
    OBVIOUS
  <1>1. TypeOK
    BY MaxCallsAssumption DEF Init, TypeOK, AddSteps, RemoveSteps
  <1>2. /\ GuardInv /\ WritersInv /\ PendingInv /\ IndexAgrees
        /\ ScanInv /\ LookupSound /\ SettledInv /\ MustInv
    BY DEF Init, GuardInv, WritersInv, PendingInv, IndexAgrees, ScanInv, LookupSound,
           SettledInv, MustInv, Adding, Removing, Writing, AddSteps, RemoveSteps
  <1>3. QED
    BY <1>1, <1>2 DEF RegInv

\* Every step of every call keeps the invariant: one lemma per step above.
LEMMA RegInvStep == RegInv /\ [Next]_vars => RegInv'
  <1> SUFFICES ASSUME RegInv, [Next]_vars PROVE RegInv'
    OBVIOUS
  <1>1. TypeOK'
    BY TypeStep DEF RegInv
  <1>2. CASE UNCHANGED vars
    BY <1>2 DEF vars, RegInv, TypeOK, GuardInv, WritersInv, PendingInv, IndexAgrees, ScanInv,
                LookupSound, SettledInv, MustInv, Adding, Removing, Writing
  <1>3. CASE Next
    BY <1>1, <1>3, AddCallStep, RemoveCallStep, LookupCallStep, AddReadStep, AddUnindexStep,
       AddInsertStep, AddIndexStep, RemoveAbsentStep, RemoveTakeStep, RemoveUnindexStep,
       LookupGetStep, LookupReturnStep DEF Next, NewCall, Step
  <1>4. QED
    BY <1>2, <1>3

\* The invariant holds in every state, for every number of threads and calls.
LEMMA RegInvariant == Spec => []RegInv
  BY RegInvInit, RegInvStep, PTL DEF Spec

-----------------------------------------------------------------------------
(* The results.                                                            *)

\* Every call carries the pair of its own entry to its last step, whatever the
\* other threads do (registry.rs, add and remove).
THEOREM TypeCorrect == Spec => []TypeOK
  <1>1. RegInv => TypeOK
    BY DEF RegInv
  <1>2. QED
    BY <1>1, RegInvariant, PTL

\* The address list of a pair and the entries agree, up to the steps that calls
\* in progress still owe (registry.rs, add and remove).
THEOREM IndexAgreement == Spec => []IndexAgrees
  <1>1. RegInv => IndexAgrees
    BY DEF RegInv
  <1>2. QED
    BY <1>1, RegInvariant, PTL

\* lookup(A, B) never returns a pool of another pair (registry.rs, lookup).
THEOREM LookupSoundness == Spec => []LookupSound
  <1>1. RegInv => LookupSound
    BY DEF RegInv
  <1>2. QED
    BY <1>1, RegInvariant, PTL

\* lookup(A, B) misses no pool that stays registered under the pair, re-adds of
\* the pool included (registry.rs, add and lookup).
THEOREM LookupCompleteness == Spec => []LookupComplete
  <1>1. RegInv => LookupComplete
    BY DEF RegInv, MustInv, LookupComplete
  <1>2. QED
    BY <1>1, RegInvariant, PTL
-----------------------------------------------------------------------------
(* The registry, seen through lookup, is a PoolListing.                    *)

\* Nothing is visible in an empty registry.
LEMMA ListingInit == Init => Listing!Init
  BY DEF Init, Listing!Init, visible

\* An address that is not raced is visible under the pair of its entry only.
LEMMA VisibleUnderOnePair ==
  ASSUME RegInv, NEW p \in Pools, NEW k \in PairKeys, p \in visible[k]
  PROVE  p \notin raced /\ pools[p] # NoEntry /\ sorted_pair(pools[p]) = k
  BY DEF RegInv, TypeOK, IndexAgrees, PendingInv, visible

\* A step after which one address is invisible and the others are as they were.
LEMMA HidingOne ==
  ASSUME NEW p \in Pools, visible' = [k \in PairKeys |-> visible[k] \ {p}]
  PROVE  [Listing!Next]_visible
  <1>1. CASE \E k \in PairKeys : p \in visible[k]
    BY <1>1 DEF Listing!Next, Listing!Unlist
  <1>2. CASE \A k \in PairKeys : p \notin visible[k]
    BY <1>2 DEF visible
  <1>3. QED
    BY <1>1, <1>2

\* Only add and remove change what is visible, each by one address.
LEMMA ListingStep == RegInv /\ RegInv' /\ [Next]_vars => [Listing!Next]_visible
  <1> SUFFICES ASSUME RegInv, RegInv', [Next]_vars PROVE [Listing!Next]_visible
    OBVIOUS
  <1> USE DEF TypeOK
  <1>0. TypeOK
    BY DEF RegInv
  <1>1. ASSUME NEW t \in Threads, NEW p \in Pools,
               RemoveCall(t, p) \/ \E e \in Entries : AddCall(t, p, e)
        PROVE  [Listing!Next]_visible
    <2>1. /\ raced' = raced \/ raced' = raced \cup {p}
          /\ pools' = pools /\ mint_index' = mint_index
      BY <1>1 DEF RemoveCall, AddCall, Conflict
    <2>2. CASE raced' = raced
      BY <2>1, <2>2 DEF visible
    <2>3. CASE raced' = raced \cup {p}
      BY <2>1, <2>3, HidingOne DEF visible
    <2>4. QED
      BY <2>1, <2>2, <2>3
  <1>2. ASSUME NEW t \in Threads, AddUnindex(t)
        PROVE  [Listing!Next]_visible
    <2> DEFINE p == address[t]
               old_pair == sorted_pair(pools[p])
    <2>1. p \in Pools /\ old_pair \in PairKeys
      BY <1>0, <1>2, SortedPairType DEF AddUnindex, RegInv, GuardInv, AddSteps
    <2>2. \A k \in PairKeys \ {old_pair} : p \notin visible[k]
      BY <2>1, VisibleUnderOnePair
    <2>3. visible' = [k \in PairKeys |-> visible[k] \ {p}]
      BY <1>0, <1>2, <2>1, <2>2 DEF visible, AddUnindex
    <2>4. QED
      BY <2>1, <2>3, HidingOne
  <1>3. ASSUME NEW t \in Threads, AddInsert(t)
        PROVE  [Listing!Next]_visible
    <2> DEFINE p == address[t]
    <2>1. p \in Pools /\ entry[t] \in Entries /\ entry[t] # NoEntry
      BY <1>0, <1>3, SentinelAssumption DEF AddInsert, AddSteps
    <2>2. CASE p \in raced
      BY <1>0, <1>3, <2>2 DEF visible, AddInsert
    <2>3. CASE p \notin raced
      <3>1. \A k \in PairKeys : p \in mint_index[k] => pools[p] # NoEntry
        BY <1>3, <2>1, <2>3 DEF RegInv, IndexAgrees, WritersInv, AddInsert, Writing, Adding,
           Removing, AddSteps, RemoveSteps
      <3>2. visible' = visible
        BY <1>0, <1>3, <2>1, <3>1 DEF visible, AddInsert
      <3>3. QED
        BY <3>2
    <2>4. QED
      BY <2>2, <2>3
  <1>4. ASSUME NEW t \in Threads, AddIndex(t)
        PROVE  [Listing!Next]_visible
    <2> DEFINE p == address[t]
               k == pair[t]
    <2>1. p \in Pools /\ k \in PairKeys
      BY <1>0, <1>4, SortedPairType DEF AddIndex, AddSteps
    <2>2. CASE p \in raced \/ p \in mint_index[k]
      BY <1>0, <1>4, <2>1, <2>2 DEF visible, AddIndex
    <2>3. CASE p \notin raced /\ p \notin mint_index[k]
      <3>1. pools[p] # NoEntry /\ sorted_pair(pools[p]) = k
        BY <1>4, <2>3 DEF RegInv, PendingInv, AddIndex
      <3>2. \A j \in PairKeys : p \notin visible[j]
        BY <2>1, <2>3, <3>1, VisibleUnderOnePair DEF visible
      <3>3. \A j \in PairKeys :
               visible'[j] = IF j = k THEN visible[j] \cup {p} ELSE visible[j]
        <4>1. mint_index'[k] = mint_index[k] \cup {p}
          BY <1>0, <1>4, <2>1 DEF AddIndex
        <4>2. \A j \in PairKeys : j # k => mint_index'[j] = mint_index[j]
          BY <1>0, <1>4, <2>1 DEF AddIndex
        <4>3. pools' = pools /\ raced' = raced
          BY <1>4 DEF AddIndex
        <4>4. QED
          BY <2>3, <3>1, <4>1, <4>2, <4>3 DEF visible
      <3>4. QED
        <4>1. visible' = [visible EXCEPT ![k] = @ \cup {p}]
          BY <3>3 DEF visible
        <4>2. QED
          BY <2>1, <3>2, <4>1 DEF Listing!Next, Listing!List
    <2>4. QED
      BY <2>2, <2>3
  <1>5. ASSUME NEW t \in Threads, RemoveTake(t)
        PROVE  [Listing!Next]_visible
    <2>1. address[t] \in Pools
      BY <1>0, <1>5 DEF RemoveTake, RemoveSteps
    <2>2. visible' = [k \in PairKeys |-> visible[k] \ {address[t]}]
      BY <1>0, <1>5, <2>1 DEF visible, RemoveTake
    <2>3. QED
      BY <2>1, <2>2, HidingOne
  <1>6. ASSUME NEW t \in Threads, RemoveUnindex(t)
        PROVE  [Listing!Next]_visible
    <2>1. address[t] \in raced \/ pools[address[t]] = NoEntry
      BY <1>6 DEF RegInv, PendingInv, RemoveUnindex
    <2>2. visible' = visible
      BY <1>0, <1>6, <2>1 DEF visible, RemoveUnindex
    <2>3. QED
      BY <2>2
  <1>7. ASSUME NEW t \in Threads,
               \/ \E k \in PairKeys : LookupCall(t, k)
               \/ \E p \in Pools : LookupGet(t, p)
               \/ AddRead(t) \/ RemoveAbsent(t) \/ LookupReturn(t)
        PROVE  [Listing!Next]_visible
    BY <1>7 DEF LookupCall, LookupGet, AddRead, RemoveAbsent, LookupReturn, visible
  <1>8. CASE UNCHANGED vars
    BY <1>8 DEF vars, visible
  <1>9. QED
    BY <1>1, <1>2, <1>3, <1>4, <1>5, <1>6, <1>7, <1>8 DEF Next, NewCall, Step

\* A pool is never seen under two pairs, and appears and disappears one step at a
\* time: the registry implements PoolListing (registry.rs, add, remove, lookup).
THEOREM Refinement == Spec => ImplementsListing
  <1>1. QED
    BY ListingInit, ListingStep, RegInvariant, PTL DEF Spec, ImplementsListing, Listing!Spec

-----------------------------------------------------------------------------
(* The life of a pool                                                      *)

Rates == {"nothing", "pool", "config", "fallback", "zero", "shut"}
States == [rates : Rates, recipients : BOOLEAN]

\* A state with zero rates, and where it can come from.
Unread(st) == st.rates = "zero"
Excused(st, from_update) == Unread(st) => venue = "RaydiumLp" /\ from_update

TypeInv ==
    /\ venue \in PoolTypes
    /\ cached \in States /\ bare \in BOOLEAN
    /\ file \in [entry : {"missing", "none", "placeholder", "real"}, state : States, bare : BOOLEAN]
    /\ registry \in {"none", "placeholder", "restored", "real"}
    /\ saving \in {"idle", "none", "placeholder", "real"}
    /\ row \in {"none", "placeholder", "real"}

LifeInv == TypeInv /\ Excused(cached, bare) /\ Excused(file.state, file.bare)

-----------------------------------------------------------------------------
(* What the parsers return                                                  *)

\* Of the parsers of bytes, LaunchLab's alone gives zero rates.
LEMMA BytesParsed ==
    ASSUME NEW v \in PoolTypes
    PROVE  /\ parse_pool_state_from_bytes(v) \in States
           /\ Unread(parse_pool_state_from_bytes(v)) => v = "RaydiumLp"
BY DEF PoolTypes, ClmmLike, SplForks, parse_pool_state_from_bytes, Unread, States, Rates, Nothing, InPool, Fallback,
       parse_raydium_v4, parse_raydium_cpmm, parse_raydium_clmm, parse_byreal, parse_pancakeswap, parse_raydium_lp,
       parse_meteora_dlmm, parse_meteora_damm, parse_orca, parse_spl_token_swap, parse_saros, parse_flash_trade,
       parse_defituna_fusion, parse_defituna_pools, parse_pumpup

\* A full fetch never does: a missing LaunchLab config makes the rates shut.
LEMMA FetchRead ==
    ASSUME NEW v \in PoolTypes, NEW has
    PROVE  /\ fetch_pool_state(v, has) \in States
           /\ ~Unread(fetch_pool_state(v, has))
<1> USE DEF States, Rates, Unread
<1>1. CASE v = "RaydiumCpmm"
  BY <1>1 DEF fetch_pool_state, cpmm_config_fees, Configured, parse_raydium_cpmm, Fallback, ClmmLike
<1>2. CASE v \in ClmmLike
  <2>1. parse_pool_state_from_bytes(v) \in States /\ ~Unread(parse_pool_state_from_bytes(v))
    BY <1>2, BytesParsed DEF ClmmLike
  <2>2. fetch_pool_state(v, has) = clmm_fee_rate_u16(parse_pool_state_from_bytes(v), has)
    BY <1>2 DEF fetch_pool_state, ClmmLike
  <2> QED BY <2>1, <2>2 DEF clmm_fee_rate_u16, Configured
<1>3. CASE v = "RaydiumLp"
  BY <1>3 DEF fetch_pool_state, launchlab_fee_rates, Configured, parse_raydium_lp, ClmmLike
<1>4. CASE v \in {"PumpFun", "PumpFunAmm", "Meteora", "MeteoraDbc", "PumpupBonding"}
  BY <1>4 DEF fetch_pool_state, ClmmLike, parse_pumpfun, pumpfun_state, parse_pumpfun_amm, parse_meteora, InPool,
              parse_meteora_dbc, dbc_state, parse_pumpup_bonding, Nothing
<1>5. CASE v \notin ClmmLike \cup {"RaydiumCpmm", "RaydiumLp", "PumpFun", "PumpFunAmm", "Meteora", "MeteoraDbc", "PumpupBonding"}
  <2>1. fetch_pool_state(v, has) = parse_pool_state_from_bytes(v)
    BY <1>5 DEF fetch_pool_state
  <2> QED BY <1>5, <2>1, BytesParsed
<1> QED BY <1>1, <1>2, <1>3, <1>4, <1>5

\* What is taken over from a state that was read has been read.
LEMMA CarriedRead ==
    ASSUME NEW v \in PoolTypes, NEW st \in States, NEW prev \in States, Unread(st) => v = "RaydiumLp"
    PROVE  /\ carry_over_from_prev(v, st, prev) \in States
           /\ Unread(carry_over_from_prev(v, st, prev)) => Unread(prev)
BY DEF carry_over_from_prev, carry_over_pamm_fee_accounts, States, Rates, Unread, ClmmLike

\* A re-parse from a block takes zero rates from the earlier state only.
LEMMA ReparsedRead ==
    ASSUME NEW v \in PoolTypes, NEW prev \in States, NEW has
    PROVE  /\ reparse_pool_state(v, prev, has) \in States
           /\ Unread(reparse_pool_state(v, prev, has)) => Unread(prev)
<1>1. CASE v = "PumpFun"
  BY <1>1 DEF reparse_pool_state, ReparsedCurve, pumpfun_state, Nothing, States, Rates, Unread
<1>2. CASE v = "MeteoraDbc"
  BY <1>2 DEF reparse_pool_state, dbc_state, Nothing, States, Rates, Unread
<1>3. CASE v \notin {"PumpFun", "MeteoraDbc"}
  <2>1. \/ reparse_pool_state(v, prev, has) = Nothing
        \/ reparse_pool_state(v, prev, has) = carry_over_from_prev(v, parse_pool_state_from_bytes(v), prev)
    BY <1>3 DEF reparse_pool_state
  <2>2. Nothing \in States /\ ~Unread(Nothing)
    BY DEF Nothing, States, Rates, Unread
  <2> QED BY <2>1, <2>2, BytesParsed, CarriedRead
<1> QED BY <1>1, <1>2, <1>3

\* A parse with the mirror's companions may give them, to LaunchLab's pools, which it always parses.
LEMMA MirrorParsed ==
    ASSUME NEW v \in PoolTypes, NEW with, NEW has
    PROVE  /\ parse_with_mirror(v, with, has) \in States
           /\ Unread(parse_with_mirror(v, with, has)) => v = "RaydiumLp"
           /\ v = "RaydiumLp" => parse_with_mirror(v, with, has) # Nothing
<1>1. CASE is_sync_parseable(v)
  <2>1. v \notin {"PumpFunAmm", "Meteora", "MeteoraDbc", "PumpFun"}
    BY <1>1 DEF is_sync_parseable, parse_pool_state_from_bytes, SplForks
  <2>2. parse_with_mirror(v, with, has) = parse_pool_state_from_bytes(v)
    BY <1>1, <2>1 DEF parse_with_mirror
  <2>3. parse_pool_state_from_bytes(v) # Nothing
    BY <1>1 DEF is_sync_parseable
  <2> QED BY <2>2, <2>3, BytesParsed
<1>2. CASE ~is_sync_parseable(v) /\ v \in {"PumpFunAmm", "Meteora", "MeteoraDbc", "PumpFun"}
  BY <1>2 DEF parse_with_mirror, parse_pumpfun_amm_with_balances, parse_pumpfun_amm_layout, parse_meteora_with_companion,
              parse_meteora_dbc, dbc_state, parse_pumpfun_with_companion, pumpfun_state, Nothing, States, Rates, Unread
<1>3. CASE ~is_sync_parseable(v) /\ v \notin {"PumpFunAmm", "Meteora", "MeteoraDbc", "PumpFun"}
  <2>1. v # "RaydiumLp"
    BY <1>3 DEF is_sync_parseable, parse_pool_state_from_bytes, parse_raydium_lp, Nothing, SplForks
  <2>2. parse_with_mirror(v, with, has) = Nothing
    BY <1>3 DEF parse_with_mirror
  <2> QED BY <2>1, <2>2 DEF Nothing, States, Rates, Unread
<1> QED BY <1>1, <1>2, <1>3

\* The supply and the recipients of a pump.fun AMM pool are never zero rates.
LEMMA FeeAccountsRead ==
    ASSUME NEW v \in PoolTypes, NEW st \in States, NEW has, Unread(st) => v = "RaydiumLp"
    PROVE  /\ ensure_pamm_fee_accounts(v, st, has) \in States
           /\ Unread(ensure_pamm_fee_accounts(v, st, has)) => Unread(st)
           /\ v # "PumpFunAmm" => ensure_pamm_fee_accounts(v, st, has) = st
<1>1. CASE v = "PumpFunAmm"
  BY <1>1 DEF ensure_pamm_fee_accounts, needs_pamm_fee_accounts, carry_over_pamm_fee_accounts, parse_pumpfun_amm,
              States, Rates, Unread
<1>2. CASE v # "PumpFunAmm"
  BY <1>2 DEF ensure_pamm_fee_accounts, needs_pamm_fee_accounts
<1> QED BY <1>1, <1>2

\* Absence of a state is no state with zero rates.
LEMMA NoState == Nothing \in States /\ ~Unread(Nothing)
BY DEF Nothing, States, Rates, Unread

-----------------------------------------------------------------------------
(* The invariant                                                            *)

\* An older file holds states of a full fetch.
LEMMA InitLife == LifeInit => LifeInv
<1> SUFFICES ASSUME LifeInit PROVE LifeInv
  OBVIOUS
<1>1. venue \in PoolTypes
  BY VenuesAssumption DEF LifeInit
<1>2. Outdated(venue) \in States /\ ~Unread(Outdated(venue))
  <2>1. CASE venue = "MeteoraDbc"
    BY <2>1 DEF Outdated, dbc_state, States, Rates, Unread
  <2>2. CASE venue # "MeteoraDbc"
    BY <1>1, <2>2, FetchRead DEF Outdated, States, Unread
  <2> QED BY <2>1, <2>2
<1>3. /\ file \in [entry : {"missing", "none", "placeholder", "real"}, state : States, bare : BOOLEAN]
      /\ ~Unread(file.state)
  <2>1. CASE file = NoFile
    BY <2>1, NoState DEF NoFile
  <2>2. CASE file = [entry |-> "real", state |-> Outdated(venue), bare |-> FALSE]
    BY <1>2, <2>2
  <2> QED BY <2>1, <2>2 DEF LifeInit
<1>4. cached \in States /\ ~Unread(cached)
  BY NoState DEF LifeInit
<1> QED BY <1>1, <1>3, <1>4 DEF LifeInit, LifeInv, TypeInv, Excused

\* A step that fetches stores what was read, or what was stored before.
LEMMA FetchedIsRead ==
    ASSUME TypeInv, NEW got
    PROVE  Fetched(got) \in States /\ ~Unread(Fetched(got))
BY FetchRead DEF Fetched, TypeInv

\* Steps that leave the registry, the table and the files' entries well-typed.
LEMMA RegistersTyped ==
    ASSUME TypeInv, Registers
    PROVE  registry' \in {"none", "placeholder", "restored", "real"} /\ row' \in {"none", "placeholder", "real"}
BY DEF TypeInv, Registers, insert_pool

\* The steps that fetch, one by one.
LEMMA FetchingKeepsLife ==
    ASSUME LifeInv, Fetching
    PROVE  LifeInv'
<1> USE DEF LifeInv, TypeInv, Excused
<1>0. PICK got \in SUBSET Companions(venue) :
          Discovered(got) \/ Revalidates(got) \/ QuotesCold(got) \/ RetriesDormant(got) \/ SwapLoads(got) \/ AccountFetched(got)
  BY DEF Fetching
<1>f. Fetched(got) \in States /\ ~Unread(Fetched(got))
  BY FetchedIsRead
<1>1. CASE Discovered(got)
  BY <1>1, <1>f DEF Discovered, StoreFetched, Holds, insert_pool, fixed, files
<1>2. CASE Revalidates(got)
  <2>1. CASE venue # "PumpFunAmm"
    BY <1>2, <1>f, <2>1 DEF Revalidates, StoreFetched, Holds, Rest, fixed, files
  <2>2. CASE venue = "PumpFunAmm"
    <3>1. Configured(cached) \in States /\ ~Unread(Configured(cached)) /\ ~Unread(cached)
      BY <2>2 DEF Configured, States, Rates, Unread
    <3> QED BY <1>2, <2>2, <3>1 DEF Revalidates, StoreFetched, Holds, Rest, fixed, files
  <2> QED BY <2>1, <2>2
<1>3. CASE QuotesCold(got)
  BY <1>3, <1>f DEF QuotesCold, StoreFetched, Holds, Rest, fixed, files
<1>4. CASE RetriesDormant(got)
  BY <1>4, <1>f DEF RetriesDormant, StoreFetched, Holds, Rest, fixed, files
<1>5. CASE SwapLoads(got)
  <2> DEFINE st == IF cached = Nothing THEN Fetched(got) ELSE cached
             paid == IF "loaded" \in read THEN st ELSE ensure_pamm_fee_accounts(venue, st, Has(got))
             reread == IF stale /\ venue # "PumpFunAmm" THEN Fetched(got) ELSE paid
             kept == IF reread = Nothing THEN paid ELSE reread
  <2>1. cached' = kept /\ bare' = (bare /\ kept = cached)
    BY <1>5 DEF SwapLoads
  <2>2. st \in States /\ (Unread(st) => st = cached /\ Unread(cached))
    BY <1>f
  <2>3. paid \in States /\ (Unread(paid) => paid = cached /\ Unread(cached))
    BY <2>2, FeeAccountsRead DEF Unread
  <2>4. kept \in States /\ (Unread(kept) => kept = cached /\ Unread(cached))
    BY <2>3, <1>f
  <2> HIDE DEF st, paid, reread, kept
  <2>5. cached' \in States /\ bare' \in BOOLEAN
    BY <2>1, <2>4
  <2>6. Unread(cached') => venue = "RaydiumLp" /\ bare'
    BY <2>1, <2>4
  <2>7. UNCHANGED <<venue, file, registry, row, saving>>
    BY <1>5 DEF SwapLoads, Rest, fixed, files
  <2> QED BY <2>5, <2>6, <2>7 DEF Unread
<1>6. CASE AccountFetched(got)
  <2>1. venue # "RaydiumLp"
    BY <1>6, MirrorParsed DEF AccountFetched, Inline
  <2>2. Carried(Fetched(got)) \in States /\ ~Unread(Carried(Fetched(got)))
    BY <1>f, <2>1, CarriedRead DEF Carried
  <2>3. cached' = Carried(Fetched(got)) /\ bare' = FALSE /\ UNCHANGED <<venue, file, saving>>
    BY <1>6 DEF AccountFetched, StoreFetched, Holds, fixed, files
  <2>4. registry' \in {"none", "placeholder", "restored", "real"} /\ row' \in {"none", "placeholder", "real"}
    BY <1>6, RegistersTyped DEF AccountFetched
  <2> QED BY <2>2, <2>3, <2>4 DEF Unread
<1> QED BY <1>0, <1>1, <1>2, <1>3, <1>4, <1>5, <1>6

\* An account update parsed inline: the step that the ghost bare records.
LEMMA UpdateKeepsLife ==
    ASSUME LifeInv, AccountUpdates
    PROVE  LifeInv'
<1> USE DEF LifeInv, TypeInv, Excused
<1>1. Inline \in States /\ (Unread(Inline) => venue = "RaydiumLp")
  BY MirrorParsed DEF Inline
<1>2. Carried(Inline) \in States
  BY <1>1, CarriedRead DEF Carried
<1>3. Unread(Carried(Inline)) => venue = "RaydiumLp" /\ (bare \/ cached = Nothing)
  <2>1. CASE cached = Nothing
    BY <1>1, <2>1 DEF Carried
  <2>2. CASE cached # Nothing
    BY <1>1, <2>2, CarriedRead DEF Carried
  <2> QED BY <2>1, <2>2
<1>4. cached' = Carried(Inline) /\ bare' = (bare \/ cached = Nothing) /\ UNCHANGED <<venue, file, saving>>
  BY DEF AccountUpdates, Holds, fixed, files
<1>5. registry' \in {"none", "placeholder", "restored", "real"} /\ row' \in {"none", "placeholder", "real"}
  BY RegistersTyped DEF AccountUpdates
<1>6. bare' \in BOOLEAN
  BY <1>4
<1> QED BY <1>2, <1>3, <1>4, <1>5, <1>6 DEF Unread

\* A start takes the state and its ghost from the same file.
LEMMA StartKeepsLife ==
    ASSUME LifeInv, Start
    PROVE  LifeInv'
<1> USE DEF LifeInv, TypeInv, Excused
<1>1. UNCHANGED <<venue, file, saving>>
  BY DEF Start, fixed, files
<1>2. CASE FromTable
  BY <1>1, <1>2, NoState DEF FromTable, Restored, Unread
<1>3. CASE FromFile
  <2>1. cached' = file.state /\ bare' = file.bare
    BY <1>3 DEF FromFile
  <2>2. registry' \in {"none", "placeholder", "restored", "real"}
    BY <1>3 DEF FromFile, Restored
  <2>3. row' \in {"none", "placeholder", "real"}
    BY <1>3 DEF FromFile, insert_pool
  <2> QED BY <1>1, <2>1, <2>2, <2>3 DEF Unread
<1>4. CASE FromNothing
  BY <1>1, <1>4, NoState DEF FromNothing, Unread
<1> QED BY <1>2, <1>3, <1>4 DEF Start, try_bootstrap

\* Every step of the process.
LEMMA NextKeepsLife == LifeInv /\ [LifeNext]_life_vars => LifeInv'
<1> SUFFICES ASSUME LifeInv, [LifeNext]_life_vars PROVE LifeInv'
  OBVIOUS
<1> USE DEF LifeInv, TypeInv, Excused, Unread
<1>1. CASE Start
  BY <1>1, StartKeepsLife
<1>2. CASE Crash
  BY <1>2, NoState DEF Crash, fixed
<1>3. CASE BlockSees
  BY <1>3 DEF BlockSees, fixed, memory, files
<1>4. CASE DiscoveryFails
  BY <1>4 DEF DiscoveryFails, fixed, memory, files
<1>5. CASE FailureExpires
  BY <1>5 DEF FailureExpires, fixed, memory, files
<1>6. CASE Fetching
  BY <1>6, FetchingKeepsLife
<1>7. CASE Quiet
  BY <1>7 DEF Quiet, Rest, fixed, files
<1>8. CASE BlockRefreshes
  <2>1. CASE venue = "Meteora" /\ Holds(cached)
    BY <1>8, <2>1 DEF BlockRefreshes, Holds, Rest, fixed, files
  <2>2. CASE Holds(reparse_pool_state(venue, cached, read))
    BY <1>8, <2>2, ReparsedRead DEF BlockRefreshes, Holds, Rest, fixed, files
  <2> QED BY <1>8, <2>1, <2>2 DEF BlockRefreshes
<1>9. CASE ColdFails
  BY <1>9 DEF ColdFails, Rest, fixed, memory, files
<1>10. CASE TransactionSees
  BY <1>10 DEF TransactionSees, insert_pool, fixed, memory, files
<1>11. CASE AccountUpdates
  BY <1>11, UpdateKeepsLife
<1>12. CASE SaveBegins
  BY <1>12 DEF SaveBegins, Entry, fixed, memory
<1>13. CASE SaveEnds
  BY <1>13 DEF SaveEnds, fixed, memory
<1>14. CASE SavesSnapshot
  BY <1>14, NoState DEF SavesSnapshot, Entry, fixed, memory
<1>15. CASE Prune
  BY <1>15, NoState DEF Prune, fixed, files
<1>16. CASE PruneSlips
  BY <1>16 DEF PruneSlips, fixed, memory, files
<1>17. CASE UNCHANGED life_vars
  BY <1>17 DEF life_vars
<1> QED BY <1>1, <1>2, <1>3, <1>4, <1>5, <1>6, <1>7, <1>8, <1>9, <1>10, <1>11, <1>12, <1>13, <1>14, <1>15, <1>16, <1>17 DEF LifeNext

-----------------------------------------------------------------------------
(* Theorems                                                                 *)

\* Whatever is in the cache or in the file for the next start, zero rates are there
\* only for a LaunchLab pool, and only from an account update that found no state
\* (fetcher.rs parse_raydium_lp, geyser.rs handle_account_update).
THEOREM ZerosHaveOneSource == LifeSpec => []LifeInv
<1>1. LifeInit => LifeInv
  BY InitLife
<1>2. LifeInv /\ [LifeNext]_life_vars => LifeInv'
  BY NextKeepsLife
<1> QED BY <1>1, <1>2, PTL DEF LifeSpec

\* No quote takes rates that nobody has read, but for such an update: however
\* fetches fail, companions are lost, states are carried over, saved and loaded
\* again (fetcher.rs launchlab_fee_rates, carry_over_from_prev; warm.rs).
THEOREM RatesAreKnown == LifeSpec => []RatesKnown
<1>1. LifeInv => RatesKnown
  BY DEF LifeInv, TypeInv, Excused, Unread, RatesKnown
<1> QED BY <1>1, ZerosHaveOneSource, PTL

-----------------------------------------------------------------------------
(* What has been read of a listed pool is not lost                          *)
(*                                                                          *)
(* Whether a step loses rates depends on where a venue has them: a fetch    *)
(* finds them again in a config that the process holds, or in the account.  *)
(* So KnowledgeInv adds that rates said to be of a config, or of the        *)
(* account, are of a venue that has them there, in the cache and in the     *)
(* file.                                                                    *)

ByConfig == ClmmLike \cup {"RaydiumCpmm", "RaydiumLp", "MeteoraDbc", "PumpFunAmm"}
ByTable == {"Saros", "Pumpup"}
Plausible(v, st) ==
    /\ st.rates = "config" => v \in ByConfig
    /\ st.rates = "pool" => v \notin ByConfig \cup ByTable

KnowledgeInv ==
    /\ LifeInv
    /\ Plausible(venue, cached) /\ Plausible(venue, file.state)
    /\ discoveries \in Nat

-----------------------------------------------------------------------------
(* What the parsers return                                                  *)

\* The bytes of the pool account say rates are in the account where they are.
LEMMA BytesPlausible ==
    ASSUME NEW v \in PoolTypes
    PROVE  Plausible(v, parse_pool_state_from_bytes(v))
BY DEF Plausible, ByConfig, ByTable, PoolTypes, ClmmLike, SplForks, parse_pool_state_from_bytes, Nothing, InPool, Fallback,
       parse_raydium_v4, parse_raydium_cpmm, parse_raydium_clmm, parse_byreal, parse_pancakeswap, parse_raydium_lp,
       parse_meteora_dlmm, parse_meteora_damm, parse_orca, parse_spl_token_swap, parse_saros, parse_flash_trade,
       parse_defituna_fusion, parse_defituna_pools, parse_pumpup

\* A fetch that has the config reads the rates from it, a fetch of a venue that
\* has them in the account finds them there, and the recipients with them.
LEMMA FetchComplete ==
    ASSUME NEW v \in PoolTypes, NEW has, fetch_pool_state(v, has) # Nothing
    PROVE  /\ v # "PumpFunAmm" => fetch_pool_state(v, has).recipients
           /\ v \in ByConfig \ {"PumpFunAmm"} /\ "config" \in has => fetch_pool_state(v, has).rates = "config"
           /\ v \notin ByConfig \cup ByTable => fetch_pool_state(v, has).rates = "pool"
<1> USE DEF ByConfig, ByTable, ClmmLike
<1>1. CASE v = "RaydiumCpmm"
  BY <1>1 DEF fetch_pool_state, cpmm_config_fees, Configured, parse_raydium_cpmm, Fallback
<1>2. CASE v \in ClmmLike
  <2>1. parse_pool_state_from_bytes(v) = Fallback
    BY <1>2 DEF parse_pool_state_from_bytes, SplForks, parse_raydium_clmm, parse_byreal, parse_pancakeswap
  <2>2. fetch_pool_state(v, has) = clmm_fee_rate_u16(parse_pool_state_from_bytes(v), has)
    BY <1>2 DEF fetch_pool_state
  <2> QED BY <1>2, <2>1, <2>2 DEF clmm_fee_rate_u16, Configured, Fallback
<1>3. CASE v = "RaydiumLp"
  BY <1>3 DEF fetch_pool_state, launchlab_fee_rates, Configured, parse_raydium_lp
<1>4. CASE v = "PumpFun"
  BY <1>4 DEF fetch_pool_state, parse_pumpfun, pumpfun_state
<1>5. CASE v \in {"Meteora", "PumpupBonding"}
  BY <1>5 DEF fetch_pool_state, parse_meteora, parse_pumpup_bonding, InPool
<1>6. CASE v = "MeteoraDbc"
  BY <1>6 DEF fetch_pool_state, parse_meteora_dbc, dbc_state
<1>7. CASE v = "PumpFunAmm"
  BY <1>7
<1>8. CASE v \notin ClmmLike \cup {"RaydiumCpmm", "RaydiumLp", "PumpFun", "PumpFunAmm", "Meteora", "MeteoraDbc", "PumpupBonding"}
  <2>1. fetch_pool_state(v, has) = parse_pool_state_from_bytes(v)
    BY <1>8 DEF fetch_pool_state
  <2>2. v \in ByTable => parse_pool_state_from_bytes(v).recipients
    BY DEF parse_pool_state_from_bytes, SplForks, parse_saros, parse_pumpup, Fallback
  <2>3. v \notin ByTable => parse_pool_state_from_bytes(v) = InPool
    BY <1>8 DEF PoolTypes, SplForks, parse_pool_state_from_bytes, parse_raydium_v4, parse_meteora_dlmm, parse_meteora_damm,
       parse_orca, parse_spl_token_swap, parse_flash_trade, parse_defituna_fusion, parse_defituna_pools
  <2> QED BY <1>8, <2>1, <2>2, <2>3 DEF InPool
<1> QED BY <1>1, <1>2, <1>3, <1>4, <1>5, <1>6, <1>7, <1>8

\* A full fetch says config, or account, of a venue that has the rates there.
LEMMA FetchPlausible ==
    ASSUME NEW v \in PoolTypes, NEW has
    PROVE  Plausible(v, fetch_pool_state(v, has))
<1> USE DEF Plausible, ByConfig, ByTable
<1>1. CASE v \in ByConfig
  <2>1. CASE v = "PumpFunAmm"
    BY <2>1 DEF fetch_pool_state, parse_pumpfun_amm, ClmmLike
  <2>2. CASE v = "MeteoraDbc"
    BY <2>2 DEF fetch_pool_state, parse_meteora_dbc, dbc_state, Nothing, ClmmLike
  <2>3. CASE v = "RaydiumLp"
    BY <2>3 DEF fetch_pool_state, launchlab_fee_rates, Configured, parse_raydium_lp, ClmmLike
  <2>4. CASE v = "RaydiumCpmm"
    BY <2>4 DEF fetch_pool_state, cpmm_config_fees, Configured, parse_raydium_cpmm, Fallback, ClmmLike
  <2>5. CASE v \in ClmmLike
    <3>1. parse_pool_state_from_bytes(v) = Fallback
      BY <2>5 DEF parse_pool_state_from_bytes, SplForks, parse_raydium_clmm, parse_byreal, parse_pancakeswap, ClmmLike
    <3>2. fetch_pool_state(v, has) = clmm_fee_rate_u16(parse_pool_state_from_bytes(v), has)
      BY <2>5 DEF fetch_pool_state, ClmmLike
    <3> QED BY <2>5, <3>1, <3>2 DEF clmm_fee_rate_u16, Configured, Fallback
  <2> QED BY <1>1, <2>1, <2>2, <2>3, <2>4, <2>5
<1>2. CASE v \in ByTable
  <2>1. fetch_pool_state(v, has) = Fallback
    BY <1>2 DEF fetch_pool_state, ClmmLike, parse_pool_state_from_bytes, SplForks, parse_saros, parse_pumpup
  <2> QED BY <2>1 DEF Fallback
<1>3. CASE v \notin ByConfig \cup ByTable
  <2>1. fetch_pool_state(v, has) = Nothing \/ fetch_pool_state(v, has).rates = "pool"
    BY <1>3, FetchComplete
  <2> QED BY <1>3, <2>1 DEF Nothing
<1> QED BY <1>1, <1>2, <1>3

\* What is carried over keeps what the earlier state knew.
LEMMA CarriedKeeps ==
    ASSUME NEW v \in PoolTypes, NEW st \in States, NEW prev \in States, Plausible(v, st), Plausible(v, prev),
           v \in {"RaydiumCpmm", "PumpFunAmm"} => st.rates \in {"fallback", "config"}
    PROVE  /\ Plausible(v, carry_over_from_prev(v, st, prev))
           /\ v \in ByConfig \ {"MeteoraDbc"} /\ prev.rates = "config" => carry_over_from_prev(v, st, prev).rates = "config"
           /\ v \notin ByConfig => carry_over_from_prev(v, st, prev) = st
           /\ st.recipients => carry_over_from_prev(v, st, prev).recipients
           /\ v = "PumpFunAmm" /\ prev.recipients => carry_over_from_prev(v, st, prev).recipients
           /\ v = "MeteoraDbc" => carry_over_from_prev(v, st, prev) = st
<1> USE DEF Plausible, ByConfig, ByTable, ClmmLike
<1>0. prev.rates \in Rates /\ st.rates \in Rates /\ prev.recipients \in BOOLEAN /\ st.recipients \in BOOLEAN
  BY DEF States
<1>1. CASE v \in ClmmLike \cup {"RaydiumLp"}
  <2>1. carry_over_from_prev(v, st, prev) = [st EXCEPT !.rates = prev.rates]
    BY <1>1 DEF carry_over_from_prev
  <2>2. /\ carry_over_from_prev(v, st, prev).rates = prev.rates
        /\ carry_over_from_prev(v, st, prev).recipients = st.recipients
    BY <2>1 DEF States
  <2> QED BY <1>1, <2>2
<1>2. CASE v = "RaydiumCpmm"
  <2>1. carry_over_from_prev(v, st, prev) = [st EXCEPT !.rates = IF @ = "fallback" THEN prev.rates ELSE @]
    BY <1>2 DEF carry_over_from_prev
  <2>2. /\ carry_over_from_prev(v, st, prev).rates = IF st.rates = "fallback" THEN prev.rates ELSE st.rates
        /\ carry_over_from_prev(v, st, prev).recipients = st.recipients
    BY <2>1 DEF States
  <2> QED BY <1>0, <1>2, <2>1, <2>2
<1>3. CASE v = "PumpFunAmm"
  <2>1. /\ carry_over_from_prev(v, st, prev).rates = IF st.rates = "fallback" THEN prev.rates ELSE st.rates
        /\ carry_over_from_prev(v, st, prev).recipients = (st.recipients \/ prev.recipients)
    BY <1>3 DEF carry_over_from_prev, carry_over_pamm_fee_accounts
  <2> QED BY <1>3, <2>1
<1>4. CASE v \notin ClmmLike \cup {"RaydiumLp", "RaydiumCpmm", "PumpFunAmm"}
  <2>1. carry_over_from_prev(v, st, prev) = st
    BY <1>4 DEF carry_over_from_prev, carry_over_pamm_fee_accounts
  <2> QED BY <1>4, <2>1
<1> QED BY <1>1, <1>2, <1>3, <1>4

\* And so does a parse with the mirror's companions.
LEMMA MirrorPlausible ==
    ASSUME NEW v \in PoolTypes, NEW with, NEW has
    PROVE  Plausible(v, parse_with_mirror(v, with, has))
<1>1. CASE is_sync_parseable(v)
  <2>1. v \notin {"PumpFunAmm", "Meteora", "MeteoraDbc", "PumpFun"}
    BY <1>1 DEF is_sync_parseable, parse_pool_state_from_bytes, SplForks
  <2>2. parse_with_mirror(v, with, has) = parse_pool_state_from_bytes(v)
    BY <1>1, <2>1 DEF parse_with_mirror
  <2> QED BY <2>2, BytesPlausible
<1>2. CASE ~is_sync_parseable(v)
  BY <1>2 DEF parse_with_mirror, parse_pumpfun_amm_with_balances, parse_pumpfun_amm_layout, parse_meteora_with_companion,
              parse_meteora_dbc, dbc_state, parse_pumpfun_with_companion, pumpfun_state, Nothing, Plausible, ByConfig, ByTable,
              ClmmLike
<1> QED BY <1>1, <1>2

\* An update is parsed inline but at the venues whose companions are not at hand,
\* and then with what a fetch finds too.
LEMMA MirrorComplete ==
    ASSUME NEW v \in PoolTypes, NEW with, NEW has
    PROVE  /\ v \in ByConfig \ {"MeteoraDbc"} => parse_with_mirror(v, with, has) # Nothing
           /\ v \in {"RaydiumCpmm", "PumpFunAmm"} => parse_with_mirror(v, with, has).rates = "fallback"
           /\ parse_with_mirror(v, with, has) # Nothing /\ v # "PumpFunAmm" => parse_with_mirror(v, with, has).recipients
           /\ parse_with_mirror(v, with, has) # Nothing /\ v = "MeteoraDbc" => parse_with_mirror(v, with, has).rates = "config"
           /\ parse_with_mirror(v, with, has) # Nothing /\ v \notin ByConfig \cup ByTable \cup {"Meteora"}
                 => parse_with_mirror(v, with, has).rates = "pool"
<1>1. CASE is_sync_parseable(v)
  <2>1. v \notin {"PumpFunAmm", "Meteora", "MeteoraDbc", "PumpFun"}
    BY <1>1 DEF is_sync_parseable, parse_pool_state_from_bytes, SplForks
  <2>2. parse_with_mirror(v, with, has) = parse_pool_state_from_bytes(v)
    BY <1>1, <2>1 DEF parse_with_mirror
  <2>3. parse_pool_state_from_bytes(v) # Nothing
    BY <1>1 DEF is_sync_parseable
  <2>4. parse_pool_state_from_bytes(v).recipients
    BY <2>3 DEF parse_pool_state_from_bytes, Nothing, InPool, Fallback,
       parse_raydium_v4, parse_raydium_cpmm, parse_raydium_clmm, parse_byreal, parse_pancakeswap, parse_raydium_lp,
       parse_meteora_dlmm, parse_meteora_damm, parse_orca, parse_spl_token_swap, parse_saros, parse_flash_trade,
       parse_defituna_fusion, parse_defituna_pools, parse_pumpup, SplForks
  <2>5. v \notin ByConfig \cup ByTable => parse_pool_state_from_bytes(v).rates = "pool"
    BY <2>3 DEF parse_pool_state_from_bytes, Nothing, InPool, ByConfig, ByTable, ClmmLike, SplForks,
       parse_raydium_v4, parse_meteora_dlmm, parse_meteora_damm, parse_orca, parse_spl_token_swap, parse_flash_trade,
       parse_defituna_fusion, parse_defituna_pools
  <2>6. v = "RaydiumCpmm" => parse_pool_state_from_bytes(v).rates = "fallback"
    BY DEF parse_pool_state_from_bytes, parse_raydium_cpmm, Fallback, SplForks
  <2> QED BY <2>1, <2>2, <2>3, <2>4, <2>5, <2>6
<1>2. CASE ~is_sync_parseable(v)
  <2>1. v \in ByConfig => v \in {"PumpFunAmm", "MeteoraDbc"}
    BY <1>2 DEF is_sync_parseable, parse_pool_state_from_bytes, Nothing, ByConfig, ClmmLike, SplForks, parse_raydium_cpmm,
       parse_raydium_clmm, parse_byreal, parse_pancakeswap, parse_raydium_lp, Fallback
  <2> QED BY <1>2, <2>1 DEF parse_with_mirror, parse_pumpfun_amm_with_balances, parse_pumpfun_amm_layout,
              parse_meteora_with_companion, parse_meteora_dbc, dbc_state, parse_pumpfun_with_companion, pumpfun_state,
              Nothing, ByConfig, ByTable
<1> QED BY <1>1, <1>2

\* A re-parse from a block keeps what the state knew.
LEMMA ReparsedKeeps ==
    ASSUME NEW v \in PoolTypes, NEW prev \in States, NEW has, Plausible(v, prev), reparse_pool_state(v, prev, has) # Nothing
    PROVE  /\ Plausible(v, reparse_pool_state(v, prev, has))
           /\ prev.rates = "config" => reparse_pool_state(v, prev, has).rates = "config"
           /\ prev.rates = "pool" => reparse_pool_state(v, prev, has).rates = "pool"
           /\ reparse_pool_state(v, prev, has).recipients
<1>1. CASE v = "PumpFun"
  BY <1>1 DEF reparse_pool_state, ReparsedCurve, pumpfun_state, Nothing, Plausible, ByConfig, ByTable, ClmmLike
<1>2. CASE v = "MeteoraDbc"
  BY <1>2 DEF reparse_pool_state, dbc_state, Nothing, Plausible, ByConfig, ByTable
<1>3. CASE v \notin {"PumpFun", "MeteoraDbc"}
  <2> DEFINE st == parse_pool_state_from_bytes(v)
  <2>1. /\ v = "RaydiumV4" \/ is_state_priced(v)
        /\ reparse_pool_state(v, prev, has) = carry_over_from_prev(v, st, prev)
    BY <1>3 DEF reparse_pool_state
  <2>2. v \in ClmmLike \cup {"RaydiumLp", "RaydiumV4", "Orca", "DefiTunaFusion", "MeteoraDamm", "MeteoraDlmm"}
    BY <1>3, <2>1 DEF is_state_priced
  <2>3. st.recipients /\ (v \notin ByConfig => st.rates = "pool")
    BY <2>2 DEF parse_pool_state_from_bytes, ClmmLike, SplForks, ByConfig, InPool, Fallback, parse_raydium_v4,
       parse_raydium_clmm, parse_byreal, parse_pancakeswap, parse_raydium_lp, parse_meteora_dlmm, parse_meteora_damm,
       parse_orca, parse_defituna_fusion
  <2>4. st \in States /\ Plausible(v, st)
    BY BytesParsed, BytesPlausible
  <2> HIDE DEF st
  <2>5. v \in ByConfig => v \in ByConfig \ {"MeteoraDbc"}
    BY <1>3
  <2>6. v \notin {"RaydiumCpmm", "PumpFunAmm"}
    BY <2>2 DEF ClmmLike
  <2>7. /\ Plausible(v, carry_over_from_prev(v, st, prev))
        /\ v \in ByConfig /\ prev.rates = "config" => carry_over_from_prev(v, st, prev).rates = "config"
        /\ v \notin ByConfig => carry_over_from_prev(v, st, prev) = st
        /\ carry_over_from_prev(v, st, prev).recipients
    BY <2>3, <2>4, <2>5, <2>6, CarriedKeeps
  <2> QED BY <2>1, <2>3, <2>7 DEF Plausible
<1> QED BY <1>1, <1>2, <1>3

\* Filling in fee accounts takes nothing away.
LEMMA FeeAccountsKeep ==
    ASSUME NEW v \in PoolTypes, NEW st \in States, NEW has, Plausible(v, st)
    PROVE  /\ Plausible(v, ensure_pamm_fee_accounts(v, st, has))
           /\ v # "PumpFunAmm" => ensure_pamm_fee_accounts(v, st, has) = st
           /\ st.rates = "config" => ensure_pamm_fee_accounts(v, st, has).rates = "config"
           /\ st.recipients => ensure_pamm_fee_accounts(v, st, has).recipients
<1>1. CASE v = "PumpFunAmm"
  BY <1>1 DEF ensure_pamm_fee_accounts, needs_pamm_fee_accounts, carry_over_pamm_fee_accounts, parse_pumpfun_amm,
              States, Rates, Plausible, ByConfig, ByTable
<1>2. CASE v # "PumpFunAmm"
  BY <1>2 DEF ensure_pamm_fee_accounts, needs_pamm_fee_accounts
<1> QED BY <1>1, <1>2

-----------------------------------------------------------------------------
(* The invariant                                                            *)

\* Absence of a state claims nothing.
LEMMA NoPlausible == ASSUME NEW v PROVE Plausible(v, Nothing)
BY DEF Plausible, Nothing

\* Nothing is cached, and the older file holds a fetched state.
LEMMA InitKnowledge == LifeInit => KnowledgeInv
<1> SUFFICES ASSUME LifeInit PROVE KnowledgeInv
  OBVIOUS
<1>1. LifeInv /\ venue \in PoolTypes
  BY InitLife DEF LifeInv, TypeInv
<1>2. Plausible(venue, Outdated(venue))
  <2>1. CASE venue = "MeteoraDbc"
    BY <2>1 DEF Outdated, dbc_state, Plausible
  <2>2. CASE venue # "MeteoraDbc"
    <3>1. Outdated(venue).rates = fetch_pool_state(venue, Companions(venue)).rates
      BY <1>1, <2>2, FetchRead DEF Outdated, States
    <3> QED BY <1>1, <3>1, FetchPlausible DEF Plausible
  <2> QED BY <2>1, <2>2
<1>3. Plausible(venue, file.state)
  BY <1>2, NoPlausible DEF LifeInit, NoFile
<1>4. Plausible(venue, cached) /\ discoveries \in Nat
  BY NoPlausible DEF LifeInit
<1> QED BY <1>1, <1>3, <1>4 DEF KnowledgeInv

\* What a fetch finds, of a venue whose rates it can find again.
LEMMA FetchedKeeps ==
    ASSUME KnowledgeInv, NEW got, Fetched(got) # Nothing, venue # "PumpFunAmm"
    PROVE  /\ Held /\ cached.rates = "config" => Fetched(got).rates = "config"
           /\ cached.rates = "pool" => Fetched(got).rates = "pool"
           /\ Fetched(got).recipients
<1>1. venue \in PoolTypes
  BY DEF KnowledgeInv, LifeInv, TypeInv
<1>2. Held /\ venue \in ByConfig => "config" \in Has(got)
  BY DEF Held, Kept, Companions, Expires, Has, ByConfig, ClmmLike
<1> QED BY <1>1, <1>2, FetchComplete DEF Fetched, KnowledgeInv, Plausible

\* What an update or a fetch leaves of the state, carried over.
LEMMA UpdateKeeps ==
    ASSUME KnowledgeInv, NEW st \in States, Plausible(venue, st),
           venue \in {"RaydiumCpmm", "PumpFunAmm"} => st.rates \in {"fallback", "config"}
    PROVE  Plausible(venue, Carried(st))
<1>1. venue \in PoolTypes /\ cached \in States /\ Plausible(venue, cached)
  BY DEF KnowledgeInv, LifeInv, TypeInv
<1> QED BY <1>1, CarriedKeeps DEF Carried

\* The state that SwapLoads puts back is the fetched one, or the one it started from
\* with fee accounts.
Loaded(st, got) == IF "loaded" \in read THEN st ELSE ensure_pamm_fee_accounts(venue, st, Has(got))

\* What a swap build leaves in the cache.
LEMMA SwapStores ==
    ASSUME NEW got, SwapLoads(got)
    PROVE  LET st == IF cached = Nothing THEN Fetched(got) ELSE cached
           IN \/ cached' = Loaded(st, got)
              \/ venue # "PumpFunAmm" /\ Fetched(got) # Nothing /\ cached' = Fetched(got)
BY DEF SwapLoads, Loaded

\* The first of the two keeps what was known.
LEMMA LoadedKeeps ==
    ASSUME NEW st \in States, NEW got, venue \in PoolTypes, Plausible(venue, st)
    PROVE  /\ Plausible(venue, Loaded(st, got))
           /\ st.rates = "config" => Loaded(st, got).rates = "config"
           /\ st.rates = "pool" => Loaded(st, got).rates = "pool"
           /\ st.recipients => Loaded(st, got).recipients
BY FeeAccountsKeep DEF Loaded, Plausible, ByConfig

\* The cache after a step, by action.
LEMMA CachePlausible ==
    ASSUME KnowledgeInv, LifeNext
    PROVE  Plausible(venue, cached)'
<1>t. venue \in PoolTypes /\ cached \in States /\ file.state \in States
  BY DEF KnowledgeInv, LifeInv, TypeInv
<1>p. Plausible(venue, cached) /\ Plausible(venue, file.state)
  BY DEF KnowledgeInv
<1>1. CASE Start
  <2>1. venue' = venue /\ (cached' = Nothing \/ cached' = file.state)
    BY <1>1 DEF Start, try_bootstrap, FromTable, FromFile, FromNothing, fixed
  <2> QED BY <1>p, <2>1, NoPlausible DEF Plausible
<1>2. CASE Crash \/ Prune
  <2>1. venue' = venue /\ cached' = Nothing
    BY <1>2 DEF Crash, Prune, fixed
  <2> QED BY <2>1, NoPlausible DEF Plausible
<1>3. CASE BlockSees \/ DiscoveryFails \/ FailureExpires \/ TransactionSees \/ SaveBegins \/ SaveEnds \/ SavesSnapshot \/ PruneSlips
  BY <1>3, <1>p DEF BlockSees, DiscoveryFails, FailureExpires, TransactionSees, SaveBegins, SaveEnds, SavesSnapshot, PruneSlips,
                    memory, fixed, Plausible
<1>4. CASE Quiet \/ ColdFails
  BY <1>4, <1>p DEF Quiet, ColdFails, Rest, memory, fixed, Plausible
<1>5. CASE BlockRefreshes
  <2>1. venue' = venue
    BY <1>5 DEF BlockRefreshes, Rest, fixed
  <2>2. \/ cached' = cached
        \/ /\ reparse_pool_state(venue, cached, read) # Nothing
           /\ cached' = reparse_pool_state(venue, cached, read)
    BY <1>5 DEF BlockRefreshes, Holds
  <2> QED BY <1>t, <1>p, <2>1, <2>2, ReparsedKeeps DEF Plausible
<1>6. CASE AccountUpdates
  <2>1. venue' = venue /\ cached' = Carried(Inline)
    BY <1>6 DEF AccountUpdates, Holds, fixed
  <2>2. Inline \in States /\ Plausible(venue, Inline)
    BY <1>t, MirrorParsed, MirrorPlausible DEF Inline
  <2>3. venue \in {"RaydiumCpmm", "PumpFunAmm"} => Inline.rates = "fallback"
    BY <1>t, MirrorComplete DEF Inline
  <2>4. Plausible(venue, Carried(Inline))
    BY <2>2, <2>3, UpdateKeeps
  <2> QED BY <2>1, <2>4 DEF Plausible
<1>7. CASE Fetching
  <2>0. PICK got \in SUBSET Companions(venue) :
          Discovered(got) \/ Revalidates(got) \/ QuotesCold(got) \/ RetriesDormant(got) \/ SwapLoads(got) \/ AccountFetched(got)
    BY <1>7 DEF Fetching
  <2>f. Fetched(got) \in States /\ Plausible(venue, Fetched(got))
    BY <1>t, FetchRead, FetchPlausible DEF Fetched
  <2>1. CASE Discovered(got) \/ QuotesCold(got) \/ RetriesDormant(got)
    <3>1. venue' = venue /\ cached' = Fetched(got)
      BY <2>1 DEF Discovered, QuotesCold, RetriesDormant, StoreFetched, Holds, Rest, fixed
    <3> QED BY <2>f, <3>1 DEF Plausible
  <2>2. CASE Revalidates(got)
    <3>1. /\ venue' = venue
          /\ \/ cached' = Fetched(got)
             \/ venue = "PumpFunAmm" /\ cached' \in {cached, Configured(cached)}
      BY <2>2 DEF Revalidates, StoreFetched, Holds, Rest, fixed
    <3>2. venue = "PumpFunAmm" => Plausible(venue, Configured(cached))
      BY <1>t DEF Configured, States, Plausible, ByConfig
    <3> QED BY <1>p, <2>f, <3>1, <3>2 DEF Plausible
  <2>3. CASE SwapLoads(got)
    <3>1. venue' = venue
      BY <2>3 DEF SwapLoads, Rest, fixed
    <3> QED BY <1>t, <1>p, <2>f, <2>3, <3>1, SwapStores, LoadedKeeps DEF Plausible
  <2>4. CASE AccountFetched(got)
    <3>1. venue' = venue /\ cached' = Carried(Fetched(got))
      BY <2>4 DEF AccountFetched, StoreFetched, Holds, fixed
    <3>2. venue \notin {"RaydiumCpmm", "PumpFunAmm"}
      BY <1>t, <2>4, MirrorComplete DEF AccountFetched, Inline, ByConfig, ClmmLike
    <3>3. Plausible(venue, Carried(Fetched(got)))
      BY <2>f, <3>2, UpdateKeeps
    <3> QED BY <3>1, <3>3 DEF Plausible
  <2> QED BY <2>0, <2>1, <2>2, <2>3, <2>4
<1> QED BY <1>1, <1>2, <1>3, <1>4, <1>5, <1>6, <1>7 DEF LifeNext

\* The file is as it was, or has the cached state, or none.
LEMMA FilePlausible ==
    ASSUME KnowledgeInv, LifeNext
    PROVE  Plausible(venue, file.state)'
<1>p. Plausible(venue, cached) /\ Plausible(venue, file.state)
  BY DEF KnowledgeInv
<1>1. venue' = venue /\ (file' = file \/ file'.state = cached \/ file'.state = Nothing)
  BY DEF LifeNext, Fetching, Start, Crash, BlockSees, DiscoveryFails, FailureExpires, Discovered, Revalidates, QuotesCold,
         RetriesDormant, SwapLoads, AccountFetched, Quiet, BlockRefreshes, ColdFails, TransactionSees, AccountUpdates,
         SaveBegins, SaveEnds, SavesSnapshot, Prune, PruneSlips, Rest, fixed, files
<1> QED BY <1>p, <1>1, NoPlausible DEF Plausible

\* Only a running discovery ends.
LEMMA DiscoveriesCounted ==
    ASSUME discoveries \in Nat, LifeNext
    PROVE  discoveries' \in Nat
BY DEF LifeNext, Fetching, Start, Crash, BlockSees, DiscoveryFails, FailureExpires, Discovered, Revalidates, QuotesCold,
       RetriesDormant, SwapLoads, AccountFetched, Quiet, BlockRefreshes, ColdFails, TransactionSees, AccountUpdates,
       SaveBegins, SaveEnds, SavesSnapshot, Prune, PruneSlips, Rest, scanner

\* Every step of the process.
LEMMA NextKeepsKnowledge == KnowledgeInv /\ [LifeNext]_life_vars => KnowledgeInv'
<1> SUFFICES ASSUME KnowledgeInv, [LifeNext]_life_vars PROVE KnowledgeInv'
  OBVIOUS
<1>1. LifeInv'
  BY NextKeepsLife DEF KnowledgeInv
<1>2. CASE LifeNext
  BY <1>1, <1>2, CachePlausible, FilePlausible, DiscoveriesCounted DEF KnowledgeInv
<1>3. CASE UNCHANGED life_vars
  BY <1>1, <1>3 DEF KnowledgeInv, Plausible, life_vars
<1> QED BY <1>2, <1>3

-----------------------------------------------------------------------------
(* A step                                                                   *)

\* Steps that may not lose anything.
Listed == Known /\ up' /\ cached # Nothing /\ cached' # Nothing

\* No such step loses anything, by action.
LEMMA StepKeeps ==
    ASSUME KnowledgeInv, LifeNext, Listed,
           ~(is_dormant /\ failures' = 0),
           ~(registry = "real" /\ discoveries' < discoveries),
           ~(geyser /\ venue = "Meteora")
    PROVE  ~Loses
<1>t. venue \in PoolTypes /\ cached \in States /\ discoveries \in Nat
  BY DEF KnowledgeInv, LifeInv, TypeInv
<1>p. Plausible(venue, cached)
  BY DEF KnowledgeInv
<1>0. cached' = cached => ~Loses
  BY DEF Loses
<1>1. CASE Start \/ Crash \/ Prune
  BY <1>1 DEF Start, Crash, Prune, Listed, Known
<1>2. CASE BlockSees \/ DiscoveryFails \/ FailureExpires \/ TransactionSees \/ SaveBegins \/ SaveEnds \/ SavesSnapshot \/ PruneSlips
  <2>1. cached' = cached
    BY <1>2 DEF BlockSees, DiscoveryFails, FailureExpires, TransactionSees, SaveBegins, SaveEnds, SavesSnapshot, PruneSlips, memory
  <2> QED BY <1>0, <2>1
<1>3. CASE Quiet \/ ColdFails
  <2>1. cached' = cached
    BY <1>3 DEF Quiet, ColdFails, memory
  <2> QED BY <1>0, <2>1
<1>4. CASE BlockRefreshes
  <2>1. \/ cached' = cached
        \/ /\ reparse_pool_state(venue, cached, read) # Nothing
           /\ cached' = reparse_pool_state(venue, cached, read)
    BY <1>4 DEF BlockRefreshes, Holds
  <2> QED BY <1>0, <1>t, <1>p, <2>1, ReparsedKeeps DEF Loses
<1>5. CASE AccountUpdates
  <2>1. cached' = carry_over_from_prev(venue, Inline, cached) /\ Inline # Nothing
    BY <1>5 DEF AccountUpdates, Holds, Carried, Listed
  <2>2. Inline \in States /\ Plausible(venue, Inline)
    BY <1>t, MirrorParsed, MirrorPlausible DEF Inline
  <2>3. /\ venue \in {"RaydiumCpmm", "PumpFunAmm"} => Inline.rates = "fallback"
        /\ venue # "PumpFunAmm" => Inline.recipients
        /\ venue = "MeteoraDbc" => Inline.rates = "config"
        /\ venue \notin ByConfig \cup ByTable => Inline.rates = "pool"
    <3>1. venue # "Meteora"
      BY <1>5 DEF AccountUpdates
    <3> QED BY <1>t, <2>1, <3>1, MirrorComplete DEF Inline
  <2>4. /\ venue \in ByConfig \ {"MeteoraDbc"} /\ cached.rates = "config" => cached'.rates = "config"
        /\ venue \notin ByConfig => cached' = Inline
        /\ Inline.recipients => cached'.recipients
        /\ venue = "PumpFunAmm" /\ cached.recipients => cached'.recipients
        /\ venue = "MeteoraDbc" => cached' = Inline
    BY <1>t, <1>p, <2>1, <2>2, <2>3, CarriedKeeps
  <2> QED BY <1>p, <2>3, <2>4 DEF Loses, Plausible
<1>6. CASE Fetching
  <2>0. PICK got \in SUBSET Companions(venue) :
          Discovered(got) \/ Revalidates(got) \/ QuotesCold(got) \/ RetriesDormant(got) \/ SwapLoads(got) \/ AccountFetched(got)
    BY <1>6 DEF Fetching
  <2>f. Fetched(got) # Nothing /\ venue # "PumpFunAmm" /\ cached' = Fetched(got) => ~Loses
    BY FetchedKeeps DEF Loses
  <2>1. CASE Discovered(got)
    BY <1>t, <2>1 DEF Discovered, Listed, Known
  <2>2. CASE QuotesCold(got)
    BY <2>2 DEF QuotesCold, Listed
  <2>3. CASE RetriesDormant(got)
    BY <2>3 DEF RetriesDormant, reset_failure
  <2>4. CASE Revalidates(got)
    <3>1. CASE venue # "PumpFunAmm"
      BY <2>4, <2>f, <3>1 DEF Revalidates, StoreFetched, Holds
    <3>2. CASE venue = "PumpFunAmm"
      <4>1. cached' = cached \/ cached' = Configured(cached)
        BY <2>4, <3>2 DEF Revalidates, StoreFetched, Holds
      <4>2. cached.rates # "pool"
        BY <1>p, <3>2 DEF Plausible, ByConfig
      <4> QED BY <1>0, <1>t, <4>1, <4>2 DEF Configured, States, Loses
    <3> QED BY <3>1, <3>2
  <2>5. CASE SwapLoads(got)
    <3>1. \/ cached' = Loaded(cached, got)
          \/ venue # "PumpFunAmm" /\ Fetched(got) # Nothing /\ cached' = Fetched(got)
      BY <2>5, SwapStores DEF Listed
    <3> QED BY <1>t, <1>p, <2>f, <3>1, LoadedKeeps DEF Loses
  <2>6. CASE AccountFetched(got)
    <3>1. cached' = carry_over_from_prev(venue, Fetched(got), cached) /\ Inline = Nothing /\ Fetched(got) # Nothing
      BY <2>6 DEF AccountFetched, StoreFetched, Holds, Carried, Listed
    <3>2. venue \notin ByConfig \ {"MeteoraDbc"}
      BY <1>t, <3>1, MirrorComplete DEF Inline
    <3>3. Fetched(got) \in States /\ Plausible(venue, Fetched(got))
      BY <1>t, FetchRead, FetchPlausible DEF Fetched
    <3>4. cached' = Fetched(got) /\ venue # "PumpFunAmm"
      BY <1>t, <1>p, <3>1, <3>2, <3>3, CarriedKeeps DEF ByConfig, ClmmLike
    <3> QED BY <2>f, <3>1, <3>4
  <2> QED BY <2>0, <2>1, <2>2, <2>3, <2>4, <2>5, <2>6
<1> QED BY <1>1, <1>2, <1>3, <1>4, <1>5, <1>6 DEF LifeNext

-----------------------------------------------------------------------------
(* Theorems                                                                 *)

\* No re-parse, refresh, revalidation, account update or swap trades the rates or the
\* recipients of a listed pool for less, in all the ways in which fetches fail by half
\* (fetcher.rs carry_over_from_prev, reparse_pool_state, ensure_pamm_fee_accounts;
\* server.rs; geyser.rs).
THEOREM KnowledgeIsKept == LifeSpec => KnowledgeKept
<1>1. LifeInit => KnowledgeInv
  BY InitKnowledge
<1>2. KnowledgeInv /\ [LifeNext]_life_vars => KnowledgeInv'
  BY NextKeepsKnowledge
<1>3. KnowledgeInv /\ [LifeNext]_life_vars
        => [~(/\ Known /\ up' /\ cached # Nothing /\ cached' # Nothing /\ Loses
              /\ ~(is_dormant /\ failures' = 0)
              /\ ~(registry = "real" /\ discoveries' < discoveries)
              /\ ~(geyser /\ venue = "Meteora"))]_life_vars
  BY StepKeeps DEF Listed
<1> QED BY <1>1, <1>2, <1>3, PTL DEF LifeSpec, KnowledgeKept
=============================================================================

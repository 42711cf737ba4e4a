------------------------------ MODULE PoolLife ------------------------------
(***************************************************************************)
(* One pool, from the first swap seen in it to its removal, and over       *)
(* crashes: discovery (src/stream/block_scanner.rs, or the Geyser stream), *)
(* what the fetches of src/pool/fetcher.rs learn of it, the copies kept    *)
(* for the next start (src/storage/), the bootstrap and the prune task     *)
(* (src/main.rs).                                                          *)
(*                                                                         *)
(* Here a step is a whole handler: PoolRefresh and GeyserSession model     *)
(* what happens between its awaits.  What is followed here, and there not, *)
(* is what each venue's state is made of, which of it is lost, and how a   *)
(* pool that got lost comes back.                                          *)
(***************************************************************************)
EXTENDS Naturals, VenueParsers

CONSTANTS
    Venues,          \* the types the pool may have
    MaxDiscoveries,  \* bound on the discovery tasks running at once
    Threshold,       \* DORMANT_THRESHOLD
    MaxCrashes       \* bound on crashes

ASSUME VenuesAssumption == Venues \subseteq PoolTypes
ASSUME BoundsAssumption == MaxDiscoveries \in Nat \ {0} /\ Threshold \in Nat \ {0} /\ MaxCrashes \in Nat

VARIABLES
    venue,        \* the type of the pool (never changes)
    geyser,       \* the deployment has an account stream (never changes)
    up,           \* the process runs
    registry,     \* "none", "placeholder" (default mints), "restored" (such an entry from a
                  \* file: nobody fetches it) or "real"
    cached,       \* the cached state, or Nothing
    stale,        \* it is older than revalidate_after
    bare,         \* ghost: it goes back to an account update parsed with no state before it
    read,         \* the companions that statics of the process hold
    mirror,       \* the companions that the Geyser mirror holds
    discoveries,  \* discovery tasks running
    failed,       \* FAILED_CANDIDATES has the pool
    failures,     \* PoolCache.failures, counted up to Threshold
    row,          \* the row of the SQLite table: "none", "placeholder" or "real"
    file,         \* what the warm file, or else the JSON snapshot, has of the pool
    saving,       \* the entry a running save has taken, or "idle"
    crashes       \* bound

life_vars == <<venue, geyser, up, registry, cached, stale, bare, read, mirror, discoveries, failed, failures,
               row, file, saving, crashes>>

fixed == <<venue, geyser>>
memory == <<cached, stale, bare>>
knowledge == <<read, mirror>>
scanner == <<discoveries, failed>>
files == <<file, saving>>
process == <<up, crashes>>

NoFile == [entry |-> "missing", state |-> Nothing, bare |-> FALSE]

\* A warm file of an older version: a state whose fields of today are empty.
Outdated(v) == IF v = "MeteoraDbc" THEN dbc_state("shut") ELSE [fetch_pool_state(v, Companions(v)) EXCEPT !.recipients = FALSE]

LifeInit ==
    /\ venue \in Venues
    /\ geyser \in BOOLEAN
    /\ up = FALSE /\ crashes = 0
    /\ registry = "none" /\ cached = Nothing /\ stale = FALSE /\ bare = FALSE
    /\ read = {} /\ mirror = {}
    /\ discoveries = 0 /\ failed = FALSE /\ failures = 0
    /\ row \in {"none", "real"}
    /\ file \in {NoFile, [entry |-> "real", state |-> Outdated(venue), bare |-> FALSE]}
    /\ saving = "idle"

is_quotable(v) == v \notin {"FlashTrade", "DefiTunaPools", "PumpupBonding"}
is_dormant == failures >= Threshold
record_failure == failures' = IF is_dormant THEN failures ELSE failures + 1
reset_failure == failures' = 0

-----------------------------------------------------------------------------
(* Reading the pool.                                                       *)

\* What a fetch has when the companions got can be read now.
Has(got) == got \cup (read \ Expires)

\* A curve's mint is read first, and a failure ends the fetch.
Learns(got) ==
    read' = read \cup IF "mint" \in Companions(venue) \ Has(got) THEN {} ELSE got \cap Kept(venue)

Fetched(got) == fetch_pool_state(venue, Has(got))

Holds(st) == cached' = st /\ stale' = FALSE
StoreFetched(st) == Holds(st) /\ bare' = FALSE

\* INSERT OR IGNORE, whose failure no caller looks at.
insert_pool(entry) == row' \in {row, IF row = "none" THEN entry ELSE row}

-----------------------------------------------------------------------------
(* Discovery without Geyser.                                               *)

\* The contains test and the placeholder are synchronous in the scanner's loop.
BlockSees ==
    /\ up /\ ~geyser
    /\ registry = "none" /\ ~failed
    /\ discoveries < MaxDiscoveries
    /\ registry' = "placeholder"
    /\ discoveries' = discoveries + 1
    /\ UNCHANGED <<fixed, process, memory, knowledge, failed, failures, row, files>>

Discovered(got) ==
    /\ up /\ discoveries > 0
    /\ Fetched(got) # Nothing
    /\ Learns(got)
    /\ StoreFetched(Fetched(got))
    /\ insert_pool("real")
    /\ registry' = "real"
    /\ discoveries' = discoveries - 1
    /\ UNCHANGED <<fixed, process, mirror, failed, failures, files>>

DiscoveryFailsKeepsPlaceholder ==
    /\ up /\ discoveries > 0
    /\ failed' = TRUE
    /\ discoveries' = discoveries - 1
    /\ UNCHANGED <<fixed, process, registry, memory, knowledge, failures, row, files>>

\* The account cannot be read, or is no pool, or a companion it needs is missing.
DiscoveryFails ==
    /\ up /\ discoveries > 0
    /\ registry' = "none"
    /\ failed' = TRUE
    /\ discoveries' = discoveries - 1
    /\ UNCHANGED <<fixed, process, memory, knowledge, failures, row, files>>

FailureExpires ==
    /\ failed
    /\ failed' = FALSE
    /\ UNCHANGED <<fixed, process, registry, memory, knowledge, discoveries, failures, row, files>>

-----------------------------------------------------------------------------
(* Upkeep of the state.                                                    *)

Known == up /\ registry = "real"
Rest == <<fixed, process, registry, mirror, scanner, row, files>>

\* Ten seconds pass without a swap.
Quiet ==
    /\ up /\ cached # Nothing /\ ~stale
    /\ stale' = TRUE
    /\ UNCHANGED <<Rest, cached, bare, read, failures>>

BlockRefreshes ==
    /\ Known /\ ~geyser /\ cached # Nothing
    /\ \/ venue = "Meteora" /\ Holds(cached)
       \/ /\ reparse_pool_state(venue, cached, read) # Nothing
          /\ Holds(reparse_pool_state(venue, cached, read))
    /\ UNCHANGED <<Rest, bare, read, failures>>

\* A pump.fun AMM pool only has its balances read, and its supply.
Revalidates(got) ==
    LET st == IF venue # "PumpFunAmm" THEN Fetched(got) ELSE IF "supply" \in got THEN Configured(cached) ELSE cached
    IN /\ Known /\ ~geyser /\ cached # Nothing /\ stale
       /\ is_quotable(venue) /\ ~is_dormant
       /\ st # Nothing
       /\ Learns(got)
       /\ StoreFetched(st)
       /\ UNCHANGED <<Rest, failures>>

\* The state is fetched if there is none; ticks, bins, balances or shares may have to
\* be read as well, which can fail when the state is there.
QuotesCold(got) ==
    /\ Known /\ is_quotable(venue) /\ ~is_dormant
    /\ cached = Nothing /\ Fetched(got) # Nothing
    /\ Learns(got)
    /\ StoreFetched(Fetched(got))
    /\ record_failure \/ reset_failure
    /\ UNCHANGED Rest

ColdFails ==
    /\ Known /\ is_quotable(venue) /\ ~is_dormant
    /\ record_failure
    /\ UNCHANGED <<Rest, memory, read>>

\* The bare fetch is stored, whatever the cache holds.
RetriesDormant(got) ==
    /\ up /\ registry # "none" /\ is_dormant
    /\ Fetched(got) # Nothing
    /\ Learns(got)
    /\ StoreFetched(Fetched(got))
    /\ reset_failure
    /\ UNCHANGED Rest

\* A swap is built from the cached state, re-read if it is old, or from a fetched one;
\* a pump.fun AMM pool gets its fee accounts if it has none.  What is no news is not stored.
SwapLoads(got) ==
    LET st == IF cached = Nothing THEN Fetched(got) ELSE cached
        paid == IF "loaded" \in read THEN st ELSE ensure_pamm_fee_accounts(venue, st, Has(got))
        reread == IF stale /\ venue # "PumpFunAmm" THEN Fetched(got) ELSE paid
        kept == IF reread = Nothing THEN paid ELSE reread
    IN /\ up /\ st # Nothing
       /\ Learns(got)
       /\ cached' = kept
       /\ stale' = (stale /\ reread = Nothing)
       /\ bare' = (bare /\ kept = cached)
       /\ UNCHANGED <<Rest, failures>>

-----------------------------------------------------------------------------
(* With Geyser.                                                            *)

\* The table gets the placeholder; a curve's mint is in the transaction.
TransactionSees ==
    /\ up /\ geyser /\ registry = "none"
    /\ registry' = "placeholder"
    /\ insert_pool("placeholder")
    /\ mirror' = mirror \cup IF venue = "PumpFun" THEN {"mint"} ELSE {}
    /\ UNCHANGED <<fixed, process, memory, read, scanner, failures, files>>

\* A pool that is not known yet is registered with its mints.
Registers ==
    \/ registry # "none" /\ UNCHANGED <<registry, row>>
    \/ registry = "none" /\ registry' = "real" /\ insert_pool("real")

Carried(st) == IF cached = Nothing THEN st ELSE carry_over_from_prev(venue, st, cached)

\* The mirror holds a curve's mint under the address of the curve, so that updates of
\* the curve count as updates of the companion.
Shadowed == venue = "PumpFun" /\ "mint" \in mirror
Inline == parse_with_mirror(venue, mirror, read)

AccountUpdates ==
    /\ up /\ geyser /\ ~Shadowed
    /\ Inline # Nothing
    /\ Registers
    /\ Holds(Carried(Inline))
    /\ bare' = (bare \/ cached = Nothing)
    /\ UNCHANGED <<fixed, process, knowledge, scanner, failures, files>>

\* What cannot be parsed from what is at hand is fetched, and its companions are kept.
AccountFetched(got) ==
    /\ up /\ geyser /\ ~Shadowed
    /\ Inline = Nothing /\ Fetched(got) # Nothing
    /\ Learns(got)
    /\ mirror' = mirror \cup (got \cap extract_companion_keys(venue))
    /\ Registers
    /\ StoreFetched(Carried(Fetched(got)))
    /\ UNCHANGED <<fixed, process, scanner, failures, files>>

-----------------------------------------------------------------------------
(* What is kept for the next start.                                        *)

\* How an entry is written: a placeholder, whatever became of it.
Entry == IF registry = "restored" THEN "placeholder" ELSE registry

\* A warm save takes the registry and the cache one after the other.  A start uses one
\* file, so that one variable stands for the warm file and the snapshot, which is a warm
\* file without states: whichever the next start will use, the other is never read.
SaveBegins ==
    /\ up /\ saving = "idle"
    /\ saving' = Entry
    /\ UNCHANGED <<fixed, process, registry, memory, knowledge, scanner, failures, row, file>>

SaveEnds ==
    /\ up /\ saving # "idle"
    /\ file' = [entry |-> saving, state |-> cached, bare |-> bare]
    /\ saving' = "idle"
    /\ UNCHANGED <<fixed, process, registry, memory, knowledge, scanner, failures, row>>

SavesSnapshot ==
    /\ up
    /\ file' = [entry |-> Entry, state |-> Nothing, bare |-> FALSE]
    /\ UNCHANGED <<fixed, process, registry, memory, knowledge, scanner, failures, row, saving>>

\* Rows seven days old are listed and deleted, and their pools removed.  A row counts
\* from its insertion: nothing touches it again, however busy the pool is.
Prune ==
    /\ up /\ row # "none"
    /\ row' = "none"
    /\ registry' = "none"
    /\ cached' = Nothing /\ stale' = FALSE /\ bare' = FALSE
    /\ reset_failure
    /\ UNCHANGED <<fixed, process, knowledge, scanner, files>>

\* The clock is read again for the deletion: a row that gets old in between is deleted
\* with the rows of other pools, and not listed.
PruneSlips ==
    /\ up /\ row # "none"
    /\ row' = "none"
    /\ UNCHANGED <<fixed, process, registry, memory, knowledge, scanner, failures, files>>

-----------------------------------------------------------------------------
(* Crash and start.                                                        *)

Crash ==
    /\ up /\ crashes < MaxCrashes
    /\ up' = FALSE /\ crashes' = crashes + 1
    /\ registry' = "none"
    /\ cached' = Nothing /\ stale' = FALSE /\ bare' = FALSE
    /\ read' = {} /\ mirror' = {}
    /\ discoveries' = 0 /\ failed' = FALSE /\ failures' = 0
    /\ saving' = "idle"
    /\ UNCHANGED <<fixed, row, file>>

\* The sources in their order: the first that can be read and, for the table, has rows.
Restored(entry) == IF entry = "placeholder" THEN "restored" ELSE entry

FromTable ==
    /\ registry' = Restored(row) /\ cached' = Nothing /\ bare' = FALSE
    /\ UNCHANGED row

FromFile ==
    /\ file.entry # "missing"
    /\ registry' = Restored(file.entry) /\ cached' = file.state /\ bare' = file.bare
    /\ IF file.entry = "none" THEN UNCHANGED row ELSE insert_pool(file.entry)

FromNothing == registry' = "none" /\ cached' = Nothing /\ bare' = FALSE /\ UNCHANGED row

\* The table may hold other pools or none, and may be unreadable, as any file.  The list
\* of pump.fun AMM's fee recipients is read at the start, or not.
try_bootstrap == FromTable \/ FromFile \/ FromNothing

Start ==
    /\ ~up
    /\ up' = TRUE
    /\ try_bootstrap
    /\ read' \in IF venue = "PumpFunAmm" THEN {{}, {"loaded"}} ELSE {{}}
    /\ UNCHANGED <<fixed, crashes, stale, mirror, scanner, failures, files>>

-----------------------------------------------------------------------------
Fetching == \E got \in SUBSET Companions(venue) :
    \/ Discovered(got) \/ Revalidates(got) \/ QuotesCold(got) \/ RetriesDormant(got) \/ SwapLoads(got) \/ AccountFetched(got)

LifeNext ==
    \/ Start \/ Crash
    \/ BlockSees \/ DiscoveryFails \/ FailureExpires
    \/ Fetching \/ Quiet \/ BlockRefreshes \/ ColdFails
    \/ TransactionSees \/ AccountUpdates
    \/ SaveBegins \/ SaveEnds \/ SavesSnapshot
    \/ Prune \/ PruneSlips

\* The pool goes on being traded and asked for, at times it rests for ten seconds, and
\* not every read of it fails; the tasks of the process go on.
Fairness ==
    LET all == Companions(venue)
    IN /\ WF_life_vars(Start) /\ WF_life_vars(FailureExpires) /\ WF_life_vars(Quiet)
       /\ WF_life_vars(Prune)
       /\ SF_life_vars(BlockSees)
       /\ SF_life_vars(Discovered(all)) /\ SF_life_vars(Revalidates(all)) /\ SF_life_vars(RetriesDormant(all))
       /\ SF_life_vars(QuotesCold(all) /\ reset_failure)

LifeSpec == LifeInit /\ [][LifeNext]_life_vars /\ Fairness

-----------------------------------------------------------------------------
Quoted == Known /\ cached # Nothing /\ is_quotable(venue)

\* No quote takes rates that nobody has read for a venue without fees: the zeros of a
\* bare parse never get into the cache of a listed pool.  With Geyser there is a way:
\* an account update of a pool that has no state yet is stored as it was parsed.
RatesKnown == Quoted /\ ~bare => cached.rates # "zero"

\* What the process has read of a pool, it does not trade for less while the pool is
\* listed: neither rates nor fee accounts get lost in a re-parse, a refresh or a fetch
\* that only half succeeds.  Three ways are left open by the code: the retry of a dormant
\* pool stores a bare fetch, an account update replaces a Meteora pool's shares, and a
\* discovery that a removal and another discovery overtook stores what it fetched.
Held == Kept(venue) \subseteq read \cup Expires
Loses ==
    \/ cached.rates = "config" /\ Held /\ cached'.rates # "config"
    \/ cached.rates = "pool" /\ cached'.rates # "pool"
    \/ cached.recipients /\ ~cached'.recipients
KnowledgeKept ==
    [][~(/\ Known /\ up' /\ cached # Nothing /\ cached' # Nothing /\ Loses
         /\ ~(is_dormant /\ failures' = 0)
         /\ ~(registry = "real" /\ discoveries' < discoveries)
         /\ ~(geyser /\ venue = "Meteora"))]_life_vars

\* Without Geyser a pool that goes on being traded can always be quoted again: after a
\* failed fetch, a failed read of its config, ten failed quotes, its removal at seven
\* days, a crash, or a start from an older file.  Only a placeholder that a file brought
\* back and whose row could not be written is never looked at again.
TradedPoolsComeBack ==
    \/ geyser \/ ~is_quotable(venue)
    \/ []<>(Quoted /\ ~is_dormant /\ cached.rates # "shut")
    \/ <>[](registry = "restored" /\ row = "none")
=============================================================================

--------------------------- MODULE SwapFeedProofs ---------------------------
(***************************************************************************)
(* Proofs about the stream of swaps, for any pools, routes, filters,       *)
(* buffer and number of transactions.  The channel only ever grows, since  *)
(* what a block adds to it is a sequence whatever its transactions hold;   *)
(* so a position a client has passed keeps its swap, and what the client   *)
(* lacks of the positions passed is within what it was told it lost.       *)
(***************************************************************************)
EXTENDS SwapFeed, TLAPS, FiniteSetTheorems, WellFoundedInduction

\* A set of natural numbers that is not empty has a least element.
LEMMA LeastNatural ==
    ASSUME NEW S \in SUBSET Nat, S # {}
    PROVE  \E m \in S : \A k \in S : m <= k
<1> DEFINE R == OpToRel(<, Nat)
<1>1. IsWellFoundedOn(R, Nat)
  BY NatLessThanWellFounded
<1>2. PICK m \in S : \A k \in S : ~ (<<k, m>> \in R)
  <2> HIDE DEF R
  <2> QED BY <1>1, WFMin
<1>3. \A k \in S : ~ (k < m)
  BY <1>2 DEF OpToRel
<1> QED BY <1>3

-----------------------------------------------------------------------------
(* What is parsed of a transaction is a sequence of swaps                   *)

IsSequence(s) == \E S : s \in Seq(S)

\* What the parser carries from one instruction to the next.
Accumulated(acc) == {"seen", "fallback_used", "swaps", "fees"} \subseteq DOMAIN acc /\ IsSequence(acc.swaps)

\* Appending keeps a sequence, whatever its elements are.
LEMMA AppendIsSequence ==
    ASSUME NEW s, IsSequence(s), NEW e
    PROVE  IsSequence(Append(s, e))
<1>1. PICK S : s \in Seq(S)
  BY DEF IsSequence
<1>2. s \in Seq(S \cup {e})
  BY <1>1
<1>3. Append(s, e) \in Seq(S \cup {e})
  BY <1>2
<1> QED BY <1>3 DEF IsSequence

\* So does joining two.
LEMMA ConcatIsSequence ==
    ASSUME NEW s, IsSequence(s), NEW t, IsSequence(t)
    PROVE  IsSequence(s \o t)
<1>1. PICK S : s \in Seq(S)
  BY DEF IsSequence
<1>2. PICK T : t \in Seq(T)
  BY DEF IsSequence
<1>3. s \in Seq(S \cup T) /\ t \in Seq(S \cup T)
  BY <1>1, <1>2
<1>4. s \o t \in Seq(S \cup T)
  BY <1>3
<1> QED BY <1>4 DEF IsSequence

\* A parse starts with no swaps.
LEMMA NothingAccumulated == Accumulated(NothingParsed)
<1>1. <<>> \in Seq({})
  OBVIOUS
<1> QED BY <1>1 DEF Accumulated, IsSequence, NothingParsed

\* The fallback on the payer's balances adds at most one swap.
LEMMA FallbackAccumulates ==
    ASSUME NEW acc, Accumulated(acc), NEW dex, NEW p, NEW facts, NEW price
    PROVE  Accumulated(Fallback(acc, dex, p, facts, price))
<1> DEFINE swap == build_swap_from_deltas(dex, p, facts, price)
           after == [acc EXCEPT !.fallback_used = TRUE, !.swaps = Append(@, swap)]
<1>1. IsSequence(Append(acc.swaps, swap))
  BY AppendIsSequence DEF Accumulated
<1>2. after.swaps = Append(acc.swaps, swap) /\ DOMAIN after = DOMAIN acc
  BY DEF Accumulated
<1>3. Accumulated(after)
  BY <1>1, <1>2 DEF Accumulated
<1> HIDE DEF after
<1>4. Fallback(acc, dex, p, facts, price) = acc \/ Fallback(acc, dex, p, facts, price) = after
  BY DEF Fallback, after
<1> QED BY <1>3, <1>4

\* A swap read off the vaults' transfers adds at most one swap.
LEMMA VaultsAccumulate ==
    ASSUME NEW acc, Accumulated(acc), NEW dex, NEW p, NEW legs, NEW facts, NEW price
    PROVE  Accumulated(FromVaults(acc, dex, p, legs, facts, price))
<1> DEFINE swap == build_swap(dex, p, facts, legs.in, legs.in_amount, legs.out, legs.out_amount, price)
           after == FromVaults(acc, dex, p, legs, facts, price)
<1>1. IsSequence(Append(acc.swaps, swap)) /\ IsSequence(acc.swaps)
  BY AppendIsSequence DEF Accumulated
<1>2. after.swaps = (IF swap = NoSwap THEN acc.swaps ELSE Append(acc.swaps, swap)) /\ DOMAIN after = DOMAIN acc
  BY DEF FromVaults, Accumulated
<1> QED BY <1>1, <1>2 DEF Accumulated

\* So what one instruction is parsed to adds swaps to the sequence and nothing else.
LEMMA InstructionAccumulates ==
    ASSUME NEW acc, Accumulated(acc), NEW ix, NEW facts, NEW price
    PROVE  Accumulated(ParseInstruction(acc, ix, facts, price))
<1> DEFINE Met(key) == [acc EXCEPT !.seen = @ \cup {key}]
<1>1. \A key : Accumulated(Met(key))
  <2> TAKE key
  <2>1. DOMAIN Met(key) = DOMAIN acc /\ Met(key).swaps = acc.swaps
    BY DEF Accumulated
  <2> QED BY <2>1 DEF Accumulated
<1> HIDE DEF Met
<1>2. Accumulated(Fallback(Met(<<Aggregator>>), Aggregator, <<Aggregator>>, facts, price))
  BY <1>1, FallbackAccumulates
<1> DEFINE p == PoolIn(ix)
           type == refine_pool_type(ix.program, ix.data)
           legs == vault_legs(p, ix, facts)
<1>3. Accumulated(FromVaults(Met(p), type, p, legs, facts, price))
  BY <1>1, VaultsAccumulate
<1>4. Accumulated(Fallback(Met(p), type, p, facts, price))
  BY <1>1, FallbackAccumulates
<1>5. ParseInstruction(acc, ix, facts, price) \in
        {acc, Fallback(Met(<<Aggregator>>), Aggregator, <<Aggregator>>, facts, price),
         FromVaults(Met(p), type, p, legs, facts, price), Fallback(Met(p), type, p, facts, price)}
  BY DEF ParseInstruction, Met
<1> QED BY <1>2, <1>3, <1>4, <1>5

\* Whatever the instructions of a transaction are, its swaps form a sequence.
\* By induction on the instructions parsed: the function that parse_one_tx
\* names exists on every prefix of them.
LEMMA ParsedIsSequence ==
    ASSUME NEW facts, NEW price, Len(facts.ixs) \in Nat
    PROVE  IsSequence(parse_one_tx(facts, price).swaps)
<1> DEFINE Recurs(f, n) == f = [k \in 0..n |-> IF k = 0 THEN NothingParsed
                                               ELSE ParseInstruction(f[k - 1], facts.ixs[k], facts, price)]
           Bad == {n \in Nat : ~ \E f : Recurs(f, n)}
           N == Len(facts.ixs)
<1>1. \A n \in Nat : \E f : Recurs(f, n)
  <2>1. Bad \in SUBSET Nat /\ \A n \in Nat : n \notin Bad => \E f : Recurs(f, n)
    OBVIOUS
  <2>2. ASSUME NEW m \in Nat, \A k \in Bad : m <= k
        PROVE  \E f : Recurs(f, m)
    <3>1. CASE m = 0
      BY <3>1, Recurs([k \in 0..0 |-> NothingParsed], 0)
    <3>2. CASE m # 0
      <4>1. m - 1 \in Nat /\ m - 1 \notin Bad
        <5> HIDE DEF Bad
        <5> QED BY <2>2, <3>2, <2>1
      <4>2. PICK f : Recurs(f, m - 1)
        BY <4>1
      <4> DEFINE g == [k \in 0..m |-> IF k = m THEN ParseInstruction(f[m - 1], facts.ixs[m], facts, price) ELSE f[k]]
      <4>3. ASSUME NEW k \in 0..m
            PROVE  g[k] = IF k = 0 THEN NothingParsed ELSE ParseInstruction(g[k - 1], facts.ixs[k], facts, price)
        <5>1. CASE k = m
          BY <5>1, <2>2, <3>2
        <5>2. CASE k # m
          BY <5>2, <4>2
        <5> QED BY <5>1, <5>2
      <4>4. Recurs(g, m)
        BY <4>3
      <4> QED BY <4>4
    <3> QED BY <3>1, <3>2
  <2> HIDE DEF Bad
  <2>3. Bad = {}
    <3> SUFFICES ASSUME Bad # {} PROVE FALSE
      OBVIOUS
    <3>1. PICK m \in Bad : \A k \in Bad : m <= k
      BY <2>1, LeastNatural
    <3>2. \E f : Recurs(f, m)
      BY <3>1, <2>1, <2>2
    <3> QED BY <3>1, <3>2 DEF Bad
  <2> QED BY <2>1, <2>3
<1> DEFINE parsed == CHOOSE f : Recurs(f, N)
<1>2. Recurs(parsed, N)
  BY <1>1
<1> HIDE DEF parsed
<1> DEFINE Odd == {k \in 0..N : ~ Accumulated(parsed[k])}
<1>3. Odd = {}
  <2> SUFFICES ASSUME Odd # {} PROVE FALSE
    OBVIOUS
  <2>1. PICK m \in Odd : \A k \in Odd : m <= k
    <3>1. Odd \in SUBSET Nat
      OBVIOUS
    <3> HIDE DEF Odd
    <3> QED BY <3>1, LeastNatural
  <2>2. m \in 0..N /\ ~ Accumulated(parsed[m])
    OBVIOUS
  <2>3. m # 0
    BY <2>2, <1>2, NothingAccumulated
  <2>4. m - 1 \in 0..N /\ m - 1 \notin Odd
    <3> HIDE DEF Odd
    <3> QED BY <2>1, <2>2, <2>3
  <2>5. Accumulated(parsed[m - 1])
    BY <2>4
  <2> HIDE DEF Odd
  <2>6. parsed[m] = ParseInstruction(parsed[m - 1], facts.ixs[m], facts, price)
    BY <1>2, <2>2, <2>3
  <2> QED BY <2>2, <2>5, <2>6, InstructionAccumulates
<1>4. Accumulated(parsed[N])
  BY <1>3
<1>5. parse_one_tx(facts, price) = NothingParsed \/ parse_one_tx(facts, price) = parsed[N]
  BY DEF parse_one_tx, parsed
<1> QED BY <1>4, <1>5, NothingAccumulated DEF Accumulated

\* The instructions of a route of one or two swaps are a sequence.
LEMMA InstructionsAreSequence ==
    ASSUME NEW route \in Routes
    PROVE  IsSequence(Instructions(route))
<1> DEFINE seqs == [i \in DOMAIN route |->
                       <<SwapInstruction(route[i])>>
                       \o (IF Pool[route[i].pool].venue = "PumpFunAmm"
                           THEN <<EventInstruction(route[i].pool)>> ELSE <<>>)]
           N == Len(seqs)
           Flat(f) == f = [i \in 1..N |-> IF i = 1 THEN seqs[i] ELSE f[i - 1] \o seqs[i]]
<1>1. N \in 1..2 /\ DOMAIN route = 1..N
  BY DEF Routes
<1>2. \A i \in 1..N : IsSequence(seqs[i])
  <2> TAKE i \in 1..N
  <2> DEFINE swap == SwapInstruction(route[i])
             event == EventInstruction(route[i].pool)
             events == IF Pool[route[i].pool].venue = "PumpFunAmm" THEN <<event>> ELSE <<>>
  <2>1. seqs[i] = <<swap>> \o events
    BY <1>1
  <2> HIDE DEF swap, event, seqs
  <2>2. <<swap>> \in Seq({swap, event}) /\ <<event>> \in Seq({swap, event}) /\ <<>> \in Seq({swap, event})
    OBVIOUS
  <2>3. events \in Seq({swap, event})
    BY <2>2
  <2> HIDE DEF events
  <2> QED BY <2>1, <2>2, <2>3, ConcatIsSequence DEF IsSequence
<1>3. Instructions(route) = FlattenSeq(seqs)
  BY DEF Instructions
<1> HIDE DEF seqs
<1>4. \E f : Flat(f)
  <2> DEFINE f == [i \in 1..N |-> IF i = 1 THEN seqs[1] ELSE seqs[1] \o seqs[2]]
  <2>1. \A i \in 1..N : i = 1 \/ i = 2
    <3> HIDE DEF N
    <3> QED BY <1>1
  <2>2. 1 \in 1..N
    <3> HIDE DEF N
    <3> QED BY <1>1
  <2>3. \A i \in 1..N : f[i] = IF i = 1 THEN seqs[i] ELSE f[i - 1] \o seqs[i]
    <3> HIDE DEF N
    <3> QED BY <2>1, <2>2
  <2> HIDE DEF N
  <2>4. Flat(f)
    BY <2>3
  <2> QED BY <2>4
<1> DEFINE flat == CHOOSE f : Flat(f)
<1>5. Flat(flat)
  BY <1>4
<1>6. Instructions(route) = flat[N]
  BY <1>1, <1>3 DEF FlattenSeq
<1>7. IsSequence(seqs[1]) /\ (N = 2 => IsSequence(seqs[2]) /\ IsSequence(seqs[1] \o seqs[2]))
  BY <1>1, <1>2, ConcatIsSequence
<1> HIDE DEF flat, N
<1>8. flat[1] = seqs[1] /\ (N = 2 => flat[2] = flat[1] \o seqs[2])
  <2>1. \A i \in 1..N : flat[i] = IF i = 1 THEN seqs[i] ELSE flat[i - 1] \o seqs[i]
    BY <1>5
  <2>2. flat[1] = seqs[1]
    BY <2>1, <1>1
  <2>3. ASSUME N = 2
        PROVE  flat[2] = flat[1] \o seqs[2]
    <3>1. 2 \in 1..N /\ 2 # 1 /\ 2 - 1 = 1
      BY <2>3
    <3>2. flat[2] = flat[2 - 1] \o seqs[2]
      BY <2>1, <3>1
    <3> QED BY <3>1, <3>2
  <2> QED BY <2>2, <2>3
<1>9. CASE N = 1
  BY <1>9, <1>6, <1>7, <1>8
<1>10. CASE N = 2
  BY <1>10, <1>6, <1>7, <1>8
<1> QED BY <1>1, <1>9, <1>10

\* So what a block adds to the channel is a sequence.
LEMMA LandedSwaps ==
    ASSUME NEW route \in Routes, NEW amount, NEW run, NEW payer, NEW rent, NEW via
    PROVE  IsSequence(Landed(route, amount, run, payer, rent, via).swaps)
<1> DEFINE landed == Transaction(route, amount, run, payer, rent, via)
           first == [program |-> Aggregator, data |-> "route", pool |-> <<Aggregator>>,
                     pool_at |-> 0, accounts |-> {Trader}]
<1>1. IsSequence(landed.ixs)
  <2>1. landed.ixs = (IF via = Aggregator THEN <<first>> ELSE <<>>) \o Instructions(route)
    BY DEF Transaction
  <2>2. IsSequence(<<first>>) /\ IsSequence(<<>>)
    <3>1. <<first>> \in Seq({first}) /\ <<>> \in Seq({first})
      OBVIOUS
    <3> HIDE DEF first
    <3> QED BY <3>1 DEF IsSequence
  <2> HIDE DEF first
  <2> QED BY <2>1, <2>2, InstructionsAreSequence, ConcatIsSequence
<1>2. TxFacts(landed).ixs = landed.ixs
  BY DEF TxFacts
<1>3. Len(TxFacts(landed).ixs) \in Nat
  BY <1>1, <1>2 DEF IsSequence
<1> HIDE DEF landed
<1>4. IsSequence(parse_one_tx(TxFacts(landed), sol_price).swaps)
  BY <1>3, ParsedIsSequence
<1> QED BY <1>4 DEF Landed, ParsedFrom, Parsed, landed

-----------------------------------------------------------------------------
(* What a client knows                                                      *)

Got == {delivered[i] : i \in DOMAIN delivered}
Passed == {i \in joined..(next - 1) : matches(filter, sent[i])}

\* The channel and the place of the client in it.
FeedTypeOK ==
    /\ IsSequence(sent)
    /\ joined \in Nat \ {0} /\ next \in Nat /\ joined <= next /\ next <= Len(sent) + 1
    /\ delivered \in Seq(Nat)
    /\ skipped \in Nat
    /\ client = "connected" => delivered = <<>>

FeedInv == FeedTypeOK /\ GapsTold

\* Nothing has been sent and no client is subscribed.
LEMMA FeedInit == Init => FeedInv
<1> SUFFICES ASSUME Init PROVE FeedInv
  OBVIOUS
<1>1. sent = <<>> /\ joined = 1 /\ next = 1 /\ delivered = <<>> /\ skipped = 0
  BY DEF Init, NewClient
<1>2. <<>> \in Seq({})
  OBVIOUS
<1>3. FeedTypeOK
  <2>1. <<>> \in Seq(Nat) /\ Len(sent) = 0
    BY <1>1
  <2> QED BY <1>1, <1>2, <2>1 DEF FeedTypeOK, IsSequence
<1>4. {i \in joined..(next - 1) : matches(filter, sent[i])} = {}
  BY <1>1
<1>5. Cardinality({i \in joined..(next - 1) : matches(filter, sent[i])} \ {delivered[i] : i \in DOMAIN delivered}) = 0
  BY <1>4, FS_EmptySet
<1> QED BY <1>1, <1>3, <1>5 DEF FeedInv, GapsTold

\* A larger channel that keeps what it had leaves a client as it was.
LEMMA GrowthKeeps ==
    ASSUME FeedInv, UNCHANGED clientVars, IsSequence(sent'), Len(sent) <= Len(sent'),
           \A i \in 1..Len(sent) : sent'[i] = sent[i]
    PROVE  FeedInv'
<1>1. Len(sent) \in Nat /\ Len(sent') \in Nat
  BY DEF FeedInv, FeedTypeOK, IsSequence
<1>2. FeedTypeOK'
  BY <1>1 DEF FeedInv, FeedTypeOK, clientVars
<1>3. \A i \in joined..(next - 1) : sent'[i] = sent[i]
  BY <1>1 DEF FeedInv, FeedTypeOK
<1>4. GapsTold'
  BY <1>3 DEF FeedInv, GapsTold, clientVars
<1> QED BY <1>2, <1>4 DEF FeedInv

\* A block only lengthens what was sent: the client's past is not rewritten.
LEMMA BlockKeeps ==
    ASSUME FeedInv, NEW route \in Routes, NEW amount \in Amounts, NEW payer, NEW rent, NEW via,
           Block(route, amount, payer, rent, via)
    PROVE  FeedInv'
<1>1. PICK run : tx' = Landed(route, amount, run, payer, rent, via)
  BY DEF Block
<1>2. IsSequence(tx'.swaps)
  BY <1>1, LandedSwaps
<1>3. sent' = sent \o tx'.swaps /\ UNCHANGED clientVars
  BY DEF Block
<1>4. PICK S, T : sent \in Seq(S) /\ tx'.swaps \in Seq(T)
  BY <1>2 DEF FeedInv, FeedTypeOK, IsSequence
<1>5. sent \in Seq(S \cup T) /\ tx'.swaps \in Seq(S \cup T)
  BY <1>4
<1>6. Len(sent) <= Len(sent') /\ \A i \in 1..Len(sent) : sent'[i] = sent[i]
  BY <1>3, <1>5
<1>7. IsSequence(sent')
  BY <1>2, <1>3, ConcatIsSequence DEF FeedInv, FeedTypeOK
<1> QED BY <1>3, <1>6, <1>7, GrowthKeeps

\* A client that subscribes starts at the end of what was sent, with nothing
\* passed over (api/swap_stream_ws.rs, the receiver is created late).
LEMMA SubscribeKeeps ==
    ASSUME FeedInv, NEW f, Subscribe(f)
    PROVE  FeedInv'
<1>1. Len(sent) \in Nat
  BY DEF FeedInv, FeedTypeOK, IsSequence
<1>2. joined' = Len(sent) + 1 /\ next' = Len(sent) + 1 /\ client' = "streaming"
      /\ UNCHANGED <<sent, delivered, skipped>> /\ delivered = <<>> /\ skipped \in Nat
  BY DEF Subscribe, FeedInv, FeedTypeOK
<1>3. FeedTypeOK'
  BY <1>1, <1>2 DEF FeedInv, FeedTypeOK
<1>4. Passed' \ Got' = {}
  BY <1>1, <1>2 DEF Passed
<1>5. Cardinality(Passed' \ Got') = 0
  BY <1>4, FS_EmptySet
<1>6. GapsTold'
  BY <1>2, <1>5 DEF GapsTold, Passed, Got
<1> QED BY <1>3, <1>6 DEF FeedInv

\* A client that closes is forgotten with its counts.
LEMMA CloseKeeps ==
    ASSUME FeedInv, Close
    PROVE  FeedInv'
<1>1. joined' = 1 /\ next' = 1 /\ delivered' = <<>> /\ skipped' = 0 /\ UNCHANGED sent
  BY DEF Close, NewClient
<1>2. FeedTypeOK'
  <2>1. <<>> \in Seq(Nat) /\ Len(sent) \in Nat
    BY DEF FeedInv, FeedTypeOK, IsSequence
  <2> QED BY <1>1, <2>1 DEF FeedInv, FeedTypeOK
<1>3. Passed' \ Got' = {}
  BY <1>1 DEF Passed
<1>4. Cardinality(Passed' \ Got') = 0
  BY <1>3, FS_EmptySet
<1>5. GapsTold'
  BY <1>1, <1>4 DEF GapsTold, Passed, Got
<1> QED BY <1>2, <1>5 DEF FeedInv

\* A receiver that was overtaken lacks at most the swaps it jumps over, and is
\* told their number; one that was not gets its swap or has no use for it.
LEMMA RecvKeeps ==
    ASSUME FeedInv, Recv
    PROVE  FeedInv'
<1> DEFINE Lacks == Passed \ Got
<1>1. /\ Len(sent) \in Nat /\ Buffer \in Nat \ {0}
      /\ joined \in Nat \ {0} /\ next \in Nat /\ joined <= next /\ next <= Len(sent)
      /\ delivered \in Seq(Nat) /\ skipped \in Nat
      /\ UNCHANGED <<sent, client, filter, joined>> /\ client = "streaming"
  BY FeedAssumption DEF FeedInv, FeedTypeOK, IsSequence, Recv
<1>2. IsFiniteSet(Passed) /\ IsFiniteSet(Lacks)
  <2>1. IsFiniteSet(joined..(next - 1))
    BY <1>1, FS_Interval
  <2> QED BY <2>1, FS_Subset DEF Passed
<1>3. Cardinality(Lacks) \in Nat /\ Cardinality(Lacks) <= skipped
  BY <1>2, FS_CardinalityType DEF FeedInv, GapsTold, Passed, Got
<1>4. /\ \A i, j \in DOMAIN delivered : i < j => delivered[i] < delivered[j]
      /\ \A i \in Got : i \in joined..(next - 1) /\ matches(filter, sent[i])
  BY DEF FeedInv, GapsTold, Got
<1>5. CASE next < Oldest
  <2>1. next' = Oldest /\ skipped' = skipped + (Oldest - next) /\ UNCHANGED delivered
    BY <1>5 DEF Recv
  <2>2. Oldest \in Nat /\ Oldest <= Len(sent)
    BY <1>1 DEF Oldest
  <2>3. FeedTypeOK'
    BY <1>1, <1>5, <2>1, <2>2 DEF FeedInv, FeedTypeOK
  <2> DEFINE jumped == next..(Oldest - 1)
  <2>4. (Passed \ Got)' \subseteq Lacks \cup jumped
    BY <1>1, <2>1, <2>2 DEF Passed, Got
  <2>5. IsFiniteSet(jumped) /\ Cardinality(jumped) = Oldest - next
    <3>1. \A b \in Int : next \in Int => /\ IsFiniteSet(next..b)
                                       /\ Cardinality(next..b) = IF next > b THEN 0 ELSE b - next + 1
      BY FS_Interval
    <3>2. next \in Int /\ Oldest - 1 \in Int /\ ~ (next > Oldest - 1) /\ Oldest - 1 - next + 1 = Oldest - next
      <4> HIDE DEF Oldest
      <4> QED BY <1>1, <1>5, <2>2
    <3> HIDE DEF Oldest
    <3>3. Cardinality(next..(Oldest - 1)) = Oldest - 1 - next + 1
      BY <3>1, <3>2
    <3> QED BY <3>1, <3>2, <3>3
  <2>6. IsFiniteSet(Lacks \cup jumped) /\ Cardinality(Lacks \cup jumped) <= Cardinality(Lacks) + Cardinality(jumped)
    <3>1. IsFiniteSet(Lacks \cap jumped) /\ Cardinality(Lacks \cap jumped) \in Nat
      BY <1>2, FS_Intersection, FS_CardinalityType
    <3>2. Cardinality(Lacks \cup jumped) = Cardinality(Lacks) + Cardinality(jumped) - Cardinality(Lacks \cap jumped)
      BY <1>2, <2>5, FS_Union
    <3>3. Cardinality(jumped) \in Nat
      BY <2>5, FS_CardinalityType
    <3>4. IsFiniteSet(Lacks \cup jumped)
      BY <1>2, <2>5, FS_Union
    <3> HIDE DEF Lacks, jumped
    <3> QED BY <1>3, <3>1, <3>2, <3>3, <3>4
  <2>7. Cardinality((Passed \ Got)') <= Cardinality(Lacks \cup jumped)
        /\ Cardinality((Passed \ Got)') \in Nat /\ Cardinality(Lacks \cup jumped) \in Nat
    BY <2>4, <2>6, FS_Subset, FS_CardinalityType
  <2>8. Cardinality((Passed \ Got)') <= skipped'
    <3> HIDE DEF Lacks, jumped
    <3> QED BY <1>1, <1>3, <2>1, <2>2, <2>5, <2>6, <2>7
  <2>9. \A i \in Got' : i \in joined'..(next' - 1) /\ matches(filter', sent'[i])
    BY <1>1, <1>4, <1>5, <2>1, <2>2 DEF Got
  <2> QED BY <1>4, <2>1, <2>3, <2>8, <2>9 DEF FeedInv, GapsTold, Passed, Got
<1>6. CASE ~ (next < Oldest)
  <2>1. next' = next + 1 /\ UNCHANGED skipped
        /\ delivered' = IF matches(filter, sent[next]) THEN Append(delivered, next) ELSE delivered
    BY <1>6 DEF Recv
  <2>2. Got' = IF matches(filter, sent[next]) THEN Got \cup {next} ELSE Got
    <3>1. CASE matches(filter, sent[next])
      <4>1. delivered' = Append(delivered, next)
        BY <2>1, <3>1
      <4>2. DOMAIN delivered' = DOMAIN delivered \cup {Len(delivered) + 1}
            /\ delivered'[Len(delivered) + 1] = next
            /\ \A i \in DOMAIN delivered : delivered'[i] = delivered[i]
        BY <4>1, <1>1
      <4> QED BY <3>1, <4>2 DEF Got
    <3>2. CASE ~ matches(filter, sent[next])
      BY <2>1, <3>2 DEF Got
    <3> QED BY <3>1, <3>2
  <2>3. FeedTypeOK'
    BY <1>1, <2>1 DEF FeedInv, FeedTypeOK
  <2>4. Passed' = IF matches(filter, sent[next]) THEN Passed \cup {next} ELSE Passed
    BY <1>1, <2>1 DEF Passed
  <2>5. (Passed \ Got)' \subseteq Lacks
    BY <2>2, <2>4
  <2>6. Cardinality((Passed \ Got)') <= skipped'
    <3>1. Cardinality((Passed \ Got)') <= Cardinality(Lacks) /\ Cardinality((Passed \ Got)') \in Nat
      BY <1>2, <2>5, FS_Subset, FS_CardinalityType
    <3> QED BY <1>1, <1>3, <2>1, <3>1
  <2>7. \A i \in Got' : i \in joined'..(next' - 1) /\ matches(filter', sent'[i])
    BY <1>1, <1>4, <2>1, <2>2
  <2>8. \A i, j \in DOMAIN delivered' : i < j => delivered'[i] < delivered'[j]
    <3>1. CASE matches(filter, sent[next])
      <4>1. delivered' = Append(delivered, next)
        BY <2>1, <3>1
      <4>2. \A i \in DOMAIN delivered : delivered[i] \in Nat /\ delivered[i] < next
        <5> SUFFICES ASSUME NEW i \in DOMAIN delivered PROVE delivered[i] \in Nat /\ delivered[i] < next
          OBVIOUS
        <5>1. delivered[i] \in Got
          BY DEF Got
        <5>2. delivered[i] \in joined..(next - 1)
          BY <1>4, <5>1
        <5> HIDE DEF Got
        <5> QED BY <1>1, <5>2
      <4> QED BY <1>1, <1>4, <4>1, <4>2
    <3>2. CASE ~ matches(filter, sent[next])
      BY <1>4, <2>1, <3>2
    <3> QED BY <3>1, <3>2
  <2> QED BY <2>3, <2>6, <2>7, <2>8 DEF FeedInv, GapsTold, Passed, Got
<1> QED BY <1>5, <1>6

\* Every step keeps the invariant.
LEMMA FeedStep == FeedInv /\ [Next]_vars => FeedInv'
<1> SUFFICES ASSUME FeedInv, [Next]_vars PROVE FeedInv'
  OBVIOUS
<1>1. CASE \E route \in Routes, amount \in Amounts, paying \in Payments, via \in {"router", Aggregator} :
              Block(route, amount, paying.payer, paying.rent, via)
  BY <1>1, BlockKeeps
<1>2. CASE RefreshPrice \/ UNCHANGED vars
  <2>1. UNCHANGED clientVars /\ UNCHANGED sent
    BY <1>2 DEF RefreshPrice, vars, clientVars
  <2>2. IsSequence(sent') /\ Len(sent) <= Len(sent') /\ \A i \in 1..Len(sent) : sent'[i] = sent[i]
    BY <2>1 DEF FeedInv, FeedTypeOK, IsSequence
  <2> QED BY <2>1, <2>2, GrowthKeeps
<1>3. CASE \E f \in Filters : Subscribe(f)
  BY <1>3, SubscribeKeeps
<1>4. CASE Recv
  BY <1>4, RecvKeeps
<1>5. CASE Close
  BY <1>5, CloseKeeps
<1> QED BY <1>1, <1>2, <1>3, <1>4, <1>5 DEF Next

\* The channel and the place of a client in it are typed, and what it lacks is
\* told, in every state (stream/swap_stream.rs, api/swap_stream_ws.rs).
THEOREM FeedInvariant == Spec => []FeedInv
<1>1. Init => FeedInv
  BY FeedInit
<1>2. FeedInv /\ [Next]_vars => FeedInv'
  BY FeedStep
<1> QED BY <1>1, <1>2, PTL DEF Spec

\* However small the channel, however slow the client and whatever its filter,
\* it gets every matching swap since its receiver was made, once and in order,
\* or is told of at least as many lost (api/swap_stream_ws.rs).
THEOREM GapsAreTold == Spec => []GapsTold
<1>1. FeedInv => GapsTold
  BY DEF FeedInv
<1> QED BY <1>1, FeedInvariant, PTL
=============================================================================

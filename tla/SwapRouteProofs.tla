--------------------------- MODULE SwapRouteProofs ---------------------------
(***************************************************************************)
(* Theorems about SwapRoute, for every market, wallet, rate and slippage.  *)
(*                                                                         *)
(* The argument follows a transaction.  The recursions of the model (Run,  *)
(* Drop, dedupe_instructions, Execute) are unrolled an instruction at a    *)
(* time by induction, stated over sets (Induction, SequenceInduction).     *)
(* Every executor builds a swap of one shape (Shaped), and the builder     *)
(* makes of up to three of them one setup, which funds the first hop only, *)
(* and at most one close (BuildsShape).  Running it, the setup leaves the  *)
(* first hop funded (Preparation), each hop leaves the next one funded     *)
(* with at least its floor (FirstHop, NextHop), the router finds its       *)
(* accounts (RouterRun), and cleaning up loses nothing (CleanupRun).  So a *)
(* transaction lands within its promises or a pool has moved               *)
(* (Transaction), and the invariant (RouteInv) says that whatever the      *)
(* caller holds is such a transaction.                                     *)
(***************************************************************************)
EXTENDS SwapRoute, TLAPS, WellFoundedInduction, SequenceTheorems

-----------------------------------------------------------------------------
(* Induction over numbers and sequences                                     *)

\* A set of numbers that is not empty has a least one.
LEMMA LeastNatural ==
    ASSUME NEW S \in SUBSET Nat, S # {}
    PROVE  \E m \in S : \A k \in S : m <= k
<1> DEFINE R == OpToRel(<, Nat)
<1>1. IsWellFoundedOn(R, Nat)
  BY NatLessThanWellFounded
<1>2. PICK m \in S : \A k \in S : ~ (<<k, m>> \in R)
  <2> HIDE DEF R
  <2> QED BY <1>1, WFMin
<1>3. \A k \in S : ~ (k < m)
  BY <1>2 DEF OpToRel
<1> QED BY <1>3

\* Induction, the property being given as the set of numbers that have it.
LEMMA Induction ==
    ASSUME NEW P \in SUBSET Nat, 0 \in P, \A k \in P : k + 1 \in P
    PROVE  P = Nat
<1> SUFFICES ASSUME Nat \ P # {} PROVE FALSE
  OBVIOUS
<1>1. PICK m \in Nat \ P : \A k \in Nat \ P : m <= k
  BY LeastNatural
<1>2. m # 0 /\ m - 1 \in Nat /\ m - 1 < m
  BY <1>1
<1>3. m - 1 \in P
  BY <1>1, <1>2
<1>4. m - 1 + 1 = m
  BY <1>1
<1> QED BY <1>1, <1>3, <1>4

\* Induction over sequences, the property being given as the set of those
\* that have it.
LEMMA SequenceInduction ==
    ASSUME NEW S, NEW P \in SUBSET Seq(S), <<>> \in P, \A s \in P, e \in S : Append(s, e) \in P
    PROVE  P = Seq(S)
<1> DEFINE N == {n \in Nat : \A s \in Seq(S) : Len(s) = n => s \in P}
<1>1. 0 \in N
  <2>1. \A s \in Seq(S) : Len(s) = 0 => s = <<>>
    BY EmptySeq
  <2> QED BY <2>1
<1>2. ASSUME NEW n \in N
      PROVE  n + 1 \in N
  <2>1. n \in Nat /\ \A s \in Seq(S) : Len(s) = n => s \in P
    OBVIOUS
  <2>2. ASSUME NEW s \in Seq(S), Len(s) = n + 1
        PROVE  s \in P
    <3>1. s # <<>>
      BY <2>1, <2>2, EmptySeq
    <3>2. PICK t \in Seq(S), e \in S : s = Append(t, e)
      BY <3>1, SequenceEmptyOrAppend
    <3>3. Len(t) = n
      BY <2>1, <2>2, <3>2, AppendProperties, LenProperties
    <3> QED BY <2>1, <3>2, <3>3
  <2> QED BY <2>1, <2>2
<1>3. N = Nat
  <2>1. N \in SUBSET Nat
    OBVIOUS
  <2> HIDE DEF N
  <2> QED BY <1>1, <1>2, <2>1, Induction
<1>4. \A s \in Seq(S) : Len(s) \in Nat
  BY LenProperties
<1> QED BY <1>3, <1>4

\* Recursions that start alike and step alike agree.
Alike(f, g, n) == f[0] = g[0] /\ \A k \in 1..n : f[k - 1] = g[k - 1] => f[k] = g[k]

\* Proved by induction over the set of steps on which they agree.
LEMMA FoldsAgree ==
    ASSUME NEW n \in Nat, NEW f, NEW g, Alike(f, g, n)
    PROVE  \A k \in 0..n : f[k] = g[k]
<1> USE DEF Alike
<1> DEFINE P == {k \in Nat : k <= n => f[k] = g[k]}
<1>1. 0 \in P
  OBVIOUS
<1>2. ASSUME NEW k \in P
      PROVE  k + 1 \in P
  <2>1. k \in Nat /\ (k <= n => f[k] = g[k])
    OBVIOUS
  <2>2. k + 1 <= n => k + 1 \in 1..n /\ k + 1 - 1 = k /\ k <= n
    BY <2>1
  <2>3. k + 1 <= n => f[k + 1] = g[k + 1]
    BY <2>1, <2>2
  <2> QED BY <2>1, <2>3
<1>3. P = Nat
  <2>1. P \in SUBSET Nat
    OBVIOUS
  <2> HIDE DEF P
  <2> QED BY <1>1, <1>2, <2>1, Induction
<1> QED BY <1>3

\* The state a transaction starts from.
Start(outs) ==
    [lamports |-> wallet.lamports, ata |-> wallet.ata, unsynced |-> 0,
     fee_atas |-> fee_atas, outs |-> outs, err |-> "none"]

\* Concatenation, an element at a time.
LEMMA ConcatAppend ==
    ASSUME NEW S, NEW s \in Seq(S), NEW t \in Seq(S), NEW e \in S
    PROVE  /\ s \o t \in Seq(S)
           /\ s \o Append(t, e) = Append(s \o t, e)
<1>1. s \o t \in Seq(S) /\ <<e>> \in Seq(S)
  BY ConcatProperties
<1>2. Append(t, e) = t \o <<e>> /\ Append(s \o t, e) = (s \o t) \o <<e>>
  BY <1>1, AppendIsConcat
<1>3. (s \o t) \o <<e>> = s \o (t \o <<e>>)
  BY <1>1, ConcatAssociative
<1> QED BY <1>1, <1>2, <1>3

\* Running a sequence of instructions passes through one state per instruction.
LEMMA RunFolds ==
    ASSUME NEW c, NEW s, Len(s) \in Nat
    PROVE  \E f : /\ f[0] = c
                  /\ \A k \in 1..Len(s) : f[k] = Apply(f[k - 1], s[k])
                  /\ Run(c, s) = f[Len(s)]
<1> DEFINE Recurs(f, n) == f = [k \in 0..n |-> IF k = 0 THEN c ELSE Apply(f[k - 1], s[k])]
           P == {n \in Nat : \E f : Recurs(f, n)}
<1>1. 0 \in P
  BY Recurs([k \in 0..0 |-> c], 0)
<1>2. ASSUME NEW m \in P
      PROVE  m + 1 \in P
  <2>1. m \in Nat /\ \E f : Recurs(f, m)
    OBVIOUS
  <2>2. PICK f : Recurs(f, m)
    BY <2>1
  <2> DEFINE g == [k \in 0..(m + 1) |-> IF k = m + 1 THEN Apply(f[m], s[m + 1]) ELSE f[k]]
  <2>3. ASSUME NEW k \in 0..(m + 1)
        PROVE  g[k] = IF k = 0 THEN c ELSE Apply(g[k - 1], s[k])
    <3>1. CASE k = m + 1
      BY <3>1, <2>1
    <3>2. CASE k # m + 1
      BY <3>2, <2>1, <2>2
    <3> QED BY <3>1, <3>2
  <2>4. Recurs(g, m + 1)
    BY <2>3
  <2> HIDE DEF g
  <2>5. \E h : Recurs(h, m + 1)
    BY <2>4
  <2> HIDE DEF Recurs
  <2> QED BY <2>1, <2>5
<1>3. P = Nat
  <2>1. P \in SUBSET Nat
    OBVIOUS
  <2> HIDE DEF P
  <2> QED BY <1>1, <1>2, <2>1, Induction
<1>4. \E f : Recurs(f, Len(s))
  BY <1>3
<1> DEFINE f == CHOOSE f : Recurs(f, Len(s))
<1>5. Recurs(f, Len(s))
  BY <1>4
<1>6. Run(c, s) = f[Len(s)]
  BY DEF Run
<1> HIDE DEF f
<1> QED BY <1>5, <1>6

\* One more instruction is one more step.
LEMMA RunAppend ==
    ASSUME NEW c, NEW S, NEW s \in Seq(S), NEW x \in S
    PROVE  /\ Run(c, <<>>) = c
           /\ Run(c, Append(s, x)) = Apply(Run(c, s), x)
<1> DEFINE t == Append(s, x)
           n == Len(s)
<1>1. n \in Nat /\ Len(t) = n + 1 /\ t[n + 1] = x /\ \A k \in 1..n : t[k] = s[k]
  BY AppendProperties, LenProperties
<1> HIDE DEF t
<1>2. Len(<<>>) \in Nat /\ Len(<<>>) = 0 /\ Len(t) \in Nat /\ Len(s) \in Nat
  BY <1>1
<1>3. Run(c, <<>>) = c
  BY <1>2, RunFolds
<1>4. PICK f : /\ f[0] = c
               /\ \A k \in 1..Len(s) : f[k] = Apply(f[k - 1], s[k])
               /\ Run(c, s) = f[Len(s)]
  BY <1>2, RunFolds
<1>5. PICK g : /\ g[0] = c
               /\ \A k \in 1..Len(t) : g[k] = Apply(g[k - 1], t[k])
               /\ Run(c, t) = g[Len(t)]
  BY <1>2, RunFolds
<1>6. f[n] = g[n]
  <2>1. f[0] = g[0]
    BY <1>4, <1>5
  <2>2. \A k \in 1..n : f[k - 1] = g[k - 1] => f[k] = g[k]
    BY <1>1, <1>4, <1>5
  <2>3. \A k \in 0..n : f[k] = g[k]
    <3>1. n \in Nat
      BY <1>1
    <3>2. Alike(f, g, n)
      BY <2>1, <2>2 DEF Alike
    <3> HIDE DEF n
    <3> QED BY <3>1, <3>2, FoldsAgree
  <2> QED BY <1>1, <2>3
<1>7. g[n + 1] = Apply(g[n], x)
  <2>1. n + 1 \in 1..Len(t) /\ n + 1 - 1 = n
    BY <1>1
  <2> QED BY <1>1, <1>5, <2>1
<1> QED BY <1>1, <1>3, <1>4, <1>5, <1>6, <1>7 DEF t

\* A transaction passes through one state per instruction.
LEMMA ExecuteFolds ==
    ASSUME NEW s, NEW outs, Len(s) \in Nat
    PROVE  \E f : /\ f[0] = Start(outs)
                  /\ \A k \in 1..Len(s) : f[k] = Process(f[k - 1], s[k])
                  /\ Execute(s, outs) = f[Len(s)]
<1> DEFINE Recurs(f, n) == f = [k \in 0..n |-> IF k = 0 THEN Start(outs) ELSE Process(f[k - 1], s[k])]
           P == {n \in Nat : \E f : Recurs(f, n)}
<1>1. 0 \in P
  BY Recurs([k \in 0..0 |-> Start(outs)], 0)
<1>2. ASSUME NEW m \in P
      PROVE  m + 1 \in P
  <2>1. m \in Nat /\ \E f : Recurs(f, m)
    OBVIOUS
  <2>2. PICK f : Recurs(f, m)
    BY <2>1
  <2> DEFINE g == [k \in 0..(m + 1) |-> IF k = m + 1 THEN Process(f[m], s[m + 1]) ELSE f[k]]
  <2>3. ASSUME NEW k \in 0..(m + 1)
        PROVE  g[k] = IF k = 0 THEN Start(outs) ELSE Process(g[k - 1], s[k])
    <3>1. CASE k = m + 1
      BY <3>1, <2>1
    <3>2. CASE k # m + 1
      BY <3>2, <2>1, <2>2
    <3> QED BY <3>1, <3>2
  <2>4. Recurs(g, m + 1)
    BY <2>3
  <2> HIDE DEF g
  <2>5. \E h : Recurs(h, m + 1)
    BY <2>4
  <2> HIDE DEF Recurs
  <2> QED BY <2>1, <2>5
<1>3. P = Nat
  <2>1. P \in SUBSET Nat
    OBVIOUS
  <2> HIDE DEF P
  <2> QED BY <1>1, <1>2, <2>1, Induction
<1>4. \E f : Recurs(f, Len(s))
  BY <1>3
<1> DEFINE f == CHOOSE f : Recurs(f, Len(s))
<1>5. Recurs(f, Len(s))
  BY <1>4
<1>6. Execute(s, outs) = f[Len(s)]
  BY DEF Execute, Start
<1> HIDE DEF f
<1> QED BY <1>5, <1>6

\* A transaction starts from the accounts, and its last instruction runs last.
LEMMA ExecuteAppend ==
    ASSUME NEW outs, NEW S, NEW s \in Seq(S), NEW x \in S
    PROVE  /\ Execute(<<>>, outs) = Start(outs)
           /\ Execute(Append(s, x), outs) = Process(Execute(s, outs), x)
<1> DEFINE t == Append(s, x)
           n == Len(s)
<1>1. n \in Nat /\ Len(t) = n + 1 /\ t[n + 1] = x /\ \A k \in 1..n : t[k] = s[k]
  BY AppendProperties, LenProperties
<1> HIDE DEF t
<1>2. Len(<<>>) \in Nat /\ Len(<<>>) = 0 /\ Len(t) \in Nat /\ Len(s) \in Nat
  BY <1>1
<1>3. Execute(<<>>, outs) = Start(outs)
  BY <1>2, ExecuteFolds
<1>4. PICK f : /\ f[0] = Start(outs)
               /\ \A k \in 1..Len(s) : f[k] = Process(f[k - 1], s[k])
               /\ Execute(s, outs) = f[Len(s)]
  BY <1>2, ExecuteFolds
<1>5. PICK g : /\ g[0] = Start(outs)
               /\ \A k \in 1..Len(t) : g[k] = Process(g[k - 1], t[k])
               /\ Execute(t, outs) = g[Len(t)]
  BY <1>2, ExecuteFolds
<1>6. f[n] = g[n]
  <2>1. f[0] = g[0]
    BY <1>4, <1>5
  <2>2. \A k \in 1..n : f[k - 1] = g[k - 1] => f[k] = g[k]
    BY <1>1, <1>4, <1>5
  <2>3. \A k \in 0..n : f[k] = g[k]
    <3>1. n \in Nat
      BY <1>1
    <3>2. Alike(f, g, n)
      BY <2>1, <2>2 DEF Alike
    <3> HIDE DEF n
    <3> QED BY <3>1, <3>2, FoldsAgree
  <2> QED BY <1>1, <2>3
<1>7. g[n + 1] = Process(g[n], x)
  <2>1. n + 1 \in 1..Len(t) /\ n + 1 - 1 = n
    BY <1>1
  <2> QED BY <1>1, <1>5, <2>1
<1> QED BY <1>1, <1>3, <1>4, <1>5, <1>6, <1>7 DEF t

\* What is dropped from a sequence is decided element by element.
LEMMA DropFolds ==
    ASSUME NEW s, NEW ops, Len(s) \in Nat
    PROVE  \E f : /\ f[0] = <<>>
                  /\ \A k \in 1..Len(s) : f[k] = AppendUnless(f[k - 1], s[k], ops)
                  /\ Drop(s, ops) = f[Len(s)]
<1> DEFINE Recurs(f, n) == f = [k \in 0..n |-> IF k = 0 THEN <<>> ELSE AppendUnless(f[k - 1], s[k], ops)]
           P == {n \in Nat : \E f : Recurs(f, n)}
<1>1. 0 \in P
  BY Recurs([k \in 0..0 |-> <<>>], 0)
<1>2. ASSUME NEW m \in P
      PROVE  m + 1 \in P
  <2>1. m \in Nat /\ \E f : Recurs(f, m)
    OBVIOUS
  <2>2. PICK f : Recurs(f, m)
    BY <2>1
  <2> DEFINE g == [k \in 0..(m + 1) |-> IF k = m + 1 THEN AppendUnless(f[m], s[m + 1], ops) ELSE f[k]]
  <2>3. ASSUME NEW k \in 0..(m + 1)
        PROVE  g[k] = IF k = 0 THEN <<>> ELSE AppendUnless(g[k - 1], s[k], ops)
    <3>1. CASE k = m + 1
      BY <3>1, <2>1
    <3>2. CASE k # m + 1
      BY <3>2, <2>1, <2>2
    <3> QED BY <3>1, <3>2
  <2>4. Recurs(g, m + 1)
    BY <2>3
  <2> HIDE DEF g
  <2>5. \E h : Recurs(h, m + 1)
    BY <2>4
  <2> HIDE DEF Recurs
  <2> QED BY <2>1, <2>5
<1>3. P = Nat
  <2>1. P \in SUBSET Nat
    OBVIOUS
  <2> HIDE DEF P
  <2> QED BY <1>1, <1>2, <2>1, Induction
<1>4. \E f : Recurs(f, Len(s))
  BY <1>3
<1> DEFINE f == CHOOSE f : Recurs(f, Len(s))
<1>5. Recurs(f, Len(s))
  BY <1>4
<1>6. Drop(s, ops) = f[Len(s)]
  BY DEF Drop
<1> HIDE DEF f
<1> QED BY <1>5, <1>6

\* Dropping instructions, an instruction at a time.
LEMMA DropAppend ==
    ASSUME NEW ops, NEW S, NEW s \in Seq(S), NEW x \in S
    PROVE  /\ Drop(<<>>, ops) = <<>>
           /\ Drop(Append(s, x), ops) = AppendUnless(Drop(s, ops), x, ops)
<1> DEFINE t == Append(s, x)
           n == Len(s)
<1>1. n \in Nat /\ Len(t) = n + 1 /\ t[n + 1] = x /\ \A k \in 1..n : t[k] = s[k]
  BY AppendProperties, LenProperties
<1> HIDE DEF t
<1>2. Len(<<>>) \in Nat /\ Len(<<>>) = 0 /\ Len(t) \in Nat /\ Len(s) \in Nat
  BY <1>1
<1>3. Drop(<<>>, ops) = <<>>
  BY <1>2, DropFolds
<1>4. PICK f : /\ f[0] = <<>>
               /\ \A k \in 1..Len(s) : f[k] = AppendUnless(f[k - 1], s[k], ops)
               /\ Drop(s, ops) = f[Len(s)]
  BY <1>2, DropFolds
<1>5. PICK g : /\ g[0] = <<>>
               /\ \A k \in 1..Len(t) : g[k] = AppendUnless(g[k - 1], t[k], ops)
               /\ Drop(t, ops) = g[Len(t)]
  BY <1>2, DropFolds
<1>6. f[n] = g[n]
  <2>1. f[0] = g[0]
    BY <1>4, <1>5
  <2>2. \A k \in 1..n : f[k - 1] = g[k - 1] => f[k] = g[k]
    BY <1>1, <1>4, <1>5
  <2>3. \A k \in 0..n : f[k] = g[k]
    <3>1. n \in Nat
      BY <1>1
    <3>2. Alike(f, g, n)
      BY <2>1, <2>2 DEF Alike
    <3> HIDE DEF n
    <3> QED BY <3>1, <3>2, FoldsAgree
  <2> QED BY <1>1, <2>3
<1>7. g[n + 1] = AppendUnless(g[n], x, ops)
  <2>1. n + 1 \in 1..Len(t) /\ n + 1 - 1 = n
    BY <1>1
  <2> QED BY <1>1, <1>5, <2>1
<1> QED BY <1>1, <1>3, <1>4, <1>5, <1>6, <1>7 DEF t

\* A sequence is deduplicated element by element.
LEMMA DedupeFolds ==
    ASSUME NEW s, Len(s) \in Nat
    PROVE  \E f : /\ f[0] = <<>>
                  /\ \A k \in 1..Len(s) : f[k] = AppendNew(f[k - 1], s[k])
                  /\ dedupe_instructions(s) = f[Len(s)]
<1> DEFINE Recurs(f, n) == f = [k \in 0..n |-> IF k = 0 THEN <<>> ELSE AppendNew(f[k - 1], s[k])]
           P == {n \in Nat : \E f : Recurs(f, n)}
<1>1. 0 \in P
  BY Recurs([k \in 0..0 |-> <<>>], 0)
<1>2. ASSUME NEW m \in P
      PROVE  m + 1 \in P
  <2>1. m \in Nat /\ \E f : Recurs(f, m)
    OBVIOUS
  <2>2. PICK f : Recurs(f, m)
    BY <2>1
  <2> DEFINE g == [k \in 0..(m + 1) |-> IF k = m + 1 THEN AppendNew(f[m], s[m + 1]) ELSE f[k]]
  <2>3. ASSUME NEW k \in 0..(m + 1)
        PROVE  g[k] = IF k = 0 THEN <<>> ELSE AppendNew(g[k - 1], s[k])
    <3>1. CASE k = m + 1
      BY <3>1, <2>1
    <3>2. CASE k # m + 1
      BY <3>2, <2>1, <2>2
    <3> QED BY <3>1, <3>2
  <2>4. Recurs(g, m + 1)
    BY <2>3
  <2> HIDE DEF g
  <2>5. \E h : Recurs(h, m + 1)
    BY <2>4
  <2> HIDE DEF Recurs
  <2> QED BY <2>1, <2>5
<1>3. P = Nat
  <2>1. P \in SUBSET Nat
    OBVIOUS
  <2> HIDE DEF P
  <2> QED BY <1>1, <1>2, <2>1, Induction
<1>4. \E f : Recurs(f, Len(s))
  BY <1>3
<1> DEFINE f == CHOOSE f : Recurs(f, Len(s))
<1>5. Recurs(f, Len(s))
  BY <1>4
<1>6. dedupe_instructions(s) = f[Len(s)]
  BY DEF dedupe_instructions
<1> HIDE DEF f
<1> QED BY <1>5, <1>6

\* dedupe_instructions, an instruction at a time.
LEMMA DedupeAppend ==
    ASSUME NEW S, NEW s \in Seq(S), NEW x \in S
    PROVE  /\ dedupe_instructions(<<>>) = <<>>
           /\ dedupe_instructions(Append(s, x)) = AppendNew(dedupe_instructions(s), x)
<1> DEFINE t == Append(s, x)
           n == Len(s)
<1>1. n \in Nat /\ Len(t) = n + 1 /\ t[n + 1] = x /\ \A k \in 1..n : t[k] = s[k]
  BY AppendProperties, LenProperties
<1> HIDE DEF t
<1>2. Len(<<>>) \in Nat /\ Len(<<>>) = 0 /\ Len(t) \in Nat /\ Len(s) \in Nat
  BY <1>1
<1>3. dedupe_instructions(<<>>) = <<>>
  BY <1>2, DedupeFolds
<1>4. PICK f : /\ f[0] = <<>>
               /\ \A k \in 1..Len(s) : f[k] = AppendNew(f[k - 1], s[k])
               /\ dedupe_instructions(s) = f[Len(s)]
  BY <1>2, DedupeFolds
<1>5. PICK g : /\ g[0] = <<>>
               /\ \A k \in 1..Len(t) : g[k] = AppendNew(g[k - 1], t[k])
               /\ dedupe_instructions(t) = g[Len(t)]
  BY <1>2, DedupeFolds
<1>6. f[n] = g[n]
  <2>1. f[0] = g[0]
    BY <1>4, <1>5
  <2>2. \A k \in 1..n : f[k - 1] = g[k - 1] => f[k] = g[k]
    BY <1>1, <1>4, <1>5
  <2>3. \A k \in 0..n : f[k] = g[k]
    <3>1. n \in Nat
      BY <1>1
    <3>2. Alike(f, g, n)
      BY <2>1, <2>2 DEF Alike
    <3> HIDE DEF n
    <3> QED BY <3>1, <3>2, FoldsAgree
  <2> QED BY <1>1, <2>3
<1>7. g[n + 1] = AppendNew(g[n], x)
  <2>1. n + 1 \in 1..Len(t) /\ n + 1 - 1 = n
    BY <1>1
  <2> QED BY <1>1, <1>5, <2>1
<1> QED BY <1>1, <1>3, <1>4, <1>5, <1>6, <1>7 DEF t

\* No instructions change nothing.
LEMMA RunNothing ==
    ASSUME NEW c
    PROVE  Run(c, <<>>) = c
<1>1. <<>> \in Seq({0}) /\ 0 \in {0}
  OBVIOUS
<1> QED BY <1>1, RunAppend

\* Nothing can be dropped of no instructions.
LEMMA DropNothing ==
    ASSUME NEW ops
    PROVE  Drop(<<>>, ops) = <<>>
<1>1. <<>> \in Seq({0}) /\ 0 \in {0}
  OBVIOUS
<1> QED BY <1>1, DropAppend

\* No instructions have no duplicates.
LEMMA DedupeNothing ==
    dedupe_instructions(<<>>) = <<>>
<1>1. <<>> \in Seq({0}) /\ 0 \in {0}
  OBVIOUS
<1> QED BY <1>1, DedupeAppend

-----------------------------------------------------------------------------
(* Running instructions                                                     *)

\* Instructions in two parts run one part after the other.
LEMMA RunConcat ==
    ASSUME NEW S, NEW s \in Seq(S), NEW t \in Seq(S), NEW c
    PROVE  Run(c, s \o t) = Run(Run(c, s), t)
<1> DEFINE P == {u \in Seq(S) : Run(c, s \o u) = Run(Run(c, s), u)}
<1>1. <<>> \in P
  <2>1. <<>> \in Seq(S) /\ s \o <<>> = s
    BY ConcatEmptySeq, EmptySeq
  <2>2. \A d : Run(d, <<>>) = d
    BY RunNothing
  <2> QED BY <2>1, <2>2
<1>2. ASSUME NEW u \in P, NEW e \in S
      PROVE  Append(u, e) \in P
  <2>1. u \in Seq(S) /\ Run(c, s \o u) = Run(Run(c, s), u) /\ Append(u, e) \in Seq(S)
    BY AppendProperties
  <2>2. s \o u \in Seq(S) /\ s \o Append(u, e) = Append(s \o u, e)
    BY <2>1, ConcatAppend
  <2>3. Run(c, s \o Append(u, e)) = Apply(Run(c, s \o u), e)
    <3> DEFINE v == s \o u
    <3>1. v \in Seq(S) /\ s \o Append(u, e) = Append(v, e)
      BY <2>2
    <3> HIDE DEF v
    <3>2. Run(c, Append(v, e)) = Apply(Run(c, v), e)
      BY <3>1, RunAppend
    <3> QED BY <3>1, <3>2 DEF v
  <2>4. Run(Run(c, s), Append(u, e)) = Apply(Run(Run(c, s), u), e)
    BY <2>1, RunAppend
  <2> QED BY <2>1, <2>3, <2>4
<1>3. P = Seq(S)
  <2>1. P \in SUBSET Seq(S)
    OBVIOUS
  <2> HIDE DEF P
  <2> QED BY <1>1, <1>2, <2>1, SequenceInduction
<1> QED BY <1>3

\* A single instruction runs as itself.
LEMMA RunOne ==
    ASSUME NEW c, NEW ix
    PROVE  Run(c, <<ix>>) = Apply(c, ix)
<1>1. <<>> \in Seq({ix}) /\ Append(<<>>, ix) = <<ix>>
  OBVIOUS
<1>2. Run(c, Append(<<>>, ix)) = Apply(Run(c, <<>>), ix)
  <2> DEFINE s == <<>>
  <2>1. s \in Seq({ix}) /\ ix \in {ix}
    BY <1>1
  <2> HIDE DEF s
  <2>2. Run(c, Append(s, ix)) = Apply(Run(c, s), ix)
    BY <2>1, RunAppend
  <2> QED BY <2>2 DEF s
<1> QED BY <1>1, <1>2, RunNothing

\* After a failure nothing more runs.
LEMMA RunFailed ==
    ASSUME NEW c, c.err # "none", NEW S, NEW s \in Seq(S)
    PROVE  Run(c, s) = c
<1> DEFINE P == {u \in Seq(S) : Run(c, u) = c}
<1>1. <<>> \in P
  BY RunNothing, EmptySeq
<1>2. ASSUME NEW u \in P, NEW e \in S
      PROVE  Append(u, e) \in P
  <2>1. u \in Seq(S) /\ Run(c, u) = c /\ Append(u, e) \in Seq(S)
    BY AppendProperties
  <2>2. Run(c, Append(u, e)) = Apply(c, e)
    BY <2>1, RunAppend
  <2>3. Apply(c, e) = c
    BY DEF Apply
  <2> QED BY <2>1, <2>2, <2>3
<1>3. P = Seq(S)
  <2>1. P \in SUBSET Seq(S)
    OBVIOUS
  <2> HIDE DEF P
  <2> QED BY <1>1, <1>2, <2>1, SequenceInduction
<1> QED BY <1>3

\* The transaction runs up to the router, through it and on.
LEMMA ExecuteSplit ==
    ASSUME NEW S, NEW a \in Seq(S), NEW b \in Seq(S), NEW r, r.op = "router", NEW outs,
           \A x \in S : x.op # "router"
    PROVE  Execute((a \o <<r>>) \o b, outs) = Run(RouterSwap(Run(Start(outs), a), r), b)
<1> DEFINE T == S \cup {r}
           P == {u \in Seq(S) : Execute(u, outs) = Run(Start(outs), u)}
           d == RouterSwap(Run(Start(outs), a), r)
           Q == {u \in Seq(S) : Execute((a \o <<r>>) \o u, outs) = Run(d, u)}
<1>1. <<>> \in P
  <2>1. <<>> \in Seq({0}) /\ 0 \in {0}
    OBVIOUS
  <2>2. Execute(<<>>, outs) = Start(outs)
    BY <2>1, ExecuteAppend
  <2> QED BY <2>2, RunNothing, EmptySeq
<1>2. ASSUME NEW u \in P, NEW e \in S
      PROVE  Append(u, e) \in P
  <2>1. u \in Seq(S) /\ Execute(u, outs) = Run(Start(outs), u) /\ Append(u, e) \in Seq(S)
    BY AppendProperties
  <2>2. Execute(Append(u, e), outs) = Process(Execute(u, outs), e)
    BY <2>1, ExecuteAppend
  <2>3. Process(Execute(u, outs), e) = Apply(Run(Start(outs), u), e)
    BY <2>1 DEF Process
  <2>4. Run(Start(outs), Append(u, e)) = Apply(Run(Start(outs), u), e)
    BY <2>1, RunAppend
  <2> QED BY <2>1, <2>2, <2>3, <2>4
<1>3. P = Seq(S)
  <2>1. P \in SUBSET Seq(S)
    OBVIOUS
  <2> HIDE DEF P
  <2> QED BY <1>1, <1>2, <2>1, SequenceInduction
<1>4. Execute(a, outs) = Run(Start(outs), a)
  BY <1>3
<1>5. a \in Seq(T) /\ r \in T /\ a \o <<r>> = Append(a, r) /\ Append(a, r) \in Seq(T)
  <2>1. a \in Seq(T) /\ r \in T
    BY SeqMonotonic
  <2> QED BY <2>1, AppendIsConcat, AppendProperties
<1>6. Execute(a \o <<r>>, outs) = d
  <2>1. Execute(Append(a, r), outs) = Process(Execute(a, outs), r)
    BY <1>5, ExecuteAppend
  <2> QED BY <1>4, <1>5, <2>1 DEF Process
<1> HIDE DEF d
<1>7. <<>> \in Q
  <2>1. (a \o <<r>>) \o <<>> = a \o <<r>>
    BY <1>5, ConcatEmptySeq
  <2> QED BY <1>6, <2>1, RunNothing, EmptySeq
<1>8. ASSUME NEW u \in Q, NEW e \in S
      PROVE  Append(u, e) \in Q
  <2>1. u \in Seq(S) /\ Execute((a \o <<r>>) \o u, outs) = Run(d, u) /\ Append(u, e) \in Seq(S)
    BY AppendProperties
  <2>2. u \in Seq(T) /\ e \in T
    BY <2>1, SeqMonotonic
  <2>3. (a \o <<r>>) \o u \in Seq(T) /\ (a \o <<r>>) \o Append(u, e) = Append((a \o <<r>>) \o u, e)
    BY <1>5, <2>2, ConcatAppend
  <2>4. Execute((a \o <<r>>) \o Append(u, e), outs) = Process(Run(d, u), e)
    <3> DEFINE v == (a \o <<r>>) \o u
    <3>1. v \in Seq(T) /\ (a \o <<r>>) \o Append(u, e) = Append(v, e) /\ Execute(v, outs) = Run(d, u)
      BY <2>1, <2>3
    <3> HIDE DEF v
    <3>2. Execute(Append(v, e), outs) = Process(Execute(v, outs), e)
      BY <2>2, <3>1, ExecuteAppend
    <3> QED BY <3>1, <3>2
  <2>5. Process(Run(d, u), e) = Apply(Run(d, u), e)
    BY DEF Process
  <2>6. Run(d, Append(u, e)) = Apply(Run(d, u), e)
    BY <2>1, RunAppend
  <2> QED BY <2>1, <2>4, <2>5, <2>6
<1>9. Q = Seq(S)
  <2>1. Q \in SUBSET Seq(S)
    OBVIOUS
  <2> HIDE DEF Q
  <2> QED BY <1>7, <1>8, <2>1, SequenceInduction
<1> QED BY <1>9 DEF d

-----------------------------------------------------------------------------
(* What the builder makes of sequences                                      *)

\* What an appended element adds to a sequence.
LEMMA RangeAppend ==
    ASSUME NEW S, NEW s \in Seq(S), NEW e \in S
    PROVE  Range(Append(s, e)) = Range(s) \cup {e}
<1>1. Append(s, e) \in Seq(S) /\ Len(Append(s, e)) = Len(s) + 1 /\ Len(s) \in Nat
      /\ (\A i \in 1..Len(s) : Append(s, e)[i] = s[i]) /\ Append(s, e)[Len(s) + 1] = e
  BY AppendProperties, LenProperties
<1>2. Range(Append(s, e)) = {Append(s, e)[i] : i \in 1..(Len(s) + 1)} /\ Range(s) = {s[i] : i \in 1..Len(s)}
  BY <1>1, RangeEquality
<1>3. 1..(Len(s) + 1) = 1..Len(s) \cup {Len(s) + 1}
  BY <1>1
<1> QED BY <1>1, <1>2, <1>3

\* The empty sequence has no elements.
LEMMA RangeEmpty == Range(<<>>) = {}
  BY DEF Range

\* Contains is membership in the range.
LEMMA ContainsIsRange ==
    ASSUME NEW S, NEW s \in Seq(S), NEW e
    PROVE  Contains(s, e) <=> e \in Range(s)
  BY RangeEquality DEF Contains

\* A sequence without duplicates is its own deduplication.
LEMMA DedupeDistinct ==
    ASSUME NEW S, NEW s \in Seq(S), \A i, j \in 1..Len(s) : i # j => s[i] # s[j]
    PROVE  dedupe_instructions(s) = s
<1> DEFINE Distinct(t) == \A i, j \in 1..Len(t) : i # j => t[i] # t[j]
           P == {t \in Seq(S) : Distinct(t) => dedupe_instructions(t) = t}
<1>1. <<>> \in P
  BY EmptySeq, DedupeNothing
<1>2. ASSUME NEW t \in P, NEW e \in S
      PROVE  Append(t, e) \in P
  <2>1. t \in Seq(S) /\ (Distinct(t) => dedupe_instructions(t) = t) /\ Append(t, e) \in Seq(S)
    BY AppendProperties
  <2>2. ASSUME Distinct(Append(t, e))
        PROVE  dedupe_instructions(Append(t, e)) = Append(t, e)
    <3>1. Len(t) \in Nat /\ Len(Append(t, e)) = Len(t) + 1 /\ Append(t, e)[Len(t) + 1] = e
          /\ \A i \in 1..Len(t) : Append(t, e)[i] = t[i]
      BY <2>1, AppendProperties, LenProperties
    <3>2. Distinct(t) /\ \A i \in 1..Len(t) : t[i] # e
      BY <2>2, <3>1
    <3>3. ~ Contains(t, e)
      BY <3>2 DEF Contains
    <3>4. dedupe_instructions(Append(t, e)) = AppendNew(dedupe_instructions(t), e)
      BY <2>1, DedupeAppend
    <3> QED BY <2>1, <3>2, <3>3, <3>4 DEF AppendNew
  <2> QED BY <2>1, <2>2
<1>3. P = Seq(S)
  <2>1. P \in SUBSET Seq(S)
    OBVIOUS
  <2> HIDE DEF P
  <2> QED BY <1>1, <1>2, <2>1, SequenceInduction
<1> QED BY <1>3

\* Deduplication keeps a beginning without duplicates and adds what is new.
LEMMA DedupeShape ==
    ASSUME NEW S, NEW s \in Seq(S), \A i, j \in 1..Len(s) : i # j => s[i] # s[j],
           NEW Y, NEW t \in Seq(Y)
    PROVE  \E u \in Seq(Y) : /\ dedupe_instructions(s \o t) = s \o u
                             /\ Range(t) \subseteq Range(s) \cup Range(u)
                             /\ Range(s) \cap Range(u) = {}
<1> DEFINE Shape(v, u) == /\ dedupe_instructions(s \o v) = s \o u
                          /\ Range(v) \subseteq Range(s) \cup Range(u)
                          /\ Range(s) \cap Range(u) = {}
           Z == S \cup Y
           P == {v \in Seq(Y) : \E u \in Seq(Y) : Shape(v, u)}
<1>1. s \in Seq(Z) /\ \A v \in Seq(Y) : v \in Seq(Z)
  BY SeqMonotonic
<1>2. <<>> \in P
  <2>1. s \o <<>> = s /\ <<>> \in Seq(Y)
    BY ConcatEmptySeq, EmptySeq
  <2>2. dedupe_instructions(s) = s
    BY DedupeDistinct
  <2>3. Shape(<<>>, <<>>)
    BY <2>1, <2>2, RangeEmpty
  <2> QED BY <2>1, <2>3
<1>3. ASSUME NEW v \in P, NEW e \in Y
      PROVE  Append(v, e) \in P
  <2>1. v \in Seq(Y) /\ Append(v, e) \in Seq(Y) /\ e \in Z
    BY AppendProperties
  <2>2. PICK u \in Seq(Y) : Shape(v, u)
    OBVIOUS
  <2>3. u \in Seq(Z) /\ v \in Seq(Z)
    BY <1>1, <2>1
  <2>4. dedupe_instructions(s \o Append(v, e)) = AppendNew(s \o u, e)
    <3> DEFINE sv == s \o v
    <3>1. sv \in Seq(Z) /\ s \o Append(v, e) = Append(sv, e)
      BY <1>1, <2>1, <2>3, ConcatAppend
    <3>2. dedupe_instructions(sv) = s \o u
      BY <2>2
    <3> HIDE DEF sv
    <3>3. dedupe_instructions(Append(sv, e)) = AppendNew(dedupe_instructions(sv), e)
      BY <2>1, <3>1, DedupeAppend
    <3> QED BY <3>1, <3>2, <3>3
  <2>5. s \o u \in Seq(Z) /\ Range(s \o u) = Range(s) \cup Range(u)
    BY <1>1, <2>3, ConcatProperties, RangeConcatenation
  <2>6. Range(Append(v, e)) = Range(v) \cup {e}
    BY <2>1, RangeAppend
  <2>7. Contains(s \o u, e) <=> e \in Range(s) \cup Range(u)
    BY <2>5, ContainsIsRange
  <2>8. CASE e \in Range(s) \cup Range(u)
    <3>1. Shape(Append(v, e), u)
      BY <2>2, <2>4, <2>6, <2>7, <2>8 DEF AppendNew
    <3> QED BY <2>1, <3>1
  <2>9. CASE e \notin Range(s) \cup Range(u)
    <3>1. AppendNew(s \o u, e) = s \o Append(u, e)
      <4>1. s \o Append(u, e) = Append(s \o u, e)
        BY <1>1, <2>1, <2>3, ConcatAppend
      <4> QED BY <2>7, <2>9, <4>1 DEF AppendNew
    <3>2. Append(u, e) \in Seq(Y) /\ Range(Append(u, e)) = Range(u) \cup {e}
      BY AppendProperties, RangeAppend
    <3>3. Shape(Append(v, e), Append(u, e))
      BY <2>2, <2>4, <2>6, <2>9, <3>1, <3>2
    <3> QED BY <2>1, <3>2, <3>3
  <2> QED BY <2>8, <2>9
<1>4. P = Seq(Y)
  <2>1. P \in SUBSET Seq(Y)
    OBVIOUS
  <2> HIDE DEF P
  <2> QED BY <1>2, <1>3, <2>1, SequenceInduction
<1> QED BY <1>4

\* Drop keeps the instructions of the other kinds, and only those.
LEMMA DropShape ==
    ASSUME NEW S, NEW s \in Seq(S), NEW ops
    PROVE  /\ Drop(s, ops) \in Seq({x \in S : x.op \notin ops})
           /\ Range(Drop(s, ops)) = {x \in Range(s) : x.op \notin ops}
<1> DEFINE K == {x \in S : x.op \notin ops}
           P == {t \in Seq(S) : /\ Drop(t, ops) \in Seq(K)
                                /\ Range(Drop(t, ops)) = {x \in Range(t) : x.op \notin ops}}
<1>1. <<>> \in P
  <2>1. Drop(<<>>, ops) = <<>> /\ <<>> \in Seq(K) /\ <<>> \in Seq(S)
    BY DropNothing, EmptySeq
  <2> QED BY <2>1, RangeEmpty
<1>2. ASSUME NEW t \in P, NEW e \in S
      PROVE  Append(t, e) \in P
  <2>1. /\ t \in Seq(S) /\ Append(t, e) \in Seq(S)
        /\ Drop(t, ops) \in Seq(K) /\ Range(Drop(t, ops)) = {x \in Range(t) : x.op \notin ops}
    BY AppendProperties
  <2>2. Drop(Append(t, e), ops) = AppendUnless(Drop(t, ops), e, ops)
    BY <2>1, DropAppend
  <2>3. Range(Append(t, e)) = Range(t) \cup {e}
    BY <2>1, RangeAppend
  <2>4. CASE e.op \in ops
    BY <2>1, <2>2, <2>3, <2>4 DEF AppendUnless
  <2>5. CASE e.op \notin ops
    <3>1. e \in K
      BY <2>5
    <3> HIDE DEF K
    <3>2. Append(Drop(t, ops), e) \in Seq(K) /\ Range(Append(Drop(t, ops), e)) = Range(Drop(t, ops)) \cup {e}
      BY <2>1, <3>1, AppendProperties, RangeAppend
    <3>3. Drop(Append(t, e), ops) = Append(Drop(t, ops), e)
      BY <2>2, <2>5 DEF AppendUnless
    <3> QED BY <2>1, <2>3, <2>5, <3>2, <3>3
  <2> QED BY <2>4, <2>5
<1>3. P = Seq(S)
  <2>1. P \in SUBSET Seq(S)
    OBVIOUS
  <2> HIDE DEF P
  <2> QED BY <1>1, <1>2, <2>1, SequenceInduction
<1> QED BY <1>3

\* A sequence of closes is deduplicated into one.
LEMMA DedupeCloses ==
    ASSUME NEW t \in Seq({Close})
    PROVE  dedupe_instructions(t) = IF t = <<>> THEN <<>> ELSE <<Close>>
<1>1. CASE t = <<>>
  BY <1>1, DedupeNothing
<1>2. CASE t # <<>>
  <2>1. Head(t) = Close /\ Tail(t) \in Seq({Close})
    BY <1>2, HeadTailProperties
  <2>2. t = <<Close>> \o Tail(t) /\ <<Close>> \in Seq({Close}) /\ Len(<<Close>>) = 1
    <3>1. \A i \in 1..Len(t) : t[i] = Close
      BY ElementOfSeq
    <3>2. Len(t) \in Nat \ {0}
      BY <1>2, EmptySeq
    <3>3. Len(Tail(t)) = Len(t) - 1 /\ \A i \in 1..Len(Tail(t)) : Tail(t)[i] = Close
      BY <1>2, <2>1, HeadTailProperties, ElementOfSeq
    <3>4. <<Close>> \in Seq({Close}) /\ Len(<<Close>>) = 1 /\ <<Close>>[1] = Close
      OBVIOUS
    <3>5. <<Close>> \o Tail(t) \in Seq({Close}) /\ Len(<<Close>> \o Tail(t)) = Len(t)
      BY <2>1, <3>2, <3>3, <3>4, ConcatProperties
    <3>6. \A i \in 1..Len(t) : (<<Close>> \o Tail(t))[i] = Close
      BY <3>5, ElementOfSeq
    <3> QED BY <3>1, <3>4, <3>5, <3>6, SeqEqual
  <2>3. PICK u \in Seq({Close}) : /\ dedupe_instructions(t) = <<Close>> \o u
                                  /\ Range(<<Close>>) \cap Range(u) = {}
    <3>1. \A i, j \in 1..Len(<<Close>>) : i # j => <<Close>>[i] # <<Close>>[j]
      OBVIOUS
    <3> DEFINE w == <<Close>>
               v == Tail(t)
    <3>2. w \in Seq({Close}) /\ v \in Seq({Close}) /\ t = w \o v
      BY <2>1, <2>2
    <3> HIDE DEF w, v
    <3>3. \A i, j \in 1..Len(w) : i # j => w[i] # w[j]
      BY <3>1 DEF w
    <3>4. \E u \in Seq({Close}) : dedupe_instructions(w \o v) = w \o u /\ Range(w) \cap Range(u) = {}
      BY <3>2, <3>3, DedupeShape
    <3> QED BY <3>2, <3>4 DEF w
  <2>4. u = <<>>
    <3>1. Close \in Range(<<Close>>)
      BY DEF Range
    <3>2. u # <<>> => Head(u) \in Range(u) /\ Head(u) = Close
      <4>1. u # <<>> => Len(u) \in Nat \ {0} /\ u[1] = Close
        BY EmptySeq, ElementOfSeq
      <4>2. u # <<>> => 1 \in 1..Len(u)
        BY <4>1
      <4>3. Range(u) = {u[i] : i \in 1..Len(u)}
        BY RangeEquality
      <4> QED BY <4>1, <4>2, <4>3, HeadTailProperties
    <3> QED BY <2>3, <3>1, <3>2
  <2>5. <<Close>> \o <<>> = <<Close>>
    BY <2>2, ConcatEmptySeq
  <2> QED BY <1>2, <2>3, <2>4, <2>5
<1> QED BY <1>1, <1>2

\* A sequence of two or three sequences is flattened into their concatenation.
LEMMA FlattenOne ==
    ASSUME NEW a
    PROVE  FlattenSeq(<<a>>) = a
<1> DEFINE seqs == <<a>>
           Flat(f) == f = [i \in 1..Len(seqs) |-> IF i = 1 THEN seqs[i] ELSE f[i - 1] \o seqs[i]]
<1>1. Len(seqs) = 1 /\ seqs[1] = a
  OBVIOUS
<1> HIDE DEF seqs
<1>2. Flat([i \in 1..1 |-> a])
  BY <1>1
<1>3. \E f : Flat(f)
  <2> HIDE DEF Flat
  <2> QED BY <1>2
<1> DEFINE f == CHOOSE f : Flat(f)
<1>4. Flat(f)
  BY <1>3
<1>5. FlattenSeq(seqs) = f[Len(seqs)]
  BY <1>1 DEF FlattenSeq
<1> HIDE DEF f
<1>6. f[1] = a
  BY <1>1, <1>4
<1> QED BY <1>1, <1>5, <1>6 DEF seqs

\* Two sequences are flattened into one followed by the other.
LEMMA FlattenTwo ==
    ASSUME NEW a, NEW b
    PROVE  FlattenSeq(<<a, b>>) = a \o b
<1> DEFINE seqs == <<a, b>>
           Flat(f) == f = [i \in 1..Len(seqs) |-> IF i = 1 THEN seqs[i] ELSE f[i - 1] \o seqs[i]]
<1>1. Len(seqs) = 2 /\ seqs[1] = a /\ seqs[2] = b
  OBVIOUS
<1> HIDE DEF seqs
<1>2. Flat([i \in 1..2 |-> IF i = 1 THEN a ELSE a \o b])
  BY <1>1
<1>3. \E f : Flat(f)
  <2> HIDE DEF Flat
  <2> QED BY <1>2
<1> DEFINE f == CHOOSE f : Flat(f)
<1>4. Flat(f)
  BY <1>3
<1>5. FlattenSeq(seqs) = f[Len(seqs)]
  BY <1>1 DEF FlattenSeq
<1> HIDE DEF f
<1>6. f[1] = a
  BY <1>1, <1>4
<1>7. f[2] = f[1] \o b
  <2>1. 2 \in 1..Len(seqs) /\ 2 # 1 /\ 2 - 1 = 1
    BY <1>1
  <2>2. f[2] = f[2 - 1] \o seqs[2]
    BY <1>4, <2>1
  <2> QED BY <1>1, <2>1, <2>2
<1> QED BY <1>1, <1>5, <1>6, <1>7 DEF seqs

\* Three sequences are flattened into one after the other.
LEMMA FlattenThree ==
    ASSUME NEW s, Len(s) = 3
    PROVE  FlattenSeq(s) = (s[1] \o s[2]) \o s[3]
<1> DEFINE Flat(f) == f = [i \in 1..Len(s) |-> IF i = 1 THEN s[i] ELSE f[i - 1] \o s[i]]
<1>1. Len(s) = 3
  OBVIOUS
<1>2. Flat([i \in 1..3 |-> IF i = 1 THEN s[1] ELSE IF i = 2 THEN s[1] \o s[2] ELSE (s[1] \o s[2]) \o s[3]])
  BY <1>1
<1>3. \E f : Flat(f)
  <2> HIDE DEF Flat
  <2> QED BY <1>2
<1> DEFINE f == CHOOSE f : Flat(f)
<1>4. Flat(f)
  BY <1>3
<1>5. FlattenSeq(s) = f[Len(s)]
  BY <1>1 DEF FlattenSeq
<1> HIDE DEF f
<1>6. f[1] = s[1]
  BY <1>1, <1>4
<1>7. f[2] = f[1] \o s[2]
  <2>1. 2 \in 1..Len(s) /\ 2 # 1 /\ 2 - 1 = 1
    BY <1>1
  <2>2. f[2] = f[2 - 1] \o s[2]
    BY <1>4, <2>1
  <2> QED BY <1>1, <2>1, <2>2
<1>8. f[3] = f[2] \o s[3]
  <2>1. 3 \in 1..Len(s) /\ 3 # 1 /\ 3 - 1 = 2
    BY <1>1
  <2>2. f[3] = f[3 - 1] \o s[3]
    BY <1>4, <2>1
  <2> QED BY <1>1, <2>1, <2>2
<1> QED BY <1>5, <1>6, <1>7, <1>8

-----------------------------------------------------------------------------
(* What the executors build                                                 *)

Creates == {Create(m) : m \in Mints}
Distinct(s) == \A i, j \in 1..Len(s) : i # j => s[i] # s[j]

\* What an executor may be asked: a swap its venue has pools for.
OrderOK(o) ==
    /\ o.venue \in AmmExecutorType
    /\ o.in \in Mints /\ o.out \in Mints /\ o.in # o.out /\ o.base \in {o.in, o.out}
    /\ o.amount_in \in Nat /\ o.floor \in Nat
    /\ o.venue = "PumpFun" => SOL \in {o.in, o.out}
    /\ o.venue = "Pumpup" => SOL \notin {o.in, o.out}
    /\ o.venue = "RaydiumLp" => o.base # SOL

\* A bonding curve moves lamports: it is bought from with them and pays them.
Buys(o) == o.venue = "PumpFun" /\ o.in = SOL
Sells(o) == o.venue = "PumpFun" /\ o.out = SOL
Wraps(o) == o.in = SOL /\ o.venue # "PumpFun"

\* The swap instruction asks for at least what the order asks.
Trades(o, v) ==
    /\ v.op = "venue" /\ v.native = (o.venue = "PumpFun")
    /\ v.in = o.in /\ v.out = o.out /\ v.amount_in = o.amount_in
    /\ v.floor \in Nat /\ v.floor >= o.floor

\* The accounts an executor creates for an order.
Opens(o, C) ==
    /\ C \in Seq(Creates) /\ Distinct(C)
    /\ Range(C) \subseteq {Create(o.in), Create(o.out)} /\ Create(o.out) \in Range(C)
    /\ Wraps(o) => Create(SOL) \in Range(C)
    /\ Buys(o) => Create(SOL) \notin Range(C)

Touches(o) == SOL \in {o.in, o.out} /\ ~ Buys(o)

Shaped(o, h) ==
    /\ \E C : Opens(o, C) /\ h.setup = C \o When(Wraps(o), <<Fund(o.amount_in), Sync>>)
    /\ \E v : Trades(o, v) /\ h.swap = <<v>> \o When(Sells(o), <<Fund(o.floor), Sync>>)
    /\ h.cleanup = When(Touches(o), <<Close>>)

\* The creation of one account.
LEMMA OneCreate ==
    ASSUME NEW a \in Mints
    PROVE  /\ <<Create(a)>> \in Seq(Creates) /\ Distinct(<<Create(a)>>)
           /\ Range(<<Create(a)>>) = {Create(a)}
  BY DEF Creates, Distinct, Range

\* The creations of two accounts differ.
LEMMA CreateInjective ==
    ASSUME NEW a, NEW b, Create(a) = Create(b)
    PROVE  a = b
<1>1. Create(a).mint = a /\ Create(b).mint = b
  BY DEF Create
<1> QED BY <1>1

\* The creation of two accounts.
LEMMA TwoCreates ==
    ASSUME NEW a \in Mints, NEW b \in Mints, a # b
    PROVE  /\ <<Create(a), Create(b)>> \in Seq(Creates) /\ Distinct(<<Create(a), Create(b)>>)
           /\ Range(<<Create(a), Create(b)>>) = {Create(a), Create(b)}
<1> DEFINE x == Create(a)
           y == Create(b)
<1>1. x \in Creates /\ y \in Creates /\ x # y
  BY CreateInjective DEF Creates
<1> HIDE DEF x, y
<1>2. <<x, y>> \in Seq(Creates) /\ Distinct(<<x, y>>)
  BY <1>1 DEF Distinct
<1>3. Range(<<x, y>>) = {x, y}
  BY DEF Range
<1> QED BY <1>2, <1>3 DEF x, y

\* Concatenation of tuples of at most one element.
LEMMA Tuples ==
    ASSUME NEW a, NEW b
    PROVE  <<a>> \o <<b>> = <<a, b>> /\ <<a>> \o <<>> = <<a>> /\ <<>> \o <<a>> = <<a>> /\ <<>> \o <<>> = <<>>
<1> DEFINE S == {a, b}
<1>1. <<a>> \in Seq(S) /\ <<b>> \in Seq(S) /\ <<>> \in Seq(S) /\ <<a, b>> \in Seq(S) /\ b \in S
      /\ Len(<<a>>) = 1 /\ Len(<<a, b>>) = 2
  OBVIOUS
<1> HIDE DEF S
<1>2. <<a>> \o <<b>> = <<a, b>>
  <2> DEFINE t == Append(<<a>>, b)
  <2>1. t \in Seq(S) /\ Len(t) = 2 /\ t[2] = b /\ t[1] = a /\ t = <<a>> \o <<b>>
    BY <1>1, AppendProperties, AppendIsConcat
  <2> HIDE DEF t
  <2>2. ASSUME NEW i \in 1..2
        PROVE  t[i] = <<a, b>>[i]
    <3>1. CASE i = 1
      BY <2>1, <3>1
    <3>2. CASE i = 2
      BY <2>1, <3>2
    <3> QED BY <3>1, <3>2
  <2> QED BY <1>1, <2>1, <2>2, SeqEqual
<1> QED BY <1>1, <1>2, ConcatEmptySeq

\* One element before two.
LEMMA ThreeTuple ==
    ASSUME NEW a, NEW b, NEW c
    PROVE  <<a>> \o <<b, c>> = <<a, b, c>>
<1> DEFINE S == {a, b, c}
<1>1. <<a>> \in Seq(S) /\ <<b, c>> \in Seq(S) /\ <<a, b, c>> \in Seq(S)
      /\ Len(<<a>>) = 1 /\ Len(<<b, c>>) = 2 /\ Len(<<a, b, c>>) = 3
  OBVIOUS
<1> HIDE DEF S
<1>2. <<a>> \o <<b, c>> \in Seq(S) /\ Len(<<a>> \o <<b, c>>) = 3
      /\ \A i \in 1..3 : (<<a>> \o <<b, c>>)[i] = IF i <= 1 THEN <<a>>[i] ELSE <<b, c>>[i - 1]
  BY <1>1, ConcatProperties
<1>3. \A i \in 1..3 : (<<a>> \o <<b, c>>)[i] = <<a, b, c>>[i]
  <2>1. (<<a>> \o <<b, c>>)[1] = a /\ (<<a>> \o <<b, c>>)[2] = b /\ (<<a>> \o <<b, c>>)[3] = c
    BY <1>2
  <2> QED BY <2>1
<1> QED BY <1>1, <1>2, <1>3, SeqEqual

\* The executors that create the output account build a swap of the common shape.
LEMMA DirectedShaped ==
    ASSUME NEW o, OrderOK(o), o.venue \notin {"PumpFun", "RaydiumLp"}
    PROVE  Shaped(o, Directed(o))
<1> DEFINE C == When(o.in = SOL, <<Create(SOL)>>) \o <<Create(o.out)>>
           v == Venue(o, a_to_b(o), o.floor)
<1>1. /\ o.in \in Mints /\ o.out \in Mints /\ o.in # o.out
      /\ (Wraps(o) <=> o.in = SOL) /\ ~ Buys(o) /\ ~ Sells(o) /\ (Touches(o) <=> o.in = SOL \/ o.out = SOL)
  BY DEF OrderOK, Wraps, Buys, Sells, Touches
<1>2. Opens(o, C)
  <2>1. CASE o.in = SOL
    <3>1. C = <<Create(o.in), Create(o.out)>>
      BY <2>1, Tuples DEF When
    <3> QED BY <1>1, <2>1, <3>1, TwoCreates DEF Opens
  <2>2. CASE o.in # SOL
    <3>1. C = <<Create(o.out)>>
      BY <2>2, Tuples DEF When
    <3> QED BY <1>1, <2>2, <3>1, OneCreate DEF Opens
  <2> QED BY <2>1, <2>2
<1>3. Trades(o, v)
  BY DEF OrderOK, Trades, Venue, a_to_b, Other
<1> HIDE DEF C, v
<1>4. Directed(o).setup = C \o When(Wraps(o), <<Fund(o.amount_in), Sync>>)
  BY <1>1 DEF Directed, CreatesOutput, WrapInput, C, When
<1>5. Directed(o).swap = <<v>> \o When(Sells(o), <<Fund(o.floor), Sync>>)
  BY <1>1, Tuples DEF Directed, CreatesOutput, v, When
<1>6. Directed(o).cleanup = When(Touches(o), <<Close>>)
  BY <1>1, Tuples DEF Directed, CreatesOutput, CloseWsol, When
<1> QED BY <1>2, <1>3, <1>4, <1>5, <1>6 DEF Shaped

\* The executors that create both accounts build a swap of the common shape.
LEMMA CreatesBothShaped ==
    ASSUME NEW o, OrderOK(o), o.venue \notin {"PumpFun", "RaydiumLp"},
           NEW a, NEW b, {a, b} = {o.in, o.out}, NEW v, Trades(o, v)
    PROVE  Shaped(o, CreatesBoth(o, a, b, v))
<1> DEFINE C == <<Create(a), Create(b)>>
           h == CreatesBoth(o, a, b, v)
<1>1. /\ a \in Mints /\ b \in Mints /\ a # b
      /\ (Wraps(o) <=> o.in = SOL) /\ ~ Buys(o) /\ ~ Sells(o) /\ (Touches(o) <=> o.in = SOL \/ o.out = SOL)
      /\ o.in # o.out
  BY DEF OrderOK, Wraps, Buys, Sells, Touches
<1>2. Opens(o, C)
  BY <1>1, TwoCreates DEF Opens
<1> HIDE DEF C
<1>3. h.setup = C \o When(Wraps(o), <<Fund(o.amount_in), Sync>>)
  BY <1>1 DEF CreatesBoth, WrapInput, C, When
<1>4. h.swap = <<v>> \o When(Sells(o), <<Fund(o.floor), Sync>>)
  BY <1>1, Tuples DEF CreatesBoth, When
<1>5. h.cleanup = When(Touches(o), <<Close>>)
  BY <1>1, Tuples DEF CreatesBoth, CloseWsol, When
<1> QED BY <1>2, <1>3, <1>4, <1>5 DEF Shaped

\* The pump.fun AMM executor builds a swap of the common shape.
LEMMA PumpFunAmmShaped ==
    ASSUME NEW o, OrderOK(o), o.venue = "PumpFunAmm"
    PROVE  Shaped(o, PumpFunAmm(o))
<1> DEFINE use_buy_ix == o.out = o.base
           v == [Venue(o, ~use_buy_ix, o.floor) EXCEPT !.zero_ok = ~use_buy_ix]
<1>1. Trades(o, v)
  BY DEF OrderOK, Trades, Venue, Other
<1>2. {o.base, Other(o)} = {o.in, o.out}
  BY DEF OrderOK, Other
<1>3. PumpFunAmm(o) = CreatesBoth(o, o.base, Other(o), v)
  BY DEF PumpFunAmm
<1> HIDE DEF v
<1> QED BY <1>1, <1>2, <1>3, CreatesBothShaped

\* The Raydium V4 executor builds a swap of the common shape.
LEMMA RaydiumV4Shaped ==
    ASSUME NEW o, OrderOK(o), o.venue = "RaydiumV4"
    PROVE  Shaped(o, RaydiumV4(o))
<1> DEFINE v == Venue(o, a_to_b(o), o.floor)
<1>1. Trades(o, v)
  BY DEF OrderOK, Trades, Venue, Other, a_to_b
<1>2. RaydiumV4(o) = CreatesBoth(o, o.in, o.out, v)
  BY DEF RaydiumV4
<1> HIDE DEF v
<1> QED BY <1>1, <1>2, CreatesBothShaped

\* The LaunchLab executor builds a swap of the common shape: its base is never SOL.
LEMMA RaydiumLpShaped ==
    ASSUME NEW o, OrderOK(o), o.venue = "RaydiumLp"
    PROVE  Shaped(o, RaydiumLp(o))
<1> DEFINE C == <<Create(o.base), Create(Other(o))>>
           is_buy == o.in = Other(o)
           v == Venue(o, ~is_buy, o.floor)
           h == RaydiumLp(o)
<1>1. /\ o.base \in Mints /\ Other(o) \in Mints /\ o.base # Other(o) /\ {o.base, Other(o)} = {o.in, o.out}
      /\ o.in # o.out /\ ~ Buys(o) /\ ~ Sells(o)
      /\ (Wraps(o) <=> (Other(o) = SOL /\ is_buy)) /\ (Touches(o) <=> Other(o) = SOL)
      /\ (Wraps(o) => SOL \in {o.in, o.out})
  BY DEF OrderOK, Wraps, Buys, Sells, Touches, Other
<1>2. Opens(o, C)
  BY <1>1, TwoCreates DEF Opens
<1>3. Trades(o, v)
  BY DEF OrderOK, Trades, Venue, Other
<1> HIDE DEF C, v
<1>4. h.setup = C \o When(Wraps(o), <<Fund(o.amount_in), Sync>>)
  BY <1>1 DEF RaydiumLp, C, When
<1>5. h.swap = <<v>> \o When(Sells(o), <<Fund(o.floor), Sync>>)
  BY <1>1, Tuples DEF RaydiumLp, v, When
<1>6. h.cleanup = When(Touches(o), <<Close>>)
  BY <1>1 DEF RaydiumLp, When
<1> QED BY <1>2, <1>3, <1>4, <1>5, <1>6 DEF Shaped

\* The bonding curve executor builds a swap of the common shape.
LEMMA PumpFunShaped ==
    ASSUME NEW o, OrderOK(o), o.venue = "PumpFun"
    PROVE  Shaped(o, PumpFun(o))
<1> DEFINE h == PumpFun(o)
<1>1. o.in \in Mints /\ o.out \in Mints /\ o.in # o.out /\ SOL \in {o.in, o.out} /\ ~ Wraps(o)
  BY DEF OrderOK, Wraps
<1>2. CASE o.in = SOL
  <2> DEFINE v == Venue(o, a_to_b(o), AtLeast(o.floor, 1))
             C == <<Create(o.out)>>
  <2>1. Buys(o) /\ ~ Sells(o) /\ ~ Touches(o)
    BY <1>1, <1>2 DEF OrderOK, Buys, Sells, Touches
  <2>2. Trades(o, v)
    BY DEF OrderOK, Trades, Venue, Other, a_to_b, AtLeast
  <2>3. Opens(o, C)
    BY <1>1, <1>2, <2>1, OneCreate, CreateInjective DEF Opens
  <2>4. h.setup = C /\ h.swap = <<v>> /\ h.cleanup = <<>>
    BY <1>2 DEF PumpFun
  <2>5. h.setup = C \o When(Wraps(o), <<Fund(o.amount_in), Sync>>)
        /\ h.swap = <<v>> \o When(Sells(o), <<Fund(o.floor), Sync>>) /\ h.cleanup = When(Touches(o), <<Close>>)
    BY <1>1, <2>1, <2>4, Tuples DEF When
  <2> QED BY <2>2, <2>3, <2>5 DEF Shaped
<1>3. CASE o.in # SOL
  <2> DEFINE v == Venue(o, a_to_b(o), o.floor)
             C == <<Create(o.in), Create(SOL)>>
  <2>1. ~ Buys(o) /\ Sells(o) /\ Touches(o) /\ o.out = SOL
    BY <1>1, <1>3 DEF OrderOK, Buys, Sells, Touches
  <2>2. Trades(o, v)
    BY DEF OrderOK, Trades, Venue, Other, a_to_b
  <2>3. Opens(o, C)
    BY <1>1, <1>3, <2>1, TwoCreates DEF Opens
  <2>4. h.setup = C /\ h.swap = <<v, Fund(o.floor), Sync>> /\ h.cleanup = <<Close>>
    BY <1>3 DEF PumpFun
  <2>5. C \o <<>> = C
    BY <2>3, ConcatEmptySeq DEF Opens
  <2>6. <<v, Fund(o.floor), Sync>> = <<v>> \o <<Fund(o.floor), Sync>>
    BY ThreeTuple
  <2> QED BY <1>1, <2>1, <2>2, <2>3, <2>4, <2>5, <2>6 DEF Shaped, When
<1> QED BY <1>2, <1>3

\* The Pumpup executor builds a swap of the common shape.
LEMMA PumpupShaped ==
    ASSUME NEW o, OrderOK(o), o.venue = "Pumpup"
    PROVE  Shaped(o, Pumpup(o))
<1> DEFINE v == Venue(o, a_to_b(o), o.floor)
           C == <<Create(o.out)>>
           h == Pumpup(o)
<1>1. /\ o.in \in Mints /\ o.out \in Mints /\ o.in # o.out /\ SOL \notin {o.in, o.out}
      /\ ~ Wraps(o) /\ ~ Buys(o) /\ ~ Sells(o) /\ ~ Touches(o)
  BY DEF OrderOK, Wraps, Buys, Sells, Touches
<1>2. Trades(o, v)
  BY DEF OrderOK, Trades, Venue, Other, a_to_b
<1>3. Opens(o, C)
  BY <1>1, OneCreate DEF Opens
<1>4. h.setup = C \o When(Wraps(o), <<Fund(o.amount_in), Sync>>)
      /\ h.swap = <<v>> \o When(Sells(o), <<Fund(o.floor), Sync>>) /\ h.cleanup = When(Touches(o), <<Close>>)
  BY <1>1, Tuples DEF Pumpup, When
<1> QED BY <1>2, <1>3, <1>4 DEF Shaped

\* Every executor builds its swap in one shape: the accounts, the wrapping of
\* SOL that is paid in, the swap, the wrapping of SOL that is paid out, and the
\* close of the WSOL account.
LEMMA ExecutorShaped ==
    ASSUME NEW o, OrderOK(o)
    PROVE  Shaped(o, build_swap_ix(o))
<1>1. CASE o.venue \in {"RaydiumClmm", "Orca", "PancakeSwap", "Byreal", "DefiTunaFusion", "MeteoraDlmm", "RaydiumCpmm",
                        "FluxBeam", "Saros", "Dooar", "Meteora", "MeteoraDamm", "MeteoraDbc"}
  <2>1. build_swap_ix(o) = Directed(o)
    BY <1>1 DEF build_swap_ix, RaydiumClmm, Orca, PancakeSwap, Byreal, DefiTunaFusion, MeteoraDlmm, RaydiumCpmm,
                FluxBeam, Saros, Dooar, Meteora, MeteoraDamm, MeteoraDbc
  <2>2. Shaped(o, Directed(o))
    BY <1>1, DirectedShaped
  <2> QED BY <2>1, <2>2
<1>2. CASE o.venue = "RaydiumV4"
  BY <1>2, RaydiumV4Shaped DEF build_swap_ix
<1>3. CASE o.venue = "PumpFunAmm"
  BY <1>3, PumpFunAmmShaped DEF build_swap_ix
<1>4. CASE o.venue = "RaydiumLp"
  BY <1>4, RaydiumLpShaped DEF build_swap_ix
<1>5. CASE o.venue = "PumpFun"
  BY <1>5, PumpFunShaped DEF build_swap_ix
<1>6. CASE o.venue = "Pumpup"
  BY <1>6, PumpupShaped DEF build_swap_ix
<1> QED BY <1>1, <1>2, <1>3, <1>4, <1>5, <1>6 DEF OrderOK, AmmExecutorType

-----------------------------------------------------------------------------
(* What the builder makes of a quote                                        *)

HopSet == [venue : AmmExecutorType, base : Mints, in : Mints, out : Mints, amount_out : Nat]

\* A quote is a path of at most three hops over distinct mints, through bridges.
QuoteOK(q) ==
    LET n == Len(q.hops) IN
    /\ q.hops \in Seq(HopSet) /\ n \in 1..3
    /\ \A i \in 1..n : /\ q.hops[i].in # q.hops[i].out /\ q.hops[i].base \in {q.hops[i].in, q.hops[i].out}
                       /\ q.hops[i].venue = "PumpFun" => \/ q.hops[i].in = SOL /\ q.hops[i].out \in Launched
                                                         \/ q.hops[i].out = SOL /\ q.hops[i].in \in Launched
                       /\ q.hops[i].venue = "Pumpup" => SOL \notin {q.hops[i].in, q.hops[i].out}
                       /\ q.hops[i].venue = "RaydiumLp" => q.hops[i].base # SOL
    /\ \A i, j \in 1..n : i < j => /\ q.hops[i].out \in Bridges
                                   /\ q.hops[j].in \in Bridges
                                   /\ q.hops[i].in # q.hops[j].in /\ q.hops[i].in # q.hops[j].out
                                   /\ q.hops[i].out # q.hops[j].out
                                   /\ j = i + 1 => q.hops[i].out = q.hops[j].in
    /\ q.amount_in \in Nat /\ q.slippage_bps \in Nat
    /\ q.minimum_out = compute_threshold(q.hops[n].amount_out, q.slippage_bps)

\* The floors of a hop and of a route: never 0 inside a route, the input of
\* a hop never above the floor of the one before, less than one atom lost to rounding.
LEMMA Rounded ==
    ASSUME NEW a \in Nat, NEW s \in Nat
    PROVE  /\ guaranteed(a, s) \in Nat \ {0} /\ hop_floor(a, s) \in Nat \ {0} /\ guaranteed(a, s) <= hop_floor(a, s)
           /\ compute_threshold(a, s) \in Nat
           /\ (compute_threshold(a, s) + 1) * BasisPoints > a * (BasisPoints - s)
<1>1. \A x \in Nat : x \div BasisPoints \in Nat /\ (x \div BasisPoints + 1) * BasisPoints > x
  BY DEF BasisPoints
<1>2. BasisPoints - AtMost(s, 9999) \in Nat /\ BasisPoints - AtMost(s, BasisPoints) \in Nat
      /\ BasisPoints - AtMost(s, BasisPoints) >= BasisPoints - s
  BY DEF BasisPoints, AtMost
<1> DEFINE k == BasisPoints - AtMost(s, 9999)
           l == BasisPoints - AtMost(s, BasisPoints)
<1> HIDE DEF k, l
<1>3. a * k \in Nat /\ a * l \in Nat
  BY <1>2 DEF k, l
<1>4. (a * k) \div BasisPoints \in Nat /\ (a * l) \div BasisPoints \in Nat
  BY <1>1, <1>3
<1>5. guaranteed(a, s) = AtLeast((a * k) \div BasisPoints, 1) /\ compute_threshold(a, s) = (a * l) \div BasisPoints
  BY DEF guaranteed, compute_threshold, k, l
<1>6. guaranteed(a, s) \in Nat \ {0}
  BY <1>4, <1>5 DEF AtLeast
<1>7. hop_floor(a, s) \in Nat \ {0} /\ guaranteed(a, s) <= hop_floor(a, s)
  BY <1>6 DEF hop_floor, AtLeast
<1>8. a * l >= a * (BasisPoints - s)
  <2>1. l \in Nat /\ BasisPoints - s \in Int /\ l >= BasisPoints - s
    BY <1>2 DEF l, BasisPoints
  <2>2. \A x, y \in Int : x >= y => a * x >= a * y
    OBVIOUS
  <2> QED BY <2>1, <2>2
<1>9. (compute_threshold(a, s) + 1) * BasisPoints > a * (BasisPoints - s)
  <2>1. ((a * l) \div BasisPoints + 1) * BasisPoints > a * l
    BY <1>1, <1>3
  <2>2. a * (BasisPoints - s) \in Int /\ a * l \in Int
    BY <1>3 DEF BasisPoints
  <2> DEFINE x == ((a * l) \div BasisPoints + 1) * BasisPoints
             y == a * l
             z == a * (BasisPoints - s)
  <2>3. x \in Int
    BY <1>4 DEF BasisPoints
  <2>4. x > y /\ y >= z /\ y \in Int /\ z \in Int
    BY <1>8, <2>1, <2>2
  <2> HIDE DEF x, y, z
  <2>5. x > z
    BY <2>3, <2>4
  <2> QED BY <1>5, <2>5 DEF x, z
<1> QED BY <1>4, <1>5, <1>6, <1>7, <1>9

\* The orders of a quote: each spends no more than the floor of the one before.
LEMMA Orders ==
    ASSUME NEW q, QuoteOK(q), NEW i \in 1..Len(q.hops)
    PROVE  /\ OrderOK(SwapOrder(q, i))
           /\ SwapOrder(q, i).in = q.hops[i].in /\ SwapOrder(q, i).out = q.hops[i].out
           /\ SwapOrder(q, i).venue = q.hops[i].venue
           /\ i = 1 => SwapOrder(q, i).amount_in = q.amount_in
           /\ i > 1 => SwapOrder(q, i).amount_in <= SwapOrder(q, i - 1).floor
           /\ Len(q.hops) > 1 => SwapOrder(q, i).floor # 0
<1> DEFINE n == Len(q.hops)
           o == SwapOrder(q, i)
           h == q.hops[i]
<1>1. n \in Nat /\ n >= 1 /\ i \in Nat /\ i >= 1 /\ i <= n /\ \A j \in 1..n : q.hops[j] \in HopSet
  BY ElementOfSeq DEF QuoteOK
<1>2. h \in HopSet /\ q.hops[n] \in HopSet /\ q.slippage_bps \in Nat /\ q.amount_in \in Nat
  BY <1>1 DEF QuoteOK
<1>3. o.venue = h.venue /\ o.base = h.base /\ o.in = h.in /\ o.out = h.out
      /\ o.amount_in = (IF i = 1 THEN q.amount_in ELSE guaranteed(q.hops[i - 1].amount_out, q.slippage_bps))
      /\ o.floor = (IF n = 1 THEN q.minimum_out ELSE IF i < n THEN hop_floor(h.amount_out, q.slippage_bps)
                    ELSE AtLeast(q.minimum_out, 1))
  BY DEF SwapOrder
<1>4. q.minimum_out \in Nat
  <2>1. q.minimum_out = compute_threshold(q.hops[n].amount_out, q.slippage_bps)
    BY DEF QuoteOK
  <2>2. q.hops[n].amount_out \in Nat
    BY <1>2 DEF HopSet
  <2>3. compute_threshold(q.hops[n].amount_out, q.slippage_bps) \in Nat
    BY <1>2, <2>2, Rounded
  <2> QED BY <2>1, <2>3
<1>5. hop_floor(h.amount_out, q.slippage_bps) \in Nat \ {0} /\ AtLeast(q.minimum_out, 1) \in Nat \ {0}
  <2>1. h.amount_out \in Nat
    BY <1>2 DEF HopSet
  <2>2. hop_floor(h.amount_out, q.slippage_bps) \in Nat \ {0}
    BY <1>2, <2>1, Rounded
  <2>3. AtLeast(q.minimum_out, 1) \in Nat \ {0}
    BY <1>4 DEF AtLeast
  <2> QED BY <2>2, <2>3
<1>6. o.floor \in Nat /\ (n > 1 => o.floor # 0)
  <2> HIDE DEF o, h, n
  <2> QED BY <1>1, <1>3, <1>4, <1>5
<1>7. i > 1 => /\ i - 1 \in 1..n /\ i - 1 < n /\ n # 1
               /\ q.hops[i - 1].amount_out \in Nat
               /\ SwapOrder(q, i - 1).floor = hop_floor(q.hops[i - 1].amount_out, q.slippage_bps)
  <2> SUFFICES ASSUME i > 1 PROVE /\ i - 1 \in 1..n /\ i - 1 < n /\ n # 1
                                  /\ q.hops[i - 1].amount_out \in Nat
                                  /\ SwapOrder(q, i - 1).floor = hop_floor(q.hops[i - 1].amount_out, q.slippage_bps)
    OBVIOUS
  <2>1. i - 1 \in 1..n /\ i - 1 < n /\ n # 1
    <3> HIDE DEF n
    <3> QED BY <1>1
  <2>2. q.hops[i - 1] \in HopSet
    BY <1>1, <2>1
  <2> QED BY <2>1, <2>2 DEF SwapOrder, HopSet
<1>8. i > 1 => guaranteed(q.hops[i - 1].amount_out, q.slippage_bps) \in Nat /\ o.amount_in <= SwapOrder(q, i - 1).floor
  <2> SUFFICES ASSUME i > 1 PROVE guaranteed(q.hops[i - 1].amount_out, q.slippage_bps) \in Nat
                                  /\ o.amount_in <= SwapOrder(q, i - 1).floor
    OBVIOUS
  <2> DEFINE a == q.hops[i - 1].amount_out
             g == guaranteed(a, q.slippage_bps)
             f == hop_floor(a, q.slippage_bps)
  <2>1. a \in Nat /\ SwapOrder(q, i - 1).floor = f /\ o.amount_in = g
    BY <1>3, <1>7
  <2>2. g \in Nat /\ g <= f
    BY <1>2, <2>1, Rounded
  <2> HIDE DEF a, g, f, o
  <2>3. o.amount_in <= SwapOrder(q, i - 1).floor
    BY <2>1, <2>2
  <2> QED BY <2>2, <2>3 DEF g, a
<1>9. o.amount_in \in Nat
  <2> HIDE DEF o, h, n
  <2> QED BY <1>1, <1>2, <1>3, <1>8
<1>10. OrderOK(o)
  <2>1. h.in # h.out /\ h.base \in {h.in, h.out}
        /\ (h.venue = "PumpFun" => SOL \in {h.in, h.out})
        /\ (h.venue = "Pumpup" => SOL \notin {h.in, h.out}) /\ (h.venue = "RaydiumLp" => h.base # SOL)
    BY DEF QuoteOK
  <2>2. h.venue \in AmmExecutorType /\ h.in \in Mints /\ h.out \in Mints
    BY <1>2 DEF HopSet
  <2> HIDE DEF o, h, n
  <2> QED BY <1>3, <1>6, <1>9, <2>1, <2>2 DEF OrderOK
<1> QED BY <1>3, <1>6, <1>8, <1>10

Fundings == {Fund(n) : n \in Nat} \cup {Sync}
Setups == Creates \cup Fundings
Kept(s) == {x \in Range(s) : x.op \notin WsolFunding}

\* Creations, funding and closes are told apart by their op.
LEMMA InstructionKinds ==
    /\ \A x \in Creates : x.op = "create" /\ x.op \notin WsolFunding
    /\ \A x \in Fundings : x.op \in WsolFunding
    /\ Creates \cap Fundings = {}
    /\ Close.op = "close" /\ Sync.op = "sync" /\ \A n : Fund(n).op = "fund"
<1>1. \A x \in Creates : x.op = "create"
  BY DEF Creates, Create
<1>2. \A x \in Fundings : x.op \in {"fund", "sync"}
  BY DEF Fundings, Fund, Sync
<1>3. Close.op = "close" /\ Sync.op = "sync" /\ \A n : Fund(n).op = "fund"
  BY DEF Close, Sync, Fund
<1> QED BY <1>1, <1>2, <1>3 DEF WsolFunding

\* A setup has no duplicates, and without its funding it is its accounts.
LEMMA SetupShape ==
    ASSUME NEW o, OrderOK(o), NEW C, Opens(o, C), NEW s, s = C \o When(Wraps(o), <<Fund(o.amount_in), Sync>>)
    PROVE  /\ s \in Seq(Setups) /\ Distinct(s)
           /\ Kept(s) = Range(C)
<1> DEFINE f == Fund(o.amount_in)
           W == When(Wraps(o), <<f, Sync>>)
<1>1. f \in Fundings /\ Sync \in Fundings /\ f # Sync
  BY InstructionKinds DEF OrderOK, Fundings
<1> HIDE DEF f
<1>2. W \in Seq(Fundings) /\ Distinct(W)
  <2>1. <<f, Sync>> \in Seq(Fundings) /\ Distinct(<<f, Sync>>)
    BY <1>1 DEF Distinct
  <2>2. <<>> \in Seq(Fundings) /\ Distinct(<<>>)
    BY DEF Distinct
  <2> QED BY <2>1, <2>2 DEF When
<1> HIDE DEF W
<1>3. s = C \o W
  BY DEF W, f
<1>4. C \in Seq(Creates) /\ Distinct(C)
  BY DEF Opens
<1>5. C \in Seq(Setups) /\ W \in Seq(Setups)
  BY <1>2, <1>4, SeqMonotonic DEF Setups
<1>6. s \in Seq(Setups) /\ Range(s) = Range(C) \cup Range(W)
  <2>1. C \o W \in Seq(Setups)
    BY <1>5, ConcatProperties
  <2>2. Range(C \o W) = Range(C) \cup Range(W)
    BY <1>5, RangeConcatenation
  <2> QED BY <1>3, <2>1, <2>2
<1>7. Range(C) \subseteq Creates /\ Range(W) \subseteq Fundings
  BY <1>2, <1>4, RangeOfSeq
<1>8. Kept(s) = Range(C)
  <2>1. \A x \in Range(C) : x.op \notin WsolFunding
    BY <1>7, InstructionKinds
  <2>2. \A x \in Range(W) : x.op \in WsolFunding
    BY <1>7, InstructionKinds
  <2> QED BY <1>6, <2>1, <2>2 DEF Kept
<1>9. Distinct(s)
  <2>1. Len(C) \in Nat /\ Len(W) \in Nat /\ Len(s) = Len(C) + Len(W)
        /\ (\A i \in 1..Len(C) : C[i] \in Creates) /\ (\A i \in 1..Len(W) : W[i] \in Fundings)
    <3>1. Len(C) \in Nat /\ \A i \in 1..Len(C) : C[i] \in Creates
      BY <1>4, LenProperties, ElementOfSeq
    <3>2. Len(W) \in Nat /\ \A i \in 1..Len(W) : W[i] \in Fundings
      BY <1>2, LenProperties, ElementOfSeq
    <3>3. Len(s) = Len(C) + Len(W)
      BY <1>3, <1>5, ConcatProperties
    <3> QED BY <3>1, <3>2, <3>3
  <2>2. \A i \in 1..Len(s) : s[i] = IF i <= Len(C) THEN C[i] ELSE W[i - Len(C)]
    <3>1. \A i \in 1..Len(C) + Len(W) : (C \o W)[i] = IF i <= Len(C) THEN C[i] ELSE W[i - Len(C)]
      BY <1>5, ConcatProperties
    <3> QED BY <1>3, <2>1, <3>1
  <2>3. ASSUME NEW i \in 1..Len(s)
        PROVE  \/ i \in 1..Len(C) /\ s[i] = C[i]
               \/ \E k \in 1..Len(W) : i = Len(C) + k /\ s[i] = W[k]
    <3>1. CASE i <= Len(C)
      BY <2>1, <2>2, <3>1
    <3>2. CASE ~ (i <= Len(C))
      <4>1. i - Len(C) \in 1..Len(W) /\ i = Len(C) + (i - Len(C))
        BY <2>1, <3>2
      <4>2. s[i] = W[i - Len(C)]
        BY <2>2, <3>2
      <4> QED BY <4>1, <4>2
    <3> QED BY <3>1, <3>2
  <2> SUFFICES ASSUME NEW i \in 1..Len(s), NEW j \in 1..Len(s), i # j PROVE s[i] # s[j]
    BY DEF Distinct
  <2>4. CASE i \in 1..Len(C) /\ s[i] = C[i]
    <3>1. CASE j \in 1..Len(C) /\ s[j] = C[j]
      BY <1>4, <2>4, <3>1 DEF Distinct
    <3>2. CASE \E k \in 1..Len(W) : j = Len(C) + k /\ s[j] = W[k]
      BY <2>1, <2>4, <3>2, InstructionKinds
    <3> QED BY <2>3, <3>1, <3>2
  <2>5. CASE \E k \in 1..Len(W) : i = Len(C) + k /\ s[i] = W[k]
    <3>1. CASE j \in 1..Len(C) /\ s[j] = C[j]
      BY <2>1, <2>5, <3>1, InstructionKinds
    <3>2. CASE \E k \in 1..Len(W) : j = Len(C) + k /\ s[j] = W[k]
      <4>1. PICK k \in 1..Len(W) : i = Len(C) + k /\ s[i] = W[k]
        BY <2>5
      <4>2. PICK l \in 1..Len(W) : j = Len(C) + l /\ s[j] = W[l]
        BY <3>2
      <4>3. k # l
        BY <4>1, <4>2
      <4> QED BY <1>2, <4>1, <4>2, <4>3 DEF Distinct
    <3> QED BY <2>3, <3>1, <3>2
  <2> QED BY <2>3, <2>4, <2>5
<1> QED BY <1>6, <1>8, <1>9

\* The setup of a longer route: that of its first hop, then the accounts of the
\* others that it has not opened.
LEMMA TidySetup ==
    ASSUME NEW o, OrderOK(o), NEW C, Opens(o, C), NEW s, s = C \o When(Wraps(o), <<Fund(o.amount_in), Sync>>),
           NEW t \in Seq(Setups)
    PROVE  \E u \in Seq(Creates) :
              /\ dedupe_instructions(s \o Drop(t, WsolFunding)) = s \o u
              /\ Kept(t) \subseteq Range(C) \cup Range(u)
              /\ Range(u) \subseteq Kept(t)
<1> DEFINE K == Kept(t)
           v == Drop(t, WsolFunding)
<1>1. s \in Seq(Setups) /\ Distinct(s) /\ Kept(s) = Range(C)
  BY SetupShape
<1>2. v \in Seq({x \in Setups : x.op \notin WsolFunding}) /\ Range(v) = K
  BY DropShape DEF Kept
<1>3. v \in Seq(K)
  BY <1>2, SeqOfRange
<1>4. K \subseteq Creates
  BY RangeOfSeq, InstructionKinds DEF Setups, Kept
<1> HIDE DEF v, K
<1>5. PICK u \in Seq(K) : /\ dedupe_instructions(s \o v) = s \o u
                          /\ Range(v) \subseteq Range(s) \cup Range(u)
                          /\ Range(s) \cap Range(u) = {}
  <2>1. \A i, j \in 1..Len(s) : i # j => s[i] # s[j]
    BY <1>1 DEF Distinct
  <2>2. s \in Seq(Setups)
    BY <1>1
  <2> QED BY <1>3, <2>1, <2>2, DedupeShape
<1>6. u \in Seq(Creates) /\ Range(u) \subseteq K
  BY <1>4, SeqMonotonic, RangeOfSeq
<1>7. K \subseteq Range(C) \cup Range(u)
  BY <1>1, <1>2, <1>5 DEF K, Kept
<1> QED BY <1>5, <1>6, <1>7 DEF v, K

\* The cleanup of a longer route: one close, unless the last hop unwraps.
LEMMA TidyCleanup ==
    ASSUME NEW t \in Seq({Close}), NEW b \in BOOLEAN
    PROVE  dedupe_instructions(IF b THEN drop_wsol_close(t) ELSE t) = When(~ b /\ t # <<>>, <<Close>>)
<1>1. CASE b
  <2>1. Drop(t, WsolClose) \in Seq({x \in {Close} : x.op \notin WsolClose})
    BY DropShape
  <2>2. {x \in {Close} : x.op \notin WsolClose} = {}
    BY InstructionKinds DEF WsolClose
  <2>3. \A s \in Seq({}) : s = <<>>
    <3> TAKE s \in Seq({})
    <3>1. Range(s) = {}
      BY RangeOfSeq
    <3>2. s # <<>> => s[1] \in {}
      BY ElementOfSeq, EmptySeq
    <3> QED BY <3>2
  <2>4. drop_wsol_close(t) = <<>>
    BY <2>1, <2>2, <2>3 DEF drop_wsol_close
  <2> QED BY <1>1, <2>4, DedupeNothing DEF When
<1>2. CASE ~ b
  BY <1>2, DedupeCloses DEF When
<1> QED BY <1>1, <1>2

\* Cleanups hold nothing but closes.
LEMMA ClosesAppend ==
    ASSUME NEW a \in Seq({Close}), NEW b \in Seq({Close})
    PROVE  a \o b \in Seq({Close}) /\ (a \o b # <<>> <=> a # <<>> \/ b # <<>>)
<1>1. a \o b \in Seq({Close}) /\ Len(a \o b) = Len(a) + Len(b) /\ Len(a) \in Nat /\ Len(b) \in Nat
  BY ConcatProperties, LenProperties
<1>2. (a = <<>> <=> Len(a) = 0) /\ (b = <<>> <=> Len(b) = 0) /\ (a \o b = <<>> <=> Len(a \o b) = 0)
  BY <1>1, EmptySeq
<1> QED BY <1>1, <1>2

\* The shape of what is built for a quote, of any length.
Touched(q) == \E i \in 1..Len(q.hops) : Touches(SwapOrder(q, i))
Closes(q) == ~ Unwraps(q) /\ Touched(q)

BuiltFrom(q, b, C, u) ==
    LET n == Len(q.hops)
        O(i) == SwapOrder(q, i)
    IN  /\ b.setup = (C \o When(Wraps(O(1)), <<Fund(q.amount_in), Sync>>)) \o u
        /\ Wraps(O(1)) => Create(SOL) \in Range(C)
        /\ \A i \in 1..n : Create(q.hops[i].out) \in Range(C) \cup Range(u)
        /\ Create(SOL) \in Range(C) \cup Range(u) => Touched(q)
        /\ b.cleanup = When(Closes(q), <<Close>>)
        /\ n = 1 => b.swap = Hop(q, 1).swap
        /\ n = 2 => b.swap = Hop(q, 1).swap \o unwrap_for_native_sol_hop(q, Hop(q, 2).swap)
        /\ n = 3 => b.swap = (Hop(q, 1).swap \o Hop(q, 2).swap) \o unwrap_for_native_sol_hop(q, Hop(q, 3).swap)

Built(q, b) == \E C, u \in Seq(Creates) : BuiltFrom(q, b, C, u)

\* What one hop contributes.
LEMMA HopShape ==
    ASSUME NEW q, QuoteOK(q), NEW i \in 1..Len(q.hops)
    PROVE  \E C : /\ Opens(SwapOrder(q, i), C)
                  /\ Hop(q, i).setup = C \o When(Wraps(SwapOrder(q, i)), <<Fund(SwapOrder(q, i).amount_in), Sync>>)
                  /\ Hop(q, i).setup \in Seq(Setups)
                  /\ Kept(Hop(q, i).setup) = Range(C)
                  /\ Create(q.hops[i].out) \in Range(C)
                  /\ Create(SOL) \in Range(C) => Touches(SwapOrder(q, i))
                  /\ Hop(q, i).cleanup = When(Touches(SwapOrder(q, i)), <<Close>>)
                  /\ Hop(q, i).cleanup \in Seq({Close})
                  /\ Hop(q, i).cleanup # <<>> <=> Touches(SwapOrder(q, i))
<1> DEFINE o == SwapOrder(q, i)
           h == Hop(q, i)
<1>1. OrderOK(o) /\ o.out = q.hops[i].out
  BY Orders
<1>2. Shaped(o, h)
  BY <1>1, ExecutorShaped DEF Hop
<1> HIDE DEF o, h
<1>3. PICK C : Opens(o, C) /\ h.setup = C \o When(Wraps(o), <<Fund(o.amount_in), Sync>>)
  BY <1>2 DEF Shaped
<1>4. h.cleanup = When(Touches(o), <<Close>>)
  BY <1>2 DEF Shaped
<1>5. h.setup \in Seq(Setups) /\ Kept(h.setup) = Range(C)
  BY <1>1, <1>3, SetupShape
<1>6. Create(SOL) \in Range(C) => Touches(o)
  BY <1>3, CreateInjective DEF Opens, Touches
<1>7. <<Close>> \in Seq({Close}) /\ <<>> \in Seq({Close}) /\ <<Close>> # <<>>
  OBVIOUS
<1>8. h.cleanup \in Seq({Close}) /\ (h.cleanup # <<>> <=> Touches(o))
  BY <1>4, <1>7 DEF When
<1> QED BY <1>1, <1>3, <1>4, <1>5, <1>6, <1>8 DEF Opens, o, h

\* A route of one hop is built as its executor builds it.
LEMMA BuiltOne ==
    ASSUME NEW q, QuoteOK(q), Len(q.hops) = 1
    PROVE  Built(q, build_swap_from_quote(q))
<1> DEFINE o == SwapOrder(q, 1)
           h == Hop(q, 1)
<1>1. 1 \in 1..Len(q.hops)
  BY DEF QuoteOK
<1>2. PICK C : /\ Opens(o, C)
               /\ h.setup = C \o When(Wraps(o), <<Fund(o.amount_in), Sync>>)
               /\ h.setup \in Seq(Setups)
               /\ Create(q.hops[1].out) \in Range(C)
               /\ Create(SOL) \in Range(C) => Touches(o)
               /\ h.cleanup = When(Touches(o), <<Close>>)
  BY <1>1, HopShape
<1>3. o.amount_in = q.amount_in
  BY <1>1, Orders
<1>4. C \in Seq(Creates) /\ <<>> \in Seq(Creates) /\ (Wraps(o) => Create(SOL) \in Range(C))
  BY <1>2, EmptySeq DEF Opens
<1>5. h.setup = h.setup \o <<>>
  BY <1>2, ConcatEmptySeq
<1>6. build_swap_from_quote(q) = h /\ ~ Unwraps(q)
  BY DEF build_swap_from_quote, build_single_hop_ixs, Unwraps
<1>7. \A i \in 1..Len(q.hops) : i = 1
  BY <1>1
<1>8. (Touched(q) <=> Touches(o)) /\ (Closes(q) <=> Touches(o))
  BY <1>1, <1>6, <1>7 DEF Touched, Closes
<1> DEFINE e == <<>>
<1>9. e \in Seq(Creates) /\ h.setup = (C \o When(Wraps(o), <<Fund(q.amount_in), Sync>>)) \o e
  BY <1>2, <1>3, <1>4, <1>5
<1> HIDE DEF o, h, e
<1>10. Range(e) = {}
  BY RangeEmpty DEF e
<1>11. \A i \in 1..Len(q.hops) : Create(q.hops[i].out) \in Range(C) \cup Range(e)
  BY <1>2, <1>7
<1>12. Create(SOL) \in Range(C) \cup Range(e) => Touched(q)
  BY <1>2, <1>8, <1>10
<1>13. h.cleanup = When(Closes(q), <<Close>>)
  BY <1>2, <1>8 DEF When
<1>14. BuiltFrom(q, h, C, e)
  <2>1. h.setup = (C \o When(Wraps(SwapOrder(q, 1)), <<Fund(q.amount_in), Sync>>)) \o e
    BY <1>9 DEF o
  <2>2. Wraps(SwapOrder(q, 1)) => Create(SOL) \in Range(C)
    BY <1>4 DEF o
  <2>3. h.swap = Hop(q, 1).swap
    BY DEF h
  <2>4. Len(q.hops) = 1
    OBVIOUS
  <2> HIDE DEF h
  <2> QED BY <2>1, <2>2, <2>3, <2>4, <1>11, <1>12, <1>13 DEF BuiltFrom
<1> QED BY <1>4, <1>6, <1>9, <1>14 DEF Built

\* A route of two hops: the setup of the second loses its funding, and one close is left.
LEMMA BuiltTwo ==
    ASSUME NEW q, QuoteOK(q), Len(q.hops) = 2
    PROVE  Built(q, build_swap_from_quote(q))
<1> DEFINE o == SwapOrder(q, 1)
           g == Hop(q, 1)
           h == Hop(q, 2)
           b == build_swap_from_quote(q)
<1>1. 1 \in 1..Len(q.hops) /\ 2 \in 1..Len(q.hops)
  BY DEF QuoteOK
<1>2. PICK C : /\ Opens(o, C)
               /\ g.setup = C \o When(Wraps(o), <<Fund(o.amount_in), Sync>>)
               /\ Create(q.hops[1].out) \in Range(C)
               /\ Create(SOL) \in Range(C) => Touches(o)
               /\ g.cleanup \in Seq({Close})
               /\ g.cleanup # <<>> <=> Touches(o)
  BY <1>1, HopShape
<1>3. PICK D : /\ h.setup \in Seq(Setups)
               /\ Kept(h.setup) = Range(D)
               /\ Create(q.hops[2].out) \in Range(D)
               /\ Create(SOL) \in Range(D) => Touches(SwapOrder(q, 2))
               /\ h.cleanup \in Seq({Close})
               /\ h.cleanup # <<>> <=> Touches(SwapOrder(q, 2))
  BY <1>1, HopShape
<1>4. o.amount_in = q.amount_in /\ OrderOK(o)
  BY <1>1, Orders
<1>5. C \in Seq(Creates) /\ (Wraps(o) => Create(SOL) \in Range(C))
  BY <1>2 DEF Opens
<1>6. PICK u \in Seq(Creates) : /\ dedupe_instructions(g.setup \o Drop(h.setup, WsolFunding)) = g.setup \o u
                                /\ Range(D) \subseteq Range(C) \cup Range(u)
                                /\ Range(u) \subseteq Range(D)
  <2> HIDE DEF g, h, o
  <2> DEFINE s == g.setup
             t == h.setup
  <2>1. s = C \o When(Wraps(o), <<Fund(o.amount_in), Sync>>) /\ t \in Seq(Setups) /\ Kept(t) = Range(D)
    BY <1>2, <1>3
  <2> HIDE DEF s, t
  <2>2. \E u \in Seq(Creates) : /\ dedupe_instructions(s \o Drop(t, WsolFunding)) = s \o u
                                /\ Kept(t) \subseteq Range(C) \cup Range(u)
                                /\ Range(u) \subseteq Kept(t)
    BY <1>2, <1>4, <2>1, TidySetup
  <2> QED BY <2>1, <2>2 DEF s, t
<1>7. b = Combine(q, <<g, h>>)
  BY DEF build_swap_from_quote, build_two_hop_ixs
<1> HIDE DEF g, h
<1>8. /\ [i \in 1..Len(q.hops) |-> <<g, h>>[i].setup] = <<g.setup, h.setup>>
      /\ [i \in 1..Len(q.hops) |-> <<g, h>>[i].cleanup] = <<g.cleanup, h.cleanup>>
      /\ [i \in 1..Len(q.hops) |-> IF i = Len(q.hops) THEN unwrap_for_native_sol_hop(q, <<g, h>>[i].swap) ELSE <<g, h>>[i].swap]
            = <<g.swap, unwrap_for_native_sol_hop(q, h.swap)>>
  OBVIOUS
<1>9. Head(<<g.setup, h.setup>>) = g.setup /\ Tail(<<g.setup, h.setup>>) = <<h.setup>>
  OBVIOUS
<1> DEFINE k == g.cleanup \o h.cleanup
           tidy == tidy_multihop(<<g.setup, h.setup>>, IF Unwraps(q) THEN drop_wsol_close(k) ELSE k)
<1>10. b = [setup |-> tidy.setup, swap |-> g.swap \o unwrap_for_native_sol_hop(q, h.swap), cleanup |-> tidy.cleanup]
  <2> DEFINE A == [i \in 1..Len(q.hops) |-> <<g, h>>[i].setup]
             B == [i \in 1..Len(q.hops) |-> <<g, h>>[i].cleanup]
             D0 == [i \in 1..Len(q.hops) |-> IF i = Len(q.hops) THEN unwrap_for_native_sol_hop(q, <<g, h>>[i].swap)
                                             ELSE <<g, h>>[i].swap]
             T == tidy_multihop(A, IF Unwraps(q) THEN drop_wsol_close(FlattenSeq(B)) ELSE FlattenSeq(B))
  <2>1. Combine(q, <<g, h>>) = [setup |-> T.setup, swap |-> FlattenSeq(D0), cleanup |-> T.cleanup]
    BY DEF Combine
  <2> HIDE DEF A, B, D0
  <2>2. A = <<g.setup, h.setup>> /\ B = <<g.cleanup, h.cleanup>>
        /\ D0 = <<g.swap, unwrap_for_native_sol_hop(q, h.swap)>>
    BY <1>8 DEF A, B, D0
  <2>3. FlattenSeq(B) = k /\ FlattenSeq(D0) = g.swap \o unwrap_for_native_sol_hop(q, h.swap)
    BY <2>2, FlattenTwo
  <2> HIDE DEF k
  <2>4. T = tidy
    BY <2>2, <2>3
  <2> HIDE DEF T, tidy
  <2> QED BY <1>7, <2>1, <2>3, <2>4
<1>11. tidy = [setup |-> dedupe_instructions(g.setup \o Drop(h.setup, WsolFunding)),
               cleanup |-> dedupe_instructions(IF Unwraps(q) THEN drop_wsol_close(k) ELSE k)]
  BY <1>9, FlattenOne DEF tidy_multihop
<1> HIDE DEF tidy, b, k
<1>12. b.setup = g.setup \o u /\ b.swap = g.swap \o unwrap_for_native_sol_hop(q, h.swap)
       /\ b.cleanup = dedupe_instructions(IF Unwraps(q) THEN drop_wsol_close(k) ELSE k)
  BY <1>6, <1>10, <1>11
<1>13. \A i \in 1..Len(q.hops) : i = 1 \/ i = 2
  OBVIOUS
<1>14. Touched(q) <=> Touches(o) \/ Touches(SwapOrder(q, 2))
  BY <1>1, <1>13 DEF Touched
<1>15. b.cleanup = When(Closes(q), <<Close>>)
  <2>1. k \in Seq({Close}) /\ (k # <<>> <=> Touched(q))
    BY <1>2, <1>3, <1>14, ClosesAppend DEF k
  <2>2. dedupe_instructions(IF Unwraps(q) THEN drop_wsol_close(k) ELSE k) = When(Closes(q), <<Close>>)
    <3>1. Unwraps(q) \in BOOLEAN
      BY DEF Unwraps
    <3>2. dedupe_instructions(IF Unwraps(q) THEN drop_wsol_close(k) ELSE k) = When(~ Unwraps(q) /\ k # <<>>, <<Close>>)
      BY <2>1, <3>1, TidyCleanup
    <3> QED BY <2>1, <3>2 DEF Closes, When
  <2> QED BY <1>12, <2>1, <2>2 DEF When
<1>16. \A i \in 1..Len(q.hops) : Create(q.hops[i].out) \in Range(C) \cup Range(u)
  BY <1>2, <1>3, <1>6, <1>13
<1>17. Create(SOL) \in Range(C) \cup Range(u) => Touched(q)
  BY <1>2, <1>3, <1>6, <1>14
<1> HIDE DEF b
<1>18. b.setup = (C \o When(Wraps(o), <<Fund(q.amount_in), Sync>>)) \o u
  BY <1>2, <1>4, <1>12
<1>19. BuiltFrom(q, b, C, u)
  <2>1. b.setup = (C \o When(Wraps(SwapOrder(q, 1)), <<Fund(q.amount_in), Sync>>)) \o u
    BY <1>18 DEF o
  <2>2. Wraps(SwapOrder(q, 1)) => Create(SOL) \in Range(C)
    BY <1>5 DEF o
  <2>3. b.swap = Hop(q, 1).swap \o unwrap_for_native_sol_hop(q, Hop(q, 2).swap)
    BY <1>12 DEF g, h
  <2>4. Len(q.hops) = 2
    OBVIOUS
  <2> QED BY <1>15, <1>16, <1>17, <2>1, <2>2, <2>3, <2>4 DEF BuiltFrom
<1> QED BY <1>5, <1>19 DEF Built, b

\* A route of three hops: the later setups lose their funding, and one close is left.
LEMMA BuiltThree ==
    ASSUME NEW q, QuoteOK(q), Len(q.hops) = 3
    PROVE  Built(q, build_swap_from_quote(q))
<1> DEFINE o == SwapOrder(q, 1)
           f == Hop(q, 1)
           g == Hop(q, 2)
           h == Hop(q, 3)
           b == build_swap_from_quote(q)
<1>1. 1 \in 1..Len(q.hops) /\ 2 \in 1..Len(q.hops) /\ 3 \in 1..Len(q.hops)
  BY DEF QuoteOK
<1>2. PICK C : /\ Opens(o, C)
               /\ f.setup = C \o When(Wraps(o), <<Fund(o.amount_in), Sync>>)
               /\ Create(q.hops[1].out) \in Range(C)
               /\ Create(SOL) \in Range(C) => Touches(o)
               /\ f.cleanup \in Seq({Close})
               /\ f.cleanup # <<>> <=> Touches(o)
  BY <1>1, HopShape
<1>3. PICK D : /\ g.setup \in Seq(Setups)
               /\ Kept(g.setup) = Range(D)
               /\ Create(q.hops[2].out) \in Range(D)
               /\ Create(SOL) \in Range(D) => Touches(SwapOrder(q, 2))
               /\ g.cleanup \in Seq({Close})
               /\ g.cleanup # <<>> <=> Touches(SwapOrder(q, 2))
  BY <1>1, HopShape
<1>4. PICK E : /\ h.setup \in Seq(Setups)
               /\ Kept(h.setup) = Range(E)
               /\ Create(q.hops[3].out) \in Range(E)
               /\ Create(SOL) \in Range(E) => Touches(SwapOrder(q, 3))
               /\ h.cleanup \in Seq({Close})
               /\ h.cleanup # <<>> <=> Touches(SwapOrder(q, 3))
  BY <1>1, HopShape
<1>5. o.amount_in = q.amount_in /\ OrderOK(o)
  BY <1>1, Orders
<1>6. C \in Seq(Creates) /\ (Wraps(o) => Create(SOL) \in Range(C))
  BY <1>2 DEF Opens
<1> DEFINE t == g.setup \o h.setup
<1> HIDE DEF f, g, h, o
<1>7. t \in Seq(Setups) /\ Kept(t) = Range(D) \cup Range(E)
  <2>1. t \in Seq(Setups) /\ Range(t) = Range(g.setup) \cup Range(h.setup)
    BY <1>3, <1>4, ConcatProperties, RangeConcatenation DEF t
  <2>2. Kept(t) = Kept(g.setup) \cup Kept(h.setup)
    BY <2>1 DEF Kept
  <2> QED BY <1>3, <1>4, <2>1, <2>2
<1> HIDE DEF t
<1>8. PICK u \in Seq(Creates) : /\ dedupe_instructions(f.setup \o Drop(t, WsolFunding)) = f.setup \o u
                                /\ Range(D) \cup Range(E) \subseteq Range(C) \cup Range(u)
                                /\ Range(u) \subseteq Range(D) \cup Range(E)
  <2> DEFINE s == f.setup
  <2>1. s = C \o When(Wraps(o), <<Fund(o.amount_in), Sync>>)
    BY <1>2
  <2> HIDE DEF s
  <2>2. \E u \in Seq(Creates) : /\ dedupe_instructions(s \o Drop(t, WsolFunding)) = s \o u
                                /\ Kept(t) \subseteq Range(C) \cup Range(u)
                                /\ Range(u) \subseteq Kept(t)
    BY <1>2, <1>5, <1>7, <2>1, TidySetup
  <2> QED BY <1>7, <2>2 DEF s
<1>9. b = Combine(q, <<f, g, h>>)
  BY DEF build_swap_from_quote, build_three_hop_ixs, f, g, h
<1> HIDE DEF b
<1>10. /\ [i \in 1..Len(q.hops) |-> <<f, g, h>>[i].setup] = <<f.setup, g.setup, h.setup>>
       /\ [i \in 1..Len(q.hops) |-> <<f, g, h>>[i].cleanup] = <<f.cleanup, g.cleanup, h.cleanup>>
       /\ [i \in 1..Len(q.hops) |-> IF i = Len(q.hops) THEN unwrap_for_native_sol_hop(q, <<f, g, h>>[i].swap) ELSE <<f, g, h>>[i].swap]
             = <<f.swap, g.swap, unwrap_for_native_sol_hop(q, h.swap)>>
  OBVIOUS
<1>11. Head(<<f.setup, g.setup, h.setup>>) = f.setup /\ Tail(<<f.setup, g.setup, h.setup>>) = <<g.setup, h.setup>>
  OBVIOUS
<1> DEFINE k == (f.cleanup \o g.cleanup) \o h.cleanup
           tidy == tidy_multihop(<<f.setup, g.setup, h.setup>>, IF Unwraps(q) THEN drop_wsol_close(k) ELSE k)
<1>12. b = [setup |-> tidy.setup, swap |-> (f.swap \o g.swap) \o unwrap_for_native_sol_hop(q, h.swap),
            cleanup |-> tidy.cleanup]
  <2> DEFINE A == [i \in 1..Len(q.hops) |-> <<f, g, h>>[i].setup]
             B == [i \in 1..Len(q.hops) |-> <<f, g, h>>[i].cleanup]
             D0 == [i \in 1..Len(q.hops) |-> IF i = Len(q.hops) THEN unwrap_for_native_sol_hop(q, <<f, g, h>>[i].swap)
                                             ELSE <<f, g, h>>[i].swap]
             T == tidy_multihop(A, IF Unwraps(q) THEN drop_wsol_close(FlattenSeq(B)) ELSE FlattenSeq(B))
  <2>1. Combine(q, <<f, g, h>>) = [setup |-> T.setup, swap |-> FlattenSeq(D0), cleanup |-> T.cleanup]
    BY DEF Combine
  <2> HIDE DEF A, B, D0
  <2>2. A = <<f.setup, g.setup, h.setup>> /\ B = <<f.cleanup, g.cleanup, h.cleanup>>
        /\ D0 = <<f.swap, g.swap, unwrap_for_native_sol_hop(q, h.swap)>>
    BY <1>10 DEF A, B, D0
  <2>3. FlattenSeq(B) = k
    <3> DEFINE x == f.cleanup
               y == g.cleanup
               z == h.cleanup
    <3> HIDE DEF x, y, z, k, tidy, T
    <3>1. B = <<x, y, z>> /\ k = (x \o y) \o z
      BY <2>2 DEF x, y, z, k
    <3>2. Len(B) = 3 /\ B[1] = x /\ B[2] = y /\ B[3] = z
      BY <3>1
    <3> QED BY <3>1, <3>2, FlattenThree
  <2>5. FlattenSeq(D0) = (f.swap \o g.swap) \o unwrap_for_native_sol_hop(q, h.swap)
    <3> DEFINE x == f.swap
               y == g.swap
               z == unwrap_for_native_sol_hop(q, h.swap)
    <3> HIDE DEF x, y, z, k, tidy, T
    <3>1. D0 = <<x, y, z>>
      BY <2>2 DEF x, y, z
    <3>2. Len(D0) = 3 /\ D0[1] = x /\ D0[2] = y /\ D0[3] = z
      BY <3>1
    <3>3. FlattenSeq(D0) = (x \o y) \o z
      BY <3>2, FlattenThree
    <3> QED BY <3>3 DEF x, y, z
  <2> HIDE DEF k
  <2>4. T = tidy
    BY <2>2, <2>3
  <2> HIDE DEF T, tidy
  <2> QED BY <1>9, <2>1, <2>4, <2>5
<1>13. tidy = [setup |-> dedupe_instructions(f.setup \o Drop(t, WsolFunding)),
               cleanup |-> dedupe_instructions(IF Unwraps(q) THEN drop_wsol_close(k) ELSE k)]
  BY <1>11, FlattenTwo DEF tidy_multihop, t
<1> HIDE DEF tidy, k
<1>14. b.setup = f.setup \o u /\ b.swap = (f.swap \o g.swap) \o unwrap_for_native_sol_hop(q, h.swap)
       /\ b.cleanup = dedupe_instructions(IF Unwraps(q) THEN drop_wsol_close(k) ELSE k)
  BY <1>8, <1>12, <1>13
<1>15. \A i \in 1..Len(q.hops) : i = 1 \/ i = 2 \/ i = 3
  OBVIOUS
<1>16. Touched(q) <=> Touches(o) \/ Touches(SwapOrder(q, 2)) \/ Touches(SwapOrder(q, 3))
  BY <1>1, <1>15 DEF o, Touched
<1>17. b.cleanup = When(Closes(q), <<Close>>)
  <2>1. f.cleanup \o g.cleanup \in Seq({Close}) /\ (f.cleanup \o g.cleanup # <<>> <=> Touches(o) \/ Touches(SwapOrder(q, 2)))
    BY <1>2, <1>3, ClosesAppend
  <2>2. k \in Seq({Close}) /\ (k # <<>> <=> Touched(q))
    BY <1>4, <1>16, <2>1, ClosesAppend DEF k
  <2>3. dedupe_instructions(IF Unwraps(q) THEN drop_wsol_close(k) ELSE k) = When(Closes(q), <<Close>>)
    <3>1. Unwraps(q) \in BOOLEAN
      BY DEF Unwraps
    <3>2. dedupe_instructions(IF Unwraps(q) THEN drop_wsol_close(k) ELSE k) = When(~ Unwraps(q) /\ k # <<>>, <<Close>>)
      BY <2>2, <3>1, TidyCleanup
    <3> QED BY <2>2, <3>2 DEF Closes, When
  <2> QED BY <1>14, <2>2, <2>3 DEF When
<1>18. \A i \in 1..Len(q.hops) : Create(q.hops[i].out) \in Range(C) \cup Range(u)
  BY <1>2, <1>3, <1>4, <1>8, <1>15
<1>19. Create(SOL) \in Range(C) \cup Range(u) => Touched(q)
  BY <1>2, <1>3, <1>4, <1>8, <1>16
<1>20. b.setup = (C \o When(Wraps(o), <<Fund(q.amount_in), Sync>>)) \o u
  BY <1>2, <1>5, <1>14
<1>21. BuiltFrom(q, b, C, u)
  <2>1. b.setup = (C \o When(Wraps(SwapOrder(q, 1)), <<Fund(q.amount_in), Sync>>)) \o u
    BY <1>20 DEF o
  <2>2. Wraps(SwapOrder(q, 1)) => Create(SOL) \in Range(C)
    BY <1>6 DEF o
  <2>3. b.swap = (Hop(q, 1).swap \o Hop(q, 2).swap) \o unwrap_for_native_sol_hop(q, Hop(q, 3).swap)
    BY <1>14 DEF f, g, h
  <2>4. Len(q.hops) = 3
    OBVIOUS
  <2> QED BY <1>17, <1>18, <1>19, <2>1, <2>2, <2>3, <2>4 DEF BuiltFrom
<1> QED BY <1>6, <1>21 DEF Built, b

\* Whatever the quote, the transaction built for it has that shape.
LEMMA BuildsShape ==
    ASSUME NEW q, QuoteOK(q)
    PROVE  Built(q, build_swap_from_quote(q))
<1>1. Len(q.hops) = 1 \/ Len(q.hops) = 2 \/ Len(q.hops) = 3
  BY DEF QuoteOK
<1> QED BY <1>1, BuiltOne, BuiltTwo, BuiltThree

-----------------------------------------------------------------------------
(* What the instructions do to the accounts                                 *)

Ledgers == UNION {[D -> Nat] : D \in SUBSET Mints}
Held(f, m) == IF m \in DOMAIN f THEN f[m] ELSE 0
Debit(f, m, n) == [f EXCEPT ![m] = @ - n]
Raise(f, m, n) == [f EXCEPT ![m] = @ + n]

\* The states of a transaction that has not failed, when its hops deliver into the mints of O.
Configs(O) == [lamports : Nat, ata : Ledgers, unsynced : Nat, fee_atas : Ledgers, outs : [O -> Nat], err : {"none"}]

\* Ledgers as a set.
LEMMA LedgerSet ==
    ASSUME NEW f
    PROVE  IsLedger(f) <=> f \in Ledgers
  BY DEF IsLedger, Ledgers

\* What an account holds is a number.
LEMMA HeldNat ==
    ASSUME NEW f \in Ledgers, NEW m
    PROVE  /\ Held(f, m) \in Nat
           /\ m \in DOMAIN f => Held(f, m) = f[m]
           /\ m \notin DOMAIN f => Held(f, m) = 0
           /\ DOMAIN f \subseteq Mints
  BY DEF Held, Ledgers

\* Crediting an account, which opens it.
LEMMA CreditLedger ==
    ASSUME NEW f \in Ledgers, NEW m \in Mints, NEW n \in Nat
    PROVE  /\ Credit(f, m, n) \in Ledgers
           /\ DOMAIN Credit(f, m, n) = DOMAIN f \cup {m}
           /\ \A x : Held(Credit(f, m, n), x) = Held(f, x) + (IF x = m THEN n ELSE 0)
<1> DEFINE D == DOMAIN f \cup {m}
           g == Credit(f, m, n)
<1>1. D \subseteq Mints /\ \A x \in DOMAIN f : f[x] \in Nat
  BY DEF Ledgers
<1>2. g = [x \in D |-> (IF x \in DOMAIN f THEN f[x] ELSE 0) + (IF x = m THEN n ELSE 0)]
  BY DEF Credit
<1> HIDE DEF g, D
<1>3. DOMAIN g = D /\ \A x \in D : g[x] = Held(f, x) + (IF x = m THEN n ELSE 0)
  BY <1>2 DEF Held
<1>4. \A x \in D : g[x] \in Nat
  BY <1>3, HeldNat
<1>5. g \in [D -> Nat]
  BY <1>2, <1>3, <1>4
<1>6. g \in Ledgers
  BY <1>1, <1>5 DEF Ledgers
<1>7. ASSUME NEW x
      PROVE  Held(g, x) = Held(f, x) + (IF x = m THEN n ELSE 0)
  <2>1. CASE x \in D
    BY <1>3, <2>1 DEF Held
  <2>2. CASE x \notin D
    <3>1. Held(g, x) = 0 /\ Held(f, x) = 0 /\ x # m
      BY <1>3, <2>2 DEF Held, D
    <3> QED BY <3>1
  <2> QED BY <2>1, <2>2
<1> QED BY <1>3, <1>6, <1>7 DEF g, D

\* Taking from an open account what it holds.
LEMMA DebitLedger ==
    ASSUME NEW f \in Ledgers, NEW m \in DOMAIN f, NEW n \in Nat, n <= f[m]
    PROVE  /\ Debit(f, m, n) \in Ledgers
           /\ DOMAIN Debit(f, m, n) = DOMAIN f
           /\ \A x : Held(Debit(f, m, n), x) = Held(f, x) - (IF x = m THEN n ELSE 0)
<1> DEFINE g == Debit(f, m, n)
<1>1. PICK D \in SUBSET Mints : f \in [D -> Nat]
  BY DEF Ledgers
<1>2. f[m] - n \in Nat
  BY <1>1
<1>3. g \in [D -> Nat] /\ DOMAIN g = D /\ DOMAIN f = D
  BY <1>1, <1>2 DEF Debit
<1>4. g \in Ledgers
  BY <1>3 DEF Ledgers
<1>5. \A x : Held(g, x) = Held(f, x) - (IF x = m THEN n ELSE 0)
  BY <1>1, <1>3 DEF Held, Debit
<1> QED BY <1>3, <1>4, <1>5

\* Adding to an open account.
LEMMA RaiseLedger ==
    ASSUME NEW f \in Ledgers, NEW m \in DOMAIN f, NEW n \in Nat
    PROVE  /\ Raise(f, m, n) \in Ledgers
           /\ DOMAIN Raise(f, m, n) = DOMAIN f
           /\ \A x : Held(Raise(f, m, n), x) = Held(f, x) + (IF x = m THEN n ELSE 0)
<1> DEFINE g == Raise(f, m, n)
<1>1. PICK D \in SUBSET Mints : f \in [D -> Nat]
  BY DEF Ledgers
<1>2. f[m] + n \in Nat
  BY <1>1
<1>3. g \in [D -> Nat] /\ DOMAIN g = D /\ DOMAIN f = D
  BY <1>1, <1>2 DEF Raise
<1>4. g \in Ledgers
  BY <1>3 DEF Ledgers
<1>5. \A x : Held(g, x) = Held(f, x) + (IF x = m THEN n ELSE 0)
  BY <1>1, <1>3 DEF Held, Raise
<1> QED BY <1>3, <1>4, <1>5

\* Closing an account.
LEMMA CloseLedger ==
    ASSUME NEW f \in Ledgers, NEW m
    PROVE  /\ [x \in DOMAIN f \ {m} |-> f[x]] \in Ledgers
           /\ DOMAIN [x \in DOMAIN f \ {m} |-> f[x]] = DOMAIN f \ {m}
           /\ \A x : Held([y \in DOMAIN f \ {m} |-> f[y]], x) = IF x = m THEN 0 ELSE Held(f, x)
<1> DEFINE g == [x \in DOMAIN f \ {m} |-> f[x]]
<1>1. PICK D \in SUBSET Mints : f \in [D -> Nat]
  BY DEF Ledgers
<1>2. g \in [D \ {m} -> Nat] /\ DOMAIN g = DOMAIN f \ {m} /\ D \ {m} \in SUBSET Mints
  BY <1>1
<1>3. g \in Ledgers
  BY <1>2 DEF Ledgers
<1>4. \A x : Held(g, x) = IF x = m THEN 0 ELSE Held(f, x)
  BY <1>2 DEF Held
<1> QED BY <1>2, <1>3, <1>4

\* An instruction that succeeds, and leaves the treasury alone.
Goes(c, d, O) == d \in Configs(O) /\ d.err = "none" /\ d.outs = c.outs /\ d.fee_atas = c.fee_atas
Ready(c, O) == c \in Configs(O) /\ c.err = "none"

\* Creating an account opens it and moves nothing.
LEMMA CreateStep ==
    ASSUME NEW O, NEW c, Ready(c, O), NEW m \in Mints
    PROVE  LET d == Apply(c, Create(m)) IN
           /\ Goes(c, d, O) /\ d.lamports = c.lamports /\ d.unsynced = c.unsynced
           /\ DOMAIN d.ata = DOMAIN c.ata \cup {m}
           /\ \A x : Held(d.ata, x) = Held(c.ata, x)
<1> DEFINE d == Apply(c, Create(m))
           f == c.ata
           g == Credit(f, m, 0)
<1>1. c \in Configs(O) /\ c.err = "none" /\ f \in Ledgers
  BY DEF Ready, Configs
<1>2. g \in Ledgers /\ DOMAIN g = DOMAIN f \cup {m} /\ \A x : Held(g, x) = Held(f, x)
  <2> HIDE DEF f
  <2>3. g \in Ledgers /\ DOMAIN g = DOMAIN f \cup {m}
        /\ \A x : Held(g, x) = Held(f, x) + (IF x = m THEN 0 ELSE 0)
    BY <1>1, CreditLedger
  <2>2. \A x : Held(f, x) \in Nat
    BY <1>1, HeldNat
  <2> QED BY <2>2, <2>3
<1>3. d = [c EXCEPT !.ata = g]
  BY <1>1 DEF Apply, Create
<1> HIDE DEF d, g
<1>4. d \in Configs(O) /\ d.ata = g /\ d.err = "none" /\ d.outs = c.outs /\ d.fee_atas = c.fee_atas
      /\ d.lamports = c.lamports /\ d.unsynced = c.unsynced
  BY <1>1, <1>2, <1>3 DEF Configs
<1> QED BY <1>2, <1>4 DEF Goes, d

\* The treasury's account is created: nothing else changes.
LEMMA CreateFeeStep ==
    ASSUME NEW O, NEW c, Ready(c, O), NEW m \in Mints
    PROVE  LET d == Apply(c, CreateFee(m)) IN
           /\ Ready(d, O) /\ d.outs = c.outs
           /\ d.lamports = c.lamports /\ d.unsynced = c.unsynced /\ d.ata = c.ata
           /\ DOMAIN d.fee_atas = DOMAIN c.fee_atas \cup {m}
           /\ \A x : Held(d.fee_atas, x) = Held(c.fee_atas, x)
<1> DEFINE d == Apply(c, CreateFee(m))
           f == c.fee_atas
           g == Credit(f, m, 0)
<1>1. c \in Configs(O) /\ c.err = "none" /\ f \in Ledgers
  BY DEF Ready, Configs
<1>2. g \in Ledgers /\ DOMAIN g = DOMAIN f \cup {m} /\ \A x : Held(g, x) = Held(f, x)
  <2> HIDE DEF f
  <2>3. g \in Ledgers /\ DOMAIN g = DOMAIN f \cup {m}
        /\ \A x : Held(g, x) = Held(f, x) + (IF x = m THEN 0 ELSE 0)
    BY <1>1, CreditLedger
  <2>2. \A x : Held(f, x) \in Nat
    BY <1>1, HeldNat
  <2> QED BY <2>2, <2>3
<1>3. d = [c EXCEPT !.fee_atas = g]
  BY <1>1 DEF Apply, CreateFee
<1> HIDE DEF d, g
<1>4. d \in Configs(O) /\ d.fee_atas = g /\ d.err = "none" /\ d.outs = c.outs /\ d.ata = c.ata
      /\ d.lamports = c.lamports /\ d.unsynced = c.unsynced
  BY <1>1, <1>2, <1>3 DEF Configs
<1> QED BY <1>2, <1>4 DEF Ready, d

\* Funding moves lamports to the WSOL account, which has not seen them yet.
LEMMA FundStep ==
    ASSUME NEW O, NEW c, Ready(c, O), NEW n \in Nat, n <= c.lamports
    PROVE  LET d == Apply(c, Fund(n)) IN
           /\ Goes(c, d, O) /\ d.lamports = c.lamports - n /\ d.unsynced = c.unsynced + n /\ d.ata = c.ata
<1> DEFINE d == Apply(c, Fund(n))
<1>1. c \in Configs(O) /\ c.err = "none" /\ c.lamports \in Nat /\ c.unsynced \in Nat
  BY DEF Ready, Configs
<1>2. d = [c EXCEPT !.lamports = @ - n, !.unsynced = @ + n]
  BY <1>1 DEF Apply, Fund, FundWsol
<1> HIDE DEF d
<1>3. c.lamports - n \in Nat /\ c.unsynced + n \in Nat
  BY <1>1
<1>4. d \in Configs(O) /\ d.err = "none" /\ d.outs = c.outs /\ d.fee_atas = c.fee_atas /\ d.ata = c.ata
      /\ d.lamports = c.lamports - n /\ d.unsynced = c.unsynced + n
  BY <1>1, <1>2, <1>3 DEF Configs
<1> QED BY <1>4 DEF Goes, d

\* SyncNative turns them into WSOL.
LEMMA SyncStep ==
    ASSUME NEW O, NEW c, Ready(c, O), SOL \in DOMAIN c.ata
    PROVE  LET d == Apply(c, Sync) IN
           /\ Goes(c, d, O) /\ d.lamports = c.lamports /\ d.unsynced = 0
           /\ DOMAIN d.ata = DOMAIN c.ata
           /\ \A x : Held(d.ata, x) = Held(c.ata, x) + (IF x = SOL THEN c.unsynced ELSE 0)
<1> DEFINE d == Apply(c, Sync)
           f == c.ata
           n == c.unsynced
           g == Raise(f, SOL, n)
<1>1. c \in Configs(O) /\ c.err = "none" /\ f \in Ledgers /\ n \in Nat
  BY DEF Ready, Configs
<1>2. g \in Ledgers /\ DOMAIN g = DOMAIN f /\ \A x : Held(g, x) = Held(f, x) + (IF x = SOL THEN n ELSE 0)
  <2>1. SOL \in DOMAIN f
    OBVIOUS
  <2> HIDE DEF f, n
  <2> QED BY <1>1, <2>1, RaiseLedger
<1>3. d = [c EXCEPT !.ata = g, !.unsynced = 0]
  BY <1>1 DEF Apply, Sync, SyncWsol, Raise
<1> HIDE DEF d, g
<1>4. d \in Configs(O) /\ d.ata = g /\ d.err = "none" /\ d.outs = c.outs /\ d.fee_atas = c.fee_atas
      /\ d.lamports = c.lamports /\ d.unsynced = 0
  BY <1>1, <1>2, <1>3 DEF Configs
<1> QED BY <1>2, <1>4 DEF Goes, d

\* Closing the WSOL account turns it all into lamports.
LEMMA CloseStep ==
    ASSUME NEW O, NEW c, Ready(c, O), SOL \in DOMAIN c.ata
    PROVE  LET d == Apply(c, Close) IN
           /\ Goes(c, d, O) /\ d.lamports = c.lamports + Held(c.ata, SOL) + c.unsynced /\ d.unsynced = 0
           /\ DOMAIN d.ata = DOMAIN c.ata \ {SOL}
           /\ \A x : Held(d.ata, x) = IF x = SOL THEN 0 ELSE Held(c.ata, x)
<1> DEFINE d == Apply(c, Close)
           f == c.ata
           g == [m \in DOMAIN f \ {SOL} |-> f[m]]
<1>1. c \in Configs(O) /\ c.err = "none" /\ f \in Ledgers /\ c.lamports \in Nat /\ c.unsynced \in Nat
  BY DEF Ready, Configs
<1>2. g \in Ledgers /\ DOMAIN g = DOMAIN f \ {SOL} /\ \A x : Held(g, x) = IF x = SOL THEN 0 ELSE Held(f, x)
  <2> HIDE DEF f
  <2> QED BY <1>1, CloseLedger
<1>3. Held(f, SOL) \in Nat /\ Held(f, SOL) = f[SOL]
  <2> HIDE DEF f
  <2> QED BY <1>1, HeldNat DEF f
<1>4. d = [c EXCEPT !.lamports = @ + Held(f, SOL) + c.unsynced, !.unsynced = 0, !.ata = g]
  <2>1. d = [c EXCEPT !.lamports = @ + f[SOL] + c.unsynced, !.unsynced = 0, !.ata = g]
    BY <1>1 DEF Apply, Close, CloseWsolAccount
  <2> HIDE DEF d, g, f
  <2> QED BY <1>3, <2>1
<1> HIDE DEF d, g
<1>5. c.lamports + Held(f, SOL) + c.unsynced \in Nat
  BY <1>1, <1>3
<1>6. d \in Configs(O) /\ d.ata = g /\ d.err = "none" /\ d.outs = c.outs /\ d.fee_atas = c.fee_atas
      /\ d.lamports = c.lamports + Held(f, SOL) + c.unsynced /\ d.unsynced = 0
  BY <1>1, <1>2, <1>4, <1>5 DEF Configs
<1> QED BY <1>2, <1>6 DEF Goes, d

\* The order can be executed as it stands.
Funded(c, o) ==
    /\ o.out \in DOMAIN c.ata
    /\ IF Buys(o) THEN o.amount_in <= c.lamports ELSE o.in \in DOMAIN c.ata /\ o.amount_in <= c.ata[o.in]

\* What may go wrong with a hop that can be executed.
Moved(d, o) == d.err = "slippage" \/ (d.err = "zero" /\ o.floor = 0)

\* A venue takes its input and pays at least its floor.
Paid(c, d, o, got) ==
    /\ d.lamports = c.lamports - (IF Buys(o) THEN o.amount_in ELSE 0) + (IF Sells(o) THEN got ELSE 0)
    /\ d.unsynced = c.unsynced
    /\ DOMAIN d.ata = DOMAIN c.ata
    /\ \A x : Held(d.ata, x) = Held(c.ata, x) - (IF x = o.in /\ ~ Buys(o) THEN o.amount_in ELSE 0)
                                              + (IF x = o.out /\ ~ Sells(o) THEN got ELSE 0)

\* A venue that is funded is refused only by its floor, or pays at least that.
LEMMA VenueStep ==
    ASSUME NEW O, NEW c, Ready(c, O), NEW o, OrderOK(o), NEW v, Trades(o, v), o.out \in O, Funded(c, o)
    PROVE  LET d == Apply(c, v) IN
           \/ Moved(d, o)
           \/ Goes(c, d, O) /\ \E got \in Nat : got >= o.floor /\ Paid(c, d, o, got)
<1> DEFINE d == Apply(c, v)
           f == c.ata
           a == o.amount_in
           got == c.outs[o.out]
<1>1. c \in Configs(O) /\ c.err = "none" /\ f \in Ledgers /\ c.lamports \in Nat /\ c.unsynced \in Nat /\ got \in Nat
  BY DEF Ready, Configs
<1>2. /\ o.in # o.out /\ o.in \in Mints /\ o.out \in Mints /\ a \in Nat /\ o.floor \in Nat
      /\ o.venue = "PumpFun" => SOL \in {o.in, o.out}
  BY DEF OrderOK
<1>3. v.op = "venue" /\ v.native = (o.venue = "PumpFun") /\ v.in = o.in /\ v.out = o.out /\ v.amount_in = a
      /\ v.floor \in Nat /\ v.floor >= o.floor
  BY DEF Trades
<1>4. o.out \in DOMAIN f /\ (Buys(o) => a <= c.lamports) /\ (~ Buys(o) => o.in \in DOMAIN f /\ a <= f[o.in])
  BY DEF Funded
<1>5. (v.native /\ v.in = SOL) = Buys(o) /\ (v.native /\ v.out = SOL) = Sells(o) /\ ~ (Buys(o) /\ Sells(o))
  BY <1>2, <1>3 DEF Buys, Sells
<1> DEFINE paid == IF Buys(o) THEN [c EXCEPT !.lamports = @ - a] ELSE [c EXCEPT !.ata[o.in] = @ - a]
<1>6. d = IF v.floor = 0 /\ ~ v.zero_ok THEN Fails(c, "zero")
          ELSE IF got < v.floor THEN Fails(c, "slippage")
          ELSE IF Sells(o) THEN [paid EXCEPT !.lamports = @ + got]
          ELSE [paid EXCEPT !.ata = Credit(@, o.out, got)]
  <2>1. d = RunVenue(c, v)
    BY <1>1, <1>3 DEF Apply
  <2>2. ~ (~ Buys(o) /\ o.in \notin DOMAIN f) /\ ~ (~ Sells(o) /\ o.out \notin DOMAIN f)
        /\ ~ (a > (IF Buys(o) THEN c.lamports ELSE f[o.in]))
    <3>1. \A x \in DOMAIN f : f[x] \in Nat
      BY <1>1 DEF Ledgers
    <3> HIDE DEF f, a
    <3> QED BY <1>1, <1>2, <1>4, <3>1
  <2> HIDE DEF d
  <2> QED BY <1>3, <1>5, <2>1, <2>2 DEF RunVenue
<1> HIDE DEF d, paid
<1>7. CASE v.floor = 0 /\ ~ v.zero_ok
  <2>1. d = Fails(c, "zero") /\ o.floor = 0
    BY <1>2, <1>3, <1>6, <1>7
  <2>2. d.err = "zero"
    BY <1>1, <2>1 DEF Fails, Configs
  <2> QED BY <2>1, <2>2 DEF Moved, d
<1>8. CASE ~ (v.floor = 0 /\ ~ v.zero_ok) /\ got < v.floor
  <2>1. d = Fails(c, "slippage")
    BY <1>6, <1>8
  <2>2. d.err = "slippage"
    BY <1>1, <2>1 DEF Fails, Configs
  <2> QED BY <2>2 DEF Moved, d
<1>9. CASE ~ (v.floor = 0 /\ ~ v.zero_ok) /\ ~ (got < v.floor)
  <2>1. got >= o.floor
    <3> HIDE DEF got
    <3> QED BY <1>1, <1>2, <1>3, <1>9
  <2>2. d = IF Sells(o) THEN [paid EXCEPT !.lamports = @ + got] ELSE [paid EXCEPT !.ata = Credit(@, o.out, got)]
    BY <1>6, <1>9
  <2>3. Goes(c, d, O) /\ Paid(c, d, o, got)
    <3> HIDE DEF got, a, f
    <3>1. CASE Buys(o)
      <4> DEFINE g == Credit(f, o.out, got)
      <4>1. d = [c EXCEPT !.lamports = @ - a, !.ata = g]
        BY <1>1, <1>5, <2>2, <3>1 DEF paid, Configs, f
      <4>2. c.lamports - a \in Nat
        BY <1>1, <1>2, <1>4, <3>1
      <4>3. g \in Ledgers /\ DOMAIN g = DOMAIN f /\ \A x : Held(g, x) = Held(f, x) + (IF x = o.out THEN got ELSE 0)
        <5> DEFINE m == o.out
        <5>1. f \in Ledgers /\ m \in Mints /\ got \in Nat /\ DOMAIN f \cup {m} = DOMAIN f
          BY <1>1, <1>2, <1>4
        <5> HIDE DEF m
        <5>2. Credit(f, m, got) \in Ledgers /\ DOMAIN Credit(f, m, got) = DOMAIN f \cup {m}
              /\ \A x : Held(Credit(f, m, got), x) = Held(f, x) + (IF x = m THEN got ELSE 0)
          BY <5>1, CreditLedger
        <5> QED BY <5>1, <5>2 DEF m
      <4> HIDE DEF g
      <4>4. d \in Configs(O) /\ d.ata = g /\ d.err = "none" /\ d.outs = c.outs /\ d.fee_atas = c.fee_atas
            /\ d.lamports = c.lamports - a /\ d.unsynced = c.unsynced
        BY <1>1, <4>1, <4>2, <4>3 DEF Configs
      <4>5. Goes(c, d, O)
        BY <4>4 DEF Goes
      <4>6. d.lamports = c.lamports - a + 0
        BY <4>2, <4>4
      <4>7. ASSUME NEW x
            PROVE  Held(d.ata, x) = Held(c.ata, x) - 0 + (IF x = o.out THEN got ELSE 0)
        <5>1. Held(f, x) \in Nat
          BY <1>1, HeldNat
        <5>2. Held(g, x) = Held(f, x) + (IF x = o.out THEN got ELSE 0)
          BY <4>3
        <5>3. Held(g, x) = Held(f, x) - 0 + (IF x = o.out THEN got ELSE 0)
          BY <1>1, <5>1, <5>2
        <5> QED BY <4>4, <5>3 DEF f
      <4> QED BY <1>5, <3>1, <4>3, <4>4, <4>5, <4>6, <4>7 DEF Paid, a, f
    <3>2. CASE Sells(o)
      <4> DEFINE g == Debit(f, o.in, a)
      <4>1. d = [c EXCEPT !.lamports = @ + got, !.ata = g]
        BY <1>1, <1>5, <2>2, <3>2 DEF paid, Configs, f, Debit
      <4>2. c.lamports + got \in Nat
        BY <1>1
      <4>3. g \in Ledgers /\ DOMAIN g = DOMAIN f /\ \A x : Held(g, x) = Held(f, x) - (IF x = o.in THEN a ELSE 0)
        <5> DEFINE m == o.in
        <5>1. f \in Ledgers /\ m \in DOMAIN f /\ a \in Nat /\ a <= f[m]
          BY <1>1, <1>2, <1>4, <1>5, <3>2
        <5> HIDE DEF m
        <5>2. Debit(f, m, a) \in Ledgers /\ DOMAIN Debit(f, m, a) = DOMAIN f
              /\ \A x : Held(Debit(f, m, a), x) = Held(f, x) - (IF x = m THEN a ELSE 0)
          BY <5>1, DebitLedger
        <5> QED BY <5>2 DEF m
      <4> HIDE DEF g
      <4>4. d \in Configs(O) /\ d.ata = g /\ d.err = "none" /\ d.outs = c.outs /\ d.fee_atas = c.fee_atas
            /\ d.lamports = c.lamports + got /\ d.unsynced = c.unsynced
        BY <1>1, <4>1, <4>2, <4>3 DEF Configs
      <4>5. Goes(c, d, O)
        BY <4>4 DEF Goes
      <4>6. d.lamports = c.lamports - 0 + got
        BY <1>1, <4>4
      <4>7. ASSUME NEW x
            PROVE  Held(d.ata, x) = Held(c.ata, x) - (IF x = o.in THEN a ELSE 0) + 0
        <5>1. Held(f, x) \in Nat
          BY <1>1, HeldNat
        <5>2. Held(g, x) = Held(f, x) - (IF x = o.in THEN a ELSE 0)
          BY <4>3
        <5>3. Held(g, x) = Held(f, x) - (IF x = o.in THEN a ELSE 0) + 0
          BY <1>2, <5>1, <5>2
        <5> QED BY <4>4, <5>3 DEF f
      <4> QED BY <1>5, <3>2, <4>3, <4>4, <4>5, <4>6, <4>7 DEF Paid, a, f
    <3>3. CASE ~ Buys(o) /\ ~ Sells(o)
      <4> DEFINE e == Debit(f, o.in, a)
                 g == Credit(e, o.out, got)
      <4>1. d = [c EXCEPT !.ata = g]
        BY <1>1, <2>2, <3>3 DEF paid, Configs, f, Debit
      <4>2. e \in Ledgers /\ DOMAIN e = DOMAIN f /\ \A x : Held(e, x) = Held(f, x) - (IF x = o.in THEN a ELSE 0)
        <5> DEFINE m == o.in
        <5>1. f \in Ledgers /\ m \in DOMAIN f /\ a \in Nat /\ a <= f[m]
          BY <1>1, <1>2, <1>4, <1>5, <3>3
        <5> HIDE DEF m
        <5>2. Debit(f, m, a) \in Ledgers /\ DOMAIN Debit(f, m, a) = DOMAIN f
              /\ \A x : Held(Debit(f, m, a), x) = Held(f, x) - (IF x = m THEN a ELSE 0)
          BY <5>1, DebitLedger
        <5> QED BY <5>2 DEF m
      <4> HIDE DEF e
      <4>3. g \in Ledgers /\ DOMAIN g = DOMAIN f /\ \A x : Held(g, x) = Held(e, x) + (IF x = o.out THEN got ELSE 0)
        <5> DEFINE m == o.out
        <5>1. e \in Ledgers /\ m \in Mints /\ got \in Nat /\ DOMAIN e \cup {m} = DOMAIN e
          BY <1>1, <1>2, <1>4, <4>2
        <5> HIDE DEF m
        <5>2. Credit(e, m, got) \in Ledgers /\ DOMAIN Credit(e, m, got) = DOMAIN e \cup {m}
              /\ \A x : Held(Credit(e, m, got), x) = Held(e, x) + (IF x = m THEN got ELSE 0)
          BY <5>1, CreditLedger
        <5> QED BY <4>2, <5>1, <5>2 DEF m
      <4> HIDE DEF g
      <4>4. d \in Configs(O) /\ d.ata = g /\ d.err = "none" /\ d.outs = c.outs /\ d.fee_atas = c.fee_atas
            /\ d.lamports = c.lamports /\ d.unsynced = c.unsynced
        BY <1>1, <4>1, <4>3 DEF Configs
      <4>5. Goes(c, d, O)
        BY <4>4 DEF Goes
      <4>6. d.lamports = c.lamports - 0 + 0
        BY <1>1, <4>4
      <4>7. ASSUME NEW x
            PROVE  Held(d.ata, x) = Held(c.ata, x) - (IF x = o.in THEN a ELSE 0) + (IF x = o.out THEN got ELSE 0)
        BY <4>2, <4>3, <4>4 DEF f
      <4> QED BY <3>3, <4>3, <4>4, <4>5, <4>6, <4>7 DEF Paid, a, f
    <3> QED BY <3>1, <3>2, <3>3
  <2>4. \E g \in Nat : g >= o.floor /\ Paid(c, d, o, g)
    BY <1>1, <2>1, <2>3
  <2> QED BY <2>3, <2>4 DEF d
<1> QED BY <1>7, <1>8, <1>9

\* Creating accounts opens them and moves nothing.
Opened(c, d, M) ==
    /\ d.lamports = c.lamports /\ d.unsynced = c.unsynced
    /\ DOMAIN d.ata = DOMAIN c.ata \cup M
    /\ \A x : Held(d.ata, x) = Held(c.ata, x)

Created(s) == {m \in Mints : Create(m) \in Range(s)}

\* Creations open their accounts and move nothing.
LEMMA CreatesRun ==
    ASSUME NEW O, NEW c, Ready(c, O), NEW s \in Seq(Creates)
    PROVE  Goes(c, Run(c, s), O) /\ Opened(c, Run(c, s), Created(s))
<1> DEFINE P == {t \in Seq(Creates) : Goes(c, Run(c, t), O) /\ Opened(c, Run(c, t), Created(t))}
<1>1. <<>> \in P
  <2>1. Run(c, <<>>) = c /\ <<>> \in Seq(Creates) /\ Created(<<>>) = {}
    BY RunNothing, EmptySeq, RangeEmpty DEF Created
  <2>2. Goes(c, c, O) /\ Opened(c, c, {})
    BY DEF Goes, Opened, Ready
  <2> QED BY <2>1, <2>2
<1>2. ASSUME NEW t \in P, NEW e \in Creates
      PROVE  Append(t, e) \in P
  <2>1. t \in Seq(Creates) /\ Goes(c, Run(c, t), O) /\ Opened(c, Run(c, t), Created(t)) /\ Append(t, e) \in Seq(Creates)
    BY AppendProperties
  <2>2. PICK m \in Mints : e = Create(m)
    BY DEF Creates
  <2> DEFINE b == Run(c, t)
             d == Apply(b, Create(m))
  <2>3. Run(c, Append(t, e)) = d
    BY <2>1, <2>2, RunAppend
  <2>4. Ready(b, O)
    BY <2>1 DEF Goes, Ready
  <2> HIDE DEF b
  <2>5. /\ Goes(b, d, O) /\ d.lamports = b.lamports /\ d.unsynced = b.unsynced
        /\ DOMAIN d.ata = DOMAIN b.ata \cup {m}
        /\ \A x : Held(d.ata, x) = Held(b.ata, x)
    BY <2>4, CreateStep
  <2> HIDE DEF d
  <2>6. Goes(c, b, O) /\ Opened(c, b, Created(t))
    BY <2>1 DEF b
  <2>7. Goes(c, d, O)
    BY <2>5, <2>6 DEF Goes
  <2>8. Created(Append(t, e)) = Created(t) \cup {m}
    <3>1. Range(Append(t, e)) = Range(t) \cup {Create(m)}
      BY <2>1, <2>2, RangeAppend
    <3> QED BY <3>1, CreateInjective DEF Created
  <2>9. Opened(c, d, Created(t) \cup {m})
    BY <2>5, <2>6 DEF Opened
  <2> QED BY <2>1, <2>3, <2>7, <2>8, <2>9
<1>3. P = Seq(Creates)
  <2>1. P \in SUBSET Seq(Creates)
    OBVIOUS
  <2> HIDE DEF P
  <2> QED BY <1>1, <1>2, <2>1, SequenceInduction
<1> QED BY <1>3

\* Two instructions run one after the other.
LEMMA RunTwo ==
    ASSUME NEW c, NEW x, NEW y
    PROVE  Run(c, <<x, y>>) = Apply(Apply(c, x), y)
<1> DEFINE s == <<x>>
           S == {x, y}
<1>1. s \in Seq(S) /\ y \in S
  OBVIOUS
<1> HIDE DEF S
<1>4. Append(s, y) = <<x, y>>
  BY <1>1, AppendIsConcat, Tuples
<1> HIDE DEF s
<1>2. Run(c, Append(s, y)) = Apply(Run(c, s), y)
  BY <1>1, RunAppend
<1>3. Run(c, s) = Apply(c, x)
  BY RunOne DEF s
<1> QED BY <1>2, <1>3, <1>4

\* Wrapping moves lamports into the WSOL account.
LEMMA WrapRun ==
    ASSUME NEW O, NEW c, Ready(c, O), NEW n \in Nat, n <= c.lamports, SOL \in DOMAIN c.ata, c.unsynced = 0
    PROVE  LET d == Run(c, <<Fund(n), Sync>>) IN
           /\ Goes(c, d, O) /\ d.lamports = c.lamports - n /\ d.unsynced = 0
           /\ DOMAIN d.ata = DOMAIN c.ata
           /\ \A x : Held(d.ata, x) = Held(c.ata, x) + (IF x = SOL THEN n ELSE 0)
<1> DEFINE b == Apply(c, Fund(n))
           d == Apply(b, Sync)
<1>1. Goes(c, b, O) /\ b.lamports = c.lamports - n /\ b.unsynced = c.unsynced + n /\ b.ata = c.ata
  BY FundStep
<1>2. b.unsynced = n
  BY <1>1
<1>3. Run(c, <<Fund(n), Sync>>) = d
  BY RunTwo
<1>4. Ready(b, O) /\ SOL \in DOMAIN b.ata
  BY <1>1 DEF Goes, Ready
<1> HIDE DEF b
<1>5. /\ Goes(b, d, O) /\ d.lamports = b.lamports /\ d.unsynced = 0
      /\ DOMAIN d.ata = DOMAIN b.ata
      /\ \A x : Held(d.ata, x) = Held(b.ata, x) + (IF x = SOL THEN b.unsynced ELSE 0)
  BY <1>4, SyncStep
<1> HIDE DEF d
<1>6. Goes(c, d, O)
  BY <1>1, <1>5 DEF Goes
<1> QED BY <1>1, <1>2, <1>3, <1>5, <1>6

\* The setup of a transaction: accounts, the input when it is wrapped, accounts.
Prepared(c, d, w, n, M) ==
    /\ d.lamports = c.lamports - (IF w THEN n ELSE 0) /\ d.unsynced = 0
    /\ DOMAIN d.ata = DOMAIN c.ata \cup M
    /\ \A x : Held(d.ata, x) = Held(c.ata, x) + (IF x = SOL /\ w THEN n ELSE 0)

\* A setup opens the accounts of every hop and wraps the input of the first.
LEMMA SetupRun ==
    ASSUME NEW O, NEW c, Ready(c, O), c.unsynced = 0, NEW w \in BOOLEAN, NEW n \in Nat, w => n <= c.lamports,
           NEW C \in Seq(Creates), NEW u \in Seq(Creates), w => Create(SOL) \in Range(C)
    PROVE  LET d == Run(c, (C \o When(w, <<Fund(n), Sync>>)) \o u) IN
           Goes(c, d, O) /\ Prepared(c, d, w, n, Created(C) \cup Created(u))
<1> DEFINE W == When(w, <<Fund(n), Sync>>)
           a == Run(c, C)
           b == Run(a, W)
           d == Run(b, u)
<1>1. W \in Seq(Fundings)
  <2> DEFINE f == Fund(n)
  <2>1. f \in Fundings /\ Sync \in Fundings
    BY DEF Fundings
  <2> HIDE DEF f
  <2>2. <<f, Sync>> \in Seq(Fundings) /\ <<>> \in Seq(Fundings)
    BY <2>1
  <2> QED BY <2>2 DEF When, f
<1>2. C \in Seq(Setups) /\ u \in Seq(Setups) /\ W \in Seq(Setups)
  BY <1>1, SeqMonotonic DEF Setups
<1> HIDE DEF W
<1>3. C \o W \in Seq(Setups)
  BY <1>2, ConcatProperties
<1>4. Run(c, (C \o W) \o u) = d
  <2> DEFINE v == C \o W
  <2>1. v \in Seq(Setups)
    BY <1>3
  <2> HIDE DEF v
  <2>2. Run(c, v \o u) = Run(Run(c, v), u)
    BY <1>2, <2>1, RunConcat
  <2>3. Run(c, v) = b
    BY <1>2, RunConcat DEF v
  <2> HIDE DEF b
  <2> QED BY <2>2, <2>3 DEF v
<1>5. Goes(c, a, O) /\ Opened(c, a, Created(C))
  BY CreatesRun
<1> HIDE DEF a
<1>6. Goes(a, b, O) /\ b.lamports = a.lamports - (IF w THEN n ELSE 0) /\ b.unsynced = 0
      /\ DOMAIN b.ata = DOMAIN a.ata
      /\ \A x : Held(b.ata, x) = Held(a.ata, x) + (IF x = SOL /\ w THEN n ELSE 0)
  <2>1. Ready(a, O) /\ a.unsynced = 0 /\ a.lamports = c.lamports /\ a.lamports \in Nat /\ a.ata \in Ledgers
    BY <1>5 DEF Goes, Ready, Opened, Configs
  <2>2. CASE w
    <3>1. SOL \in DOMAIN a.ata
      BY <1>5, <2>2, MintsAssumption DEF Opened, Created
    <3>2. W = <<Fund(n), Sync>>
      BY <2>2 DEF W, When
    <3> DEFINE e == Run(a, <<Fund(n), Sync>>)
    <3>3. /\ Goes(a, e, O) /\ e.lamports = a.lamports - n /\ e.unsynced = 0
          /\ DOMAIN e.ata = DOMAIN a.ata
          /\ \A x : Held(e.ata, x) = Held(a.ata, x) + (IF x = SOL THEN n ELSE 0)
      BY <2>1, <2>2, <3>1, WrapRun
    <3>4. b = e
      BY <3>2
    <3> HIDE DEF b, e
    <3> QED BY <2>2, <3>3, <3>4
  <2>3. CASE ~ w
    <3>1. W = <<>>
      BY <2>3 DEF W, When
    <3>2. b = a
      BY <3>1, RunNothing
    <3> HIDE DEF b
    <3>3. Goes(a, b, O)
      BY <2>1, <3>2 DEF Goes, Ready
    <3>4. \A x : Held(a.ata, x) \in Nat
      BY <2>1, HeldNat
    <3>5. b.lamports = a.lamports - 0 /\ \A x : Held(b.ata, x) = Held(a.ata, x) + 0
      BY <2>1, <3>2, <3>4
    <3> QED BY <2>1, <2>3, <3>2, <3>3, <3>5
  <2> QED BY <2>2, <2>3
<1> HIDE DEF b
<1>7. Goes(b, d, O) /\ Opened(b, d, Created(u))
  <2>1. Ready(b, O)
    BY <1>6 DEF Goes, Ready
  <2> QED BY <2>1, CreatesRun
<1> HIDE DEF d
<1>8. Goes(c, d, O)
  BY <1>5, <1>6, <1>7 DEF Goes
<1>9. Prepared(c, d, w, n, Created(C) \cup Created(u))
  <2>1. d.lamports = c.lamports - (IF w THEN n ELSE 0) /\ d.unsynced = 0
    BY <1>5, <1>6, <1>7 DEF Opened
  <2>2. DOMAIN d.ata = DOMAIN c.ata \cup (Created(C) \cup Created(u))
    BY <1>5, <1>6, <1>7 DEF Opened
  <2>3. \A x : Held(d.ata, x) = Held(c.ata, x) + (IF x = SOL /\ w THEN n ELSE 0)
    BY <1>5, <1>6, <1>7 DEF Opened
  <2> QED BY <2>1, <2>2, <2>3 DEF Prepared
<1> QED BY <1>4, <1>8, <1>9 DEF W

\* What a hop that succeeds has moved: at most its input, at least its floor.
Traded(c, d, o) ==
    /\ d.unsynced = 0
    /\ DOMAIN d.ata = DOMAIN c.ata
    /\ d.lamports >= c.lamports - (IF Buys(o) THEN o.amount_in ELSE 0)
    /\ \A x : Held(d.ata, x) >= Held(c.ata, x) - (IF x = o.in /\ ~ Buys(o) THEN o.amount_in ELSE 0)
                                               + (IF x = o.out THEN o.floor ELSE 0)
    /\ \A x : x # o.out /\ (x # o.in \/ Buys(o)) => Held(d.ata, x) = Held(c.ata, x)

\* A hop that can be executed fails only because its pool has moved.
LEMMA HopRun ==
    ASSUME NEW O, NEW c, Ready(c, O), c.unsynced = 0, NEW o, OrderOK(o), NEW h, Shaped(o, h), o.out \in O, Funded(c, o)
    PROVE  \/ Moved(Run(c, h.swap), o)
           \/ Goes(c, Run(c, h.swap), O) /\ Traded(c, Run(c, h.swap), o)
<1>1. PICK v : Trades(o, v) /\ h.swap = <<v>> \o When(Sells(o), <<Fund(o.floor), Sync>>)
  BY DEF Shaped
<1> DEFINE W == When(Sells(o), <<Fund(o.floor), Sync>>)
           b == Apply(c, v)
           d == Run(b, W)
           S == {v, Fund(o.floor), Sync}
<1>2. <<v>> \in Seq(S) /\ W \in Seq(S)
  <2>1. <<v>> \in Seq(S) /\ <<>> \in Seq(S) /\ <<Fund(o.floor), Sync>> \in Seq(S)
    OBVIOUS
  <2> QED BY <2>1 DEF When
<1> HIDE DEF S, W
<1>3. Run(c, h.swap) = d
  <2>1. Run(c, <<v>> \o W) = Run(Run(c, <<v>>), W)
    <3> DEFINE s == <<v>>
    <3>1. s \in Seq(S)
      BY <1>2
    <3> HIDE DEF s
    <3>2. Run(c, s \o W) = Run(Run(c, s), W)
      BY <1>2, <3>1, RunConcat
    <3> QED BY <3>2 DEF s
  <2>2. Run(c, <<v>>) = b
    BY RunOne
  <2> HIDE DEF b
  <2> QED BY <1>1, <2>1, <2>2 DEF W
<1>4. \/ Moved(b, o)
      \/ Goes(c, b, O) /\ \E got \in Nat : got >= o.floor /\ Paid(c, b, o, got)
  BY <1>1, VenueStep
<1> HIDE DEF b
<1>5. CASE Moved(b, o)
  <2>1. b.err # "none"
    BY <1>5 DEF Moved
  <2>2. d = b
    BY <1>2, <2>1, RunFailed
  <2> HIDE DEF d
  <2> QED BY <1>3, <1>5, <2>2
<1>6. CASE Goes(c, b, O) /\ \E got \in Nat : got >= o.floor /\ Paid(c, b, o, got)
  <2>1. PICK got \in Nat : got >= o.floor /\ Paid(c, b, o, got)
    BY <1>6
  <2>2. Ready(b, O) /\ b.unsynced = 0 /\ b.lamports \in Nat /\ b.ata \in Ledgers /\ c.lamports \in Nat /\ c.ata \in Ledgers
    BY <1>6, <2>1 DEF Goes, Ready, Configs, Paid
  <2>3. o.amount_in \in Nat /\ o.floor \in Nat /\ o.in # o.out /\ ~ (Buys(o) /\ Sells(o))
    BY DEF OrderOK, Buys, Sells
  <2>4. /\ b.lamports = c.lamports - (IF Buys(o) THEN o.amount_in ELSE 0) + (IF Sells(o) THEN got ELSE 0)
        /\ DOMAIN b.ata = DOMAIN c.ata
        /\ \A x : Held(b.ata, x) = Held(c.ata, x) - (IF x = o.in /\ ~ Buys(o) THEN o.amount_in ELSE 0)
                                                  + (IF x = o.out /\ ~ Sells(o) THEN got ELSE 0)
    BY <2>1 DEF Paid
  <2>5. \A x : Held(b.ata, x) \in Nat /\ Held(c.ata, x) \in Nat
    BY <2>2, HeldNat
  <2>6. CASE Sells(o)
    <3>1. W = <<Fund(o.floor), Sync>>
      BY <2>6 DEF W, When
    <3>2. o.floor <= b.lamports
      BY <2>1, <2>2, <2>3, <2>4, <2>6
    <3>3. SOL \in DOMAIN b.ata /\ o.out = SOL
      BY <2>4, <2>6 DEF Funded, Sells
    <3> DEFINE e == Run(b, <<Fund(o.floor), Sync>>)
    <3>4. /\ Goes(b, e, O) /\ e.lamports = b.lamports - o.floor /\ e.unsynced = 0
          /\ DOMAIN e.ata = DOMAIN b.ata
          /\ \A x : Held(e.ata, x) = Held(b.ata, x) + (IF x = SOL THEN o.floor ELSE 0)
      BY <2>2, <2>3, <3>2, <3>3, WrapRun
    <3>5. d = e
      BY <3>1
    <3> HIDE DEF d, e
    <3>6. Goes(c, d, O)
      BY <1>6, <3>4, <3>5 DEF Goes
    <3>7. d.lamports >= c.lamports
      BY <2>1, <2>2, <2>3, <2>4, <2>6, <3>4, <3>5
    <3>8. ASSUME NEW x
          PROVE  /\ Held(d.ata, x) >= Held(c.ata, x) - (IF x = o.in /\ ~ Buys(o) THEN o.amount_in ELSE 0)
                                               + (IF x = o.out THEN o.floor ELSE 0)
                 /\ x # o.out /\ (x # o.in \/ Buys(o)) => Held(d.ata, x) = Held(c.ata, x)
      <4>1. Held(d.ata, x) = Held(b.ata, x) + (IF x = o.out THEN o.floor ELSE 0)
        BY <3>3, <3>4, <3>5
      <4>2. Held(b.ata, x) = Held(c.ata, x) - (IF x = o.in THEN o.amount_in ELSE 0) + 0
        BY <2>3, <2>4, <2>6
      <4> QED BY <2>3, <2>5, <2>6, <4>1, <4>2
    <3>9. Traded(c, d, o)
      <4>1. d.lamports >= c.lamports - (IF Buys(o) THEN o.amount_in ELSE 0)
        BY <2>2, <2>3, <2>6, <3>7
      <4>2. d.unsynced = 0 /\ DOMAIN d.ata = DOMAIN c.ata
        BY <2>4, <3>4, <3>5
      <4> QED BY <3>8, <4>1, <4>2 DEF Traded
    <3> QED BY <1>3, <3>6, <3>9
  <2>7. CASE ~ Sells(o)
    <3>1. W = <<>>
      BY <2>7 DEF W, When
    <3>2. d = b
      BY <3>1, RunNothing
    <3> HIDE DEF d
    <3>3. d.lamports >= c.lamports - (IF Buys(o) THEN o.amount_in ELSE 0)
      BY <2>2, <2>3, <2>4, <2>7, <3>2
    <3>4. ASSUME NEW x
          PROVE  /\ Held(d.ata, x) >= Held(c.ata, x) - (IF x = o.in /\ ~ Buys(o) THEN o.amount_in ELSE 0)
                                               + (IF x = o.out THEN o.floor ELSE 0)
                 /\ x # o.out /\ (x # o.in \/ Buys(o)) => Held(d.ata, x) = Held(c.ata, x)
      <4>1. Held(d.ata, x) = Held(c.ata, x) - (IF x = o.in /\ ~ Buys(o) THEN o.amount_in ELSE 0)
                                                  + (IF x = o.out THEN got ELSE 0)
        BY <2>4, <2>7, <3>2
      <4> QED BY <2>1, <2>3, <2>5, <4>1
    <3>5. Traded(c, d, o)
      BY <2>2, <2>4, <3>2, <3>3, <3>4 DEF Traded
    <3> QED BY <1>3, <1>6, <3>2, <3>5
  <2> QED BY <2>6, <2>7
<1> QED BY <1>4, <1>5, <1>6

-----------------------------------------------------------------------------
(* The route                                                                *)

\* The mints of a route differ, and a bonding curve ends it when it is bought from.
LEMMA Path ==
    ASSUME NEW q, QuoteOK(q)
    PROVE  LET n == Len(q.hops) IN
           /\ n \in 1..3 /\ q.hops[1].in = from(q) /\ q.hops[n].out = to(q)
           /\ from(q) \in Mints /\ to(q) \in Mints /\ to(q) # from(q)
           /\ \A k \in 1..n : q.hops[k].out # from(q) /\ q.hops[k].out \in Mints
           /\ \A k \in 1..n : k + 1 \in 1..n => /\ q.hops[k + 1].in = q.hops[k].out
                                                /\ q.hops[k + 1].out # q.hops[k].out
                                                /\ Buys(SwapOrder(q, k + 1)) => Unwraps(q) /\ k + 1 = n
           /\ Unwraps(q) => n > 1 /\ Buys(SwapOrder(q, n)) /\ q.hops[n].in = SOL
<1> DEFINE n == Len(q.hops)
<1>1. n \in 1..3 /\ 1 \in 1..n /\ n \in 1..n /\ q.hops \in Seq(HopSet)
  <2>1. n \in 1..3 /\ q.hops \in Seq(HopSet)
    BY DEF QuoteOK
  <2> HIDE DEF n
  <2> QED BY <2>1
<1>2. \A k \in 1..n : q.hops[k].in \in Mints /\ q.hops[k].out \in Mints
  <2>1. \A k \in 1..n : q.hops[k] \in HopSet
    BY <1>1, ElementOfSeq
  <2> QED BY <2>1 DEF HopSet
<1>3. \A k \in 1..n : /\ q.hops[k].in # q.hops[k].out
                      /\ q.hops[k].venue = "PumpFun" => \/ q.hops[k].in = SOL /\ q.hops[k].out \in Launched
                                                        \/ q.hops[k].out = SOL /\ q.hops[k].in \in Launched
  BY DEF QuoteOK
<1>4. \A i, j \in 1..n : i < j => /\ q.hops[i].out \in Bridges
                                  /\ q.hops[i].in # q.hops[j].out /\ q.hops[i].out # q.hops[j].out
                                  /\ j = i + 1 => q.hops[i].out = q.hops[j].in
  BY DEF QuoteOK
<1>5. from(q) = q.hops[1].in /\ to(q) = q.hops[n].out /\ Last(q.hops) = q.hops[n]
  BY <1>1 DEF from, to, Last
<1>6. \A k \in 1..n : SwapOrder(q, k).venue = q.hops[k].venue /\ SwapOrder(q, k).in = q.hops[k].in
  BY DEF SwapOrder
<1>7. ASSUME NEW k \in 1..n
      PROVE  q.hops[k].out # from(q)
  <2>1. CASE k = 1
    BY <1>1, <1>3, <1>5, <2>1
  <2>2. CASE k # 1
    <3>1. 1 < k
      BY <1>1, <2>2
    <3> QED BY <1>1, <1>4, <1>5, <3>1
  <2> QED BY <2>1, <2>2
<1>8. ASSUME NEW k \in 1..n, k + 1 \in 1..n
      PROVE  /\ q.hops[k + 1].in = q.hops[k].out
             /\ q.hops[k + 1].out # q.hops[k].out
             /\ Buys(SwapOrder(q, k + 1)) => Unwraps(q) /\ k + 1 = n
  <2>1. k < k + 1
    BY <1>1
  <2>2. q.hops[k + 1].in = q.hops[k].out /\ q.hops[k + 1].out # q.hops[k].out
    BY <1>4, <1>8, <2>1
  <2>3. ASSUME Buys(SwapOrder(q, k + 1))
        PROVE  Unwraps(q) /\ k + 1 = n
    <3>1. q.hops[k + 1].venue = "PumpFun" /\ q.hops[k + 1].in = SOL
      BY <1>6, <1>8, <2>3 DEF Buys
    <3>2. q.hops[k + 1].out \in Launched
      BY <1>3, <1>8, <3>1
    <3>3. q.hops[k + 1].out \notin Bridges
      BY <3>2, MintsAssumption
    <3>4. ~ (k + 1 < n)
      BY <1>1, <1>4, <1>8, <3>3
    <3>5. k + 1 = n /\ n > 1
      BY <1>1, <1>8, <3>4
    <3> QED BY <1>5, <3>1, <3>5 DEF Unwraps
  <2> QED BY <2>2, <2>3
<1>9. ASSUME Unwraps(q)
      PROVE  n > 1 /\ Buys(SwapOrder(q, n)) /\ q.hops[n].in = SOL
  BY <1>1, <1>5, <1>6, <1>9 DEF Unwraps, Buys
<1> QED BY <1>1, <1>2, <1>5, <1>7, <1>8, <1>9

\* After the first k hops: the input is spent, the output of hop k is there, and
\* what the route passed through is not less than it was.
Along(c, d, q, k, O) ==
    LET first == SwapOrder(q, 1)
        last == SwapOrder(q, k)
    IN  /\ Goes(c, d, O) /\ d.unsynced = 0 /\ DOMAIN d.ata = DOMAIN c.ata
        /\ d.lamports >= c.lamports - (IF Buys(first) THEN q.amount_in ELSE 0)
        /\ \A x : Held(d.ata, x) >= Held(c.ata, x) - (IF x = from(q) /\ ~ Buys(first) THEN q.amount_in ELSE 0)
                                                   + (IF x = last.out THEN last.floor ELSE 0)
        /\ (\A i \in 1..k : ~ Touches(SwapOrder(q, i))) => Held(d.ata, SOL) = Held(c.ata, SOL)

\* The route can start.
Startable(c, q, O) ==
    /\ Ready(c, O) /\ c.unsynced = 0
    /\ Funded(c, SwapOrder(q, 1))
    /\ \A i \in 1..Len(q.hops) : q.hops[i].out \in DOMAIN c.ata \cap O

\* The first hop is paid from the wallet.
LEMMA FirstHop ==
    ASSUME NEW q, QuoteOK(q), NEW O, NEW c, Startable(c, q, O)
    PROVE  LET d == Run(c, Hop(q, 1).swap) IN Moved(d, SwapOrder(q, 1)) \/ Along(c, d, q, 1, O)
<1> DEFINE o == SwapOrder(q, 1)
           d == Run(c, Hop(q, 1).swap)
<1>1. 1 \in 1..Len(q.hops) /\ from(q) = q.hops[1].in
  BY Path
<1>2. OrderOK(o) /\ o.in = from(q) /\ o.out = q.hops[1].out /\ o.amount_in = q.amount_in
  BY <1>1, Orders
<1>3. Shaped(o, Hop(q, 1))
  BY <1>2, ExecutorShaped DEF Hop
<1>4. Moved(d, o) \/ (Goes(c, d, O) /\ Traded(c, d, o))
  <2>1. Ready(c, O) /\ c.unsynced = 0 /\ Funded(c, o) /\ o.out \in O
    BY <1>1, <1>2 DEF Startable
  <2> QED BY <1>2, <1>3, <2>1, HopRun
<1> HIDE DEF d
<1>5. ASSUME Goes(c, d, O), Traded(c, d, o)
      PROVE  Along(c, d, q, 1, O)
  <2> HIDE DEF o
  <2>1. /\ d.unsynced = 0 /\ DOMAIN d.ata = DOMAIN c.ata
        /\ d.lamports >= c.lamports - (IF Buys(o) THEN q.amount_in ELSE 0)
        /\ \A x : Held(d.ata, x) >= Held(c.ata, x) - (IF x = from(q) /\ ~ Buys(o) THEN q.amount_in ELSE 0)
                                                   + (IF x = o.out THEN o.floor ELSE 0)
    BY <1>2, <1>5 DEF Traded
  <2>2. ASSUME ~ Touches(o)
        PROVE  Held(d.ata, SOL) = Held(c.ata, SOL)
    <3>1. SOL # o.out /\ (SOL # o.in \/ Buys(o))
      BY <1>2, <2>2 DEF Touches, OrderOK, Buys
    <3> QED BY <1>5, <3>1 DEF Traded
  <2>3. (\A i \in 1..1 : ~ Touches(SwapOrder(q, i))) => ~ Touches(o)
    BY DEF o
  <2> QED BY <1>5, <2>1, <2>2, <2>3 DEF Along, o
<1> QED BY <1>4, <1>5 DEF d, o

\* A later hop is paid from what the hop before delivered.
LEMMA NextHop ==
    ASSUME NEW q, QuoteOK(q), NEW O, NEW c, Startable(c, q, O),
           NEW k \in 1..Len(q.hops), k + 1 \in 1..Len(q.hops), ~ Buys(SwapOrder(q, k + 1)),
           NEW b, Along(c, b, q, k, O)
    PROVE  LET d == Run(b, Hop(q, k + 1).swap) IN Moved(d, SwapOrder(q, k + 1)) \/ Along(c, d, q, k + 1, O)
<1> DEFINE f == SwapOrder(q, 1)
           p == SwapOrder(q, k)
           o == SwapOrder(q, k + 1)
           d == Run(b, Hop(q, k + 1).swap)
<1>1. /\ q.hops[k + 1].in = q.hops[k].out /\ q.hops[k + 1].out # q.hops[k].out
      /\ q.hops[k].out # from(q) /\ q.hops[k + 1].out # from(q) /\ k \in Nat
  BY Path
<1>2. /\ OrderOK(o) /\ o.in = q.hops[k + 1].in /\ o.out = q.hops[k + 1].out /\ p.out = q.hops[k].out
      /\ o.amount_in <= p.floor /\ OrderOK(p)
  <2>1. k + 1 > 1 /\ k + 1 - 1 = k
    BY <1>1
  <2>2. OrderOK(p) /\ p.out = q.hops[k].out
    BY Orders
  <2>3. \A j \in 1..Len(q.hops) : /\ OrderOK(SwapOrder(q, j)) /\ SwapOrder(q, j).in = q.hops[j].in
                                  /\ SwapOrder(q, j).out = q.hops[j].out
                                  /\ j > 1 => SwapOrder(q, j).amount_in <= SwapOrder(q, j - 1).floor
    BY Orders
  <2>4. /\ OrderOK(o) /\ o.in = q.hops[k + 1].in /\ o.out = q.hops[k + 1].out
        /\ o.amount_in <= SwapOrder(q, k + 1 - 1).floor
    BY <2>1, <2>3
  <2> QED BY <2>1, <2>2, <2>4
<1>3. Shaped(o, Hop(q, k + 1))
  BY <1>2, ExecutorShaped DEF Hop
<1> HIDE DEF f, p, o
<1>4. /\ Goes(c, b, O) /\ b.unsynced = 0 /\ DOMAIN b.ata = DOMAIN c.ata
      /\ b.lamports >= c.lamports - (IF Buys(f) THEN q.amount_in ELSE 0)
      /\ \A x : Held(b.ata, x) >= Held(c.ata, x) - (IF x = from(q) /\ ~ Buys(f) THEN q.amount_in ELSE 0)
                                                 + (IF x = p.out THEN p.floor ELSE 0)
      /\ (\A i \in 1..k : ~ Touches(SwapOrder(q, i))) => Held(b.ata, SOL) = Held(c.ata, SOL)
  BY DEF Along, f, p
<1>5. /\ b.ata \in Ledgers /\ c.ata \in Ledgers /\ b.lamports \in Nat /\ c.lamports \in Nat
      /\ \A x : Held(b.ata, x) \in Nat /\ Held(c.ata, x) \in Nat
  <2>1. b.ata \in Ledgers /\ c.ata \in Ledgers /\ b.lamports \in Nat /\ c.lamports \in Nat
    BY <1>4 DEF Goes, Startable, Ready, Configs
  <2> QED BY <2>1, HeldNat
<1>6. o.amount_in \in Nat /\ p.floor \in Nat /\ o.floor \in Nat /\ q.amount_in \in Nat
  BY <1>2 DEF OrderOK, QuoteOK
<1>7. Funded(b, o)
  <2>1. q.hops[k].out \in DOMAIN c.ata /\ q.hops[k + 1].out \in DOMAIN c.ata
    BY DEF Startable
  <2>2. o.in \in DOMAIN b.ata /\ o.out \in DOMAIN b.ata
    BY <1>1, <1>2, <1>4, <2>1
  <2>3. Held(b.ata, o.in) >= p.floor
    <3>1. o.in = p.out /\ o.in # from(q)
      BY <1>1, <1>2
    <3>2. Held(b.ata, o.in) >= Held(c.ata, o.in) - 0 + p.floor
      BY <1>4, <3>1
    <3> QED BY <1>5, <1>6, <3>2
  <2>4. b.ata[o.in] = Held(b.ata, o.in)
    BY <2>2 DEF Held
  <2>5. o.amount_in <= b.ata[o.in]
    <3>1. Held(b.ata, o.in) \in Nat
      BY <1>5
    <3> QED BY <1>2, <1>6, <2>3, <2>4, <3>1
  <2>6. ~ Buys(o)
    BY DEF o
  <2> QED BY <2>2, <2>5, <2>6 DEF Funded
<1>8. Moved(d, o) \/ (Goes(b, d, O) /\ Traded(b, d, o))
  <2>1. o.out \in O
    BY <1>2 DEF Startable
  <2>2. Ready(b, O) /\ b.unsynced = 0
    BY <1>4 DEF Goes, Ready
  <2> QED BY <1>2, <1>3, <1>7, <2>1, <2>2, HopRun
<1> HIDE DEF d
<1>9. ASSUME Goes(b, d, O), Traded(b, d, o)
      PROVE  Along(c, d, q, k + 1, O)
  <2>1. ~ Buys(o)
    BY DEF o
  <2>2. /\ d.unsynced = 0 /\ DOMAIN d.ata = DOMAIN b.ata /\ d.lamports >= b.lamports - 0
        /\ \A x : Held(d.ata, x) >= Held(b.ata, x) - (IF x = o.in THEN o.amount_in ELSE 0) + (IF x = o.out THEN o.floor ELSE 0)
        /\ \A x : x # o.out /\ x # o.in => Held(d.ata, x) = Held(b.ata, x)
    BY <1>9, <2>1 DEF Traded
  <2>3. d.lamports \in Nat /\ \A x : Held(d.ata, x) \in Nat
    <3>1. d.lamports \in Nat /\ d.ata \in Ledgers
      BY <1>9 DEF Goes, Configs
    <3> QED BY <3>1, HeldNat
  <2>4. Goes(c, d, O)
    BY <1>4, <1>9 DEF Goes
  <2>5. d.lamports >= c.lamports - (IF Buys(f) THEN q.amount_in ELSE 0)
    BY <1>4, <1>5, <1>6, <2>2, <2>3
  <2>6. ASSUME NEW x
        PROVE  Held(d.ata, x) >= Held(c.ata, x) - (IF x = from(q) /\ ~ Buys(f) THEN q.amount_in ELSE 0)
                                                + (IF x = o.out THEN o.floor ELSE 0)
    <3> DEFINE spent == IF x = from(q) /\ ~ Buys(f) THEN q.amount_in ELSE 0
               hc == Held(c.ata, x)
               hb == Held(b.ata, x)
               hd == Held(d.ata, x)
    <3>1. spent \in Nat /\ hc \in Nat /\ hb \in Nat /\ hd \in Nat
      BY <1>5, <1>6, <2>3
    <3>2. hb >= hc - spent + (IF x = p.out THEN p.floor ELSE 0)
      BY <1>4
    <3>3. hd >= hb - (IF x = o.in THEN o.amount_in ELSE 0) + (IF x = o.out THEN o.floor ELSE 0)
      BY <2>2
    <3>4. o.in = p.out
      BY <1>1, <1>2
    <3> HIDE DEF spent, hc, hb, hd
    <3>5. hd >= hc - spent + (IF x = o.out THEN o.floor ELSE 0)
      <4>1. o.in # o.out
        BY <1>2 DEF OrderOK
      <4>2. CASE x = o.in
        BY <1>2, <1>6, <3>1, <3>2, <3>3, <3>4, <4>1, <4>2
      <4>3. CASE x # o.in
        BY <1>6, <3>1, <3>2, <3>3, <3>4, <4>3
      <4> QED BY <4>2, <4>3
    <3> QED BY <3>5 DEF spent, hc, hd
  <2>7. ASSUME \A i \in 1..(k + 1) : ~ Touches(SwapOrder(q, i))
        PROVE  Held(d.ata, SOL) = Held(c.ata, SOL)
    <3>1. \A i \in 1..k : i \in 1..(k + 1)
      BY <1>1
    <3>2. Held(b.ata, SOL) = Held(c.ata, SOL)
      BY <1>4, <2>7, <3>1
    <3>3. k + 1 \in 1..(k + 1)
      BY <1>1
    <3>4. ~ Touches(o)
      BY <2>7, <3>3 DEF o
    <3>5. SOL # o.out /\ SOL # o.in
      BY <2>1, <3>4 DEF Touches
    <3> QED BY <2>2, <3>2, <3>5
  <2> QED BY <1>4, <2>2, <2>4, <2>5, <2>6, <2>7 DEF Along, f, o
<1> QED BY <1>8, <1>9 DEF d, o

\* All an owner has of a mint, lamports being SOL.
Worth(c, m) == Held(c.ata, m) + (IF m = SOL THEN c.lamports + c.unsynced ELSE 0)

\* What a route that succeeds has done.
Delivered(c, d, q, O) ==
    /\ Goes(c, d, O) /\ d.unsynced = 0
    /\ DOMAIN d.ata = IF Unwraps(q) THEN DOMAIN c.ata \ {SOL} ELSE DOMAIN c.ata
    /\ \A m \in Mints : Worth(d, m) >= Worth(c, m) - (IF m = from(q) THEN q.amount_in ELSE 0)
    /\ to(q) = SOL => d.lamports >= c.lamports
    /\ ~ Unwraps(q) /\ ~ Touched(q) => Held(d.ata, SOL) = Held(c.ata, SOL)

MovedRoute(d, q) == d.err = "slippage" \/ (d.err = "zero" /\ Len(q.hops) = 1)

\* A hop that is refused fails the route.
LEMMA MovedHop ==
    ASSUME NEW q, QuoteOK(q), NEW k \in 1..Len(q.hops), NEW d, Moved(d, SwapOrder(q, k))
    PROVE  MovedRoute(d, q) /\ d.err # "none"
<1>1. Len(q.hops) \in 1..3
  BY DEF QuoteOK
<1>2. Len(q.hops) > 1 => SwapOrder(q, k).floor # 0
  BY Orders
<1>3. SwapOrder(q, k).floor = 0 => Len(q.hops) = 1
  <2> DEFINE n == Len(q.hops)
  <2>1. n \in 1..3 /\ (n > 1 => SwapOrder(q, k).floor # 0)
    BY <1>1, <1>2
  <2> HIDE DEF n
  <2>2. SwapOrder(q, k).floor = 0 => n = 1
    BY <2>1
  <2> QED BY <2>2 DEF n
<1> QED BY <1>3 DEF Moved, MovedRoute

\* A route that unwraps nothing has delivered when its last hop has.
LEMMA DeliveredStraight ==
    ASSUME NEW q, QuoteOK(q), ~ Unwraps(q), NEW O, NEW c, Startable(c, q, O), NEW d, Along(c, d, q, Len(q.hops), O)
    PROVE  Delivered(c, d, q, O)
<1> DEFINE n == Len(q.hops)
           f == SwapOrder(q, 1)
           p == SwapOrder(q, n)
<1>1. /\ n \in 1..3 /\ from(q) \in Mints /\ to(q) # from(q) /\ q.hops[1].in = from(q)
  BY Path
<1>2. 1 \in 1..n /\ n \in 1..n
  <2> HIDE DEF n
  <2> QED BY <1>1
<1>3. OrderOK(p) /\ f.in = from(q)
  BY <1>1, <1>2, Orders
<1> HIDE DEF f, p
<1>4. /\ Goes(c, d, O) /\ d.unsynced = 0 /\ DOMAIN d.ata = DOMAIN c.ata
      /\ d.lamports >= c.lamports - (IF Buys(f) THEN q.amount_in ELSE 0)
      /\ \A x : Held(d.ata, x) >= Held(c.ata, x) - (IF x = from(q) /\ ~ Buys(f) THEN q.amount_in ELSE 0)
                                                 + (IF x = p.out THEN p.floor ELSE 0)
      /\ (\A i \in 1..n : ~ Touches(SwapOrder(q, i))) => Held(d.ata, SOL) = Held(c.ata, SOL)
  BY DEF Along, f, p
<1>5. /\ d.lamports \in Nat /\ c.lamports \in Nat /\ c.unsynced = 0
      /\ \A x : Held(d.ata, x) \in Nat /\ Held(c.ata, x) \in Nat
  <2>1. d.ata \in Ledgers /\ c.ata \in Ledgers /\ d.lamports \in Nat /\ c.lamports \in Nat /\ c.unsynced = 0
    BY <1>4 DEF Goes, Startable, Ready, Configs
  <2> QED BY <2>1, HeldNat
<1>6. p.floor \in Nat /\ q.amount_in \in Nat
  BY <1>3 DEF OrderOK, QuoteOK
<1>7. Buys(f) => from(q) = SOL
  BY <1>3 DEF Buys
<1>8. ASSUME NEW m \in Mints
      PROVE  Worth(d, m) >= Worth(c, m) - (IF m = from(q) THEN q.amount_in ELSE 0)
  <2> DEFINE hc == Held(c.ata, m)
             hd == Held(d.ata, m)
  <2>1. hc \in Nat /\ hd \in Nat
        /\ hd >= hc - (IF m = from(q) /\ ~ Buys(f) THEN q.amount_in ELSE 0) + (IF m = p.out THEN p.floor ELSE 0)
    BY <1>4, <1>5
  <2>2. Worth(c, m) = hc + (IF m = SOL THEN c.lamports ELSE 0) /\ Worth(d, m) = hd + (IF m = SOL THEN d.lamports ELSE 0)
    <3>1. c.lamports + c.unsynced = c.lamports /\ d.lamports + d.unsynced = d.lamports
      BY <1>4, <1>5
    <3> QED BY <3>1 DEF Worth
  <2> HIDE DEF hc, hd
  <2>3. CASE m = SOL
    <3>1. Worth(c, m) = hc + c.lamports /\ Worth(d, m) = hd + d.lamports
      BY <2>2, <2>3
    <3>2. CASE Buys(f)
      <4>1. d.lamports >= c.lamports - q.amount_in /\ m = from(q)
        BY <1>4, <1>7, <2>3, <3>2
      <4>2. hd >= hc
        BY <1>6, <2>1, <3>2
      <4> QED BY <1>5, <1>6, <2>1, <3>1, <4>1, <4>2
    <3>3. CASE ~ Buys(f)
      <4>1. d.lamports >= c.lamports
        BY <1>4, <1>5, <3>3
      <4>2. hd >= hc - (IF m = from(q) THEN q.amount_in ELSE 0)
        BY <1>6, <2>1, <3>3
      <4> QED BY <1>5, <1>6, <2>1, <3>1, <4>1, <4>2
    <3> QED BY <3>2, <3>3
  <2>4. CASE m # SOL
    <3>1. Worth(c, m) = hc /\ Worth(d, m) = hd
      BY <2>1, <2>2, <2>4
    <3>2. m = from(q) => ~ Buys(f)
      BY <1>7, <2>4
    <3> QED BY <1>6, <2>1, <3>1, <3>2
  <2> QED BY <2>3, <2>4
<1>9. to(q) = SOL => d.lamports >= c.lamports
  BY <1>1, <1>4, <1>5, <1>7
<1>10. ~ Touched(q) => Held(d.ata, SOL) = Held(c.ata, SOL)
  BY <1>4 DEF Touched
<1> QED BY <1>4, <1>8, <1>9, <1>10 DEF Delivered

\* The last hop buys from a bonding curve with SOL that is unwrapped first.
LEMMA DeliveredUnwrapped ==
    ASSUME NEW q, QuoteOK(q), Unwraps(q), NEW O, NEW c, Startable(c, q, O),
           NEW k \in 1..Len(q.hops), k + 1 = Len(q.hops), NEW b, Along(c, b, q, k, O)
    PROVE  LET d == Run(Apply(b, Close), Hop(q, k + 1).swap) IN Moved(d, SwapOrder(q, k + 1)) \/ Delivered(c, d, q, O)
<1> DEFINE n == Len(q.hops)
           f == SwapOrder(q, 1)
           p == SwapOrder(q, k)
           o == SwapOrder(q, k + 1)
           e == Apply(b, Close)
           d == Run(e, Hop(q, k + 1).swap)
<1>1. /\ n \in 1..3 /\ from(q) \in Mints /\ to(q) # from(q) /\ k \in Nat /\ q.hops[1].in = from(q)
      /\ k + 1 \in 1..n /\ q.hops[k + 1].in = q.hops[k].out /\ q.hops[k].out # from(q)
      /\ q.hops[n].in = SOL /\ Buys(SwapOrder(q, n)) /\ q.hops[n].out = to(q)
  <2>1. n \in 1..3 /\ k + 1 = n /\ k \in Nat
    BY Path
  <2>2. k + 1 \in 1..n
    <3> HIDE DEF n
    <3> QED BY <2>1
  <2> QED BY <2>1, <2>2, Path
<1>2. /\ OrderOK(o) /\ o.in = q.hops[k + 1].in /\ o.out = q.hops[k + 1].out /\ p.out = q.hops[k].out
      /\ o.amount_in <= p.floor /\ OrderOK(p) /\ f.in = from(q)
  <2>1. k + 1 > 1 /\ k + 1 - 1 = k
    BY <1>1
  <2>2. 1 \in 1..n
    <3> HIDE DEF n
    <3> QED BY <1>1
  <2>3. \A j \in 1..n : /\ OrderOK(SwapOrder(q, j)) /\ SwapOrder(q, j).in = q.hops[j].in
                        /\ SwapOrder(q, j).out = q.hops[j].out
                        /\ j > 1 => SwapOrder(q, j).amount_in <= SwapOrder(q, j - 1).floor
    BY Orders
  <2>4. /\ OrderOK(o) /\ o.in = q.hops[k + 1].in /\ o.out = q.hops[k + 1].out
        /\ o.amount_in <= SwapOrder(q, k + 1 - 1).floor
    BY <1>1, <2>1, <2>3
  <2> QED BY <1>1, <2>1, <2>2, <2>3, <2>4
<1>3. Shaped(o, Hop(q, k + 1))
  BY <1>2, ExecutorShaped DEF Hop
<1>4. Buys(o) /\ o.in = SOL /\ o.out = to(q) /\ p.out = SOL /\ from(q) # SOL
  BY <1>1, <1>2
<1> HIDE DEF f, p, o
<1>5. ~ Buys(f)
  BY <1>2, <1>4 DEF Buys
<1>6. /\ Goes(c, b, O) /\ b.unsynced = 0 /\ DOMAIN b.ata = DOMAIN c.ata
      /\ b.lamports >= c.lamports - 0
      /\ \A x : Held(b.ata, x) >= Held(c.ata, x) - (IF x = from(q) THEN q.amount_in ELSE 0)
                                                 + (IF x = SOL THEN p.floor ELSE 0)
  BY <1>4, <1>5 DEF Along, f, p
<1>7. /\ b.ata \in Ledgers /\ c.ata \in Ledgers /\ b.lamports \in Nat /\ c.lamports \in Nat /\ c.unsynced = 0
      /\ \A x : Held(b.ata, x) \in Nat /\ Held(c.ata, x) \in Nat
  <2>1. b.ata \in Ledgers /\ c.ata \in Ledgers /\ b.lamports \in Nat /\ c.lamports \in Nat /\ c.unsynced = 0
    BY <1>6 DEF Goes, Startable, Ready, Configs
  <2> QED BY <2>1, HeldNat
<1>8. o.amount_in \in Nat /\ p.floor \in Nat /\ o.floor \in Nat /\ q.amount_in \in Nat
  BY <1>2 DEF OrderOK, QuoteOK
<1>9. q.hops[k].out \in DOMAIN c.ata /\ to(q) \in DOMAIN c.ata /\ to(q) \in O /\ q.hops[k].out = SOL /\ to(q) # SOL
  <2>1. o.in # o.out
    BY <1>2 DEF OrderOK
  <2> QED BY <1>1, <1>2, <1>4, <2>1 DEF Startable
<1>10. /\ Goes(b, e, O) /\ e.lamports = b.lamports + Held(b.ata, SOL) /\ e.unsynced = 0
       /\ DOMAIN e.ata = DOMAIN b.ata \ {SOL}
       /\ \A x : Held(e.ata, x) = IF x = SOL THEN 0 ELSE Held(b.ata, x)
  <2>1. Ready(b, O) /\ SOL \in DOMAIN b.ata
    BY <1>6, <1>9 DEF Goes, Ready
  <2>2. /\ Goes(b, e, O) /\ e.lamports = b.lamports + Held(b.ata, SOL) + b.unsynced /\ e.unsynced = 0
        /\ DOMAIN e.ata = DOMAIN b.ata \ {SOL}
        /\ \A x : Held(e.ata, x) = IF x = SOL THEN 0 ELSE Held(b.ata, x)
    BY <2>1, CloseStep
  <2> HIDE DEF e
  <2>3. e.lamports = b.lamports + Held(b.ata, SOL)
    BY <1>6, <1>7, <2>2
  <2> QED BY <2>2, <2>3
<1> HIDE DEF e
<1>11. Held(b.ata, SOL) >= p.floor + Held(c.ata, SOL)
  <2>1. Held(b.ata, SOL) >= Held(c.ata, SOL) - 0 + p.floor
    BY <1>4, <1>6
  <2> QED BY <1>7, <1>8, <2>1
<1>12. Funded(e, o)
  <2>1. o.out \in DOMAIN e.ata
    BY <1>4, <1>6, <1>9, <1>10
  <2>2. o.amount_in <= e.lamports
    <3> DEFINE hb == Held(b.ata, SOL)
               hc == Held(c.ata, SOL)
    <3>1. hb \in Nat /\ hc \in Nat /\ hb >= p.floor + hc /\ e.lamports = b.lamports + hb
      BY <1>7, <1>10, <1>11
    <3> HIDE DEF hb, hc
    <3> QED BY <1>2, <1>7, <1>8, <3>1
  <2> QED BY <1>4, <2>1, <2>2 DEF Funded
<1>13. Moved(d, o) \/ (Goes(e, d, O) /\ Traded(e, d, o))
  <2>1. o.out \in O
    BY <1>4, <1>9
  <2>2. Ready(e, O) /\ e.unsynced = 0
    BY <1>10 DEF Goes, Ready
  <2> QED BY <1>2, <1>3, <1>12, <2>1, <2>2, HopRun
<1> HIDE DEF d
<1>14. ASSUME Goes(e, d, O), Traded(e, d, o)
       PROVE  Delivered(c, d, q, O)
  <2>1. /\ d.unsynced = 0 /\ DOMAIN d.ata = DOMAIN e.ata
        /\ d.lamports >= e.lamports - o.amount_in
        /\ \A x : Held(d.ata, x) >= Held(e.ata, x) - 0 + (IF x = o.out THEN o.floor ELSE 0)
    BY <1>4, <1>14 DEF Traded
  <2>2. d.lamports \in Nat /\ e.lamports \in Nat /\ \A x : Held(d.ata, x) \in Nat /\ Held(e.ata, x) \in Nat
    <3>1. d.lamports \in Nat /\ d.ata \in Ledgers /\ e.lamports \in Nat /\ e.ata \in Ledgers
      BY <1>10, <1>14 DEF Goes, Configs
    <3> QED BY <3>1, HeldNat
  <2>3. Goes(c, d, O)
    BY <1>6, <1>10, <1>14 DEF Goes
  <2>4. ASSUME NEW m \in Mints
        PROVE  Worth(d, m) >= Worth(c, m) - (IF m = from(q) THEN q.amount_in ELSE 0)
    <3> DEFINE hc == Held(c.ata, m)
               hb == Held(b.ata, m)
               he == Held(e.ata, m)
               hd == Held(d.ata, m)
    <3>1. hc \in Nat /\ hb \in Nat /\ he \in Nat /\ hd \in Nat
      BY <1>7, <2>2
    <3>2. hd >= he - 0 + (IF m = o.out THEN o.floor ELSE 0) /\ he = IF m = SOL THEN 0 ELSE hb
      BY <1>10, <2>1
    <3>3. hb >= hc - (IF m = from(q) THEN q.amount_in ELSE 0) + (IF m = SOL THEN p.floor ELSE 0)
      BY <1>6
    <3>4. c.lamports + c.unsynced = c.lamports /\ d.lamports + d.unsynced = d.lamports
      BY <1>7, <2>1, <2>2
    <3>5. Worth(c, m) = hc + (IF m = SOL THEN c.lamports ELSE 0) /\ Worth(d, m) = hd + (IF m = SOL THEN d.lamports ELSE 0)
      BY <3>4 DEF Worth
    <3>6. m = SOL => e.lamports = b.lamports + hb
      BY <1>10
    <3> HIDE DEF hc, hb, he, hd
    <3>7. CASE m = SOL
      <4>1. Worth(c, m) = hc + c.lamports /\ Worth(d, m) = hd + d.lamports
        BY <3>5, <3>7
      <4>2. hb >= hc + p.floor
        BY <1>4, <1>8, <3>1, <3>3, <3>7
      <4>3. d.lamports >= hc + c.lamports
        <5> DEFINE dl == d.lamports
                   el == e.lamports
                   bl == b.lamports
                   cl == c.lamports
                   a == o.amount_in
                   fl == p.floor
        <5>1. dl \in Nat /\ el \in Nat /\ bl \in Nat /\ cl \in Nat /\ a \in Nat /\ fl \in Nat
          BY <1>7, <1>8, <2>2
        <5>2. dl >= el - a /\ el = bl + hb /\ bl >= cl - 0 /\ hb >= hc + fl /\ a <= fl
          BY <1>2, <1>6, <2>1, <3>6, <3>7, <4>2
        <5> HIDE DEF dl, el, bl, cl, a, fl
        <5>3. dl >= hc + cl
          BY <3>1, <5>1, <5>2
        <5> QED BY <5>3 DEF dl, cl
      <4> QED BY <1>4, <1>7, <1>8, <2>2, <3>1, <3>7, <4>1, <4>3
    <3>8. CASE m # SOL
      <4>1. Worth(c, m) = hc /\ Worth(d, m) = hd
        BY <3>1, <3>5, <3>8
      <4>2. hd >= hb
        BY <1>8, <3>1, <3>2, <3>8
      <4>3. hb >= hc - (IF m = from(q) THEN q.amount_in ELSE 0)
        BY <1>8, <3>1, <3>3, <3>8
      <4> QED BY <1>8, <3>1, <4>1, <4>2, <4>3
    <3> QED BY <3>7, <3>8
  <2>5. DOMAIN d.ata = DOMAIN c.ata \ {SOL}
    BY <1>6, <1>10, <2>1
  <2> QED BY <1>9, <2>1, <2>3, <2>4, <2>5 DEF Delivered
<1> QED BY <1>13, <1>14 DEF d, e, o

\* The swap of a hop is a sequence of instructions.
LEMMA HopSwap ==
    ASSUME NEW q, QuoteOK(q), NEW i \in 1..Len(q.hops)
    PROVE  \E S : Hop(q, i).swap \in Seq(S)
<1> DEFINE o == SwapOrder(q, i)
           h == Hop(q, i)
<1>1. Shaped(o, h)
  BY Orders, ExecutorShaped DEF Hop
<1> HIDE DEF o, h
<1>2. PICK v : Trades(o, v) /\ h.swap = <<v>> \o When(Sells(o), <<Fund(o.floor), Sync>>)
  BY <1>1 DEF Shaped
<1> DEFINE S == {v, Fund(o.floor), Sync}
           W == When(Sells(o), <<Fund(o.floor), Sync>>)
<1>3. <<v>> \in Seq(S) /\ W \in Seq(S)
  <2>1. <<v>> \in Seq(S) /\ <<>> \in Seq(S) /\ <<Fund(o.floor), Sync>> \in Seq(S)
    OBVIOUS
  <2> QED BY <2>1 DEF When
<1> HIDE DEF S, W
<1>4. <<v>> \o W \in Seq(S)
  BY <1>3, ConcatProperties
<1>5. h.swap \in Seq(S)
  BY <1>2, <1>4 DEF W
<1> QED BY <1>5 DEF h

\* So are those of all hops of a quote.
LEMMA HopSwaps ==
    ASSUME NEW q, QuoteOK(q)
    PROVE  \E S : Close \in S /\ \A i \in 1..Len(q.hops) : Hop(q, i).swap \in Seq(S)
<1> DEFINE S == {Close} \cup UNION {Range(Hop(q, i).swap) : i \in 1..Len(q.hops)}
<1>1. ASSUME NEW i \in 1..Len(q.hops)
      PROVE  Hop(q, i).swap \in Seq(S)
  <2> DEFINE s == Hop(q, i).swap
  <2>1. Range(s) \subseteq S
    OBVIOUS
  <2>2. PICK T : s \in Seq(T)
    BY HopSwap
  <2> HIDE DEF s, S
  <2>3. s \in Seq(Range(s))
    BY <2>2, SeqOfRange
  <2>4. s \in Seq(S)
    BY <2>1, <2>3, SeqMonotonic
  <2> QED BY <2>4 DEF s
<1> QED BY <1>1

\* Once the route has come to its last hop.
LEMMA LastHop ==
    ASSUME NEW q, QuoteOK(q), NEW O, NEW c, Startable(c, q, O),
           NEW k \in 1..Len(q.hops), k + 1 = Len(q.hops), NEW b, Along(c, b, q, k, O)
    PROVE  LET d == Run(b, unwrap_for_native_sol_hop(q, Hop(q, k + 1).swap)) IN
           (MovedRoute(d, q) /\ d.err # "none") \/ Delivered(c, d, q, O)
<1> DEFINE s == Hop(q, k + 1).swap
           d == Run(b, unwrap_for_native_sol_hop(q, s))
<1>1. k + 1 \in 1..Len(q.hops)
  <2> DEFINE n == Len(q.hops)
  <2>1. n \in 1..3 /\ k \in 1..n /\ k + 1 = n
    BY DEF QuoteOK
  <2> HIDE DEF n
  <2>2. k + 1 \in 1..n
    BY <2>1
  <2> QED BY <2>2 DEF n
<1>2. CASE Unwraps(q)
  <2> DEFINE e == Run(Apply(b, Close), s)
  <2>1. PICK S : s \in Seq(S) /\ Close \in S
    BY <1>1, HopSwaps
  <2>2. d = e
    <3>1. unwrap_for_native_sol_hop(q, s) = <<Close>> \o s
      BY <1>2 DEF unwrap_for_native_sol_hop
    <3> DEFINE t == <<Close>>
    <3>2. t \in Seq(S)
      BY <2>1
    <3> HIDE DEF s, t
    <3>3. Run(b, t \o s) = Run(Run(b, t), s)
      BY <2>1, <3>2, RunConcat
    <3>4. Run(b, t) = Apply(b, Close)
      BY RunOne DEF t
    <3> QED BY <3>1, <3>3, <3>4 DEF t
  <2>3. Moved(e, SwapOrder(q, k + 1)) \/ Delivered(c, e, q, O)
    BY <1>2, DeliveredUnwrapped
  <2> HIDE DEF d, e
  <2>4. Moved(d, SwapOrder(q, k + 1)) => MovedRoute(d, q) /\ d.err # "none"
    BY <1>1, MovedHop
  <2> QED BY <2>2, <2>3, <2>4 DEF d
<1>3. CASE ~ Unwraps(q)
  <2>1. d = Run(b, s)
    BY <1>3 DEF unwrap_for_native_sol_hop
  <2>2. ~ Buys(SwapOrder(q, k + 1))
    BY <1>1, <1>3, Path
  <2>3. Moved(d, SwapOrder(q, k + 1)) \/ Along(c, d, q, k + 1, O)
    <3> DEFINE e == Run(b, s)
    <3>1. Moved(e, SwapOrder(q, k + 1)) \/ Along(c, e, q, k + 1, O)
      BY <1>1, <2>2, NextHop
    <3> HIDE DEF d, e
    <3> QED BY <2>1, <3>1 DEF e
  <2> HIDE DEF d
  <2>4. Moved(d, SwapOrder(q, k + 1)) => MovedRoute(d, q) /\ d.err # "none"
    BY <1>1, MovedHop
  <2>5. Along(c, d, q, k + 1, O) => Delivered(c, d, q, O)
    BY <1>3, DeliveredStraight
  <2> QED BY <2>3, <2>4, <2>5 DEF d
<1> QED BY <1>2, <1>3

\* A route that can start fails only because a pool has moved.
LEMMA RouteRun ==
    ASSUME NEW q, QuoteOK(q), NEW O, NEW c, Startable(c, q, O), NEW b, NEW C, NEW u, BuiltFrom(q, b, C, u)
    PROVE  LET d == Run(c, b.swap) IN (MovedRoute(d, q) /\ d.err # "none") \/ Delivered(c, d, q, O)
<1> DEFINE n == Len(q.hops)
           d == Run(c, b.swap)
           s1 == Hop(q, 1).swap
           d1 == Run(c, s1)
<1>1. n \in 1..3
  BY DEF QuoteOK
<1>2. 1 \in 1..n
  <2> HIDE DEF n
  <2> QED BY <1>1
<1>3. Moved(d1, SwapOrder(q, 1)) \/ Along(c, d1, q, 1, O)
  BY FirstHop
<1>4. Moved(d1, SwapOrder(q, 1)) => MovedRoute(d1, q) /\ d1.err # "none"
  <2> HIDE DEF d1
  <2> QED BY <1>2, MovedHop
<1>5. PICK S : Close \in S /\ \A i \in 1..n : Hop(q, i).swap \in Seq(S)
  BY HopSwaps
<1>6. \A t \in Seq(S) : unwrap_for_native_sol_hop(q, t) \in Seq(S)
  <2> TAKE t \in Seq(S)
  <2> DEFINE w == <<Close>>
  <2>1. w \in Seq(S)
    BY <1>5
  <2> HIDE DEF w
  <2>2. w \o t \in Seq(S)
    BY <2>1, ConcatProperties
  <2> QED BY <2>2 DEF unwrap_for_native_sol_hop, w
<1>7. CASE n = 1
  <2>1. b.swap = s1
    BY <1>7 DEF BuiltFrom
  <2>2. d = d1
    BY <2>1
  <2>3. ~ Unwraps(q)
    BY <1>7 DEF Unwraps
  <2> HIDE DEF d, d1
  <2>4. Along(c, d1, q, 1, O) => Delivered(c, d1, q, O)
    BY <1>7, <2>3, DeliveredStraight
  <2> QED BY <1>3, <1>4, <2>2, <2>4 DEF d
<1>8. CASE n = 2
  <2> DEFINE s2 == unwrap_for_native_sol_hop(q, Hop(q, 2).swap)
  <2>1. 2 \in 1..n /\ 1 + 1 = 2
    BY <1>8
  <2>2. s1 \in Seq(S) /\ s2 \in Seq(S)
    BY <1>2, <1>5, <1>6, <2>1
  <2>3. b.swap = s1 \o s2
    BY <1>8 DEF BuiltFrom
  <2>4. d = Run(d1, s2)
    <3> HIDE DEF s1, s2
    <3>1. Run(c, s1 \o s2) = Run(Run(c, s1), s2)
      BY <2>2, RunConcat
    <3> QED BY <2>3, <3>1
  <2>5. CASE Moved(d1, SwapOrder(q, 1))
    <3> HIDE DEF d, d1, s2
    <3>1. d = d1
      BY <1>4, <2>2, <2>4, <2>5, RunFailed
    <3> QED BY <1>4, <2>5, <3>1 DEF d
  <2>6. CASE Along(c, d1, q, 1, O)
    <3> DEFINE k == 1
    <3>1. k \in 1..n /\ k + 1 = n /\ k + 1 = 2
      BY <1>2, <1>8
    <3> HIDE DEF d1, k
    <3>2. Along(c, d1, q, k, O)
      BY <2>6 DEF k
    <3> DEFINE e == Run(d1, unwrap_for_native_sol_hop(q, Hop(q, k + 1).swap))
    <3>3. (MovedRoute(e, q) /\ e.err # "none") \/ Delivered(c, e, q, O)
      BY <3>1, <3>2, LastHop
    <3>4. d = e
      BY <2>4, <3>1
    <3> HIDE DEF d, e
    <3> QED BY <3>3, <3>4 DEF d
  <2> QED BY <1>3, <2>5, <2>6
<1>9. CASE n = 3
  <2> DEFINE s2 == Hop(q, 2).swap
             s3 == unwrap_for_native_sol_hop(q, Hop(q, 3).swap)
             d2 == Run(d1, s2)
  <2>1. 2 \in 1..n /\ 3 \in 1..n /\ 1 + 1 = 2 /\ 2 + 1 = 3
    BY <1>9
  <2>2. s1 \in Seq(S) /\ s2 \in Seq(S) /\ s3 \in Seq(S)
    BY <1>2, <1>5, <1>6, <2>1
  <2>3. b.swap = (s1 \o s2) \o s3
    BY <1>9 DEF BuiltFrom
  <2>4. d = Run(d2, s3)
    <3> HIDE DEF s1, s2, s3
    <3> DEFINE t == s1 \o s2
    <3>1. t \in Seq(S)
      BY <2>2, ConcatProperties
    <3>2. Run(c, t) = d2
      BY <2>2, RunConcat
    <3> HIDE DEF d2, t
    <3>3. Run(c, t \o s3) = Run(Run(c, t), s3)
      BY <2>2, <3>1, RunConcat
    <3> QED BY <2>3, <3>2, <3>3 DEF t
  <2>5. CASE Moved(d1, SwapOrder(q, 1))
    <3> HIDE DEF d, d1, s2, s3
    <3>1. d2 = d1
      BY <1>4, <2>2, <2>5, RunFailed
    <3> HIDE DEF d2
    <3>2. d = d1
      BY <1>4, <2>2, <2>4, <2>5, <3>1, RunFailed
    <3> QED BY <1>4, <2>5, <3>2 DEF d
  <2>6. CASE Along(c, d1, q, 1, O)
    <3> DEFINE j == 1
               k == 2
    <3>1. j \in 1..n /\ j + 1 \in 1..n /\ j + 1 = 2 /\ k = 2 /\ k \in 1..n /\ k + 1 = n /\ k + 1 = 3 /\ j + 1 # n
      BY <1>2, <1>9, <2>1
    <3> HIDE DEF d, d1, j, k
    <3>2. Along(c, d1, q, j, O)
      BY <2>6 DEF j
    <3>3. ~ Buys(SwapOrder(q, j + 1))
      BY <3>1, Path
    <3> DEFINE e == Run(d1, Hop(q, j + 1).swap)
    <3>4. Moved(e, SwapOrder(q, j + 1)) \/ Along(c, e, q, j + 1, O)
      BY <3>1, <3>2, <3>3, NextHop
    <3>5. d2 = e
      BY <3>1
    <3> HIDE DEF e, d2
    <3>6. CASE Moved(d2, SwapOrder(q, j + 1))
      <4>1. MovedRoute(d2, q) /\ d2.err # "none"
        BY <3>1, <3>6, MovedHop
      <4> HIDE DEF s3
      <4>2. d = d2
        BY <2>2, <2>4, <4>1, RunFailed
      <4> QED BY <4>1, <4>2 DEF d
    <3>7. CASE Along(c, d2, q, j + 1, O)
      <4>1. Along(c, d2, q, k, O)
        BY <3>1, <3>7
      <4> DEFINE g == Run(d2, unwrap_for_native_sol_hop(q, Hop(q, k + 1).swap))
      <4>2. (MovedRoute(g, q) /\ g.err # "none") \/ Delivered(c, g, q, O)
        BY <3>1, <4>1, LastHop
      <4>3. d = g
        BY <2>4, <3>1
      <4> HIDE DEF g
      <4> QED BY <4>2, <4>3 DEF d
    <3> QED BY <3>4, <3>5, <3>6, <3>7
  <2> QED BY <1>3, <2>5, <2>6
<1>10. n = 1 \/ n = 2 \/ n = 3
  <2> HIDE DEF n
  <2> QED BY <1>1
<1> QED BY <1>7, <1>8, <1>9, <1>10

-----------------------------------------------------------------------------
(* The transaction                                                          *)

\* What the router leaves: the gain of the output account, less the fee.
Settled(c, d, q, O, fee) ==
    /\ Ready(d, O) /\ d.unsynced = 0
    /\ DOMAIN d.ata = IF Unwraps(q) THEN DOMAIN c.ata \ {SOL} ELSE DOMAIN c.ata
    /\ DOMAIN d.fee_atas = DOMAIN c.fee_atas
    /\ \A m \in Mints : Worth(d, m) >= Worth(c, m) - (IF m = from(q) THEN q.amount_in ELSE 0)
    /\ Worth(d, to(q)) + fee >= Worth(c, to(q)) + q.minimum_out
    /\ \A x : Held(d.fee_atas, x) = Held(c.fee_atas, x) + (IF x = to(q) THEN fee ELSE 0)
    /\ ~ Unwraps(q) /\ ~ Touched(q) => Held(d.ata, SOL) = Held(c.ata, SOL)

Refused(d, q) == MovedRoute(d, q) \/ d.err = "minimum"

\* The router's share of a gain is no more than the gain.
LEMMA Share ==
    ASSUME NEW g \in Nat, NEW rate \in 0..BasisPoints
    PROVE  (g * rate) \div BasisPoints \in Nat /\ (g * rate) \div BasisPoints <= g
<1>1. rate \in Nat /\ BasisPoints - rate \in Nat /\ g * rate \in Nat /\ g * (BasisPoints - rate) \in Nat
  BY DEF BasisPoints
<1>2. g * rate + g * (BasisPoints - rate) = g * BasisPoints
  BY <1>1 DEF BasisPoints
<1>3. g * rate <= g * BasisPoints
  BY <1>1, <1>2 DEF BasisPoints
<1> DEFINE x == g * rate
<1>4. x \in Nat /\ x <= g * 10000
  BY <1>1, <1>3 DEF BasisPoints
<1> HIDE DEF x
<1>5. x \div 10000 \in Nat /\ x \div 10000 <= g
  BY <1>4
<1> QED BY <1>5 DEF x, BasisPoints

\* The minimum of a route is its quoted output less the slippage, rounded down.
LEMMA MinimumOut ==
    ASSUME NEW q, QuoteOK(q)
    PROVE  /\ q.minimum_out \in Nat /\ Last(q.hops).amount_out \in Nat
           /\ (q.minimum_out + 1) * BasisPoints > Last(q.hops).amount_out * (BasisPoints - q.slippage_bps)
<1> DEFINE n == Len(q.hops)
<1>1. n \in 1..3 /\ q.hops \in Seq(HopSet) /\ q.slippage_bps \in Nat
      /\ q.minimum_out = compute_threshold(q.hops[n].amount_out, q.slippage_bps)
  BY DEF QuoteOK
<1>2. q.hops[n] \in HopSet
  <2>1. n \in 1..n
    <3> HIDE DEF n
    <3> QED BY <1>1
  <2> QED BY <1>1, <2>1, ElementOfSeq
<1> DEFINE a == q.hops[n].amount_out
<1>3. a \in Nat /\ a = Last(q.hops).amount_out
  BY <1>2 DEF HopSet, Last
<1> HIDE DEF a
<1>4. compute_threshold(a, q.slippage_bps) \in Nat
      /\ (compute_threshold(a, q.slippage_bps) + 1) * BasisPoints > a * (BasisPoints - q.slippage_bps)
  BY <1>1, <1>3, Rounded
<1>5. q.minimum_out = compute_threshold(a, q.slippage_bps)
  BY <1>1 DEF a
<1> QED BY <1>3, <1>4, <1>5

\* The router refuses a route that has moved, or takes its fee of a gain of at least the minimum.
LEMMA RouterRun ==
    ASSUME NEW q, QuoteOK(q), NEW O, NEW c, Startable(c, q, O), NEW b, NEW C, NEW u, BuiltFrom(q, b, C, u),
           fee_bps \in 0..BasisPoints, fee_bps # 0 => to(q) \in DOMAIN c.fee_atas
    PROVE  LET d == RouterSwap(c, wrap_swap(q, b.swap)) IN
           (Refused(d, q) /\ d.err # "none") \/ \E fee \in Nat : Settled(c, d, q, O, fee)
<1> DEFINE r == Run(c, b.swap)
           m == to(q)
           gain == r.ata[m] - c.ata[m]
           fee == (gain * fee_bps) \div BasisPoints
           d == RouterSwap(c, wrap_swap(q, b.swap))
<1>1. (MovedRoute(r, q) /\ r.err # "none") \/ Delivered(c, r, q, O)
  BY RouteRun
<1>2. /\ Len(q.hops) \in 1..3 /\ m \in Mints /\ from(q) \in Mints /\ m # from(q) /\ q.hops[Len(q.hops)].out = m
      /\ (Unwraps(q) => q.hops[Len(q.hops)].in = SOL)
  BY Path
<1>3. Len(q.hops) \in 1..Len(q.hops)
  <2> DEFINE n == Len(q.hops)
  <2>1. n \in 1..3
    BY <1>2
  <2> HIDE DEF n
  <2>2. n \in 1..n
    BY <2>1
  <2> QED BY <2>2 DEF n
<1>4. m \in DOMAIN c.ata /\ c.err = "none" /\ c \in Configs(O) /\ c.unsynced = 0
  BY <1>2, <1>3 DEF Startable, Ready
<1>5. q.hops[Len(q.hops)].in # m
  BY <1>2, <1>3 DEF QuoteOK
<1>6. Unwraps(q) => m # SOL
  BY <1>2, <1>5
<1>7. d = IF r.err # "none" THEN r
          ELSE IF m \notin DOMAIN r.ata THEN Fails(r, "closed")
          ELSE IF gain < q.minimum_out THEN Fails(r, "minimum")
          ELSE IF fee_bps = 0 THEN r
          ELSE IF m \notin DOMAIN r.fee_atas THEN Fails(r, "nofee")
          ELSE [r EXCEPT !.ata[m] = @ - fee, !.fee_atas[m] = @ + fee]
  BY <1>4 DEF RouterSwap, wrap_swap
<1> HIDE DEF r, d, m
<1>8. CASE MovedRoute(r, q) /\ r.err # "none"
  <2>1. d = r
    BY <1>7, <1>8
  <2> QED BY <1>8, <2>1 DEF Refused, d
<1>9. CASE Delivered(c, r, q, O)
  <2>1. /\ r \in Configs(O) /\ r.err = "none" /\ r.fee_atas = c.fee_atas /\ r.unsynced = 0
        /\ DOMAIN r.ata = IF Unwraps(q) THEN DOMAIN c.ata \ {SOL} ELSE DOMAIN c.ata
        /\ \A x \in Mints : Worth(r, x) >= Worth(c, x) - (IF x = from(q) THEN q.amount_in ELSE 0)
        /\ m = SOL => r.lamports >= c.lamports
        /\ ~ Unwraps(q) /\ ~ Touched(q) => Held(r.ata, SOL) = Held(c.ata, SOL)
    BY <1>9 DEF Delivered, Goes, m
  <2>2. m \in DOMAIN r.ata
    BY <1>4, <1>6, <2>1
  <2>3. r.ata \in Ledgers /\ c.ata \in Ledgers /\ r.fee_atas \in Ledgers /\ r.lamports \in Nat /\ c.lamports \in Nat
    BY <1>4, <2>1 DEF Configs
  <2>4. /\ r.ata[m] = Held(r.ata, m) /\ c.ata[m] = Held(c.ata, m) /\ r.ata[m] \in Nat /\ c.ata[m] \in Nat
        /\ \A x : Held(r.ata, x) \in Nat /\ Held(c.ata, x) \in Nat /\ Held(r.fee_atas, x) \in Nat
    BY <1>4, <2>2, <2>3, HeldNat
  <2>5. q.minimum_out \in Nat /\ q.amount_in \in Nat
    BY MinimumOut DEF QuoteOK
  <2>6. Worth(r, m) >= Worth(c, m) + gain /\ Worth(r, m) \in Nat /\ Worth(c, m) \in Nat
    <3> DEFINE hr == Held(r.ata, m)
               hc == Held(c.ata, m)
               lr == r.lamports
               lc == c.lamports
    <3>1. /\ hr \in Nat /\ hc \in Nat /\ lr \in Nat /\ lc \in Nat /\ gain = hr - hc /\ (m = SOL => lr >= lc)
          /\ lr + r.unsynced = lr /\ lc + c.unsynced = lc
      BY <1>4, <2>1, <2>3, <2>4
    <3>2. Worth(r, m) = hr + (IF m = SOL THEN lr ELSE 0) /\ Worth(c, m) = hc + (IF m = SOL THEN lc ELSE 0)
      BY <3>1 DEF Worth
    <3> HIDE DEF hr, hc, lr, lc, gain
    <3>3. CASE m = SOL
      BY <3>1, <3>2, <3>3
    <3>4. CASE m # SOL
      BY <3>1, <3>2, <3>4
    <3> QED BY <3>3, <3>4
  <2>7. CASE gain < q.minimum_out
    <3>1. d = Fails(r, "minimum")
      BY <1>7, <2>1, <2>2, <2>7
    <3>2. d.err = "minimum"
      BY <2>1, <3>1 DEF Fails, Configs
    <3> QED BY <3>2 DEF Refused, d
  <2>8. CASE ~ (gain < q.minimum_out)
    <3>1. gain \in Nat /\ gain >= q.minimum_out
      BY <2>4, <2>5, <2>8
    <3>2. Worth(r, m) >= Worth(c, m) + q.minimum_out
      <4> HIDE DEF gain
      <4> QED BY <2>5, <2>6, <3>1
    <3>3. CASE fee_bps = 0
      <4>1. d = r
        BY <1>7, <2>1, <2>2, <2>8, <3>3
      <4>2. \A x : Held(r.fee_atas, x) = Held(c.fee_atas, x) + 0
        BY <2>1, <2>4
      <4>3. Worth(r, m) + 0 >= Worth(c, m) + q.minimum_out
        BY <2>6, <3>2
      <4>4. Settled(c, r, q, O, 0)
        BY <2>1, <4>2, <4>3 DEF Settled, Ready, m
      <4> QED BY <4>1, <4>4 DEF d
    <3>4. CASE fee_bps # 0
      <4> DEFINE ata == Debit(r.ata, m, fee)
                 fee_ata == Raise(r.fee_atas, m, fee)
      <4>1. m \in DOMAIN r.fee_atas
        BY <2>1, <3>4 DEF m
      <4>2. d = [r EXCEPT !.ata = ata, !.fee_atas = fee_ata]
        BY <1>7, <2>1, <2>2, <2>8, <3>4, <4>1 DEF Debit, Raise, Configs
      <4>3. fee \in Nat /\ fee <= gain
        <5> HIDE DEF gain
        <5> QED BY <3>1, Share
      <4>4. fee <= r.ata[m]
        <5> HIDE DEF fee
        <5> QED BY <2>4, <4>3
      <4> HIDE DEF fee
      <4>5. ata \in Ledgers /\ DOMAIN ata = DOMAIN r.ata
            /\ \A x : Held(ata, x) = Held(r.ata, x) - (IF x = m THEN fee ELSE 0)
        <5> DEFINE f == r.ata
        <5>1. f \in Ledgers /\ m \in DOMAIN f /\ fee \in Nat /\ fee <= f[m]
          BY <2>2, <2>3, <4>3, <4>4
        <5> HIDE DEF f
        <5>2. Debit(f, m, fee) \in Ledgers /\ DOMAIN Debit(f, m, fee) = DOMAIN f
              /\ \A x : Held(Debit(f, m, fee), x) = Held(f, x) - (IF x = m THEN fee ELSE 0)
          BY <5>1, DebitLedger
        <5> QED BY <5>2 DEF f
      <4>6. fee_ata \in Ledgers /\ DOMAIN fee_ata = DOMAIN r.fee_atas
            /\ \A x : Held(fee_ata, x) = Held(r.fee_atas, x) + (IF x = m THEN fee ELSE 0)
        <5> DEFINE f == r.fee_atas
        <5>1. f \in Ledgers /\ m \in DOMAIN f /\ fee \in Nat
          BY <2>3, <4>1, <4>3
        <5> HIDE DEF f
        <5>2. Raise(f, m, fee) \in Ledgers /\ DOMAIN Raise(f, m, fee) = DOMAIN f
              /\ \A x : Held(Raise(f, m, fee), x) = Held(f, x) + (IF x = m THEN fee ELSE 0)
          BY <5>1, RaiseLedger
        <5> QED BY <5>2 DEF f
      <4> HIDE DEF ata, fee_ata
      <4>7. /\ d \in Configs(O) /\ d.err = "none" /\ d.unsynced = 0 /\ d.lamports = r.lamports
            /\ d.ata = ata /\ d.fee_atas = fee_ata
        BY <2>1, <4>2, <4>5, <4>6 DEF Configs
      <4>8. ASSUME NEW x \in Mints
            PROVE  Worth(d, x) = Worth(r, x) - (IF x = m THEN fee ELSE 0)
        <5> DEFINE h == Held(r.ata, x)
                   k == IF x = SOL THEN r.lamports + r.unsynced ELSE 0
        <5>1. h \in Nat /\ k \in Nat
          BY <2>1, <2>3, <2>4
        <5>2. Worth(r, x) = h + k
          BY DEF Worth
        <5>3. Worth(d, x) = Held(d.ata, x) + k
          BY <2>1, <4>7 DEF Worth
        <5>4. Held(d.ata, x) = h - (IF x = m THEN fee ELSE 0)
          BY <4>5, <4>7
        <5> HIDE DEF h, k
        <5> QED BY <4>3, <5>1, <5>2, <5>3, <5>4
      <4>9. Worth(d, m) + fee >= Worth(c, m) + q.minimum_out /\ Worth(d, m) >= Worth(c, m)
        <5>1. Worth(d, m) = Worth(r, m) - fee
          BY <1>2, <4>8 DEF m
        <5> HIDE DEF gain
        <5> QED BY <2>5, <2>6, <3>1, <3>2, <4>3, <5>1
      <4>10. ASSUME NEW x \in Mints
             PROVE  Worth(d, x) >= Worth(c, x) - (IF x = from(q) THEN q.amount_in ELSE 0)
        <5>1. CASE x = m
          BY <1>2, <2>6, <4>9, <5>1 DEF m
        <5>2. CASE x # m
          <6>1. Held(r.ata, x) \in Nat /\ (IF x = SOL THEN r.lamports + r.unsynced ELSE 0) \in Nat
            BY <2>1, <2>3, <2>4
          <6>2. Worth(r, x) \in Nat
            BY <6>1 DEF Worth
          <6>3. Worth(d, x) = Worth(r, x)
            BY <4>8, <5>2, <6>2
          <6> QED BY <2>1, <6>3
        <5> QED BY <5>1, <5>2
      <4>11. ~ Unwraps(q) /\ ~ Touched(q) => Held(d.ata, SOL) = Held(c.ata, SOL)
        <5>1. m = SOL => Touched(q)
          <6>1. SwapOrder(q, Len(q.hops)).out = m /\ SwapOrder(q, Len(q.hops)).in # m
            BY <1>2, <1>3, <1>5, Orders DEF m
          <6>2. m = SOL => Touches(SwapOrder(q, Len(q.hops)))
            BY <6>1 DEF Touches, Buys
          <6> QED BY <1>3, <6>2 DEF Touched
        <5>2. m # SOL => Held(ata, SOL) = Held(r.ata, SOL)
          BY <2>4, <4>5
        <5> QED BY <2>1, <4>7, <5>1, <5>2
      <4>12. \A x : Held(d.fee_atas, x) = Held(c.fee_atas, x) + (IF x = m THEN fee ELSE 0)
        BY <2>1, <4>6, <4>7
      <4>13. Ready(d, O) /\ d.unsynced = 0
        BY <4>7 DEF Ready
      <4>14. DOMAIN d.ata = DOMAIN r.ata /\ DOMAIN d.fee_atas = DOMAIN c.fee_atas
        BY <2>1, <4>5, <4>6, <4>7
      <4>15. Settled(c, d, q, O, fee)
        BY <2>1, <4>9, <4>10, <4>11, <4>12, <4>13, <4>14 DEF Settled, m
      <4> QED BY <4>3, <4>15 DEF d
    <3> QED BY <3>3, <3>4
  <2> QED BY <2>7, <2>8
<1> QED BY <1>1, <1>8, <1>9

\* The accounts of a transaction before its route.
Backed(c, d, q, O) ==
    /\ Startable(d, q, O)
    /\ d.fee_atas = c.fee_atas
    /\ \A m \in Mints : Worth(d, m) = Worth(c, m)
    /\ Touched(q) => SOL \in DOMAIN d.ata
    /\ ~ Touched(q) => Held(d.ata, SOL) = Held(c.ata, SOL) /\ (SOL \in DOMAIN d.ata <=> SOL \in DOMAIN c.ata)

\* The caller can pay the input: from the account, or from lamports if it is SOL.
CanPay(c, q) == q.amount_in <= (IF from(q) = SOL THEN c.lamports ELSE Held(c.ata, from(q)))

\* The setup leaves a wallet that can pay the route able to start it.
LEMMA Preparation ==
    ASSUME NEW q, QuoteOK(q), q.amount_in # 0, NEW O, \A i \in 1..Len(q.hops) : q.hops[i].out \in O,
           NEW c, Ready(c, O), c.unsynced = 0, CanPay(c, q),
           NEW b, NEW C \in Seq(Creates), NEW u \in Seq(Creates), BuiltFrom(q, b, C, u)
    PROVE  Backed(c, Run(c, b.setup), q, O)
<1> DEFINE o == SwapOrder(q, 1)
           n == q.amount_in
           w == Wraps(o)
           M == Created(C) \cup Created(u)
           d == Run(c, b.setup)
<1>1. /\ Len(q.hops) \in 1..3 /\ from(q) \in Mints /\ q.hops[1].in = from(q)
      /\ \A k \in 1..Len(q.hops) : q.hops[k].out \in Mints
  BY Path
<1>2. 1 \in 1..Len(q.hops)
  <2> DEFINE k == Len(q.hops)
  <2>1. k \in 1..3
    BY <1>1
  <2> HIDE DEF k
  <2>2. 1 \in 1..k
    BY <2>1
  <2> QED BY <2>2 DEF k
<1>3. OrderOK(o) /\ o.in = from(q) /\ o.out = q.hops[1].out /\ o.amount_in = n
  BY <1>1, <1>2, Orders
<1>4. /\ b.setup = (C \o When(w, <<Fund(n), Sync>>)) \o u
      /\ w => Create(SOL) \in Range(C)
      /\ \A i \in 1..Len(q.hops) : Create(q.hops[i].out) \in Range(C) \cup Range(u)
      /\ Create(SOL) \in Range(C) \cup Range(u) => Touched(q)
  BY DEF BuiltFrom
<1>5. w \in BOOLEAN /\ n \in Nat /\ (w => from(q) = SOL /\ ~ Buys(o)) /\ (~ w /\ ~ Buys(o) => from(q) # SOL) /\ (Buys(o) => from(q) = SOL)
  BY <1>3 DEF Wraps, Buys, QuoteOK
<1>6. c \in Configs(O) /\ c.lamports \in Nat /\ c.ata \in Ledgers /\ \A x : Held(c.ata, x) \in Nat
  BY HeldNat DEF Ready, Configs
<1>7. (w \/ Buys(o) => n <= c.lamports) /\ (~ w /\ ~ Buys(o) => n <= Held(c.ata, from(q)))
  BY <1>5 DEF CanPay
<1> HIDE DEF w, o, n
<1>8. Goes(c, d, O) /\ Prepared(c, d, w, n, M)
  <2>1. w \in BOOLEAN /\ n \in Nat /\ (w => n <= c.lamports) /\ (w => Create(SOL) \in Range(C))
    BY <1>4, <1>5, <1>7
  <2>2. d = Run(c, (C \o When(w, <<Fund(n), Sync>>)) \o u)
    BY <1>4
  <2> HIDE DEF d
  <2> QED BY <2>1, <2>2, SetupRun
<1> HIDE DEF d, M
<1>9. /\ d.lamports = c.lamports - (IF w THEN n ELSE 0) /\ d.unsynced = 0
      /\ DOMAIN d.ata = DOMAIN c.ata \cup M
      /\ \A x : Held(d.ata, x) = Held(c.ata, x) + (IF x = SOL /\ w THEN n ELSE 0)
  BY <1>8 DEF Prepared
<1>10. (\A i \in 1..Len(q.hops) : q.hops[i].out \in M) /\ (w => SOL \in M) /\ (SOL \in M => Touched(q))
  BY <1>1, <1>4, MintsAssumption DEF M, Created
<1>11. Funded(d, o)
  <2>1. o.out \in DOMAIN d.ata
    BY <1>2, <1>3, <1>9, <1>10
  <2>2. CASE Buys(o)
    <3>1. ~ w
      BY <1>5, <2>2
    <3>2. n <= d.lamports
      BY <1>5, <1>6, <1>7, <1>9, <2>2, <3>1
    <3> QED BY <1>3, <2>1, <2>2, <3>2 DEF Funded
  <2>3. CASE w
    <3>1. SOL \in DOMAIN d.ata /\ Held(d.ata, SOL) = Held(c.ata, SOL) + n /\ o.in = SOL /\ ~ Buys(o)
      BY <1>3, <1>5, <1>9, <1>10, <2>3
    <3>2. d.ata[SOL] = Held(d.ata, SOL)
      BY <3>1 DEF Held
    <3>3. n <= d.ata[SOL]
      BY <1>5, <1>6, <3>1, <3>2
    <3> QED BY <1>3, <2>1, <3>1, <3>3 DEF Funded
  <2>4. CASE ~ w /\ ~ Buys(o)
    <3>1. Held(c.ata, from(q)) >= n /\ n # 0
      BY <1>6, <1>5, <1>7, <2>4 DEF n
    <3>2. from(q) \in DOMAIN c.ata
      BY <1>5, <3>1 DEF Held
    <3>3. from(q) \in DOMAIN d.ata /\ Held(d.ata, from(q)) = Held(c.ata, from(q)) + 0
      BY <1>9, <2>4, <3>2
    <3>4. d.ata[from(q)] = Held(d.ata, from(q))
      BY <3>3 DEF Held
    <3>5. n <= d.ata[from(q)]
      BY <1>5, <1>6, <3>1, <3>3, <3>4
    <3> QED BY <1>3, <2>1, <2>4, <3>3, <3>5 DEF Funded
  <2> QED BY <2>2, <2>3, <2>4
<1>12. Startable(d, q, O)
  <2>1. Ready(d, O)
    BY <1>8 DEF Goes, Ready
  <2>2. \A i \in 1..Len(q.hops) : q.hops[i].out \in DOMAIN d.ata \cap O
    BY <1>9, <1>10
  <2> QED BY <1>9, <1>11, <2>1, <2>2 DEF Startable, o
<1>13. ASSUME NEW m \in Mints
       PROVE  Worth(d, m) = Worth(c, m)
  <2> DEFINE h == Held(c.ata, m)
             l == c.lamports
  <2>1. h \in Nat /\ l \in Nat /\ l + c.unsynced = l
    BY <1>6
  <2>2. d.lamports = l - (IF w THEN n ELSE 0) /\ d.lamports + d.unsynced = d.lamports
    <3>1. d.lamports \in Nat
      BY <1>8 DEF Goes, Configs
    <3> QED BY <1>9, <3>1
  <2>3. Worth(c, m) = h + (IF m = SOL THEN l ELSE 0)
    BY <2>1 DEF Worth
  <2>4. Worth(d, m) = Held(d.ata, m) + (IF m = SOL THEN l - (IF w THEN n ELSE 0) ELSE 0)
    BY <2>2 DEF Worth
  <2>5. Held(d.ata, m) = h + (IF m = SOL /\ w THEN n ELSE 0)
    BY <1>9
  <2> HIDE DEF h, l
  <2>6. CASE m = SOL /\ w
    BY <1>5, <2>1, <2>3, <2>4, <2>5, <2>6
  <2>7. CASE ~ (m = SOL /\ w)
    BY <1>5, <2>1, <2>3, <2>4, <2>5, <2>7
  <2> QED BY <2>6, <2>7
<1>14. Touched(q) => SOL \in DOMAIN d.ata
  <2> SUFFICES ASSUME Touched(q) PROVE SOL \in DOMAIN d.ata
    OBVIOUS
  <2>1. PICK i \in 1..Len(q.hops) : Touches(SwapOrder(q, i))
    BY DEF Touched
  <2>2. /\ SwapOrder(q, i).in = q.hops[i].in /\ SwapOrder(q, i).out = q.hops[i].out
        /\ SOL \in {q.hops[i].in, q.hops[i].out} /\ ~ Buys(SwapOrder(q, i))
    BY <2>1, Orders DEF Touches
  <2>3. CASE SOL = q.hops[i].out
    BY <1>9, <1>10, <2>3
  <2>4. CASE SOL = q.hops[i].in /\ i = 1
    BY <1>3, <1>5, <1>9, <1>10, <2>2, <2>4 DEF o
  <2>5. CASE SOL = q.hops[i].in /\ i # 1
    <3> DEFINE k == Len(q.hops)
    <3>1. k \in 1..3 /\ i \in 1..k
      BY <1>1
    <3> HIDE DEF k
    <3>2. i - 1 \in 1..k /\ i - 1 + 1 = i
      BY <2>5, <3>1
    <3>3. \A j \in 1..k : j + 1 \in 1..k => q.hops[j + 1].in = q.hops[j].out
      BY Path DEF k
    <3>4. q.hops[i].in = q.hops[i - 1].out
      BY <3>1, <3>2, <3>3
    <3>5. q.hops[i - 1].out \in M
      BY <1>10, <3>2 DEF k
    <3> QED BY <1>9, <2>5, <3>4, <3>5
  <2> QED BY <2>2, <2>3, <2>4, <2>5
<1>15. ~ Touched(q) => Held(d.ata, SOL) = Held(c.ata, SOL) /\ (SOL \in DOMAIN d.ata <=> SOL \in DOMAIN c.ata)
  <2>1. w => Touches(o)
    BY <1>3, <1>5 DEF Touches
  <2>2. w => Touched(q)
    BY <1>2, <2>1 DEF Touched, o
  <2>3. ~ w => Held(d.ata, SOL) = Held(c.ata, SOL)
    BY <1>6, <1>9
  <2> QED BY <1>9, <1>10, <2>2, <2>3
<1>16. d.fee_atas = c.fee_atas
  BY <1>8 DEF Goes
<1> QED BY <1>12, <1>13, <1>14, <1>15, <1>16 DEF Backed, d

\* The cleanup closes the WSOL account and loses nothing.
LEMMA CleanupRun ==
    ASSUME NEW O, NEW d, Ready(d, O), d.unsynced = 0, NEW k \in BOOLEAN, k => SOL \in DOMAIN d.ata
    PROVE  LET e == Run(d, When(k, <<Close>>)) IN
           /\ Ready(e, O) /\ e.unsynced = 0 /\ e.fee_atas = d.fee_atas
           /\ \A m \in Mints : Worth(e, m) = Worth(d, m)
           /\ k => SOL \notin DOMAIN e.ata
           /\ ~ k => e = d
<1> DEFINE e == Run(d, When(k, <<Close>>))
<1>1. CASE k
  <2> DEFINE g == Apply(d, Close)
  <2>1. e = g
    BY <1>1, RunOne DEF When
  <2>2. /\ Goes(d, g, O) /\ g.lamports = d.lamports + Held(d.ata, SOL) + d.unsynced /\ g.unsynced = 0
        /\ DOMAIN g.ata = DOMAIN d.ata \ {SOL}
        /\ \A x : Held(g.ata, x) = IF x = SOL THEN 0 ELSE Held(d.ata, x)
    BY <1>1, CloseStep
  <2> HIDE DEF e, g
  <2>3. d.lamports \in Nat /\ d.ata \in Ledgers /\ \A x : Held(d.ata, x) \in Nat
    BY HeldNat DEF Ready, Configs
  <2>4. ASSUME NEW m \in Mints
        PROVE  Worth(g, m) = Worth(d, m)
    <3> DEFINE h == Held(d.ata, SOL)
               l == d.lamports
    <3>1. h \in Nat /\ l \in Nat /\ g.lamports + g.unsynced = l + h /\ l + d.unsynced = l
      BY <2>2, <2>3
    <3>2. CASE m = SOL
      <4>1. Worth(g, m) = 0 + (l + h) /\ Worth(d, m) = h + l
        BY <2>2, <3>1, <3>2 DEF Worth
      <4> HIDE DEF h, l
      <4> QED BY <3>1, <4>1
    <3>3. CASE m # SOL
      BY <2>2, <2>3, <3>3 DEF Worth
    <3> QED BY <3>2, <3>3
  <2> QED BY <1>1, <2>1, <2>2, <2>4 DEF Goes, Ready, e
<1>2. CASE ~ k
  <2>1. e = d
    BY <1>2, RunNothing DEF When
  <2> HIDE DEF e
  <2> QED BY <1>2, <2>1 DEF e
<1> QED BY <1>1, <1>2

\* What the transaction leaves when it lands.
Landed(e, q) ==
    LET w == [lamports |-> e.lamports, ata |-> e.ata] IN
    /\ e.err = "none" /\ IsWallet(w) /\ IsLedger(e.fee_atas) /\ DOMAIN fee_atas \subseteq DOMAIN e.fee_atas
    /\ \A m \in Mints : Holding(w, m) >= Holding(wallet, m) - (IF m = from(q) THEN q.amount_in ELSE 0)
    /\ Holding(w, to(q)) + (Held(e.fee_atas, to(q)) - Held(fee_atas, to(q))) >= Holding(wallet, to(q)) + q.minimum_out
    /\ SOL \notin DOMAIN w.ata \/ (SOL \in DOMAIN wallet.ata /\ w.ata[SOL] = wallet.ata[SOL])

\* With nothing left unsynced, what the wallet holds is what the transaction left.
LEMMA HoldingIsWorth ==
    ASSUME NEW O, NEW c \in Configs(O), c.unsynced = 0, NEW w, w.lamports = c.lamports, w.ata = c.ata, NEW m
    PROVE  Holding(w, m) = Worth(c, m) /\ Worth(c, m) \in Nat
<1>1. c.lamports \in Nat /\ c.lamports + c.unsynced = c.lamports /\ Held(c.ata, m) \in Nat
  BY HeldNat DEF Configs
<1>2. Worth(c, m) = Held(c.ata, m) + (IF m = SOL THEN c.lamports ELSE 0)
  BY <1>1 DEF Worth
<1>3. Holding(w, m) = Held(c.ata, m) + (IF m = SOL THEN c.lamports ELSE 0)
  BY DEF Holding, Held
<1> QED BY <1>1, <1>2, <1>3

\* The instructions of the transaction, in the order they run.
LEMMA Layout ==
    ASSUME NEW q, NEW b, NEW C \in Seq(Creates), NEW u \in Seq(Creates), BuiltFrom(q, b, C, u), QuoteOK(q),
           NEW exists, NEW outs
    PROVE  Execute(assemble_instructions(wrap_in_router(q, b, exists)), outs)
           = Run(RouterSwap(Run(Run(Start(outs), When(fee_bps # 0 /\ ~ exists, <<CreateFee(to(q))>>)), b.setup),
                            wrap_swap(q, b.swap)),
                 b.cleanup)
<1> DEFINE n == q.amount_in
           w == Wraps(SwapOrder(q, 1))
           W == When(w, <<Fund(n), Sync>>)
           fee == CreateFee(to(q))
           F == When(fee_bps # 0 /\ ~ exists, <<fee>>)
           S == Setups \cup {Close, fee}
           r == wrap_swap(q, b.swap)
           s == b.setup
           k == b.cleanup
<1>1. s = (C \o W) \o u /\ k = When(Closes(q), <<Close>>)
  BY DEF BuiltFrom
<1>2. \A x \in S : x.op # "router"
  <2>1. \A x \in Creates : x.op # "router"
    BY InstructionKinds
  <2>2. \A x \in Fundings : x.op # "router"
    BY InstructionKinds DEF WsolFunding
  <2>3. Close.op # "router" /\ fee.op # "router"
    BY DEF Close, CreateFee
  <2> HIDE DEF fee
  <2> QED BY <2>1, <2>2, <2>3 DEF Setups
<1>3. F \in Seq(S)
  <2> HIDE DEF fee
  <2>1. <<fee>> \in Seq(S) /\ <<>> \in Seq(S)
    OBVIOUS
  <2> QED BY <2>1 DEF When
<1>4. W \in Seq(S)
  <2> DEFINE f == Fund(n)
  <2>1. n \in Nat
    BY DEF QuoteOK
  <2>2. f \in S /\ Sync \in S
    BY <2>1 DEF Setups, Fundings
  <2> HIDE DEF f, S, n
  <2>3. <<f, Sync>> \in Seq(S) /\ <<>> \in Seq(S)
    BY <2>2
  <2> QED BY <2>3 DEF When, f
<1>5. C \in Seq(S) /\ u \in Seq(S)
  <2>1. Creates \subseteq S
    BY DEF Setups
  <2> HIDE DEF S
  <2> QED BY <2>1, SeqMonotonic
<1>6. k \in Seq(S)
  <2>1. <<Close>> \in Seq(S) /\ <<>> \in Seq(S)
    OBVIOUS
  <2> QED BY <1>1, <2>1 DEF When
<1>7. r.op = "router"
  BY DEF wrap_swap
<1> HIDE DEF S, F, W
<1>8. s \in Seq(S)
  <2>1. C \o W \in Seq(S)
    BY <1>4, <1>5, ConcatProperties
  <2> DEFINE v == C \o W
  <2>2. v \in Seq(S)
    BY <2>1
  <2> HIDE DEF v
  <2>3. v \o u \in Seq(S)
    BY <1>5, <2>2, ConcatProperties
  <2> QED BY <1>1, <2>3 DEF v
<1> HIDE DEF s, k, r
<1>9. assemble_instructions(wrap_in_router(q, b, exists)) = ((F \o s) \o <<r>>) \o k
  BY DEF assemble_instructions, wrap_in_router, F, s, k, r
<1>10. F \o s \in Seq(S)
  BY <1>3, <1>8, ConcatProperties
<1> DEFINE a == F \o s
<1>11. Run(Start(outs), a) = Run(Run(Start(outs), F), s)
  <2> DEFINE c == Start(outs)
  <2> HIDE DEF c
  <2>1. Run(c, F \o s) = Run(Run(c, F), s)
    BY <1>3, <1>8, RunConcat
  <2> QED BY <2>1 DEF c
<1>12. a \in Seq(S)
  BY <1>10
<1> HIDE DEF a
<1>13. Execute((a \o <<r>>) \o k, outs) = Run(RouterSwap(Run(Start(outs), a), r), k)
  BY <1>2, <1>6, <1>7, <1>12, ExecuteSplit
<1>14. Execute(((F \o s) \o <<r>>) \o k, outs) = Run(RouterSwap(Run(Run(Start(outs), F), s), r), k)
  BY <1>11, <1>13 DEF a
<1> QED BY <1>9, <1>14 DEF F, s, k, r

\* A transaction built for a quote lands within its promises, or fails because a
\* pool has moved.
LEMMA Transaction ==
    ASSUME NEW q, QuoteOK(q), q.amount_in # 0, IsWallet(wallet), IsLedger(fee_atas),
           q.amount_in <= Spendable(wallet, from(q)), fee_bps \in 0..BasisPoints,
           NEW exists \in BOOLEAN, exists /\ fee_bps # 0 => to(q) \in DOMAIN fee_atas,
           NEW outs \in [{q.hops[i].out : i \in DOMAIN q.hops} -> 0..MaxOut]
    PROVE  LET e == Execute(assemble_instructions(wrap_in_router(q, build_swap_from_quote(q), exists)), outs) IN
           (Refused(e, q) /\ e.err # "none") \/ Landed(e, q)
<1> DEFINE b == build_swap_from_quote(q)
           O == {q.hops[i].out : i \in DOMAIN q.hops}
           f == fee_bps # 0 /\ ~ exists
           c == Start(outs)
           cf == Run(c, When(f, <<CreateFee(to(q))>>))
           cs == Run(cf, b.setup)
           d == RouterSwap(cs, wrap_swap(q, b.swap))
           e == Run(d, b.cleanup)
<1>1. Built(q, b)
  BY BuildsShape
<1> HIDE DEF b
<1>2. PICK C \in Seq(Creates), u \in Seq(Creates) : BuiltFrom(q, b, C, u)
  BY <1>1 DEF Built
<1>3. Execute(assemble_instructions(wrap_in_router(q, b, exists)), outs) = e
  BY <1>2, Layout
<1>4. /\ to(q) \in Mints /\ from(q) \in Mints /\ q.minimum_out \in Nat /\ q.amount_in \in Nat
      /\ \A i \in 1..Len(q.hops) : q.hops[i].out \in O
  <2>1. DOMAIN q.hops = 1..Len(q.hops)
    BY DEF QuoteOK
  <2> QED BY <2>1, Path, MinimumOut DEF QuoteOK
<1>5. wallet.lamports \in Nat /\ wallet.ata \in Ledgers /\ fee_atas \in Ledgers
  BY LedgerSet DEF IsWallet
<1>6. outs \in [O -> Nat]
  BY AmountsAssumption
<1> HIDE DEF O, f
<1>7. /\ Ready(c, O) /\ c.unsynced = 0 /\ c.lamports = wallet.lamports /\ c.ata = wallet.ata
      /\ c.fee_atas = fee_atas
  <2>1. c = [lamports |-> wallet.lamports, ata |-> wallet.ata, unsynced |-> 0,
             fee_atas |-> fee_atas, outs |-> outs, err |-> "none"]
    BY DEF Start
  <2> HIDE DEF c
  <2>2. /\ c.lamports = wallet.lamports /\ c.ata = wallet.ata /\ c.unsynced = 0 /\ c.fee_atas = fee_atas
        /\ c.outs = outs /\ c.err = "none"
    BY <2>1
  <2> DEFINE l == wallet.lamports
             g == wallet.ata
  <2>3. l \in Nat /\ g \in Ledgers /\ c = [lamports |-> l, ata |-> g, unsynced |-> 0,
             fee_atas |-> fee_atas, outs |-> outs, err |-> "none"]
    BY <1>5, <2>1
  <2> HIDE DEF l, g
  <2>4. c \in Configs(O)
    <3> HIDE DEF Configs
    <3>1. \A a \in Nat, x, y \in Ledgers, t \in [O -> Nat] :
            [lamports |-> a, ata |-> x, unsynced |-> 0, fee_atas |-> y, outs |-> t, err |-> "none"] \in Configs(O)
      BY DEF Configs
    <3> QED BY <1>5, <1>6, <2>3, <3>1
  <2> QED BY <2>2, <2>4 DEF Ready
<1> HIDE DEF c
<1>8. /\ Ready(cf, O) /\ cf.unsynced = 0 /\ cf.lamports = wallet.lamports /\ cf.ata = wallet.ata
      /\ DOMAIN fee_atas \subseteq DOMAIN cf.fee_atas
      /\ \A x : Held(cf.fee_atas, x) = Held(fee_atas, x)
      /\ fee_bps # 0 => to(q) \in DOMAIN cf.fee_atas
  <2>1. f \in BOOLEAN /\ (f <=> fee_bps # 0 /\ ~ exists)
    BY DEF f
  <2>2. CASE f
    <3> DEFINE g == Apply(c, CreateFee(to(q)))
    <3>1. cf = g
      BY <2>2, RunOne DEF When
    <3>2. /\ Ready(g, O) /\ g.outs = c.outs /\ g.lamports = c.lamports /\ g.unsynced = c.unsynced /\ g.ata = c.ata
          /\ DOMAIN g.fee_atas = DOMAIN c.fee_atas \cup {to(q)}
          /\ \A x : Held(g.fee_atas, x) = Held(c.fee_atas, x)
      BY <1>4, <1>7, CreateFeeStep
    <3> HIDE DEF cf, g
    <3> QED BY <1>7, <3>1, <3>2
  <2>3. CASE ~ f
    <3>1. cf = c
      BY <2>3, RunNothing DEF When
    <3> HIDE DEF cf
    <3>2. fee_bps # 0 => to(q) \in DOMAIN cf.fee_atas
      BY <1>7, <2>1, <2>3, <3>1
    <3> QED BY <1>7, <3>1, <3>2
  <2> QED BY <2>1, <2>2, <2>3
<1> HIDE DEF cf
<1>9. CanPay(cf, q)
  <2>1. from(q) # SOL => Holding(wallet, from(q)) = Held(wallet.ata, from(q)) + 0
    BY DEF Holding, Held
  <2>2. Held(wallet.ata, from(q)) \in Nat
    BY <1>5, HeldNat
  <2>3. q.amount_in <= IF from(q) = SOL THEN wallet.lamports ELSE Held(wallet.ata, from(q))
    BY <2>1, <2>2 DEF Spendable
  <2> QED BY <1>8, <2>3 DEF CanPay
<1>10. Backed(cf, cs, q, O)
  BY <1>2, <1>4, <1>8, <1>9, Preparation
<1> HIDE DEF cs
<1>11. /\ Startable(cs, q, O) /\ cs.fee_atas = cf.fee_atas
       /\ \A m \in Mints : Worth(cs, m) = Worth(cf, m)
       /\ (Touched(q) => SOL \in DOMAIN cs.ata)
       /\ (~ Touched(q) => Held(cs.ata, SOL) = Held(cf.ata, SOL) /\ (SOL \in DOMAIN cs.ata <=> SOL \in DOMAIN cf.ata))
  BY <1>10 DEF Backed
<1>12. (Refused(d, q) /\ d.err # "none") \/ \E fee \in Nat : Settled(cs, d, q, O, fee)
  <2>1. fee_bps # 0 => to(q) \in DOMAIN cs.fee_atas
    BY <1>8, <1>11
  <2> QED BY <1>2, <1>11, <2>1, RouterRun
<1> HIDE DEF d
<1>13. b.cleanup = When(Closes(q), <<Close>>) /\ Closes(q) \in BOOLEAN
  BY <1>2 DEF BuiltFrom, Closes, Unwraps, Touched
<1>14. CASE Refused(d, q) /\ d.err # "none"
  <2> DEFINE k == b.cleanup
  <2>1. k \in Seq({Close})
    <3>1. <<Close>> \in Seq({Close}) /\ <<>> \in Seq({Close})
      OBVIOUS
    <3> QED BY <1>13, <3>1 DEF When
  <2> HIDE DEF k
  <2>2. Run(d, k) = d
    BY <1>14, <2>1, RunFailed
  <2>3. e = d
    BY <2>2 DEF k
  <2> HIDE DEF e
  <2> QED BY <1>3, <1>14, <2>3 DEF b
<1>15. CASE \E fee \in Nat : Settled(cs, d, q, O, fee)
  <2>1. PICK fee \in Nat : Settled(cs, d, q, O, fee)
    BY <1>15
  <2>2. /\ Ready(d, O) /\ d.unsynced = 0
        /\ DOMAIN d.ata = (IF Unwraps(q) THEN DOMAIN cs.ata \ {SOL} ELSE DOMAIN cs.ata)
        /\ DOMAIN d.fee_atas = DOMAIN cs.fee_atas
        /\ \A m \in Mints : Worth(d, m) >= Worth(cs, m) - (IF m = from(q) THEN q.amount_in ELSE 0)
        /\ Worth(d, to(q)) + fee >= Worth(cs, to(q)) + q.minimum_out
        /\ \A x : Held(d.fee_atas, x) = Held(cs.fee_atas, x) + (IF x = to(q) THEN fee ELSE 0)
        /\ ~ Unwraps(q) /\ ~ Touched(q) => Held(d.ata, SOL) = Held(cs.ata, SOL)
    BY <2>1 DEF Settled
  <2> DEFINE g == Run(d, When(Closes(q), <<Close>>))
  <2>3. e = g
    BY <1>13
  <2>4. Closes(q) => SOL \in DOMAIN d.ata
    BY <1>11, <2>2 DEF Closes
  <2>5. /\ Ready(g, O) /\ g.unsynced = 0 /\ g.fee_atas = d.fee_atas
        /\ \A m \in Mints : Worth(g, m) = Worth(d, m)
        /\ Closes(q) => SOL \notin DOMAIN g.ata
        /\ ~ Closes(q) => g = d
    BY <1>13, <2>2, <2>4, CleanupRun
  <2> HIDE DEF e, g
  <2> DEFINE w == [lamports |-> e.lamports, ata |-> e.ata]
  <2>6. e \in Configs(O) /\ e.err = "none" /\ e.ata \in Ledgers /\ e.fee_atas \in Ledgers /\ e.lamports \in Nat
    BY <2>3, <2>5 DEF Ready, Configs
  <2>7. IsWallet(w) /\ IsLedger(e.fee_atas) /\ w.lamports = e.lamports /\ w.ata = e.ata
    <3>1. w.lamports = e.lamports /\ w.ata = e.ata /\ w = [lamports |-> w.lamports, ata |-> w.ata]
      OBVIOUS
    <3> HIDE DEF w
    <3> QED BY <2>6, <3>1, LedgerSet DEF IsWallet
  <2> HIDE DEF w
  <2>8. \A m : Holding(w, m) = Worth(e, m) /\ Worth(e, m) \in Nat
    BY <2>3, <2>5, <2>6, <2>7, HoldingIsWorth
  <2>9. \A m : Holding(wallet, m) = Worth(cf, m) /\ Worth(cf, m) \in Nat
    BY <1>8, HoldingIsWorth DEF Ready
  <2>10. ASSUME NEW m \in Mints
         PROVE  Holding(w, m) >= Holding(wallet, m) - (IF m = from(q) THEN q.amount_in ELSE 0)
    <3>1. Worth(e, m) = Worth(d, m) /\ Worth(cs, m) = Worth(cf, m)
      BY <1>11, <2>3, <2>5
    <3> QED BY <2>2, <2>8, <2>9, <3>1
  <2>11. Held(e.fee_atas, to(q)) - Held(fee_atas, to(q)) = fee
    <3>1. Held(e.fee_atas, to(q)) = Held(fee_atas, to(q)) + fee
      BY <1>8, <1>11, <2>2, <2>3, <2>5
    <3>2. Held(fee_atas, to(q)) \in Nat
      BY <1>5, HeldNat
    <3> QED BY <3>1, <3>2
  <2>12. Holding(w, to(q)) + fee >= Holding(wallet, to(q)) + q.minimum_out
    <3>1. Worth(e, to(q)) = Worth(d, to(q)) /\ Worth(cs, to(q)) = Worth(cf, to(q))
      BY <1>4, <1>11, <2>3, <2>5
    <3> QED BY <2>2, <2>8, <2>9, <3>1
  <2>13. DOMAIN fee_atas \subseteq DOMAIN e.fee_atas
    BY <1>8, <1>11, <2>2, <2>3, <2>5
  <2>14. SOL \notin DOMAIN w.ata \/ (SOL \in DOMAIN wallet.ata /\ w.ata[SOL] = wallet.ata[SOL])
    <3>1. CASE Closes(q)
      BY <2>3, <2>5, <2>7, <3>1
    <3>2. CASE ~ Closes(q) /\ Unwraps(q)
      BY <2>2, <2>3, <2>5, <2>7, <3>2
    <3>3. CASE ~ Unwraps(q) /\ ~ Touched(q)
      <4>1. e = d
        BY <2>3, <2>5, <3>3 DEF Closes
      <4>2. Held(e.ata, SOL) = Held(wallet.ata, SOL) /\ (SOL \in DOMAIN e.ata <=> SOL \in DOMAIN wallet.ata)
        BY <1>8, <1>11, <2>2, <3>3, <4>1
      <4> QED BY <2>7, <4>2 DEF Held
    <3> QED BY <3>1, <3>2, <3>3 DEF Closes
  <2>15. Landed(e, q)
    <3> HIDE DEF w
    <3> DEFINE v == [lamports |-> e.lamports, ata |-> e.ata]
    <3>1. w = v
      BY DEF w
    <3>2. /\ IsWallet(v)
          /\ \A m \in Mints : Holding(v, m) >= Holding(wallet, m) - (IF m = from(q) THEN q.amount_in ELSE 0)
          /\ Holding(v, to(q)) + (Held(e.fee_atas, to(q)) - Held(fee_atas, to(q))) >= Holding(wallet, to(q)) + q.minimum_out
          /\ SOL \notin DOMAIN v.ata \/ (SOL \in DOMAIN wallet.ata /\ v.ata[SOL] = wallet.ata[SOL])
      BY <2>7, <2>10, <2>11, <2>12, <2>14, <3>1
    <3> HIDE DEF v
    <3> QED BY <2>6, <2>7, <2>13, <3>2 DEF Landed, v
  <2> QED BY <1>3, <2>15 DEF b
<1> QED BY <1>12, <1>14, <1>15

-----------------------------------------------------------------------------
(* Quotes                                                                   *)

\* A path visits distinct mints, and passes through bridges.
LEMMA PathShape ==
    ASSUME NEW path \in Paths
    PROVE  /\ path \in Seq(Mints) /\ Len(path) \in 2..4
           /\ \A i, j \in 1..Len(path) : i < j => path[i] # path[j]
           /\ \A i \in 2..Len(path) - 1 : path[i] \in Bridges
<1> DEFINE Ends == {p \in Mints \X Mints : p[1] # p[2]}
           Between(e) == Bridges \ {e[1], e[2]}
           Two == UNION {{<<e[1], b, e[2]>> : b \in Between(e)} : e \in Ends}
           Three == UNION {{<<e[1], b[1], b[2], e[2]>> :
                              b \in {c \in Between(e) \X Between(e) : c[1] # c[2]}} : e \in Ends}
<1>1. Bridges \subseteq Mints
  BY MintsAssumption
<1>2. CASE path \in Ends
  <2>1. PICK a \in Mints, b \in Mints : path = <<a, b>> /\ a # b
    BY <1>2
  <2> QED BY <2>1
<1>3. CASE \E e \in Ends : \E b \in Between(e) : path = <<e[1], b, e[2]>>
  <2>0. PICK e \in Ends : \E b \in Between(e) : path = <<e[1], b, e[2]>>
    BY <1>3
  <2>1. PICK b \in Between(e) : path = <<e[1], b, e[2]>>
    BY <2>0
  <2>2. PICK x \in Mints, y \in Mints : e = <<x, y>> /\ x # y
    BY <2>1
  <2>3. path = <<x, b, y>> /\ b \in Bridges /\ b \in Mints /\ b # x /\ b # y
    BY <1>1, <2>1, <2>2
  <2> QED BY <2>2, <2>3
<1>4. CASE \E e \in Ends : \E b \in {c \in Between(e) \X Between(e) : c[1] # c[2]} :
             path = <<e[1], b[1], b[2], e[2]>>
  <2>0. PICK e \in Ends : \E b \in {c \in Between(e) \X Between(e) : c[1] # c[2]} :
          path = <<e[1], b[1], b[2], e[2]>>
    BY <1>4
  <2>1. PICK b \in {c \in Between(e) \X Between(e) : c[1] # c[2]} : path = <<e[1], b[1], b[2], e[2]>>
    BY <2>0
  <2>2. PICK x \in Mints, y \in Mints : e = <<x, y>> /\ x # y
    BY <2>1
  <2>3. PICK b1 \in Between(e), b2 \in Between(e) : b = <<b1, b2>> /\ b1 # b2
    BY <2>1
  <2>4. /\ path = <<x, b1, b2, y>> /\ b1 \in Bridges /\ b1 \in Mints /\ b2 \in Bridges /\ b2 \in Mints
        /\ b1 # x /\ b1 # y /\ b2 # x /\ b2 # y
    BY <1>1, <2>1, <2>2, <2>3
  <2>5. x \in Mints /\ y \in Mints /\ x # y /\ b1 # b2
    BY <2>2, <2>3
  <2>6. /\ path \in Seq(Mints) /\ Len(path) = 4
        /\ path[1] = x /\ path[2] = b1 /\ path[3] = b2 /\ path[4] = y
    BY <2>4, <2>5
  <2> HIDE DEF Ends, Between
  <2>7. \A i, j \in 1..4 : i < j => path[i] # path[j]
    BY <2>4, <2>5, <2>6
  <2>8. \A i \in 2..3 : path[i] \in Bridges
    BY <2>4, <2>6
  <2> DEFINE l == Len(path)
  <2>9. l = 4 /\ path \in Seq(Mints)
    BY <2>6
  <2> HIDE DEF l
  <2>10. l \in 2..4 /\ l - 1 = 3
    BY <2>9
  <2>11. /\ \A i, j \in 1..l : i < j => path[i] # path[j]
         /\ \A i \in 2..l - 1 : path[i] \in Bridges
    BY <2>7, <2>8, <2>9, <2>10
  <2> QED BY <2>9, <2>10, <2>11, Zenon DEF l
<1>5. Paths = Ends \cup Two \cup Three
  BY DEF Paths
<1>6. path \in Two => \E e \in Ends : \E b \in Between(e) : path = <<e[1], b, e[2]>>
  OBVIOUS
<1>7. path \in Three => \E e \in Ends : \E b \in {c \in Between(e) \X Between(e) : c[1] # c[2]} :
             path = <<e[1], b[1], b[2], e[2]>>
  OBVIOUS
<1> HIDE DEF Ends, Between, Two, Three
<1> QED BY <1>2, <1>3, <1>4, <1>5, <1>6, <1>7

\* A pool on a path is of a venue the hop's mints allow, and its base is one of them.
LEMMA PoolShape ==
    ASSUME NEW path, NEW i, NEW p \in PoolsOf(path, i), path[i] # path[i + 1]
    PROVE  /\ p.venue \in AmmExecutorType /\ p.base \in {path[i], path[i + 1]}
           /\ p.venue = "PumpFun" => \/ path[i] = SOL /\ path[i + 1] \in Launched
                                     \/ path[i + 1] = SOL /\ path[i] \in Launched
           /\ p.venue = "Pumpup" => SOL \notin {path[i], path[i + 1]}
           /\ p.venue = "RaydiumLp" => p.base # SOL
<1> DEFINE in == path[i]
           out == path[i + 1]
           ways == VenuesOf(in, out) \X BOOLEAN
           W == IF Len(path) = 2 THEN ways ELSE ways \cap Routed
<1>1. PICK w \in W : p = [venue |-> w[1], base |-> IF w[2] THEN in ELSE out]
  BY DEF PoolsOf
<1>2. w \in ways
  OBVIOUS
<1>3. w[1] \in VenuesOf(in, out)
  BY <1>2
<1> HIDE DEF in, out
<1>4. p.venue = w[1] /\ p.base \in {in, out}
  BY <1>1
<1>5. p # [venue |-> "RaydiumLp", base |-> SOL]
  BY DEF PoolsOf
<1>6. p.venue = "RaydiumLp" => p.base # SOL
  <2>1. p = [venue |-> p.venue, base |-> p.base]
    BY <1>1
  <2> QED BY <1>5, <2>1
<1> QED BY <1>3, <1>4, <1>6 DEF VenuesOf, in, out

\* What RequestQuote hands out is a quote the builder can compile, and the wallet can pay.
LEMMA Quoted ==
    ASSUME RequestQuote
    PROVE  /\ QuoteOK(quote') /\ quote'.amount_in # 0
           /\ quote'.amount_in <= Spendable(wallet, from(quote'))
<1>1. PICK path \in Paths, amount \in Amounts, s \in Slippages :
        LET H == 1..Len(path) - 1 IN
        \E out \in [H -> 1..MaxOut], pool \in [H -> UNION {PoolsOf(path, i) : i \in H}] :
            /\ \A i \in H : pool[i] \in PoolsOf(path, i)
            /\ amount <= Spendable(wallet, path[1])
            /\ quote' = [hops |-> Hops(path, pool, out),
                         amount_in |-> amount,
                         slippage_bps |-> s,
                         minimum_out |-> compute_threshold(out[Len(path) - 1], s)]
  BY DEF RequestQuote
<1> DEFINE n == Len(path) - 1
           H == 1..n
<1>2. PICK out \in [H -> 1..MaxOut], pool \in [H -> UNION {PoolsOf(path, i) : i \in H}] :
            /\ \A i \in H : pool[i] \in PoolsOf(path, i)
            /\ amount <= Spendable(wallet, path[1])
            /\ quote' = [hops |-> Hops(path, pool, out),
                         amount_in |-> amount,
                         slippage_bps |-> s,
                         minimum_out |-> compute_threshold(out[Len(path) - 1], s)]
  BY <1>1
<1> DEFINE hops == Hops(path, pool, out)
           q == quote'
<1>3. /\ q.hops = hops /\ q.amount_in = amount /\ q.slippage_bps = s
      /\ q.minimum_out = compute_threshold(out[n], s)
  BY <1>2
<1>4. amount \in Nat /\ amount # 0 /\ s \in Nat
  <2>1. amount \in Amounts /\ s \in Slippages
    OBVIOUS
  <2>2. amount \in Nat /\ amount # 0
    BY <2>1, AmountsAssumption
  <2>3. s \in Nat
    BY <2>1, RatesAssumption
  <2> QED BY <2>2, <2>3
<1>5. /\ path \in Seq(Mints) /\ n \in 1..3 /\ Len(path) = n + 1
      /\ \A i, j \in 1..n + 1 : i < j => path[i] # path[j]
      /\ \A i \in 2..n : path[i] \in Bridges
      /\ \A i \in 1..n + 1 : path[i] \in Mints
  <2>1. /\ path \in Seq(Mints) /\ Len(path) \in 2..4
        /\ \A i, j \in 1..Len(path) : i < j => path[i] # path[j]
        /\ \A i \in 2..Len(path) - 1 : path[i] \in Bridges
    BY PathShape
  <2>2. n \in 1..3 /\ Len(path) = n + 1
    BY <2>1
  <2> QED BY <2>1, <2>2
<1>6. /\ hops = [i \in H |-> [venue |-> pool[i].venue, base |-> pool[i].base, in |-> path[i],
                              out |-> path[i + 1], amount_out |-> out[i]]]
  BY DEF Hops
<1> HIDE DEF n, hops, q
<1>7. Len(hops) = n /\ DOMAIN hops = 1..n
  BY <1>5, <1>6
<1>8. ASSUME NEW i \in 1..n
      PROVE  /\ hops[i].in = path[i] /\ hops[i].out = path[i + 1] /\ hops[i].amount_out = out[i]
             /\ hops[i] \in HopSet
             /\ hops[i].in # hops[i].out /\ hops[i].base \in {hops[i].in, hops[i].out}
             /\ hops[i].venue = "PumpFun" => \/ hops[i].in = SOL /\ hops[i].out \in Launched
                                             \/ hops[i].out = SOL /\ hops[i].in \in Launched
             /\ hops[i].venue = "Pumpup" => SOL \notin {hops[i].in, hops[i].out}
             /\ hops[i].venue = "RaydiumLp" => hops[i].base # SOL
    <2>1. i \in 1..n + 1 /\ i + 1 \in 1..n + 1 /\ i < i + 1
      BY <1>5
    <2>2. path[i] # path[i + 1] /\ path[i] \in Mints /\ path[i + 1] \in Mints
      BY <1>5, <2>1
    <2>3. pool[i] \in PoolsOf(path, i)
      BY <1>2 DEF n
    <2> DEFINE p == pool[i]
    <2>4. /\ p.venue \in AmmExecutorType /\ p.base \in {path[i], path[i + 1]}
          /\ p.venue = "PumpFun" => \/ path[i] = SOL /\ path[i + 1] \in Launched
                                    \/ path[i + 1] = SOL /\ path[i] \in Launched
          /\ p.venue = "Pumpup" => SOL \notin {path[i], path[i + 1]}
          /\ p.venue = "RaydiumLp" => p.base # SOL
      <3> HIDE DEF p
      <3>1. p \in PoolsOf(path, i)
        BY <2>3 DEF p
      <3> QED BY <2>2, <3>1, PoolShape
    <2>5. out[i] \in Nat
      BY <1>2, AmountsAssumption
    <2> DEFINE v == p.venue
               b == p.base
               x == path[i]
               y == path[i + 1]
               a == out[i]
    <2>6. hops[i] = [venue |-> v, base |-> b, in |-> x, out |-> y, amount_out |-> a]
      BY <1>6
    <2>7. v \in AmmExecutorType /\ b \in Mints /\ x \in Mints /\ y \in Mints /\ a \in Nat
      BY <2>2, <2>4, <2>5
    <2> HIDE DEF v, b, x, y, a, p
    <2>8. hops[i] \in HopSet
      BY <2>6, <2>7 DEF HopSet
    <2>9. hops[i].venue = v /\ hops[i].base = b /\ hops[i].in = x /\ hops[i].out = y /\ hops[i].amount_out = a
      BY <2>6
    <2> QED BY <2>2, <2>4, <2>8, <2>9 DEF v, b, x, y, a, p
<1>9. hops \in Seq(HopSet)
  <2>1. hops \in [1..n -> HopSet]
    BY <1>6, <1>8
  <2> QED BY <1>5, <2>1
<1>10. ASSUME NEW i \in 1..n, NEW j \in 1..n, i < j
       PROVE  /\ hops[i].out \in Bridges
              /\ hops[j].in \in Bridges
              /\ hops[i].in # hops[j].in /\ hops[i].in # hops[j].out
              /\ hops[i].out # hops[j].out
              /\ j = i + 1 => hops[i].out = hops[j].in
    <2>1. /\ hops[i].in = path[i] /\ hops[i].out = path[i + 1]
          /\ hops[j].in = path[j] /\ hops[j].out = path[j + 1]
      BY <1>8
    <2>2. /\ i \in 1..n + 1 /\ j \in 1..n + 1 /\ j + 1 \in 1..n + 1 /\ i + 1 \in 1..n + 1
          /\ i < j /\ i < j + 1 /\ i + 1 < j + 1 /\ i + 1 \in 2..n /\ j \in 2..n
      BY <1>5, <1>10
    <2> QED BY <1>5, <2>1, <2>2
<1>11. q.minimum_out = compute_threshold(hops[n].amount_out, s)
  <2>1. n \in 1..n
    BY <1>5
  <2>2. hops[n].amount_out = out[n]
    BY <1>8, <2>1
  <2> QED BY <1>3, <2>2
<1>12. QuoteOK(q)
  BY <1>3, <1>4, <1>5, <1>7, <1>8, <1>9, <1>10, <1>11 DEF QuoteOK
<1>13. from(q) = path[1]
  <2>1. 1 \in 1..n
    BY <1>5
  <2> QED BY <1>3, <1>8, <2>1 DEF from
<1> QED BY <1>2, <1>3, <1>4, <1>12, <1>13 DEF q

-----------------------------------------------------------------------------
(* The invariant                                                            *)

\* A quote is held that the builder can compile, and that can be paid until it lands.
QuoteInv ==
    /\ quote = NoQuote => tx = NoTx /\ outcome = "none"
    /\ quote # NoQuote => QuoteOK(quote) /\ quote.amount_in # 0
    /\ quote # NoQuote /\ outcome # "landed" => quote.amount_in <= Spendable(wallet, from(quote))

\* A transaction is what the builder makes of the quote, and it creates the
\* treasury's account unless that account is there.
TxInv ==
    tx # NoTx =>
        /\ outcome # "landed"
        /\ \E exists \in BOOLEAN :
            /\ tx = assemble_instructions(wrap_in_router(quote, build_swap_from_quote(quote), exists))
            /\ exists /\ fee_bps # 0 => to(quote) \in DOMAIN fee_atas

\* A transaction fails only because a pool moved.
OutcomeInv ==
    /\ outcome \in {"none", "landed", "slippage", "minimum", "zero"}
    /\ outcome = "zero" => Len(quote.hops) = 1

RouteInv ==
    /\ IsWallet(wallet) /\ IsLedger(fee_atas) /\ fee_bps \in 0..BasisPoints
    /\ known_fee_atas \subseteq DOMAIN fee_atas
    /\ QuoteInv /\ TxInv /\ OutcomeInv

\* What a wallet holds of a mint is a number.
LEMMA HoldingNat ==
    ASSUME NEW w, IsWallet(w), NEW m
    PROVE  Holding(w, m) \in Nat /\ w.lamports \in Nat
<1>1. w.lamports \in Nat /\ w.ata \in Ledgers
  BY LedgerSet DEF IsWallet
<1>2. Held(w.ata, m) \in Nat
  BY <1>1, HeldNat
<1>3. Holding(w, m) = Held(w.ata, m) + (IF m = SOL THEN w.lamports ELSE 0)
  BY DEF Holding, Held
<1> QED BY <1>1, <1>2, <1>3

\* What a transaction that lands does to the wallet and to the treasury.
Settles ==
    /\ outcome' = "landed" /\ IsWallet(wallet') /\ IsLedger(fee_atas') /\ DOMAIN fee_atas \subseteq DOMAIN fee_atas'
    /\ \A m \in Mints : Gain(m) >= IF m = from(quote) THEN -quote.amount_in ELSE 0
    /\ Gain(to(quote)) + Fee(to(quote)) >= quote.minimum_out
    /\ SOL \notin DOMAIN wallet'.ata \/ (SOL \in DOMAIN wallet.ata /\ wallet'.ata[SOL] = wallet.ata[SOL])

\* A transaction sent lands as promised, or a pool has moved and nothing changes.
LEMMA SendOutcome ==
    ASSUME RouteInv, SendTx
    PROVE  \/ Settles
           \/ /\ UNCHANGED <<wallet, fee_atas>>
              /\ outcome' \in {"slippage", "minimum", "zero"}
              /\ outcome' = "zero" => Len(quote.hops) = 1
<1>1. PICK outs \in [{quote.hops[i].out : i \in DOMAIN quote.hops} -> 0..MaxOut] :
        LET c == Execute(tx, outs)
        IN  IF c.err = "none"
            THEN /\ wallet' = [lamports |-> c.lamports, ata |-> c.ata]
                 /\ fee_atas' = c.fee_atas
                 /\ outcome' = "landed"
            ELSE /\ UNCHANGED <<wallet, fee_atas>>
                 /\ outcome' = c.err
  BY DEF SendTx
<1>2. PICK exists \in BOOLEAN :
        /\ tx = assemble_instructions(wrap_in_router(quote, build_swap_from_quote(quote), exists))
        /\ exists /\ fee_bps # 0 => to(quote) \in DOMAIN fee_atas
  BY DEF RouteInv, TxInv, SendTx
<1>3. /\ IsWallet(wallet) /\ IsLedger(fee_atas) /\ fee_bps \in 0..BasisPoints
      /\ QuoteOK(quote) /\ quote.amount_in # 0 /\ quote.amount_in <= Spendable(wallet, from(quote))
  BY DEF RouteInv, QuoteInv, TxInv, SendTx
<1> DEFINE q == quote
           e == Execute(assemble_instructions(wrap_in_router(q, build_swap_from_quote(q), exists)), outs)
<1>4. (Refused(e, q) /\ e.err # "none") \/ Landed(e, q)
  <2> HIDE DEF q
  <2>1. /\ QuoteOK(q) /\ q.amount_in # 0 /\ q.amount_in <= Spendable(wallet, from(q))
        /\ (exists /\ fee_bps # 0 => to(q) \in DOMAIN fee_atas)
        /\ outs \in [{q.hops[i].out : i \in DOMAIN q.hops} -> 0..MaxOut]
    BY <1>1, <1>2, <1>3 DEF q
  <2>2. exists \in BOOLEAN
    BY <1>2
  <2> QED BY <1>3, <2>1, <2>2, Transaction
<1>5. /\ e.err = "none" => /\ wallet' = [lamports |-> e.lamports, ata |-> e.ata]
                           /\ fee_atas' = e.fee_atas
                           /\ outcome' = "landed"
      /\ e.err # "none" => UNCHANGED <<wallet, fee_atas>> /\ outcome' = e.err
  BY <1>1, <1>2
<1> HIDE DEF e
<1>6. CASE Refused(e, q) /\ e.err # "none"
  BY <1>5, <1>6 DEF Refused, MovedRoute
<1>7. CASE Landed(e, q)
  <2> DEFINE w == [lamports |-> e.lamports, ata |-> e.ata]
  <2>1. /\ e.err = "none" /\ IsWallet(w) /\ IsLedger(e.fee_atas) /\ DOMAIN fee_atas \subseteq DOMAIN e.fee_atas
        /\ \A m \in Mints : Holding(w, m) >= Holding(wallet, m) - (IF m = from(q) THEN q.amount_in ELSE 0)
        /\ Holding(w, to(q)) + (Held(e.fee_atas, to(q)) - Held(fee_atas, to(q))) >= Holding(wallet, to(q)) + q.minimum_out
        /\ SOL \notin DOMAIN w.ata \/ (SOL \in DOMAIN wallet.ata /\ w.ata[SOL] = wallet.ata[SOL])
    BY <1>7 DEF Landed
  <2>2. wallet' = w /\ fee_atas' = e.fee_atas /\ outcome' = "landed"
    BY <1>5, <2>1
  <2> HIDE DEF w
  <2>3. \A m : Holding(wallet, m) \in Nat /\ Holding(w, m) \in Nat
    BY <1>3, <2>1, HoldingNat
  <2>4. Held(e.fee_atas, to(q)) \in Nat /\ Held(fee_atas, to(q)) \in Nat
    BY <1>3, <2>1, LedgerSet, HeldNat
  <2>5. q.amount_in \in Nat /\ q.minimum_out \in Nat
    BY <1>3, MinimumOut DEF QuoteOK
  <2>6. \A m : Gain(m) = Holding(w, m) - Holding(wallet, m)
    BY <2>2 DEF Gain
  <2>7. Fee(to(q)) = Held(e.fee_atas, to(q)) - Held(fee_atas, to(q))
    BY <2>2 DEF Fee, Held
  <2>8. ASSUME NEW m \in Mints
        PROVE  Gain(m) >= IF m = from(q) THEN -q.amount_in ELSE 0
    <3>1. Holding(w, m) >= Holding(wallet, m) - (IF m = from(q) THEN q.amount_in ELSE 0)
      BY <2>1
    <3> QED BY <2>3, <2>5, <2>6, <3>1
  <2>9. Gain(to(q)) + Fee(to(q)) >= q.minimum_out
    BY <2>1, <2>3, <2>4, <2>5, <2>6, <2>7
  <2>10. /\ IsWallet(wallet') /\ IsLedger(fee_atas') /\ DOMAIN fee_atas \subseteq DOMAIN fee_atas'
         /\ SOL \notin DOMAIN wallet'.ata \/ (SOL \in DOMAIN wallet.ata /\ wallet'.ata[SOL] = wallet.ata[SOL])
    BY <2>1, <2>2
  <2> QED BY <2>2, <2>8, <2>9, <2>10 DEF Settles, q
<1> QED BY <1>4, <1>6, <1>7

\* Initially and after every step, what the caller holds can be used.
LEMMA RouteInit ==
    ASSUME Init
    PROVE  RouteInv
<1>1. IsWallet(wallet)
  BY WalletsAssumption DEF Init
<1>2. IsLedger(fee_atas)
  BY DEF Init, IsLedger
<1>3. fee_bps \in 0..BasisPoints
  BY RatesAssumption DEF Init
<1> QED BY <1>1, <1>2, <1>3 DEF Init, RouteInv, QuoteInv, TxInv, OutcomeInv

\* Every step keeps what the caller holds usable.
LEMMA RouteNext ==
    ASSUME RouteInv, [Next]_vars
    PROVE  RouteInv'
<1> USE DEF RouteInv
<1>1. CASE RequestQuote
  <2>1. /\ UNCHANGED <<wallet, fee_atas, known_fee_atas, fee_bps, tx, outcome>>
        /\ tx = NoTx /\ outcome = "none"
    BY <1>1 DEF RequestQuote, QuoteInv
  <2>2. QuoteOK(quote') /\ quote'.amount_in # 0 /\ quote'.amount_in <= Spendable(wallet, from(quote'))
    BY <1>1, Quoted
  <2>3. QuoteInv'
    BY <2>1, <2>2 DEF QuoteInv
  <2>4. TxInv' /\ OutcomeInv'
    BY <2>1 DEF TxInv, OutcomeInv
  <2> QED BY <2>1, <2>3, <2>4
<1>2. CASE BuildSwap
  <2>1. PICK answered \in BOOLEAN :
        LET exists == fee_bps # 0 /\ fee_ata_exists(to(quote), answered)
        IN  /\ tx' = assemble_instructions(wrap_in_router(quote, build_swap_from_quote(quote), exists))
            /\ known_fee_atas' = known_fee_atas \cup (IF exists THEN {to(quote)} ELSE {})
    BY <1>2 DEF BuildSwap
  <2> DEFINE exists == fee_bps # 0 /\ fee_ata_exists(to(quote), answered)
  <2>2. /\ tx' = assemble_instructions(wrap_in_router(quote, build_swap_from_quote(quote), exists))
        /\ known_fee_atas' = known_fee_atas \cup (IF exists THEN {to(quote)} ELSE {})
    BY <2>1
  <2>3. exists \in BOOLEAN /\ (exists => to(quote) \in DOMAIN fee_atas)
    BY DEF fee_ata_exists
  <2> HIDE DEF exists
  <2>4. UNCHANGED <<wallet, fee_atas, fee_bps, quote, outcome>> /\ outcome # "landed" /\ quote # NoQuote
    BY <1>2 DEF BuildSwap
  <2>5. known_fee_atas' \subseteq DOMAIN fee_atas'
    BY <2>2, <2>3, <2>4
  <2>6. QuoteInv' /\ OutcomeInv'
    BY <2>4 DEF QuoteInv, OutcomeInv
  <2>7. TxInv'
    <3>1. PICK x \in BOOLEAN : x = exists
      BY <2>3
    <3>2. /\ tx' = assemble_instructions(wrap_in_router(quote, build_swap_from_quote(quote), x))
          /\ x => to(quote) \in DOMAIN fee_atas
      BY <2>2, <2>3, <3>1
    <3>3. tx' = (assemble_instructions(wrap_in_router(quote, build_swap_from_quote(quote), x)))'
      BY <2>4, <3>2 DEF wrap_in_router
    <3> QED BY <2>4, <3>2, <3>3 DEF TxInv
  <2> QED BY <2>4, <2>5, <2>6, <2>7
<1>3. CASE AbandonTx
  <2>1. UNCHANGED <<wallet, fee_atas, known_fee_atas, fee_bps, quote, outcome>> /\ tx' = NoTx
    BY <1>3 DEF AbandonTx
  <2>2. QuoteInv' /\ TxInv' /\ OutcomeInv'
    BY <2>1 DEF QuoteInv, TxInv, OutcomeInv
  <2> QED BY <2>1, <2>2
<1>4. CASE SendTx
  <2>1. tx' = NoTx /\ UNCHANGED <<known_fee_atas, fee_bps, quote>> /\ tx # NoTx
    BY <1>4 DEF SendTx
  <2>2. quote # NoQuote /\ outcome # "landed"
    BY <2>1 DEF QuoteInv, TxInv
  <2>3. TxInv'
    BY <2>1 DEF TxInv
  <2>4. CASE Settles
    <3>1. /\ outcome' = "landed" /\ IsWallet(wallet') /\ IsLedger(fee_atas')
          /\ DOMAIN fee_atas \subseteq DOMAIN fee_atas'
      BY <2>4 DEF Settles
    <3>2. QuoteInv' /\ OutcomeInv'
      BY <2>1, <2>2, <3>1 DEF QuoteInv, OutcomeInv
    <3> QED BY <2>1, <2>3, <3>1, <3>2
  <2>5. CASE /\ UNCHANGED <<wallet, fee_atas>>
             /\ outcome' \in {"slippage", "minimum", "zero"}
             /\ outcome' = "zero" => Len(quote.hops) = 1
    <3>1. QuoteInv' /\ OutcomeInv'
      BY <2>1, <2>2, <2>5 DEF QuoteInv, OutcomeInv
    <3> QED BY <2>1, <2>3, <2>5, <3>1
  <2> QED BY <1>4, <2>4, <2>5, SendOutcome
<1>5. CASE OtherSwapLands
  <2>1. /\ UNCHANGED <<wallet, known_fee_atas, fee_bps, quote, tx, outcome>>
        /\ fee_atas' = Credit(fee_atas, to(quote), 0) /\ quote # NoQuote
    BY <1>5 DEF OtherSwapLands
  <2>2. to(quote) \in Mints
    BY <2>1, Path DEF QuoteInv
  <2>3. fee_atas' \in Ledgers /\ DOMAIN fee_atas' = DOMAIN fee_atas \cup {to(quote)}
    <3>1. fee_atas \in Ledgers
      BY LedgerSet
    <3> QED BY <2>1, <2>2, <3>1, CreditLedger
  <2>4. IsLedger(fee_atas') /\ known_fee_atas' \subseteq DOMAIN fee_atas'
    BY <2>1, <2>3, LedgerSet
  <2>5. QuoteInv' /\ OutcomeInv'
    BY <2>1 DEF QuoteInv, OutcomeInv
  <2>6. TxInv'
    <3>1. SUFFICES ASSUME tx # NoTx PROVE TxInv'
      BY <2>1 DEF TxInv
    <3>2. PICK exists \in BOOLEAN :
            /\ tx = assemble_instructions(wrap_in_router(quote, build_swap_from_quote(quote), exists))
            /\ exists /\ fee_bps # 0 => to(quote) \in DOMAIN fee_atas
      BY <3>1 DEF TxInv
    <3>3. exists /\ fee_bps # 0 => to(quote') \in DOMAIN fee_atas'
      BY <2>1, <2>3, <3>2
    <3>4. tx' = (assemble_instructions(wrap_in_router(quote, build_swap_from_quote(quote), exists)))'
      BY <2>1, <3>2 DEF wrap_in_router
    <3> QED BY <2>1, <3>1, <3>2, <3>3, <3>4 DEF TxInv
  <2> QED BY <2>1, <2>4, <2>5, <2>6
<1>6. CASE UNCHANGED vars
  BY <1>6 DEF vars, QuoteInv, TxInv, OutcomeInv, wrap_in_router
<1> QED BY <1>1, <1>2, <1>3, <1>4, <1>5, <1>6 DEF Next

\* In every state the caller holds a quote that can be compiled and paid, a
\* transaction that is the one the builder makes of it, and an outcome that only
\* the market explains (api/swap.rs).
THEOREM RouteInvariant == Spec => []RouteInv
<1> QED BY RouteInit, RouteNext, PTL DEF Spec

\* No hop, transfer or close ever finds less than the builder assumed, whatever
\* the mints, wallets, routes, venues, slippages and fees (api/swap.rs tidy_multihop,
\* hop_floor, unwrap_for_native_sol_hop).
THEOREM NeverStarvedHolds == Spec => []NeverStarved
<1>1. RouteInv => NeverStarved
  BY DEF RouteInv, OutcomeInv, NeverStarved
<1> QED BY <1>1, RouteInvariant, PTL

\* No hop inside a route asks its venue for a floor of 0, whatever was quoted
\* (api/swap.rs hop_floor).
THEOREM HopsKeepFloorHolds == Spec => []HopsKeepFloor
<1>1. RouteInv => HopsKeepFloor
  BY DEF RouteInv, OutcomeInv, HopsKeepFloor
<1> QED BY <1>1, RouteInvariant, PTL

\* The treasury account is there when the router pays into it, however many
\* transactions were built and never sent (api/swap.rs wrap_in_router).
THEOREM FeesCollectableHolds == Spec => []FeesCollectable
<1>1. RouteInv => FeesCollectable
  BY DEF RouteInv, OutcomeInv, FeesCollectable
<1> QED BY <1>1, RouteInvariant, PTL

\* Only a transaction sent lands.
LEMMA LandsSettles ==
    ASSUME RouteInv, Next, Lands
    PROVE  SendTx /\ Settles
<1>1. ASSUME RequestQuote PROVE FALSE
  BY <1>1 DEF RouteInv, QuoteInv, RequestQuote, Lands
<1>2. ASSUME BuildSwap PROVE FALSE
  BY <1>2 DEF BuildSwap, Lands
<1>3. ASSUME AbandonTx PROVE FALSE
  BY <1>3 DEF RouteInv, TxInv, AbandonTx, Lands
<1>4. ASSUME OtherSwapLands PROVE FALSE
  BY <1>4 DEF OtherSwapLands, Lands
<1>5. SendTx
  BY <1>1, <1>2, <1>3, <1>4 DEF Next
<1> QED BY <1>5, SendOutcome DEF Lands

\* A swap that lands brings the quoted output less the slippage, of which the
\* treasury may have its share (quote/types.rs compute_threshold, execution/router.rs).
THEOREM SwapsLandWithinSlippage == Spec => LandedWithinSlippage
<1> DEFINE Within == (Gain(to(quote)) + Fee(to(quote)) + 1) * BasisPoints
                         > Last(quote.hops).amount_out * (BasisPoints - quote.slippage_bps)
<1>1. ASSUME RouteInv, Next, Lands
      PROVE  Within
  <2>1. Settles /\ QuoteOK(quote)
    BY <1>1, LandsSettles DEF RouteInv, QuoteInv, Lands
  <2>2. IsWallet(wallet) /\ IsLedger(fee_atas) /\ IsWallet(wallet') /\ IsLedger(fee_atas')
    BY <1>1, <2>1 DEF RouteInv, Settles
  <2> DEFINE m == to(quote)
             g == Gain(m)
             f == Fee(m)
             n == quote.minimum_out
             z == Last(quote.hops).amount_out * (BasisPoints - quote.slippage_bps)
  <2>3. g \in Int
    <3> HIDE DEF m
    <3>1. Holding(wallet', m) \in Nat /\ Holding(wallet, m) \in Nat
      BY <2>2, HoldingNat
    <3> QED BY <3>1 DEF Gain
  <2>4. f \in Int
    <3> HIDE DEF m
    <3>1. Held(fee_atas', m) \in Nat /\ Held(fee_atas, m) \in Nat
      BY <2>2, LedgerSet, HeldNat
    <3> QED BY <3>1 DEF Fee, Held
  <2>5. g + f >= n /\ n \in Nat /\ (n + 1) * BasisPoints > z
    BY <2>1, MinimumOut DEF Settles
  <2>6. z \in Int
    <3>1. Last(quote.hops).amount_out \in Nat /\ quote.slippage_bps \in Nat
      BY <2>1, MinimumOut DEF QuoteOK
    <3> QED BY <3>1 DEF BasisPoints
  <2> HIDE DEF g, f, n, z
  <2>7. (g + f + 1) * BasisPoints > z
    BY <2>3, <2>4, <2>5, <2>6 DEF BasisPoints
  <2> QED BY <2>7 DEF g, f, z
<1>2. RouteInv /\ [Next]_vars => [Lands => Within]_vars
  BY <1>1
<1> QED BY <1>2, RouteInvariant, PTL DEF Spec, LandedWithinSlippage

\* A swap that lands takes nothing but its input from the wallet (api/swap.rs).
THEOREM SwapsSpendOnlyInput == Spec => SpendsOnlyInput
<1>1. RouteInv /\ [Next]_vars
        => [Lands => \A m \in Mints : Gain(m) >= IF m = from(quote) THEN -quote.amount_in ELSE 0]_vars
  BY LandsSettles DEF Settles
<1> QED BY <1>1, RouteInvariant, PTL DEF Spec, SpendsOnlyInput

\* A swap that lands leaves the wallet's WSOL account closed or as it was
\* (drop_wsol_close, the executors' cleanup).
THEOREM SwapsLeaveNoWsol == Spec => NoWsolResidue
<1>1. RouteInv /\ [Next]_vars
        => [Lands => \/ SOL \notin DOMAIN wallet'.ata
                     \/ SOL \in DOMAIN wallet.ata /\ wallet'.ata[SOL] = wallet.ata[SOL]]_vars
  BY LandsSettles DEF Settles
<1> QED BY <1>1, RouteInvariant, PTL DEF Spec, NoWsolResidue
=============================================================================

--------------------------- MODULE SessionsProofs ---------------------------
(***************************************************************************)
(* For any number of processes, turns and any sizes, budget and times to    *)
(* live: what a reader of a session sees is only ever extended, an append   *)
(* is refused only for a concurrent one, and a context holds the newest     *)
(* turns of its session.                                                    *)
(***************************************************************************)
EXTENDS Sessions, FiniteSetTheorems, SequenceTheorems, WellFoundedInduction, TLAPS

(* Every nonempty set of natural numbers has a least element. *)
LEMMA LeastExists ==
  ASSUME NEW T, T \subseteq Nat, T # {}
  PROVE  \E x \in T : \A y \in T : x <= y
<1> DEFINE R == OpToRel(<, Nat)
<1>1. IsWellFoundedOn(R, Nat)
  BY NatLessThanWellFounded
<1>2. \A y, x \in Nat : y < x => <<y, x>> \in R
  BY Zenon DEF OpToRel
<1> HIDE DEF R
<1>3. PICK x \in T : \A y \in T : ~(<<y, x>> \in R)
  BY <1>1, WFMin, Zenon
<1>4. ASSUME NEW y \in T PROVE x <= y
  <2>1. x \in Nat /\ y \in Nat
    OBVIOUS
  <2>2. ~(y < x)
    BY <1>2, <1>3, <2>1, Zenon
  <2> QED BY <2>1, <2>2
<1> QED BY <1>4

-----------------------------------------------------------------------------
(* The order of a history.                                                  *)

(* The rank orders a set of rows as their indexes do, and fills 1..n. *)
LEMMA RankOrders ==
  ASSUME NEW some, IsFiniteSet(some),
         \A r \in some : r.index \in Nat,
         \A r, q \in some : r.index = q.index => r = q
  PROVE  /\ \A r \in some : Rank(some, r) \in 1..Cardinality(some)
         /\ \A r, q \in some : r.index < q.index <=> Rank(some, r) < Rank(some, q)
         /\ \A n \in 1..Cardinality(some) : \E r \in some : Rank(some, r) = n
<1> DEFINE Upto(r) == {q \in some : q.index <= r.index}
<1>1. \A r \in some :
        /\ IsFiniteSet(Upto(r)) /\ Cardinality(Upto(r)) \in Nat
        /\ Cardinality(Upto(r)) <= Cardinality(some)
  BY FS_Subset, FS_CardinalityType
<1>2. ASSUME NEW r \in some PROVE Rank(some, r) \in 1..Cardinality(some)
  <2>1. r \in Upto(r)
    OBVIOUS
  <2>2. Cardinality(Upto(r)) # 0
    BY <2>1, <1>1, FS_EmptySet
  <2> QED BY <1>1, <2>2, FS_CardinalityType DEF Rank
<1>3. ASSUME NEW r \in some, NEW q \in some, r.index < q.index
      PROVE  Rank(some, r) < Rank(some, q)
  <2>1. Upto(r) \in SUBSET Upto(q)
    <3> SUFFICES ASSUME NEW p \in Upto(r) PROVE p \in Upto(q)
      OBVIOUS
    <3>1. p.index \in Nat /\ r.index \in Nat /\ q.index \in Nat
      OBVIOUS
    <3> QED BY <1>3, <3>1
  <2>2. q \in Upto(q) /\ q \notin Upto(r)
    BY <1>3
  <2> HIDE DEF Upto
  <2>3. Cardinality(Upto(r)) <= Cardinality(Upto(q)) /\ Cardinality(Upto(r)) # Cardinality(Upto(q))
    BY <1>1, <2>1, <2>2, FS_Subset
  <2>4. Cardinality(Upto(r)) < Cardinality(Upto(q))
    BY <1>1, <2>3
  <2> QED BY <2>4 DEF Rank, Upto
<1>4. ASSUME NEW r \in some, NEW q \in some
      PROVE  r.index < q.index <=> Rank(some, r) < Rank(some, q)
  <2>1. Rank(some, r) \in Nat /\ Rank(some, q) \in Nat
    BY <1>2
  <2>2. r.index = q.index => Rank(some, r) = Rank(some, q)
    BY DEF Rank
  <2>3. q.index < r.index => Rank(some, q) < Rank(some, r)
    BY <1>3
  <2>4. r.index < q.index \/ r.index = q.index \/ q.index < r.index
    OBVIOUS
  <2> QED BY <1>3, <2>1, <2>2, <2>3, <2>4
<1>5. ASSUME NEW n \in 1..Cardinality(some) PROVE \E r \in some : Rank(some, r) = n
  <2> DEFINE f == [r \in some |-> Rank(some, r)]
             N == 1..Cardinality(some)
  <2>1. f \in [some -> N]
    BY <1>2
  <2>2. \A r, q \in some : f[r] = f[q] => r = q
    <3> SUFFICES ASSUME NEW r \in some, NEW q \in some, Rank(some, r) = Rank(some, q)
                 PROVE  r.index = q.index
      OBVIOUS
    <3>1. Rank(some, r) \in Nat /\ Rank(some, q) \in Nat /\ r.index \in Nat /\ q.index \in Nat
      BY <1>2
    <3> QED BY <3>1, <1>4
  <2>3. f \in Injection(some, N)
    BY <2>1, <2>2 DEF Injection, IsInjective
  <2>4. Cardinality(some) \in Nat
    BY FS_CardinalityType
  <2>5. IsFiniteSet(N) /\ Cardinality(N) = Cardinality(some)
    BY <2>4, FS_Interval
  <2> HIDE DEF f, N
  <2>6. f \in Surjection(some, N)
    BY <2>3, <2>5, FS_Injection
  <2> QED BY <2>6 DEF Surjection, f, N
<1> QED BY <1>2, <1>4, <1>5

(* ORDER BY turn_index: every row once, in the order of the indexes. *)
LEMMA ByIndexSorts ==
  ASSUME NEW some, IsFiniteSet(some),
         \A r \in some : r.index \in Nat,
         \A r, q \in some : r.index = q.index => r = q
  PROVE  /\ Cardinality(some) \in Nat
         /\ ByIndex(some) \in [1..Cardinality(some) -> some]
         /\ \A m, n \in 1..Cardinality(some) :
              ByIndex(some)[m].index < ByIndex(some)[n].index => m < n
         /\ \A m, n \in 1..Cardinality(some) :
              m < n => ByIndex(some)[m].index < ByIndex(some)[n].index
         /\ \A r \in some : \E n \in 1..Cardinality(some) : ByIndex(some)[n] = r
<1> DEFINE s == ByIndex(some)
           N == 1..Cardinality(some)
<1>1. Cardinality(some) \in Nat
  BY FS_CardinalityType
<1>2. ASSUME NEW n \in N PROVE s[n] \in some /\ Rank(some, s[n]) = n
  <2>1. \E r \in some : Rank(some, r) = n
    BY RankOrders
  <2>2. s[n] = CHOOSE r \in some : Rank(some, r) = n
    BY DEF ByIndex
  <2> HIDE DEF s
  <2> QED BY <2>1, <2>2
<1>3. s \in [N -> some]
  BY <1>2 DEF ByIndex
<1>4. \A m, n \in N : s[m].index < s[n].index <=> m < n
  BY <1>2, RankOrders
<1>5. ASSUME NEW r \in some PROVE \E n \in N : s[n] = r
  <2>1. Rank(some, r) \in N
    BY RankOrders
  <2>2. s[Rank(some, r)] \in some /\ Rank(some, s[Rank(some, r)]) = Rank(some, r)
    BY <1>2, <2>1
  <2>3. s[Rank(some, r)].index = r.index
    <3>1. /\ ~(s[Rank(some, r)].index < r.index)
          /\ ~(r.index < s[Rank(some, r)].index)
      BY <2>1, <2>2, RankOrders
    <3> HIDE DEF s
    <3> QED BY <2>2, <3>1
  <2> HIDE DEF s
  <2> QED BY <2>1, <2>2, <2>3
<1> QED BY <1>1, <1>3, <1>4, <1>5

-----------------------------------------------------------------------------
(* What fits.                                                               *)

Turns == [id : Nat, turn : TurnIds \union {"none"}, tokens : Tokens]

(* The sum that TokensOf is defined by exists up to every turn. *)
LEMMA SumsExist ==
  ASSUME NEW turns \in Seq(Turns), NEW n \in 0..Len(turns)
  PROVE  \E f \in [0..n -> Nat] :
           \A k \in 0..n : f[k] = IF k = 0 THEN HeadTokens ELSE f[k - 1] + turns[k].tokens
<1> DEFINE Sums(m) ==
      \E f \in [0..m -> Nat] :
        \A k \in 0..m : f[k] = IF k = 0 THEN HeadTokens ELSE f[k - 1] + turns[k].tokens
    Bad == {m \in 0..Len(turns) : ~Sums(m)}
<1> USE SessionsAssumption
<1>1. ASSUME NEW k \in 1..Len(turns) PROVE turns[k].tokens \in Nat
  <2>1. turns[k] \in Turns
    BY ElementOfSeq
  <2> QED BY <2>1 DEF Turns
<1>2. Sums(0)
  <2> DEFINE f == [k \in 0..0 |-> HeadTokens]
  <2>1. f \in [0..0 -> Nat] /\ \A k \in 0..0 : k = 0 /\ f[k] = HeadTokens
    OBVIOUS
  <2> QED BY <2>1
<1>3. ASSUME NEW m \in 1..Len(turns), Sums(m - 1) PROVE Sums(m)
  <2>1. PICK f \in [0..(m - 1) -> Nat] :
          \A k \in 0..(m - 1) :
            f[k] = IF k = 0 THEN HeadTokens ELSE f[k - 1] + turns[k].tokens
    BY <1>3
  <2> DEFINE g == [k \in 0..m |-> IF k = m THEN f[m - 1] + turns[m].tokens ELSE f[k]]
  <2>2. m - 1 \in 0..(m - 1) /\ \A k \in 0..m : k # m => k \in 0..(m - 1)
    OBVIOUS
  <2>3. g \in [0..m -> Nat]
    BY <1>1, <2>1, <2>2
  <2>4. ASSUME NEW k \in 0..m
        PROVE  g[k] = IF k = 0 THEN HeadTokens ELSE g[k - 1] + turns[k].tokens
    <3>1. CASE k = m
      <4>1. g[m] = f[m - 1] + turns[m].tokens /\ g[m - 1] = f[m - 1] /\ m # 0
        OBVIOUS
      <4> QED BY <3>1, <4>1
    <3>2. CASE k # m
      <4>1. g[k] = f[k] /\ (k # 0 => g[k - 1] = f[k - 1])
        BY <3>2
      <4> QED BY <2>1, <2>2, <3>2, <4>1
    <3> QED BY <3>1, <3>2
  <2> QED BY <2>3, <2>4
<1> HIDE DEF Sums
<1>4. CASE Bad = {}
  BY <1>4 DEF Sums
<1>5. CASE Bad # {}
  <2>1. PICK m \in Bad : \A b \in Bad : m <= b
    <3>1. Bad \subseteq Nat
      BY LenProperties
    <3> QED BY <1>5, <3>1, LeastExists
  <2>2. m # 0 /\ m \in 0..Len(turns) /\ ~Sums(m)
    BY <1>2
  <2>3. m \in 1..Len(turns) /\ m - 1 \in 0..Len(turns) /\ m - 1 \notin Bad
    BY <2>1, <2>2, LenProperties
  <2> QED BY <1>3, <2>2, <2>3
<1> QED BY <1>4, <1>5

(* The estimate of a prompt is a number. *)
LEMMA TokensOfType ==
  ASSUME NEW turns \in Seq(Turns)
  PROVE  TokensOf(turns) \in Nat
<1> DEFINE Def(f, k) == IF k = 0 THEN HeadTokens ELSE f[k - 1] + turns[k].tokens
           upto == CHOOSE f : f = [k \in 0..Len(turns) |-> Def(f, k)]
<1>1. Len(turns) \in Nat
  BY LenProperties
<1>2. PICK f \in [0..Len(turns) -> Nat] : \A k \in 0..Len(turns) : f[k] = Def(f, k)
  BY <1>1, SumsExist
<1>3. f = [k \in 0..Len(turns) |-> Def(f, k)]
  <2> HIDE DEF Def
  <2> QED BY <1>2
<1>4. upto = [k \in 0..Len(turns) |-> Def(upto, k)]
  <2> HIDE DEF Def
  <2> QED BY <1>3
<1>5. TokensOf(turns) = upto[Len(turns)]
  BY DEF TokensOf
<1> DEFINE Bad == {k \in 0..Len(turns) : upto[k] \notin Nat}
<1>6. \A k \in 0..Len(turns) : upto[k] = Def(upto, k)
  <2> HIDE DEF upto, Def
  <2> QED BY <1>4
<1> HIDE DEF upto
<1>7. CASE Bad # {}
  <2>1. Bad \subseteq Nat
    OBVIOUS
  <2> HIDE DEF Bad
  <2>2. PICK k \in Bad : \A b \in Bad : k <= b
    BY <1>7, <2>1, LeastExists
  <2> USE DEF Bad
  <2>3. k # 0
    BY <1>6, SessionsAssumption
  <2>4. k - 1 \in 0..Len(turns) /\ k - 1 \notin Bad
    BY <1>1, <2>2, <2>3
  <2>5. turns[k].tokens \in Nat
    BY <2>3, ElementOfSeq, SessionsAssumption DEF Turns
  <2> QED BY <1>6, <2>3, <2>4, <2>5
<1> QED BY <1>1, <1>5, <1>7

(* Dropping is taking a suffix. *)
LEMMA DroppedSuffix ==
  ASSUME NEW turns \in Seq(Turns), NEW k \in 0..Len(turns)
  PROVE  /\ Dropped(turns, k) \in Seq(Turns)
         /\ Len(Dropped(turns, k)) = Len(turns) - k
         /\ \A i \in 1..(Len(turns) - k) : Dropped(turns, k)[i] = turns[k + i]
<1>1. Len(turns) \in Nat /\ \A i \in (k + 1)..Len(turns) : turns[i] \in Turns
  BY LenProperties, ElementOfSeq
<1>2. k + 1 \in Int /\ Len(turns) \in Int
  BY <1>1
<1> QED BY <1>1, <1>2, SubSeqProperties, Z3 DEF Dropped

LEMMA DroppedTwice ==
  ASSUME NEW turns \in Seq(Turns), NEW k \in 0..Len(turns), NEW m \in 0..(Len(turns) - k)
  PROVE  Dropped(Dropped(turns, k), m) = Dropped(turns, k + m)
<1> DEFINE a == Dropped(Dropped(turns, k), m)
           b == Dropped(turns, k + m)
<1>1. Len(turns) \in Nat /\ k + m \in 0..Len(turns)
  BY LenProperties
<1>2. Dropped(turns, k) \in Seq(Turns) /\ Len(Dropped(turns, k)) = Len(turns) - k
  BY DroppedSuffix
<1>3. /\ a \in Seq(Turns) /\ b \in Seq(Turns)
      /\ Len(a) = Len(turns) - k - m /\ Len(b) = Len(turns) - (k + m)
  BY <1>1, <1>2, DroppedSuffix
<1>4. ASSUME NEW i \in 1..Len(a) PROVE a[i] = b[i]
  <2>1. a[i] = Dropped(turns, k)[m + i]
    BY <1>2, <1>3, DroppedSuffix
  <2>2. Dropped(turns, k)[m + i] = turns[k + (m + i)]
    BY <1>1, <1>3, DroppedSuffix
  <2>3. b[i] = turns[(k + m) + i]
    BY <1>1, <1>3, DroppedSuffix
  <2> QED BY <1>1, <2>1, <2>2, <2>3
<1> HIDE DEF a, b
<1>5. a = b
  BY <1>1, <1>3, <1>4, SeqEqual
<1> QED BY <1>5 DEF a, b

(* The loop of _compact drops as few turns as it can. *)
LEMMA CompactDrops ==
  ASSUME NEW turns \in Seq(Turns)
  PROVE  \E k \in 0..Len(turns) :
           /\ Compact(turns) = Dropped(turns, k)
           /\ k < Len(turns) => TokensOf(Dropped(turns, k)) <= Budget
           /\ k > 0 => TokensOf(Dropped(turns, k - 1)) > Budget
<1> DEFINE L == Len(turns)
           TooLong(k) == TokensOf(Dropped(turns, k)) > Budget
           Stops(k) == {m \in k..L : m = L \/ ~TooLong(m)}
           First(k) == CHOOSE m \in Stops(k) : \A n \in Stops(k) : m <= n
           Def(f, k) == IF k < L /\ TooLong(k) THEN f[k + 1] ELSE k
           pops == CHOOSE f : f = [k \in 0..L |-> Def(f, k)]
<1>1. L \in Nat
  BY LenProperties
<1> HIDE DEF TooLong, L
<1>2. ASSUME NEW k \in 0..L
      PROVE  First(k) \in Stops(k) /\ \A n \in Stops(k) : First(k) <= n
  <2>1. Stops(k) \subseteq Nat /\ L \in Stops(k)
    BY <1>1
  <2> HIDE DEF Stops
  <2>2. \E m \in Stops(k) : \A n \in Stops(k) : m <= n
    BY <2>1, LeastExists
  <2> QED BY <2>2
<1> HIDE DEF First
<1> DEFINE g == [k \in 0..L |-> First(k)]
<1>3. ASSUME NEW k \in 0..L PROVE g[k] = Def(g, k)
  <2>1. CASE k < L /\ TooLong(k)
    <3>1. k + 1 \in 0..L /\ Stops(k) = Stops(k + 1)
      BY <1>1, <2>1
    <3>2. First(k) = First(k + 1)
      <4> HIDE DEF Stops
      <4> QED BY <3>1 DEF First
    <3> QED BY <2>1, <3>1, <3>2
  <2>2. CASE ~(k < L /\ TooLong(k))
    <3>1. k \in Stops(k) /\ \A n \in Stops(k) : k <= n
      BY <1>1, <2>2
    <3>2. First(k) \in Nat /\ First(k) <= k /\ k <= First(k)
      BY <1>1, <1>2, <3>1
    <3> QED BY <2>2, <3>2
  <2> QED BY <2>1, <2>2
<1>4. g = [k \in 0..L |-> Def(g, k)]
  <2> HIDE DEF Def
  <2> QED BY <1>3
<1>5. pops = [k \in 0..L |-> Def(pops, k)]
  <2> HIDE DEF Def, g
  <2> QED BY <1>4
<1>6. \A k \in 0..L : pops[k] = Def(pops, k)
  <2> HIDE DEF Def, pops
  <2> QED BY <1>5
<1>7. Compact(turns) = Dropped(turns, pops[0])
  BY DEF Compact, L, TooLong
<1> HIDE DEF pops
<1> DEFINE p == First(0)
           Bad == {n \in 0..p : pops[p - n] # p}
<1>8. /\ p \in 0..L
      /\ p = L \/ ~TooLong(p)
      /\ \A k \in 0..L : k < p => TooLong(k)
  BY <1>1, <1>2
<1> HIDE DEF p
<1>9. Bad = {}
  <2> SUFFICES ASSUME Bad # {} PROVE FALSE
    OBVIOUS
  <2>1. Bad \subseteq Nat
    OBVIOUS
  <2> HIDE DEF Bad
  <2>2. PICK n \in Bad : \A b \in Bad : n <= b
    BY <2>1, LeastExists
  <2> USE DEF Bad
  <2>3. n # 0
    BY <1>1, <1>6, <1>8
  <2>4. n - 1 \in 0..p /\ n - 1 \notin Bad
    BY <1>1, <1>8, <2>2, <2>3
  <2>5. pops[p - (n - 1)] = p
    BY <2>4
  <2>6. p - n \in 0..L /\ p - n < p /\ p - (n - 1) = p - n + 1
    BY <1>1, <1>8, <2>3
  <2> QED BY <1>1, <1>6, <1>8, <2>5, <2>6
<1>10. pops[0] = p
  <2>1. p \in 0..p /\ p - p = 0
    BY <1>1, <1>8
  <2>2. p \notin Bad
    BY <1>9, Zenon
  <2> QED BY <2>1, <2>2
<1>11. \A k \in 0..L : TokensOf(Dropped(turns, k)) \in Nat /\ Budget \in Nat
  BY DroppedSuffix, TokensOfType, SessionsAssumption DEF L
<1>12. p < L => TokensOf(Dropped(turns, p)) <= Budget
  BY <1>1, <1>8, <1>11 DEF TooLong
<1>13. p > 0 => TokensOf(Dropped(turns, p - 1)) > Budget
  BY <1>1, <1>8, <1>11 DEF TooLong
<1> QED BY <1>7, <1>8, <1>10, <1>12, <1>13 DEF L

(* The context of any history: its newest turns, as many as the budget and  *)
(* the policy allow.                                                        *)
LEMMA NewestFit ==
  ASSUME NEW all \in Seq(Turns)
  PROVE  LET turns == Compact(Recent(all))
             newest(n) == SubSeq(all, Len(all) - n + 1, Len(all))
         IN  /\ turns = newest(Len(turns))
             /\ turns # <<>> => TokensOf(turns) <= Budget
             /\ Len(turns) < Len(all) =>
                  Len(turns) = LastN \/ TokensOf(newest(Len(turns) + 1)) > Budget
<1> DEFINE turns == Compact(Recent(all))
           newest(n) == SubSeq(all, Len(all) - n + 1, Len(all))
           a == Max({0, Len(all) - LastN})
<1>1. Len(all) \in Nat /\ LastN \in Nat
  BY LenProperties, SessionsAssumption
<1>2. /\ a \in 0..Len(all)
      /\ a = 0 \/ Len(all) - a = LastN
      /\ LastN = 0 => a = Len(all)
  <2>1. \E x \in {0, Len(all) - LastN} : \A y \in {0, Len(all) - LastN} : x >= y
    BY <1>1
  <2>2. a \in {0, Len(all) - LastN} /\ a >= 0 /\ a >= Len(all) - LastN
    BY <2>1 DEF Max
  <2> HIDE DEF a
  <2> QED BY <1>1, <2>2
<1>3. Recent(all) = Dropped(all, a)
  <2>1. CASE LastN = 0
    <3>1. Dropped(all, a) = <<>>
      BY <1>1, <1>2, <2>1, SubSeqEmpty DEF Dropped
    <3> QED BY <2>1, <3>1 DEF Recent
  <2>2. CASE LastN # 0
    BY <2>2 DEF Recent
  <2> QED BY <2>1, <2>2
<1> HIDE DEF a
<1> DEFINE recent == Dropped(all, a)
<1>4. recent \in Seq(Turns) /\ Len(recent) = Len(all) - a
  BY <1>2, DroppedSuffix
<1> HIDE DEF recent
<1>5. PICK k \in 0..Len(recent) :
        /\ Compact(recent) = Dropped(recent, k)
        /\ k < Len(recent) => TokensOf(Dropped(recent, k)) <= Budget
        /\ k > 0 => TokensOf(Dropped(recent, k - 1)) > Budget
  BY <1>4, CompactDrops
<1>6. turns = Dropped(recent, k)
  BY <1>3, <1>5 DEF recent
<1>7. /\ k \in 0..(Len(all) - a)
      /\ turns = Dropped(all, a + k)
      /\ Len(turns) = Len(all) - (a + k)
  <2>1. k \in 0..(Len(all) - a)
    BY <1>4
  <2>2. turns = Dropped(all, a + k)
    BY <1>2, <1>6, <2>1, DroppedTwice DEF recent
  <2>3. a + k \in 0..Len(all)
    BY <1>1, <1>2, <2>1
  <2> QED BY <2>1, <2>2, <2>3, DroppedSuffix
<1> HIDE DEF turns
<1>8. turns = newest(Len(turns))
  <2>1. Len(all) - Len(turns) + 1 = (a + k) + 1
    BY <1>1, <1>2, <1>7
  <2> QED BY <1>7, <2>1 DEF Dropped
<1>9. turns # <<>> => TokensOf(turns) <= Budget
  <2> SUFFICES ASSUME ~(k < Len(recent)) PROVE turns = <<>>
    BY <1>5, <1>6
  <2>1. Len(turns) = 0 /\ turns \in Seq(Turns)
    BY <1>1, <1>2, <1>4, <1>6, <1>7, DroppedSuffix
  <2> QED BY <2>1, EmptySeq
<1>10. ASSUME Len(turns) < Len(all), Len(turns) # LastN
       PROVE  TokensOf(newest(Len(turns) + 1)) > Budget
  <2>1. k > 0
    BY <1>1, <1>2, <1>7, <1>10
  <2>2. k - 1 \in 0..(Len(all) - a) /\ a + (k - 1) \in Nat
    BY <1>1, <1>2, <1>7, <2>1
  <2>3. Dropped(recent, k - 1) = Dropped(all, a + (k - 1))
    BY <1>2, <2>2, DroppedTwice DEF recent
  <2>4. Len(all) - (Len(turns) + 1) + 1 = (a + (k - 1)) + 1
    BY <1>1, <1>2, <1>7
  <2>5. newest(Len(turns) + 1) = Dropped(all, a + (k - 1))
    BY <2>4 DEF Dropped
  <2> QED BY <1>5, <2>1, <2>3, <2>5
<1> HIDE DEF newest
<1>11. /\ turns = newest(Len(turns))
       /\ turns # <<>> => TokensOf(turns) <= Budget
       /\ Len(turns) < Len(all) =>
            Len(turns) = LastN \/ TokensOf(newest(Len(turns) + 1)) > Budget
  BY <1>8, <1>9, <1>10
<1> QED BY <1>11 DEF turns, newest

-----------------------------------------------------------------------------
(* The inductive invariant.                                                 *)

RowTypes == [index : Nat, turn : Turns, created : Nat, expires : Nat]

Appending ==
  {Free, Raised, [at |-> "pushed"]}
  \union [at : {"timed"}, turn : Turns, created : Nat]
  \union [at : {"computed"}, known : Nat, row : RowTypes]

TypesOK ==
  /\ env \in {"postgres", "redis", "none"}
  /\ uses \in [Writers -> {"none", "memory", "redis", "postgres"}]
  /\ now \in 0..MaxTime
  /\ local \in [Writers -> [turns : Seq(Turns), created : Nat, seen : SUBSET TurnIds]]
  /\ redis \in [turns : Seq(Turns), deadline : Nat]
  /\ rows \subseteq RowTypes /\ IsFiniteSet(rows)
  /\ pending \in [Writers -> Appending]
  /\ appends \in Nat

(* The turn a process is about to insert. *)
Underway(w) ==
  IF pending[w].at = "timed" THEN {pending[w].turn}
  ELSE IF pending[w].at = "computed" THEN {pending[w].row.turn} ELSE {}

(* Appends are numbered as they start. *)
Numbered ==
  /\ \A w \in Writers : \A t \in ToSet(local[w].turns) : t.id <= appends
  /\ \A t \in ToSet(redis.turns) : t.id <= appends
  /\ \A r \in rows : r.turn.id <= appends
  /\ \A w \in Writers : \A t \in Underway(w) : t.id <= appends

(* No two rows, and no two appends in progress, are of the same turn. *)
Apart ==
  /\ \A r, q \in rows : r.turn.id = q.turn.id => r = q
  /\ \A r \in rows, w \in Writers : \A t \in Underway(w) : t.id # r.turn.id
  /\ \A v, w \in Writers : v # w =>
       \A t \in Underway(v), u \in Underway(w) : t.id # u.id

(* The indexes are 0, 1, 2, ... without a gap: no row is ever deleted, and  *)
(* the index of an append is the number of rows it has seen.                *)
Dense ==
  /\ \A r, q \in rows : r.index = q.index => r = q
  /\ {r.index : r \in rows} = 0..(Cardinality(rows) - 1)
  /\ \A w \in Writers : pending[w].at = "computed" =>
       pending[w].row.index = pending[w].known /\ pending[w].known <= Cardinality(rows)

IInv == TypesOK /\ Numbered /\ Apart /\ Dense

LEMMA AppendedRange ==
  ASSUME NEW S, NEW s \in Seq(S), NEW e \in S
  PROVE  /\ Append(s, e) \in Seq(S)
         /\ DOMAIN s = 1..Len(s) /\ Len(s) \in Nat
         /\ DOMAIN Append(s, e) = 1..(Len(s) + 1)
         /\ \A i \in 1..Len(s) : Append(s, e)[i] = s[i]
         /\ Append(s, e)[Len(s) + 1] = e
         /\ ToSet(Append(s, e)) = ToSet(s) \union {e}
<1>1. /\ Append(s, e) \in Seq(S)
      /\ Len(Append(s, e)) = Len(s) + 1
      /\ \A i \in 1..Len(s) : Append(s, e)[i] = s[i]
      /\ Append(s, e)[Len(s) + 1] = e
  BY AppendProperties
<1>2. DOMAIN s = 1..Len(s) /\ Len(s) \in Nat
  BY LenProperties
<1>3. DOMAIN Append(s, e) = 1..(Len(s) + 1)
  BY <1>1, LenProperties
<1>4. ToSet(Append(s, e)) = ToSet(s) \union {e}
  <2> DEFINE t == Append(s, e)
  <2>1. \A i \in 1..(Len(s) + 1) : i \in 1..Len(s) \/ i = Len(s) + 1
    BY <1>2
  <2>2. \A i \in 1..Len(s) : i \in 1..(Len(s) + 1)
    BY <1>2
  <2>3. Len(s) + 1 \in 1..(Len(s) + 1)
    BY <1>2
  <2> HIDE DEF t
  <2> QED BY <1>1, <1>2, <1>3, <2>1, <2>2, <2>3 DEF ToSet, t
<1> QED BY <1>1, <1>2, <1>3, <1>4

LEMMA AppendingTypes ==
  ASSUME NEW p \in Appending
  PROVE  /\ p.at = "timed" => p.turn \in Turns /\ p.created \in Nat
         /\ p.at = "computed" => p.known \in Nat /\ p.row \in RowTypes
<1>1. CASE p \in {Free, Raised, [at |-> "pushed"]}
  BY <1>1 DEF Free, Raised
<1>2. CASE p \in [at : {"timed"}, turn : Turns, created : Nat]
  BY <1>2
<1>3. CASE p \in [at : {"computed"}, known : Nat, row : RowTypes]
  BY <1>3
<1> QED BY <1>1, <1>2, <1>3 DEF Appending

LEMMA InitIInv == Init => IInv
<1> SUFFICES ASSUME Init PROVE IInv
  OBVIOUS
<1> USE SessionsAssumption DEF Init
<1>1. NoSession \in [turns : Seq(Turns), created : Nat, seen : SUBSET TurnIds]
  BY EmptySeq DEF NoSession, Never
<1>2. NoKey \in [turns : Seq(Turns), deadline : Nat]
  BY EmptySeq DEF NoKey, Never
<1>3. IsFiniteSet(rows) /\ Cardinality(rows) = 0
  BY FS_EmptySet
<1>4. TypesOK
  BY <1>1, <1>2, <1>3 DEF TypesOK, Appending
<1>5. \A w \in Writers : local[w] = NoSession /\ pending[w] = Free /\ Underway(w) = {}
  BY DEF Free, Underway
<1>6. ToSet(NoSession.turns) = {} /\ ToSet(NoKey.turns) = {}
  BY DEF NoSession, NoKey, ToSet
<1>7. Numbered /\ Apart
  BY <1>5, <1>6 DEF Numbered, Apart
<1>8. Dense
  BY <1>3, <1>5 DEF Dense, Free
<1> QED BY <1>4, <1>7, <1>8 DEF IInv

(* A step that leaves the rows and the inserts under way alone, or ends     *)
(* some of them.                                                            *)
LEMMA RowsUntouched ==
  ASSUME IInv, TypesOK', rows' = rows, appends' >= appends,
         \A w \in Writers : pending'[w] = pending[w] \/ pending'[w].at \notin {"timed", "computed"},
         \A w \in Writers : \A t \in ToSet(local'[w].turns) : t.id <= appends',
         \A t \in ToSet(redis'.turns) : t.id <= appends'
  PROVE  IInv'
<1>1. \A w \in Writers : Underway(w)' \subseteq Underway(w)
  BY DEF Underway
<1>2. /\ \A r \in rows : r.turn.id \in Nat
      /\ \A w \in Writers : \A t \in Underway(w) : t.id \in Nat
  <2>1. \A t \in Turns : t.id \in Nat
    BY DEF Turns
  <2>2. \A r \in rows : r.turn \in Turns
    BY DEF IInv, TypesOK, RowTypes
  <2>3. \A w \in Writers : \A t \in Underway(w) : t \in Turns
    BY AppendingTypes DEF IInv, TypesOK, Underway, RowTypes
  <2> QED BY <2>1, <2>2, <2>3
<1>3. Numbered'
  BY <1>1, <1>2 DEF IInv, TypesOK, Numbered
<1>4. Apart'
  BY <1>1 DEF IInv, Apart
<1>5. \A w \in Writers : pending'[w].at = "computed" => pending'[w] = pending[w]
  OBVIOUS
<1>6. Dense'
  BY <1>5 DEF IInv, Dense
<1> QED BY <1>3, <1>4, <1>6 DEF IInv

(* The insert of a turn whose index is not taken. *)
LEMMA RowInserted ==
  ASSUME IInv, NEW w \in Writers,
         pending[w].at = "computed",
         \A r \in rows : r.index # pending[w].row.index,
         rows' = rows \union {pending[w].row},
         pending' = [pending EXCEPT ![w] = Free],
         UNCHANGED <<env, uses, now, local, redis, appends>>
  PROVE  IInv'
<1> DEFINE row == pending[w].row
           n == Cardinality(rows)
<1>1. row \in RowTypes /\ pending[w].known \in Nat
  BY AppendingTypes DEF IInv, TypesOK
<1>2. IsFiniteSet(rows) /\ n \in Nat
  BY FS_CardinalityType DEF IInv, TypesOK
<1>3. row \notin rows
  OBVIOUS
<1>4. IsFiniteSet(rows') /\ Cardinality(rows') = n + 1
  BY <1>2, <1>3, FS_AddElement
<1>5. row.index = n
  <2>1. row.index \in Nat /\ row.index <= n
    BY <1>1 DEF IInv, Dense
  <2>2. row.index \notin {r.index : r \in rows}
    OBVIOUS
  <2>3. row.index \notin 0..(n - 1)
    BY <2>2 DEF IInv, Dense
  <2> QED BY <1>2, <2>1, <2>3
<1>6. /\ pending'[w] = Free
      /\ \A v \in Writers : v # w => pending'[v] = pending[v]
  BY DEF IInv, TypesOK
<1>7. TypesOK'
  BY <1>1, <1>4 DEF IInv, TypesOK, Appending
<1>8. /\ Underway(w) = {row.turn}
      /\ Underway(w)' = {}
      /\ \A v \in Writers : v # w => Underway(v)' = Underway(v)
  BY <1>6 DEF Underway, Free
<1> HIDE DEF row
<1>9. Numbered'
  BY <1>8 DEF IInv, Numbered, row
<1>10. Apart'
  BY <1>8 DEF IInv, Apart, row
<1>11. Dense'
  <2>1. \A r, q \in rows' : r.index = q.index => r = q
    BY DEF IInv, Dense, row
  <2>2. {r.index : r \in rows'} = {r.index : r \in rows} \union {n}
    BY <1>5 DEF row
  <2>3. {r.index : r \in rows'} = 0..(Cardinality(rows') - 1)
    BY <1>2, <1>4, <2>2 DEF IInv, Dense
  <2>4. ASSUME NEW v \in Writers, pending'[v].at = "computed"
        PROVE  pending'[v].row.index = pending'[v].known /\ pending'[v].known <= Cardinality(rows')
    <3>1. pending'[v] = pending[v]
      BY <1>6, <2>4 DEF Free
    <3>2. pending[v].known \in Nat /\ pending[v].known <= n /\ pending[v].row.index = pending[v].known
      BY <2>4, <3>1, AppendingTypes DEF IInv, Dense, TypesOK
    <3> QED BY <1>2, <1>4, <3>1, <3>2
  <2> QED BY <2>1, <2>3, <2>4 DEF Dense
<1> QED BY <1>7, <1>9, <1>10, <1>11 DEF IInv

(* MAX(turn_index) + 1 is the number of rows. *)
LEMMA NextIndexCounts ==
  ASSUME IInv
  PROVE  NextIndex = Cardinality(rows)
<1> DEFINE n == Cardinality(rows)
<1>1. n \in Nat
  BY FS_CardinalityType DEF IInv, TypesOK
<1>2. CASE rows = {}
  BY <1>2, FS_EmptySet DEF NextIndex
<1>3. CASE rows # {}
  <2>1. n # 0
    BY <1>3, FS_EmptySet DEF IInv, TypesOK
  <2>2. {r.index : r \in rows} = 0..(n - 1)
    BY DEF IInv, Dense
  <2>3. Max(0..(n - 1)) = n - 1
    <3>1. \E x \in 0..(n - 1) : \A y \in 0..(n - 1) : x >= y
      BY <1>1, <2>1
    <3>2. /\ Max(0..(n - 1)) \in 0..(n - 1)
          /\ \A y \in 0..(n - 1) : Max(0..(n - 1)) >= y
      BY <3>1 DEF Max
    <3> QED BY <1>1, <2>1, <3>2
  <2>4. NextIndex = Max({r.index : r \in rows}) + 1
    BY <1>3 DEF NextIndex
  <2>5. NextIndex = Max(0..(n - 1)) + 1
    BY <2>2, <2>4, Zenon
  <2> QED BY <1>1, <2>3, <2>5
<1> QED BY <1>2, <1>3

(* A session in memory and a key of Redis, expired or not, are such.        *)
LEMMA AliveType ==
  ASSUME TypesOK, NEW w \in Writers
  PROVE  /\ Alive(local[w]) \in [turns : Seq(Turns), created : Nat, seen : SUBSET TurnIds]
         /\ Alive(local[w]) = NoSession \/ Alive(local[w]) = local[w]
         /\ LiveKey \in [turns : Seq(Turns), deadline : Nat]
         /\ LiveKey = NoKey \/ LiveKey = redis
         /\ ToSet(NoSession.turns) = {} /\ ToSet(NoKey.turns) = {}
<1> USE SessionsAssumption
<1>1. NoSession \in [turns : Seq(Turns), created : Nat, seen : SUBSET TurnIds]
  BY EmptySeq DEF NoSession, Never
<1>2. NoKey \in [turns : Seq(Turns), deadline : Nat]
  BY EmptySeq DEF NoKey, Never
<1>3. ToSet(NoSession.turns) = {} /\ ToSet(NoKey.turns) = {}
  BY DEF NoSession, NoKey, ToSet
<1> QED BY <1>1, <1>2, <1>3 DEF TypesOK, Alive, LiveKey

(* The turn that an append starts with. *)
LEMMA StartedTurn ==
  ASSUME IInv, NEW w \in Writers, NEW store,
         NEW entry \in [id : {appends + 1}, turn : TurnIds \union {"none"}, tokens : Tokens],
         Starts(w, store, entry)
  PROVE  /\ entry \in Turns /\ entry.id = appends + 1 /\ Named(entry) \subseteq TurnIds
         /\ appends' = appends + 1 /\ appends \in Nat
         /\ \A t \in Turns : t.id <= appends => t.id <= appends' /\ t.id # entry.id /\ t # entry
         /\ UNCHANGED <<env, uses, now>>
<1> USE DEF Turns
<1>1. appends \in Nat
  BY DEF IInv, TypesOK
<1>2. entry \in Turns /\ entry.id = appends + 1 /\ Named(entry) \subseteq TurnIds
  BY <1>1 DEF Named
<1> QED BY <1>1, <1>2 DEF Starts

LEMMA MemoryAppendIInv ==
  ASSUME IInv, NEW w \in Writers, MemoryAppend(w)
  PROVE  IInv'
<1>1. PICK entry \in [id : {appends + 1}, turn : TurnIds \union {"none"}, tokens : Tokens] :
        /\ Starts(w, "memory", entry)
        /\ LET session == Alive(local[w])
           IN  IF entry.turn \in session.seen
               THEN local' = [local EXCEPT ![w] = session] /\ Leaves(w, Free)
               ELSE /\ local' = [local EXCEPT ![w] =
                         [turns |-> Append(session.turns, entry),
                          created |-> IF session = NoSession THEN now ELSE session.created,
                          seen |-> session.seen \union Named(entry)]]
                    /\ Leaves(w, Free)
        /\ UNCHANGED <<redis, seen, rows>>
  BY DEF MemoryAppend
<1> DEFINE session == Alive(local[w])
<1>2. /\ entry \in Turns /\ entry.id = appends + 1 /\ Named(entry) \subseteq TurnIds
      /\ appends' = appends + 1 /\ appends \in Nat
      /\ UNCHANGED <<env, uses, now>>
  BY <1>1, StartedTurn
<1>3. TypesOK
  BY DEF IInv
<1>4. /\ session \in [turns : Seq(Turns), created : Nat, seen : SUBSET TurnIds]
      /\ session = NoSession \/ session = local[w]
      /\ ToSet(NoSession.turns) = {}
  BY <1>3, AliveType
<1>5. \A t \in ToSet(session.turns) : t.id <= appends
  BY <1>4 DEF IInv, Numbered
<1>6. \A v \in Writers : \A t \in ToSet(local[v].turns) : t \in Turns /\ t.id <= appends
  <2>1. \A v \in Writers : local[v].turns \in Seq(Turns)
    BY <1>3 DEF TypesOK
  <2>2. \A v \in Writers : \A t \in ToSet(local[v].turns) : t \in Turns
    BY <2>1, LenProperties DEF ToSet
  <2> QED BY <2>2 DEF IInv, Numbered
<1> HIDE DEF session
<1>7. /\ session.turns \in Seq(Turns)
      /\ Append(session.turns, entry) \in Seq(Turns)
      /\ ToSet(Append(session.turns, entry)) = ToSet(session.turns) \union {entry}
  BY <1>2, <1>4, AppendedRange
<1>8. PICK new \in [turns : Seq(Turns), created : Nat, seen : SUBSET TurnIds] :
        /\ local' = [local EXCEPT ![w] = new]
        /\ ToSet(new.turns) \subseteq ToSet(session.turns) \union {entry}
  <2>1. CASE entry.turn \in session.seen
    BY <1>1, <1>4, <2>1 DEF session
  <2>2. CASE entry.turn \notin session.seen
    <3> DEFINE new == [turns |-> Append(session.turns, entry),
                       created |-> IF session = NoSession THEN now ELSE session.created,
                       seen |-> session.seen \union Named(entry)]
    <3>1. new \in [turns : Seq(Turns), created : Nat, seen : SUBSET TurnIds]
      BY <1>2, <1>3, <1>4, <1>7, SessionsAssumption DEF TypesOK
    <3>2. local' = [local EXCEPT ![w] = new]
      BY <1>1, <2>2 DEF session
    <3> QED BY <1>7, <3>1, <3>2
  <2> QED BY <2>1, <2>2
<1>9. pending' = [pending EXCEPT ![w] = Free]
  BY <1>1 DEF Leaves
<1>10. TypesOK'
  BY <1>1, <1>2, <1>3, <1>8, <1>9 DEF TypesOK, Appending
<1>11. \A v \in Writers : pending'[v] = pending[v] \/ pending'[v].at \notin {"timed", "computed"}
  BY <1>3, <1>9 DEF TypesOK, Free
<1>12. \A t \in Turns : t.id <= appends => t.id <= appends'
  BY <1>2 DEF Turns
<1>13. ASSUME NEW v \in Writers, NEW t \in ToSet(local'[v].turns) PROVE t.id <= appends'
  <2>1. CASE v = w
    <3>1. t \in ToSet(session.turns) \union {entry}
      BY <1>3, <1>8, <1>13, <2>1 DEF TypesOK
    <3>2. CASE t = entry
      BY <1>2, <3>2
    <3>3. CASE t \in ToSet(session.turns)
      <4>1. t \in Turns /\ t.id <= appends
        BY <1>4, <1>5, <1>6, <3>3
      <4> QED BY <1>12, <4>1
    <3> QED BY <3>1, <3>2, <3>3
  <2>2. CASE v # w
    <3>1. t \in Turns /\ t.id <= appends
      BY <1>3, <1>6, <1>8, <1>13, <2>2 DEF TypesOK
    <3> QED BY <1>12, <3>1
  <2> QED BY <2>1, <2>2
<1>14. ASSUME NEW t \in ToSet(redis'.turns) PROVE t.id <= appends'
  <2>1. redis.turns \in Seq(Turns)
    BY <1>3 DEF TypesOK
  <2>2. t \in Turns /\ t.id <= appends
    BY <1>1, <1>14, <2>1, LenProperties DEF IInv, Numbered, ToSet
  <2> QED BY <1>12, <2>2
<1>15. rows' = rows /\ appends' >= appends
  BY <1>1, <1>2
<1> QED BY <1>10, <1>11, <1>13, <1>14, <1>15, RowsUntouched

(* What IInv says of the turns of the two stores that are not tables. *)
LEMMA KnownTurns ==
  ASSUME IInv
  PROVE  /\ \A v \in Writers : \A t \in ToSet(local[v].turns) :
              t \in Turns /\ t.id \in Nat /\ t.id <= appends
         /\ \A t \in ToSet(redis.turns) : t \in Turns /\ t.id \in Nat /\ t.id <= appends
<1>1. /\ \A v \in Writers : local[v].turns \in Seq(Turns)
      /\ redis.turns \in Seq(Turns)
  BY DEF IInv, TypesOK
<1>2. /\ \A v \in Writers : \A t \in ToSet(local[v].turns) : t \in Turns
      /\ \A t \in ToSet(redis.turns) : t \in Turns
  BY <1>1, LenProperties DEF ToSet
<1>3. \A t \in Turns : t.id \in Nat
  BY DEF Turns
<1> QED BY <1>2, <1>3 DEF IInv, Numbered

LEMMA RedisIInv ==
  ASSUME IInv, NEW w \in Writers, RedisPush(w) \/ RedisExpire(w)
  PROVE  IInv'
<1>1. TypesOK
  BY DEF IInv
<1>2. /\ LiveKey \in [turns : Seq(Turns), deadline : Nat]
      /\ ToSet(LiveKey.turns) \subseteq ToSet(redis.turns)
  BY <1>1, AliveType
<1>3. CASE RedisPush(w)
  <2>1. PICK entry \in [id : {appends + 1}, turn : TurnIds \union {"none"}, tokens : Tokens] :
          /\ Starts(w, "redis", entry)
          /\ IF entry.turn \in seen[w]
             THEN Leaves(w, Free) /\ UNCHANGED <<redis, seen>>
             ELSE /\ seen' = [seen EXCEPT ![w] = @ \union Named(entry)]
                  /\ \/ /\ redis' = [LiveKey EXCEPT !.turns = Append(@, entry)]
                        /\ Leaves(w, [at |-> "pushed"])
                     \/ Leaves(w, Free) /\ UNCHANGED redis
          /\ UNCHANGED <<local, rows>>
    BY <1>3 DEF RedisPush
  <2>2. /\ entry \in Turns /\ entry.id = appends + 1
        /\ appends' = appends + 1 /\ appends \in Nat
        /\ UNCHANGED <<env, uses, now>>
    BY <2>1, StartedTurn
  <2>3. /\ Append(LiveKey.turns, entry) \in Seq(Turns)
        /\ ToSet(Append(LiveKey.turns, entry)) = ToSet(LiveKey.turns) \union {entry}
    BY <1>2, <2>2, AppendedRange
  <2>4. /\ redis' \in [turns : Seq(Turns), deadline : Nat]
        /\ ToSet(redis'.turns) \subseteq ToSet(redis.turns) \union {entry}
    <3>1. CASE redis' = redis
      BY <1>1, <3>1 DEF TypesOK
    <3>2. CASE redis' = [LiveKey EXCEPT !.turns = Append(@, entry)]
      <4> DEFINE key == LiveKey
                 more == Append(LiveKey.turns, entry)
      <4>1. redis' = [turns |-> more, deadline |-> key.deadline]
        <5>1. key = [turns |-> key.turns, deadline |-> key.deadline]
          BY <1>2
        <5> HIDE DEF key
        <5> QED BY <3>2, <5>1 DEF key
      <4>2. key.deadline \in Nat
        BY <1>2
      <4> HIDE DEF key, more
      <4>3. more \in Seq(Turns) /\ ToSet(more) \subseteq ToSet(redis.turns) \union {entry}
        BY <1>2, <2>3 DEF more
      <4> QED BY <4>1, <4>2, <4>3
    <3> QED BY <2>1, <3>1, <3>2
  <2>5. \E outcome \in {Free, [at |-> "pushed"]} : pending' = [pending EXCEPT ![w] = outcome]
    BY <2>1 DEF Leaves
  <2>6. TypesOK'
    BY <1>1, <2>1, <2>2, <2>4, <2>5 DEF TypesOK, Appending
  <2>7. \A v \in Writers : pending'[v] = pending[v] \/ pending'[v].at \notin {"timed", "computed"}
    BY <1>1, <2>5 DEF TypesOK, Free
  <2>8. \A v \in Writers : \A t \in ToSet(local'[v].turns) : t.id <= appends'
    BY <2>1, <2>2, KnownTurns
  <2>9. \A t \in ToSet(redis'.turns) : t.id <= appends'
    BY <2>2, <2>4, KnownTurns
  <2>10. rows' = rows /\ appends' >= appends
    BY <2>1, <2>2
  <2> QED BY <2>6, <2>7, <2>8, <2>9, <2>10, RowsUntouched
<1>4. CASE RedisExpire(w)
  <2>1. /\ redis' \in [turns : Seq(Turns), deadline : Nat]
        /\ ToSet(redis'.turns) \subseteq ToSet(redis.turns)
    <3>1. NoKey \in [turns : Seq(Turns), deadline : Nat] /\ ToSet(NoKey.turns) = {}
      BY EmptySeq, SessionsAssumption DEF NoKey, Never, ToSet
    <3>2. ASSUME redis' = [LiveKey EXCEPT !.deadline = now + Ttl]
          PROVE  /\ redis' \in [turns : Seq(Turns), deadline : Nat]
                 /\ ToSet(redis'.turns) \subseteq ToSet(redis.turns)
      <4> DEFINE key == LiveKey
      <4>1. key \in [turns : Seq(Turns), deadline : Nat] /\ ToSet(key.turns) \subseteq ToSet(redis.turns)
        BY <1>2
      <4>2. redis' = [key EXCEPT !.deadline = now + Ttl]
        BY <3>2
      <4> HIDE DEF key
      <4>3. now + Ttl \in Nat
        BY <1>1, SessionsAssumption DEF TypesOK
      <4>4. redis' = [turns |-> key.turns, deadline |-> now + Ttl]
        BY <4>1, <4>2
      <4> QED BY <4>1, <4>3, <4>4
    <3> QED BY <1>1, <1>4, <3>1, <3>2 DEF RedisExpire, TypesOK
  <2>2. /\ pending' = [pending EXCEPT ![w] = Free]
        /\ UNCHANGED <<env, uses, now, local, rows, appends>>
    BY <1>4 DEF RedisExpire, Leaves
  <2>3. TypesOK'
    BY <1>1, <2>1, <2>2 DEF TypesOK, Appending
  <2>4. \A v \in Writers : pending'[v] = pending[v] \/ pending'[v].at \notin {"timed", "computed"}
    BY <1>1, <2>2 DEF TypesOK, Free
  <2>5. /\ \A v \in Writers : \A t \in ToSet(local'[v].turns) : t.id <= appends'
        /\ \A t \in ToSet(redis'.turns) : t.id <= appends'
    BY <2>1, <2>2, KnownTurns
  <2>6. rows' = rows /\ appends' >= appends
    BY <1>1, <2>2 DEF TypesOK
  <2> QED BY <2>3, <2>4, <2>5, <2>6, RowsUntouched
<1> QED BY <1>3, <1>4

LEMMA PostgresStartIInv ==
  ASSUME IInv, NEW w \in Writers, PostgresStart(w)
  PROVE  IInv'
<1>1. PICK entry \in [id : {appends + 1}, turn : {"none"}, tokens : Tokens] :
        /\ Starts(w, "postgres", entry)
        /\ pending' = [pending EXCEPT ![w] = [at |-> "timed", turn |-> entry, created |-> now]]
        /\ UNCHANGED stores
  BY DEF PostgresStart, Leaves
<1>2. entry \in [id : {appends + 1}, turn : TurnIds \union {"none"}, tokens : Tokens]
  OBVIOUS
<1>3. /\ entry \in Turns /\ entry.id = appends + 1
      /\ appends' = appends + 1 /\ appends \in Nat
      /\ UNCHANGED <<env, uses, now>>
  BY <1>1, <1>2, StartedTurn
<1>4. UNCHANGED <<local, redis, rows>>
  BY <1>1 DEF stores
<1>5. TypesOK /\ now \in Nat
  BY DEF IInv, TypesOK
<1>6. [at |-> "timed", turn |-> entry, created |-> now] \in Appending
  BY <1>3, <1>5 DEF Appending
<1>7. TypesOK'
  BY <1>1, <1>3, <1>4, <1>5, <1>6 DEF TypesOK
<1>8. /\ Underway(w)' = {entry}
      /\ \A v \in Writers : v # w => pending'[v] = pending[v] /\ Underway(v)' = Underway(v)
      /\ pending'[w].at # "computed"
  BY <1>1, <1>5 DEF TypesOK, Underway
<1>9. /\ \A r \in rows : r.turn.id \in Nat /\ r.turn.id <= appends
      /\ \A v \in Writers : \A t \in Underway(v) : t.id \in Nat /\ t.id <= appends
  <2>1. \A t \in Turns : t.id \in Nat
    BY DEF Turns
  <2>2. \A r \in rows : r.turn \in Turns
    BY DEF IInv, TypesOK, RowTypes
  <2>3. \A v \in Writers : \A t \in Underway(v) : t \in Turns
    BY AppendingTypes DEF IInv, TypesOK, Underway, RowTypes
  <2> QED BY <2>1, <2>2, <2>3 DEF IInv, Numbered
<1>10. Numbered'
  <2>1. /\ \A v \in Writers : \A t \in ToSet(local[v].turns) : t.id <= appends'
        /\ \A t \in ToSet(redis.turns) : t.id <= appends'
    BY <1>3, KnownTurns
  <2>2. \A r \in rows : r.turn.id <= appends'
    BY <1>3, <1>9
  <2>3. ASSUME NEW v \in Writers, NEW t \in Underway(v)' PROVE t.id <= appends'
    <3>1. t = entry \/ t \in Underway(v)
      BY <1>8, <2>3
    <3> QED BY <1>3, <1>9, <3>1
  <2> QED BY <1>4, <2>1, <2>2, <2>3 DEF Numbered
<1>11. Apart'
  <2>1. \A r \in rows : r.turn.id # entry.id
    BY <1>3, <1>9
  <2>2. \A v \in Writers : \A t \in Underway(v) : t.id # entry.id
    BY <1>3, <1>9
  <2> QED BY <1>4, <1>8, <2>1, <2>2 DEF IInv, Apart
<1>12. Dense'
  BY <1>4, <1>8 DEF IInv, Dense
<1> QED BY <1>7, <1>10, <1>11, <1>12 DEF IInv

LEMMA PostgresReadIInv ==
  ASSUME IInv, NEW w \in Writers, PostgresRead(w)
  PROVE  IInv'
<1> DEFINE turn == pending[w].turn
           row == [index |-> NextIndex, turn |-> turn,
                   created |-> pending[w].created, expires |-> pending[w].created + Ttl]
           next == [at |-> "computed", known |-> Cardinality(rows), row |-> row]
<1>1. /\ pending[w].at = "timed"
      /\ pending' = [pending EXCEPT ![w] = next]
      /\ UNCHANGED <<env, uses, now, local, redis, rows, appends>>
  BY DEF PostgresRead, Leaves, stores
<1>2. turn \in Turns /\ pending[w].created \in Nat
  BY <1>1, AppendingTypes DEF IInv, TypesOK
<1>3. NextIndex = Cardinality(rows) /\ Cardinality(rows) \in Nat
  BY NextIndexCounts, FS_CardinalityType DEF IInv, TypesOK
<1>4. row \in RowTypes
  BY <1>2, <1>3, SessionsAssumption DEF RowTypes
<1>5. next \in Appending
  <2> HIDE DEF row
  <2> QED BY <1>3, <1>4 DEF Appending
<1>6. next.at = "computed" /\ next.row.turn = turn /\ next.row.index = next.known
      /\ next.known = Cardinality(rows)
  BY <1>3
<1> HIDE DEF next, turn
<1>7. TypesOK'
  BY <1>1, <1>5 DEF IInv, TypesOK
<1>8. pending'[w] = next /\ \A v \in Writers : v # w => pending'[v] = pending[v]
  BY <1>1 DEF IInv, TypesOK
<1>9. \A v \in Writers : Underway(v)' = Underway(v)
  BY <1>1, <1>6, <1>8 DEF Underway, turn
<1>10. Numbered' /\ Apart'
  BY <1>1, <1>9 DEF IInv, Numbered, Apart
<1>11. Dense'
  BY <1>1, <1>3, <1>6, <1>8 DEF IInv, Dense
<1> QED BY <1>7, <1>10, <1>11 DEF IInv

LEMMA PostgresWriteIInv ==
  ASSUME IInv, NEW w \in Writers, PostgresCommit(w) \/ PostgresDisconnects(w)
  PROVE  IInv'
<1>1. TypesOK /\ UNCHANGED <<env, uses, now, local, redis, appends>>
  BY DEF IInv, PostgresCommit, PostgresDisconnects
<1>2. CASE rows' = rows
  <2>1. \E outcome \in {Free, Raised} : pending' = [pending EXCEPT ![w] = outcome]
    BY DEF PostgresCommit, PostgresDisconnects, Leaves
  <2>2. TypesOK'
    BY <1>1, <1>2, <2>1 DEF TypesOK, Appending
  <2>3. \A v \in Writers : pending'[v] = pending[v] \/ pending'[v].at \notin {"timed", "computed"}
    BY <1>1, <2>1 DEF TypesOK, Free, Raised
  <2>4. /\ \A v \in Writers : \A t \in ToSet(local'[v].turns) : t.id <= appends'
        /\ \A t \in ToSet(redis'.turns) : t.id <= appends'
    BY <1>1, KnownTurns
  <2>5. appends' >= appends
    BY <1>1 DEF TypesOK
  <2> QED BY <1>2, <2>2, <2>3, <2>4, <2>5, RowsUntouched
<1>3. CASE rows' # rows
  <2>1. /\ pending[w].at = "computed"
        /\ \A r \in rows : r.index # pending[w].row.index
        /\ rows' = rows \union {pending[w].row}
        /\ pending' = [pending EXCEPT ![w] = Free]
    BY <1>3 DEF PostgresCommit, PostgresDisconnects, Leaves
  <2> QED BY <1>1, <2>1, RowInserted
<1> QED BY <1>2, <1>3

LEMMA NextIInv == IInv /\ [Next]_vars => IInv'
<1> SUFFICES ASSUME IInv, [Next]_vars PROVE IInv'
  OBVIOUS
<1>1. TypesOK
  BY DEF IInv
<1>2. ASSUME UNCHANGED <<local, redis, rows, appends>>, TypesOK',
             \A v \in Writers : pending'[v] = pending[v] \/ pending'[v] = Free
      PROVE  IInv'
  <2>1. /\ \A v \in Writers : \A t \in ToSet(local'[v].turns) : t.id <= appends'
        /\ \A t \in ToSet(redis'.turns) : t.id <= appends'
    BY <1>2, KnownTurns
  <2>2. appends' >= appends
    BY <1>1, <1>2 DEF TypesOK
  <2>3. \A v \in Writers : pending'[v] = pending[v] \/ pending'[v].at \notin {"timed", "computed"}
    BY <1>2 DEF Free
  <2> QED BY <1>2, <2>1, <2>2, <2>3, RowsUntouched
<1>3. CASE UNCHANGED vars
  BY <1>1, <1>2, <1>3 DEF vars, stores, TypesOK
<1>4. CASE Tick
  BY <1>1, <1>2, <1>4, SessionsAssumption DEF Tick, stores, TypesOK
<1>5. ASSUME NEW w \in Writers, Open(w) \/ OpenWithoutRedis(w) PROVE IInv'
  <2>1. \E u \in {"memory", "redis", "postgres"} : uses' = [uses EXCEPT ![w] = u]
    BY <1>1, <1>5 DEF Open, OpenWithoutRedis, TypesOK
  <2>2. UNCHANGED <<env, now, local, redis, seen, rows, pending, appends>>
    BY <1>5 DEF Open, OpenWithoutRedis, stores
  <2>3. TypesOK'
    BY <1>1, <2>1, <2>2 DEF TypesOK
  <2> QED BY <1>2, <2>2, <2>3
<1>6. ASSUME NEW w \in Writers, Exit(w) PROVE IInv'
  <2>1. /\ uses' = [uses EXCEPT ![w] = "none"]
        /\ local' = [local EXCEPT ![w] = NoSession]
        /\ pending' = [pending EXCEPT ![w] = Free]
        /\ UNCHANGED <<env, now, redis, rows, appends>>
    BY <1>6 DEF Exit
  <2>2. NoSession \in [turns : Seq(Turns), created : Nat, seen : SUBSET TurnIds]
    BY EmptySeq, SessionsAssumption DEF NoSession, Never
  <2>3. TypesOK'
    BY <1>1, <2>1, <2>2 DEF TypesOK, Appending
  <2>4. \A v \in Writers : pending'[v] = pending[v] \/ pending'[v].at \notin {"timed", "computed"}
    BY <1>1, <2>1 DEF TypesOK, Free
  <2>5. \A v \in Writers : ToSet(local'[v].turns) \subseteq ToSet(local[v].turns)
    BY <1>1, <2>1 DEF TypesOK, NoSession, ToSet
  <2>6. /\ \A v \in Writers : \A t \in ToSet(local'[v].turns) : t.id <= appends'
        /\ \A t \in ToSet(redis'.turns) : t.id <= appends'
    BY <2>1, <2>5, KnownTurns
  <2>7. appends' >= appends
    BY <1>1, <2>1 DEF TypesOK
  <2> QED BY <2>1, <2>3, <2>4, <2>6, <2>7, RowsUntouched
<1> QED BY <1>3, <1>4, <1>5, <1>6, MemoryAppendIInv, RedisIInv, PostgresStartIInv,
           PostgresReadIInv, PostgresWriteIInv DEF Next

(* The inductive invariant, from which the others follow. *)
THEOREM Invariance == Spec => []IInv
BY InitIInv, NextIInv, PTL DEF Spec

-----------------------------------------------------------------------------
(* What a reader sees.                                                      *)

LEMMA VisibleRows ==
  ASSUME IInv
  PROVE  /\ Visible \subseteq rows /\ IsFiniteSet(Visible)
         /\ \A r \in Visible : r.index \in Nat /\ r.turn \in Turns
         /\ \A r, q \in Visible : r.index = q.index => r = q
<1>1. Visible \in SUBSET rows
  BY DEF Visible
<1>2. IsFiniteSet(Visible)
  BY <1>1, FS_Subset DEF IInv, TypesOK
<1>3. \A r \in rows : r.index \in Nat /\ r.turn \in Turns
  BY DEF IInv, TypesOK, RowTypes
<1> QED BY <1>1, <1>2, <1>3 DEF IInv, Dense

(* A history is a sequence of turns. *)
LEMMA HistoryType ==
  ASSUME IInv, NEW w \in Writers
  PROVE  History(w) \in Seq(Turns)
<1>1. CASE uses[w] = "memory"
  BY <1>1, AliveType DEF IInv, History
<1>2. CASE uses[w] = "redis"
  BY <1>2, AliveType DEF IInv, History
<1>3. CASE uses[w] = "postgres"
  <2> DEFINE n == Cardinality(Visible)
             s == ByIndex(Visible)
  <2>1. n \in Nat /\ s \in [1..n -> Visible]
    BY VisibleRows, ByIndexSorts
  <2> HIDE DEF s
  <2>2. TurnsOf(s) \in [1..n -> Turns]
    BY <2>1, VisibleRows DEF TurnsOf
  <2>3. TurnsOf(s) \in Seq(Turns)
    BY <2>1, <2>2, SeqDef
  <2> QED BY <1>3, <2>3 DEF History, s
<1>4. CASE uses[w] = "none"
  BY <1>4, EmptySeq DEF History
<1> QED BY <1>1, <1>2, <1>3, <1>4 DEF IInv, TypesOK

(* Whatever the sizes of the turns, the budget and the policy: a context    *)
(* holds the newest turns of its session, as many as are allowed.           *)
THEOREM ContextIsNewest == Spec => []NewestInContext
<1>1. IInv => NewestInContext
  BY HistoryType, NewestFit DEF NewestInContext, Context
<1> QED BY <1>1, Invariance, PTL

(* An append is refused on Postgres only for a turn that another process    *)
(* has committed since it looked.                                           *)
THEOREM RefusedForAnother == Spec => LoneAppendSucceeds
<1>1. ASSUME IInv, [Next]_vars,
             NEW w \in Writers, pending[w].at = "computed", pending'[w] = Raised
      PROVE  Cardinality(rows) > pending[w].known
  <2>1. pending'[w] # pending[w]
    BY <1>1 DEF Raised
  <2>2. \E r \in rows : r.index = pending[w].row.index
    <3>1. PICK v \in Writers :
            \/ Open(v) \/ OpenWithoutRedis(v) \/ Exit(v) \/ MemoryAppend(v)
            \/ RedisPush(v) \/ RedisExpire(v) \/ PostgresStart(v) \/ PostgresRead(v)
            \/ PostgresCommit(v) \/ PostgresDisconnects(v)
      BY <1>1, <2>1 DEF Next, Tick, vars
    <3>2. Free # Raised /\ [at |-> "pushed"] # Raised
      BY DEF Free, Raised
    <3>3. pending \in [Writers -> Appending]
      BY <1>1 DEF IInv, TypesOK
    <3>4. CASE \/ Open(v) \/ OpenWithoutRedis(v) \/ Exit(v) \/ MemoryAppend(v)
               \/ RedisPush(v) \/ RedisExpire(v) \/ PostgresDisconnects(v)
      BY <1>1, <2>1, <3>2, <3>3, <3>4
         DEF Open, OpenWithoutRedis, Exit, MemoryAppend, RedisPush, RedisExpire,
             PostgresDisconnects, Leaves
    <3>5. CASE PostgresStart(v) \/ PostgresRead(v)
      BY <1>1, <2>1, <3>3, <3>5 DEF PostgresStart, PostgresRead, Leaves, Raised
    <3>6. CASE PostgresCommit(v)
      <4>1. v = w
        BY <1>1, <2>1, <3>3, <3>6 DEF PostgresCommit, Leaves
      <4> QED BY <1>1, <3>2, <3>3, <3>6, <4>1 DEF PostgresCommit, Leaves
    <3> QED BY <3>1, <3>4, <3>5, <3>6
  <2>3. /\ pending[w].known \in 0..(Cardinality(rows) - 1)
        /\ Cardinality(rows) \in Nat
    BY <1>1, <2>2, FS_CardinalityType DEF IInv, TypesOK, Dense
  <2> QED BY <2>3
<1>2. IInv /\ [Next]_vars =>
        [\A w \in Writers :
           pending[w].at = "computed" /\ pending'[w] = Raised
             => Cardinality(rows) > pending[w].known]_vars
  BY <1>1
<1> QED BY <1>2, Invariance, PTL DEF Spec, LoneAppendSucceeds

LEMMA ExtendsSame ==
  ASSUME NEW s \in Seq(Turns)
  PROVE  Extends(s, s) /\ Extends(<<>>, s)
<1>1. DOMAIN s = 1..Len(s) /\ Len(s) \in Nat
  BY LenProperties
<1> QED BY <1>1 DEF Extends

LEMMA ExtendsAppended ==
  ASSUME NEW s \in Seq(Turns), NEW e \in Turns, e \notin ToSet(s)
  PROVE  Extends(Append(s, e), s)
<1> DEFINE t == Append(s, e)
<1>1. /\ DOMAIN s = 1..Len(s) /\ Len(s) \in Nat
      /\ DOMAIN t = 1..(Len(s) + 1)
      /\ \A i \in 1..Len(s) : t[i] = s[i]
      /\ t[Len(s) + 1] = e
  BY AppendedRange
<1> HIDE DEF t
<1>2. \A j \in DOMAIN t : t[j] \in ToSet(s) => j \in 1..Len(s)
  BY <1>1
<1>3. Extends(t, s)
  BY <1>1, <1>2 DEF Extends
<1> QED BY <1>3 DEF t

(* The rows that one sees later: some have expired, and one may have been   *)
(* inserted, with the highest index.                                        *)
LEMMA ExtendsRows ==
  ASSUME NEW old, NEW new, IsFiniteSet(old), IsFiniteSet(new),
         \A r \in old \union new : r.index \in Nat /\ r.turn \in Turns,
         \A r, q \in old \union new : r.index = q.index => r = q,
         \A r, q \in old \union new : r.turn = q.turn => r = q,
         \A r \in new, q \in old : r \notin old => q.index < r.index
  PROVE  Extends(TurnsOf(ByIndex(new)), TurnsOf(ByIndex(old)))
<1> DEFINE N == 1..Cardinality(new)
           O == 1..Cardinality(old)
           s == ByIndex(new)
           p == ByIndex(old)
<1>1. /\ Cardinality(new) \in Nat
      /\ s \in [N -> new]
      /\ \A m, n \in N : m < n => s[m].index < s[n].index
  BY ByIndexSorts
<1>2. /\ p \in [O -> old]
      /\ \A m, n \in O : p[m].index < p[n].index => m < n
      /\ \A r \in old : \E n \in O : p[n] = r
  BY ByIndexSorts
<1> HIDE DEF s, p, O
<1>3. DOMAIN TurnsOf(s) = N /\ \A j \in N : TurnsOf(s)[j] = s[j].turn
  BY <1>1 DEF TurnsOf
<1>4. DOMAIN TurnsOf(p) = O /\ \A j \in O : TurnsOf(p)[j] = p[j].turn
  BY <1>2 DEF TurnsOf
<1>5. ASSUME NEW j \in N, TurnsOf(s)[j] \in ToSet(TurnsOf(p)), NEW i \in 1..(j - 1)
      PROVE  \E m, n \in O : /\ m < n
                             /\ TurnsOf(p)[m] = TurnsOf(s)[i]
                             /\ TurnsOf(p)[n] = TurnsOf(s)[j]
  <2>1. i \in N /\ i < j
    BY <1>1
  <2>2. PICK k \in O : s[j].turn = p[k].turn
    BY <1>3, <1>4, <1>5 DEF ToSet
  <2>3. s[j] \in new /\ p[k] \in old
    BY <1>1, <1>2, <2>2
  <2>4. s[j] \in old
    BY <2>2, <2>3
  <2>5. s[i] \in new /\ s[i].index < s[j].index
    BY <1>1, <2>1
  <2>6. s[i].index \in Nat /\ s[j].index \in Nat
    BY <2>3, <2>5
  <2>7. s[i] \in old
    BY <2>4, <2>5, <2>6
  <2>8. PICK m \in O : p[m] = s[i]
    BY <1>2, <2>7
  <2>9. PICK n \in O : p[n] = s[j]
    BY <1>2, <2>4
  <2>10. m < n
    BY <1>2, <2>5, <2>8, <2>9
  <2> QED BY <1>3, <1>4, <2>1, <2>8, <2>9, <2>10
<1>6. Extends(TurnsOf(s), TurnsOf(p))
  BY <1>3, <1>4, <1>5 DEF Extends
<1> QED BY <1>6 DEF s, p

(* What a step does to what the stores hold.                                *)
LEMMA MemoryStep ==
  ASSUME IInv, [Next]_vars, NEW w \in Writers, uses[w] = "memory", uses'[w] = uses[w]
  PROVE  \/ local'[w] = local[w]
         \/ local'[w] = Alive(local[w])
         \/ \E entry \in Turns :
              /\ entry \notin ToSet(Alive(local[w]).turns)
              /\ local'[w].turns = Append(Alive(local[w]).turns, entry)
<1>1. TypesOK
  BY DEF IInv
<1>2. CASE \E v \in Writers : MemoryAppend(v)
  <2>1. PICK v \in Writers : MemoryAppend(v)
    BY <1>2
  <2>2. PICK entry \in [id : {appends + 1}, turn : TurnIds \union {"none"}, tokens : Tokens] :
          /\ Starts(v, "memory", entry)
          /\ LET session == Alive(local[v])
             IN  IF entry.turn \in session.seen
                 THEN local' = [local EXCEPT ![v] = session] /\ Leaves(v, Free)
                 ELSE /\ local' = [local EXCEPT ![v] =
                           [turns |-> Append(session.turns, entry),
                            created |-> IF session = NoSession THEN now ELSE session.created,
                            seen |-> session.seen \union Named(entry)]]
                      /\ Leaves(v, Free)
          /\ UNCHANGED <<redis, seen, rows>>
    BY <2>1 DEF MemoryAppend
  <2>3. entry \in Turns /\ entry.id = appends + 1 /\ appends \in Nat
    BY <2>2, StartedTurn
  <2>4. entry \notin ToSet(Alive(local[w]).turns)
    <3>1. Alive(local[w]) = NoSession \/ Alive(local[w]) = local[w]
      BY <1>1, AliveType
    <3>2. ToSet(NoSession.turns) = {}
      BY <1>1, AliveType
    <3> QED BY <2>3, <3>1, <3>2, KnownTurns
  <2>5. CASE v = w
    <3> DEFINE session == Alive(local[w])
               new == [turns |-> Append(session.turns, entry),
                       created |-> IF session = NoSession THEN now ELSE session.created,
                       seen |-> session.seen \union Named(entry)]
    <3>1. \/ local' = [local EXCEPT ![w] = session]
          \/ local' = [local EXCEPT ![w] = new]
      BY <2>2, <2>5
    <3>2. new.turns = Append(session.turns, entry)
      OBVIOUS
    <3> HIDE DEF session, new
    <3>3. local'[w] = session \/ local'[w] = new
      BY <1>1, <3>1 DEF TypesOK
    <3> QED BY <2>3, <2>4, <3>2, <3>3 DEF session
  <2>6. CASE v # w
    BY <1>1, <2>2, <2>6 DEF TypesOK
  <2> QED BY <2>5, <2>6
<1>3. CASE ~\E v \in Writers : MemoryAppend(v)
  <2>1. local' = local \/ \E v \in Writers : Exit(v)
    BY <1>3 DEF Next, vars, stores, Tick, Open, OpenWithoutRedis, RedisPush, RedisExpire,
                PostgresStart, PostgresRead, PostgresCommit, PostgresDisconnects
  <2>2. ASSUME NEW v \in Writers, Exit(v) PROVE local'[w] = local[w]
    <3>1. v # w
      BY <1>1, <2>2 DEF Exit, TypesOK
    <3> QED BY <1>1, <2>2, <3>1 DEF Exit, TypesOK
  <2> QED BY <2>1, <2>2
<1> QED BY <1>2, <1>3

LEMMA RedisStep ==
  ASSUME IInv, [Next]_vars
  PROVE  \/ redis' = redis
         \/ redis'.turns = <<>>
         \/ redis'.turns = LiveKey.turns
         \/ \E entry \in Turns :
              /\ entry \notin ToSet(LiveKey.turns)
              /\ redis'.turns = Append(LiveKey.turns, entry)
<1>1. TypesOK
  BY DEF IInv
<1>2. /\ LiveKey \in [turns : Seq(Turns), deadline : Nat]
      /\ LiveKey = NoKey \/ LiveKey = redis
      /\ ToSet(NoKey.turns) = {}
  <2>1. NoKey \in [turns : Seq(Turns), deadline : Nat]
    BY EmptySeq, SessionsAssumption DEF NoKey, Never
  <2> QED BY <1>1, <2>1 DEF LiveKey, TypesOK, NoKey, ToSet
<1>3. CASE redis' # redis
  <2>1. PICK w \in Writers : RedisPush(w) \/ RedisExpire(w)
    BY <1>3 DEF Next, vars, stores, Tick, Open, OpenWithoutRedis, Exit, MemoryAppend,
                PostgresStart, PostgresRead, PostgresCommit, PostgresDisconnects
  <2>2. CASE RedisPush(w)
    <3>1. PICK entry \in [id : {appends + 1}, turn : TurnIds \union {"none"}, tokens : Tokens] :
            /\ Starts(w, "redis", entry)
            /\ redis' = [LiveKey EXCEPT !.turns = Append(@, entry)]
      BY <1>3, <2>2 DEF RedisPush
    <3>2. entry \in Turns /\ entry.id = appends + 1 /\ appends \in Nat
      BY <3>1, StartedTurn
    <3>3. entry \notin ToSet(LiveKey.turns)
      BY <1>2, <3>2, KnownTurns
    <3>4. redis'.turns = Append(LiveKey.turns, entry)
      BY <1>2, <3>1
    <3> QED BY <3>2, <3>3, <3>4
  <2>3. CASE RedisExpire(w)
    <3>1. redis' = NoKey \/ redis' = [LiveKey EXCEPT !.deadline = now + Ttl]
      BY <1>3, <2>3 DEF RedisExpire
    <3>2. NoKey.turns = <<>>
      BY DEF NoKey
    <3>3. [LiveKey EXCEPT !.deadline = now + Ttl].turns = LiveKey.turns
      BY <1>2
    <3> QED BY <3>1, <3>2, <3>3
  <2> QED BY <2>1, <2>2, <2>3
<1> QED BY <1>3

LEMMA RowsStep ==
  ASSUME IInv, [Next]_vars
  PROVE  \/ rows' = rows
         \/ \E row : /\ rows' = rows \union {row}
                     /\ \A r \in rows : r.index < row.index
<1>1. CASE rows' # rows
  <2>1. PICK w \in Writers : PostgresCommit(w) \/ PostgresDisconnects(w)
    BY <1>1 DEF Next, vars, stores, Tick, Open, OpenWithoutRedis, Exit, MemoryAppend,
                RedisPush, RedisExpire, PostgresStart, PostgresRead
  <2>2. /\ pending[w].at = "computed"
        /\ \A r \in rows : r.index # pending[w].row.index
        /\ rows' = rows \union {pending[w].row}
    BY <1>1, <2>1 DEF PostgresCommit, PostgresDisconnects
  <2> DEFINE n == Cardinality(rows)
  <2>3. n \in Nat
    BY FS_CardinalityType DEF IInv, TypesOK
  <2>4. pending[w].row.index \in Nat /\ pending[w].row.index <= n
    BY <2>2, AppendingTypes DEF IInv, TypesOK, Dense, RowTypes
  <2>5. {r.index : r \in rows} = 0..(n - 1)
    BY DEF IInv, Dense
  <2>6. \A r \in rows : r.index \in 0..(n - 1)
    BY <2>5
  <2>7. pending[w].row.index \notin 0..(n - 1)
    <3> SUFFICES ASSUME pending[w].row.index \in {r.index : r \in rows} PROVE FALSE
      BY <2>5
    <3> QED BY <2>2
  <2>8. \A r \in rows : r.index < pending[w].row.index
    BY <2>3, <2>4, <2>6, <2>7
  <2> QED BY <2>2, <2>8
<1> QED BY <1>1

LEMMA TimePasses ==
  ASSUME IInv, [Next]_vars
  PROVE  now \in Nat /\ now' \in Nat /\ now <= now'
<1>1. now \in Nat
  BY DEF IInv, TypesOK
<1>2. now' = now \/ now' = now + 1
  BY DEF Next, vars, Tick, Open, OpenWithoutRedis, Exit, MemoryAppend, Starts, RedisPush,
         RedisExpire, PostgresStart, PostgresRead, PostgresCommit, PostgresDisconnects
<1> QED BY <1>1, <1>2

LEMMA MemoryReader ==
  ASSUME IInv, [Next]_vars, NEW w \in Writers, uses[w] = "memory", uses'[w] = uses[w]
  PROVE  Extends(History(w)', History(w))
<1> DEFINE session == Alive(local[w])
<1>1. /\ session \in [turns : Seq(Turns), created : Nat, seen : SUBSET TurnIds]
      /\ session = NoSession \/ session = local[w]
  BY AliveType DEF IInv
<1>2. History(w) = session.turns /\ session.turns \in Seq(Turns)
  BY <1>1 DEF History
<1>3. History(w)' = NoSession.turns \/ History(w)' = local'[w].turns
  BY DEF History, Alive
<1>4. NoSession.turns = <<>>
  BY DEF NoSession
<1>5. Extends(<<>>, session.turns) /\ Extends(session.turns, session.turns)
  BY <1>2, ExtendsSame
<1>6. CASE History(w)' = NoSession.turns
  BY <1>2, <1>4, <1>5, <1>6
<1>7. CASE History(w)' = local'[w].turns /\ History(w)' # NoSession.turns
  <2>1. CASE local'[w] = local[w]
    <3>1. ~(local[w].created + Ttl < now')
      BY <1>7, <2>1 DEF History, Alive
    <3>2. local[w].created \in Nat /\ Ttl \in Nat
      BY SessionsAssumption DEF IInv, TypesOK
    <3>3. ~(local[w].created + Ttl < now)
      BY <3>1, <3>2, TimePasses
    <3>4. session = local[w]
      BY <3>3 DEF Alive
    <3> QED BY <1>2, <1>5, <1>7, <2>1, <3>4
  <2>2. CASE local'[w] = session
    BY <1>2, <1>5, <1>7, <2>2
  <2>3. ASSUME NEW entry \in Turns, entry \notin ToSet(session.turns),
               local'[w].turns = Append(session.turns, entry)
        PROVE  Extends(History(w)', History(w))
    BY <1>2, <1>7, <2>3, ExtendsAppended
  <2> QED BY <2>1, <2>2, <2>3, MemoryStep
<1> QED BY <1>3, <1>6, <1>7

LEMMA RedisReader ==
  ASSUME IInv, [Next]_vars, NEW w \in Writers, uses[w] = "redis", uses'[w] = uses[w]
  PROVE  Extends(History(w)', History(w))
<1> DEFINE key == LiveKey
<1>1. key \in [turns : Seq(Turns), deadline : Nat]
  BY AliveType DEF IInv
<1>2. History(w) = key.turns /\ key.turns \in Seq(Turns)
  BY <1>1 DEF History
<1>3. History(w)' = NoKey.turns \/ History(w)' = redis'.turns
  BY DEF History, LiveKey
<1>4. NoKey.turns = <<>>
  BY DEF NoKey
<1>5. Extends(<<>>, key.turns) /\ Extends(key.turns, key.turns)
  BY <1>2, ExtendsSame
<1>6. CASE History(w)' = NoKey.turns
  BY <1>2, <1>4, <1>5, <1>6
<1>7. CASE History(w)' = redis'.turns /\ History(w)' # NoKey.turns
  <2>1. CASE redis' = redis
    <3>1. ~(redis.deadline <= now')
      BY <1>7, <2>1 DEF History, LiveKey
    <3>2. redis.deadline \in Nat
      BY DEF IInv, TypesOK
    <3>3. ~(redis.deadline <= now)
      BY <3>1, <3>2, TimePasses
    <3>4. key = redis
      BY <3>3 DEF LiveKey
    <3> QED BY <1>2, <1>5, <1>7, <2>1, <3>4
  <2>2. CASE redis'.turns = <<>> \/ redis'.turns = key.turns
    BY <1>2, <1>5, <1>7, <2>2
  <2>3. ASSUME NEW entry \in Turns, entry \notin ToSet(key.turns),
               redis'.turns = Append(key.turns, entry)
        PROVE  Extends(History(w)', History(w))
    BY <1>2, <1>7, <2>3, ExtendsAppended
  <2> QED BY <2>1, <2>2, <2>3, RedisStep
<1> QED BY <1>3, <1>6, <1>7

LEMMA PostgresReader ==
  ASSUME IInv, IInv', [Next]_vars, NEW w \in Writers, uses[w] = "postgres", uses'[w] = uses[w]
  PROVE  Extends(History(w)', History(w))
<1>1. /\ History(w) = TurnsOf(ByIndex(Visible))
      /\ History(w)' = TurnsOf(ByIndex(Visible'))
  BY DEF History, TurnsOf, ByIndex, Rank
<1>2. /\ Visible = {r \in rows : r.expires > now}
      /\ Visible' = {r \in rows' : r.expires > now'}
  BY DEF Visible
<1>3. rows \subseteq rows'
  BY RowsStep
<1>4. /\ \A r \in rows' : r.index \in Nat /\ r.turn \in Turns /\ r.expires \in Nat
      /\ IsFiniteSet(rows) /\ IsFiniteSet(rows')
      /\ \A r, q \in rows' : r.index = q.index => r = q
      /\ \A r, q \in rows' : r.turn = q.turn => r = q
  BY DEF IInv, TypesOK, RowTypes, Apart, Dense
<1>5. IsFiniteSet(Visible) /\ IsFiniteSet(Visible')
  BY <1>2, <1>4, FS_Subset
<1>6. \A r \in Visible \union Visible' : r \in rows'
  BY <1>2, <1>3
<1>7. ASSUME NEW r \in Visible', NEW q \in Visible, r \notin Visible
      PROVE  q.index < r.index
  <2>1. r \notin rows
    BY <1>2, <1>4, <1>7, TimePasses
  <2> QED BY <1>2, <1>7, <2>1, RowsStep
<1> HIDE DEF Visible
<1>8. Extends(TurnsOf(ByIndex(Visible')), TurnsOf(ByIndex(Visible)))
  BY <1>4, <1>5, <1>6, <1>7, ExtendsRows
<1> QED BY <1>1, <1>8

(* Whichever store, and however many processes write: a session is only     *)
(* ever extended for whoever reads it.                                      *)
THEOREM AppendOnly == Spec => NeverRewritten
<1>1. ASSUME IInv, IInv', [Next]_vars, NEW w \in Writers, uses'[w] = uses[w]
      PROVE  Extends(History(w)', History(w))
  <2>1. CASE uses[w] = "none"
    <3>1. History(w) = <<>> /\ History(w)' = <<>>
      BY <1>1, <2>1 DEF History
    <3> QED BY <3>1 DEF Extends
  <2>2. uses[w] \in {"none", "memory", "redis", "postgres"}
    BY <1>1 DEF IInv, TypesOK
  <2> QED BY <1>1, <2>1, <2>2, MemoryReader, RedisReader, PostgresReader
<1>2. IInv /\ IInv' /\ [Next]_vars =>
        [\A w \in Writers : uses'[w] = uses[w] => Extends(History(w)', History(w))]_vars
  BY <1>1
<1> QED BY <1>2, Invariance, PTL DEF Spec, NeverRewritten
=============================================================================

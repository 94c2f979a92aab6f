--------------------------- MODULE ArithmeticProofs ---------------------------
(***************************************************************************)
(* The arithmetic the other proofs rest on, for all numbers: the laws of   *)
(* masked counters (why one may be used as if it were unbounded), multiples*)
(* of a length, and sums of sequences.  The library's induction theorems   *)
(* take an operator, which the provers cannot instantiate; what they are   *)
(* needed for here follows from the least number with a property.          *)
(***************************************************************************)
EXTENDS WrapCounter, Sums, WellFoundedInduction, SequenceTheorems, TLAPS

\* Division with remainder, the form the other lemmas split a counter into:
\* a wire value is the true count less a whole number of turns of the counter.
LEMMA ModSplit ==
  ASSUME NEW M \in Nat \ {0}, NEW a \in Int
  PROVE  /\ a % M \in 0..(M-1)
         /\ \E q \in Int : a = M * q + (a % M)
<1>1. a % M \in 0..(M-1) /\ a = M * (a \div M) + (a % M) /\ a \div M \in Int
  BY SMTT(20)
<1> QED BY <1>1

\* Multiplication distributes over a difference of turns.
LEMMA Distribute ==
  ASSUME NEW M \in Int, NEW p \in Int, NEW q \in Int
  PROVE  M * (p - q) = M * p - M * q
  BY SMTT(20)

\* The remainder is the only value in 0..M-1 congruent to x: two wire values
\* that differ by whole turns are the same register value.
LEMMA ModUnique ==
  ASSUME NEW M \in Nat \ {0}, NEW k \in Int, NEW r \in 0..(M-1), NEW x \in Int, x = M * k + r
  PROVE  x % M = r
<1>1. PICK q \in Int : x = M * q + (x % M)  BY ModSplit
<1>0. x % M \in 0..(M-1) BY ModSplit
<1>2. M * (k - q) = (x % M) - r
  BY <1>1, <1>0, Distribute
<1>3. k - q = 0
  <2>1. (x % M) - r < M /\ (x % M) - r > -M BY <1>0
  <2>2. \A d \in Int : d >= 1 => M * d >= M  BY SMTT(20)
  <2>3. \A d \in Int : d <= -1 => M * d <= -M  BY SMTT(20)
  <2> QED BY <1>2, <2>1, <2>2, <2>3
<1> QED BY <1>0, <1>1, <1>3

\* The masking law (module docstring of reverse_stream.py): the difference of
\* two wrapped counters is exact while the true difference is below 2^ctr_bits.
LEMMA UDiffExact ==
  ASSUME NEW M \in Nat \ {0}, NEW a \in Nat, NEW b \in Nat, b <= a, a - b < M
  PROVE  ((a % M) - (b % M)) % M = a - b
<1>0. a \in Int /\ b \in Int  OBVIOUS
<1>1. PICK p \in Int : a = M * p + (a % M)  BY <1>0, ModSplit, Zenon
<1>2. PICK q \in Int : b = M * q + (b % M)  BY <1>0, ModSplit, Zenon
<1>3. a % M \in 0..(M-1) /\ b % M \in 0..(M-1)  BY <1>0, ModSplit, Zenon
<1>4. M * (q - p) = M * q - M * p  BY Distribute
<1>5. (a % M) - (b % M) = M * (q - p) + (a - b)
  <2> DEFINE ra == a % M  rb == b % M  mq == M * q  mp == M * p  md == M * (q - p)
  <2>1. mq \in Int /\ mp \in Int /\ md \in Int /\ ra \in Int /\ rb \in Int  BY <1>3
  <2>2. a = mp + ra /\ b = mq + rb /\ md = mq - mp  BY <1>1, <1>2, <1>4
  <2>3. ra - rb = md + (a - b)
    <3> HIDE DEF ra, rb, mq, mp, md
    <3> QED BY <2>1, <2>2
  <2> QED BY <2>3
<1>6. a - b \in 0..(M-1) /\ q - p \in Int /\ (a % M) - (b % M) \in Int  BY <1>3
<1> DEFINE x == (a % M) - (b % M)  k == q - p  r == a - b
<1>7. x \in Int /\ k \in Int /\ r \in 0..(M-1) /\ x = M * k + r  BY <1>5, <1>6
<1>8. x % M = r
  <2> HIDE DEF x, k, r
  <2> QED BY <1>7, ModUnique
<1> QED BY <1>8

\* Counting on a wrapped counter and wrapping gives the wrapped true count:
\* written += n and consumed += n lose nothing but the high bits.
LEMMA WrapAdd ==
  ASSUME NEW M \in Nat \ {0}, NEW a \in Nat, NEW n \in Nat
  PROVE  ((a % M) + n) % M = (a + n) % M
<1>0. a \in Int /\ a + n \in Int  OBVIOUS
<1>1. PICK p \in Int : a = M * p + (a % M)  BY <1>0, ModSplit, Zenon
<1>2. PICK q \in Int : a + n = M * q + ((a + n) % M)  BY <1>0, ModSplit, Zenon
<1>3. a % M \in 0..(M-1) /\ (a + n) % M \in 0..(M-1)  BY <1>0, ModSplit, Zenon
<1>4. M * (q - p) = M * q - M * p  BY Distribute
<1>5. (a % M) + n = M * (q - p) + ((a + n) % M)
  <2> DEFINE ra == a % M  rb == (a + n) % M  mq == M * q  mp == M * p  md == M * (q - p)
  <2>1. mq \in Int /\ mp \in Int /\ md \in Int /\ ra \in Int /\ rb \in Int  BY <1>3
  <2>2. a = mp + ra /\ a + n = mq + rb /\ md = mq - mp  BY <1>1, <1>2, <1>4
  <2>3. ra + n = md + rb
    <3> HIDE DEF ra, rb, mq, mp, md
    <3> QED BY <2>1, <2>2
  <2> QED BY <2>3
<1>6. q - p \in Int /\ (a % M) + n \in Int  BY <1>3
<1> DEFINE x == (a % M) + n  k == q - p  r == (a + n) % M
<1>7. x \in Int /\ k \in Int /\ r \in 0..(M-1) /\ x = M * k + r  BY <1>3, <1>5, <1>6
<1>8. x % M = r
  <2> HIDE DEF x, k, r
  <2> QED BY <1>7, ModUnique
<1> QED BY <1>8

\* The same two laws in the vocabulary of the model.
LEMMA UdiffOfWraps ==
  ASSUME NEW M \in Nat \ {0}, NEW a \in Nat, NEW b \in Nat, b <= a, a - b < M
  PROVE  Udiff(Wrap(a, M), Wrap(b, M), M) = a - b
BY UDiffExact DEF Udiff, Wrap

LEMMA WrapOfWrap ==
  ASSUME NEW M \in Nat \ {0}, NEW a \in Nat, NEW n \in Nat
  PROVE  Wrap(Wrap(a, M) + n, M) = Wrap(a + n, M)
BY WrapAdd DEF Wrap

\* A wrapped count fits its register, and zero wraps to zero.
LEMMA WrapRange ==
  ASSUME NEW M \in Nat \ {0}, NEW a \in Nat
  PROVE  Wrap(a, M) \in 0..(M-1) /\ Wrap(0, M) = 0
<1>1. a \in Int /\ 0 \in Int /\ 0 \in 0..(M-1)  OBVIOUS
<1>2. Wrap(a, M) \in 0..(M-1)  BY <1>1, ModSplit DEF Wrap
<1>3. 0 % M = 0  BY <1>1, SMTT(20)
<1> QED BY <1>2, <1>3 DEF Wrap

-----------------------------------------------------------------------------
\* WrapAdd for counts that may be negative.
LEMMA ModAdd ==
  ASSUME NEW M \in Nat \ {0}, NEW a \in Int, NEW n \in Int
  PROVE  ((a % M) + n) % M = (a + n) % M
<1>0. a \in Int /\ (a % M) + n \in Int
  <2>1. a % M \in 0..(M-1) BY ModSplit
  <2> QED BY <2>1
<1>1. PICK p \in Int : a = M * p + (a % M)  BY <1>0, ModSplit, Zenon
<1>2. PICK q \in Int : (a % M) + n = M * q + (((a % M) + n) % M)  BY <1>0, ModSplit, Zenon
<1>3. a % M \in 0..(M-1) /\ ((a % M) + n) % M \in 0..(M-1)  BY <1>0, ModSplit, Zenon
<1> DEFINE ra == a % M  rb == ((a % M) + n) % M
<1>4. a + n = M * (p + q) + rb
  <2> DEFINE mp == M * p  mq == M * q  mpq == M * (p + q)
  <2>1. mpq = mp + mq /\ mp \in Int /\ mq \in Int  BY SMTT(20)
  <2>2. a = mp + ra /\ ra + n = mq + rb /\ ra \in Int /\ rb \in Int  BY <1>1, <1>2, <1>3
  <2>3. a + n = mpq + rb
    <3> HIDE DEF mp, mq, mpq, ra, rb
    <3> QED BY <2>1, <2>2
  <2> QED BY <2>3
<1> DEFINE k == p + q  x == a + n
<1>5. k \in Int /\ x \in Int /\ rb \in 0..(M-1) /\ x = M * k + rb  BY <1>3, <1>4
<1>6. x % M = rb
  <2> HIDE DEF rb, k, x
  <2> QED BY <1>5, ModUnique
<1> QED BY <1>6

\* Multiplication distributes over a sum of turns, and keeps their order.
LEMMA ProductsLemma ==
  ASSUME NEW M \in Int, NEW p \in Int, NEW q \in Int
  PROVE  M * (p + q) = M * p + M * q /\ M * p \in Int
  BY SMTT(20)

\* Turns keep their order.
LEMMA Monotone == ASSUME NEW M \in Nat, NEW p \in Int, NEW q \in Int, p <= q
  PROVE  M * p <= M * q
  BY SMTT(20)

\* A multiple of M below a multiple of M is M below it at least.
LEMMA NextMultiple ==
  ASSUME NEW M \in Nat \ {0}, NEW a \in Int, NEW b \in Int, a % M = 0, b % M = 0, a < b
  PROVE  a + M <= b /\ (a + M) % M = 0
<1>1. PICK p \in Int : a = M * p + 0  BY ModSplit
<1>2. PICK q \in Int : b = M * q + 0  BY ModSplit
<1>3. p < q
  <2>1. q <= p => M * q <= M * p  BY SMTT(20)
  <2> QED BY <1>1, <1>2, <2>1
<1>4. M * (p + 1) = M * p + M /\ M * (p + 1) \in Int  BY SMTT(20)
<1>5. M * (p + 1) <= M * q
  <2>1. p + 1 <= q  BY <1>3
  <2> QED BY <2>1, SMTT(20)
<1>6. (a + M) % M = 0
  <2> DEFINE k == p + 1  x == a + M
  <2>1. k \in Int /\ x \in Int /\ 0 \in 0..(M-1) /\ x = M * k + 0  BY <1>1, <1>4
  <2> HIDE DEF k, x
  <2>2. x % M = 0  BY <2>1, ModUnique
  <2> QED BY <2>2 DEF x
<1> QED BY <1>1, <1>2, <1>4, <1>5, <1>6

-----------------------------------------------------------------------------
\* Induction on the numbers, by way of the least counterexample.
Below == {ss \in Nat \X Nat : ss[1] < ss[2]}

LEMMA Smallest ==
  ASSUME NEW T, T \subseteq Nat, T # {}
  PROVE  \E x \in T : \A y \in T : x <= y
<1>1. Below = OpToRel(<, Nat)  BY DEF Below, OpToRel
<1>2. IsWellFoundedOn(Below, Nat)  BY <1>1, NatLessThanWellFounded
<1>3. PICK x \in T : \A y \in T : <<y, x>> \notin Below  BY <1>2, WFMin
<1>4. ASSUME NEW y \in T PROVE x <= y
  <2>1. <<y, x>> \notin Below /\ <<y, x>> \in Nat \X Nat  BY <1>3
  <2> QED BY <2>1 DEF Below
<1> QED BY <1>4

\* What holds of nought, and of a number whenever of the one before it, holds of all.
LEMMA Induct ==
  ASSUME NEW T, 0 \in T, \A k \in Nat : k \in T => k + 1 \in T
  PROVE  Nat \subseteq T
<1>1. ASSUME Nat \ T # {} PROVE FALSE
  <2>1. PICK k \in Nat \ T : \A j \in Nat \ T : k <= j  BY <1>1, Smallest
  <2>2. k - 1 \in Nat /\ ~(k <= k - 1) /\ (k - 1) + 1 = k  BY <2>1
  <2>3. k - 1 \in T  BY <2>1, <2>2
  <2> QED BY <2>2, <2>3
<1> QED BY <1>1

\* f adds the first k numbers of s up, one at a time.
AddsUp(f, s, k) == f[0] = 0 /\ \A i \in 1..k : f[i] = f[i - 1] + s[i]

\* What it adds up to depends on those k numbers.
LEMMA SumsAgree ==
  ASSUME NEW k \in Nat, NEW s, NEW t, \A i \in 1..k : s[i] = t[i],
         NEW f, AddsUp(f, s, k), NEW g, AddsUp(g, t, k)
  PROVE  \A i \in 0..k : f[i] = g[i]
<1> DEFINE T == {i \in Nat : i <= k => f[i] = g[i]}
<1>1. 0 \in T  BY DEF AddsUp
<1>2. ASSUME NEW i \in Nat, i \in T PROVE i + 1 \in T
  <2> SUFFICES ASSUME i + 1 <= k PROVE f[i + 1] = g[i + 1]  OBVIOUS
  <2>1. i + 1 \in 1..k /\ (i + 1) - 1 = i /\ i <= k  OBVIOUS
  <2>2. f[i + 1] = f[(i + 1) - 1] + s[i + 1] /\ g[i + 1] = g[(i + 1) - 1] + t[i + 1]
    BY <2>1 DEF AddsUp
  <2>3. f[i] = g[i]  BY <1>2, <2>1
  <2>4. s[i + 1] = t[i + 1]  BY <2>1
  <2>5. f[i + 1] = f[i] + s[i + 1] /\ g[i + 1] = g[i] + t[i + 1]  BY <2>1, <2>2
  <2> QED BY <2>3, <2>4, <2>5
<1> HIDE DEF T
<1>3. Nat \subseteq T  BY <1>1, <1>2, Induct
<1>4. ASSUME NEW i \in 0..k PROVE f[i] = g[i]
  <2>1. i \in Nat /\ i <= k  OBVIOUS
  <2> QED BY <1>3, <2>1 DEF T
<1> QED BY <1>4

\* The function whose last value SumOf(s) is, k being Len(s).
Running(g, s, k) == [i \in 0..k |-> IF i = 0 THEN 0 ELSE g[i - 1] + s[i]]

\* There is such an f, and SumOf is where it ends.
LEMMA SumIs ==
  ASSUME NEW s \in Seq(Nat)
  PROVE  \E f : AddsUp(f, s, Len(s)) /\ f[Len(s)] = SumOf(s) /\ f \in [0..Len(s) -> Nat]
<1> DEFINE T == {k \in Nat : k <= Len(s) =>
                              \E g : g = Running(g, s, k) /\ g \in [0..k -> Nat]}
<1>1. Len(s) \in Nat /\ \A i \in 1..Len(s) : s[i] \in Nat
  BY LenProperties, ElementOfSeq
<1>2. 0 \in T
  <2> DEFINE g == [i \in 0..0 |-> 0]
  <2>1. g = Running(g, s, 0)  BY DEF Running
  <2>2. g \in [0..0 -> Nat]  OBVIOUS
  <2> QED BY <2>1, <2>2
<1>3. ASSUME NEW k \in Nat, k \in T PROVE k + 1 \in T
  <2> SUFFICES ASSUME k + 1 <= Len(s)
               PROVE  \E g : g = Running(g, s, k + 1) /\ g \in [0..(k + 1) -> Nat]
    OBVIOUS
  <2>1. k <= Len(s) /\ k + 1 \in 1..Len(s)  BY <1>1
  <2>2. PICK g : g = Running(g, s, k) /\ g \in [0..k -> Nat]  BY <1>3, <2>1
  <2> DEFINE h == [i \in 0..(k + 1) |-> IF i = k + 1 THEN g[k] + s[k + 1] ELSE g[i]]
  <2>3. \A i \in 0..(k + 1) : i \in 0..k \/ i = k + 1  OBVIOUS
  <2>4. g[k] \in Nat /\ s[k + 1] \in Nat /\ g[k] + s[k + 1] \in Nat  BY <1>1, <2>1, <2>2
  <2>5. h \in [0..(k + 1) -> Nat]  BY <2>2, <2>3, <2>4
  <2>6. ASSUME NEW i \in 0..(k + 1) PROVE h[i] = Running(h, s, k + 1)[i]
    <3>1. CASE i = 0
      <4>1. g[0] = 0  BY <2>2 DEF Running
      <4> QED BY <3>1, <4>1 DEF Running
    <3>2. CASE i = k + 1
      <4>1. h[i] = g[k] + s[k + 1] /\ h[k] = g[k] /\ i - 1 = k /\ i # 0  BY <3>2
      <4> QED BY <3>2, <4>1 DEF Running
    <3>3. CASE i # 0 /\ i # k + 1
      <4>1. i \in 0..k /\ i - 1 \in 0..k /\ i - 1 \in 0..(k + 1) /\ i - 1 # k + 1  BY <3>3
      <4>2. h[i] = g[i] /\ h[i - 1] = g[i - 1]  BY <3>3, <4>1
      <4>3. g[i] = g[i - 1] + s[i]  BY <2>2, <3>3, <4>1 DEF Running
      <4> QED BY <3>3, <4>2, <4>3 DEF Running
    <3> QED BY <3>1, <3>2, <3>3
  <2>7. h = Running(h, s, k + 1)
    <3> HIDE DEF h
    <3> QED BY <2>5, <2>6 DEF Running
  <2> QED BY <2>5, <2>7
<1>4. Nat \subseteq T
  <2> HIDE DEF T
  <2> QED BY <1>2, <1>3, Induct
<1> DEFINE f == CHOOSE g : g = Running(g, s, Len(s))
<1>5. PICK g : g = Running(g, s, Len(s)) /\ g \in [0..Len(s) -> Nat]
  <2>1. Len(s) \in T  BY <1>1, <1>4
  <2> QED BY <1>1, <2>1
<1>6. f = Running(f, s, Len(s))  BY <1>5
<1>7. SumOf(s) = f[Len(s)]  BY DEF SumOf, Running
<1> HIDE DEF f
<1>8. f[0] = 0 /\ g[0] = 0  BY <1>1, <1>5, <1>6 DEF Running
<1>9. AddsUp(f, s, Len(s)) /\ AddsUp(g, s, Len(s))
  <2>1. \A i \in 1..Len(s) : i \in 0..Len(s) /\ i # 0  BY <1>1
  <2> QED BY <1>5, <1>6, <1>8, <2>1 DEF AddsUp, Running
<1>10. \A i \in 0..Len(s) : f[i] = g[i]  BY <1>1, <1>9, SumsAgree
<1>11. f \in [0..Len(s) -> Nat]
  <2>1. f = [i \in 0..Len(s) |-> f[i]]  BY <1>6 DEF Running
  <2> QED BY <1>5, <1>10, <2>1
<1> QED BY <1>7, <1>9, <1>11

\* Sums of numbers are numbers; the empty sum, one element more, two sequences in a row.
LEMMA SumIsNat == ASSUME NEW s \in Seq(Nat) PROVE SumOf(s) \in Nat
<1>1. Len(s) \in Nat  BY LenProperties
<1>2. Len(s) \in 0..Len(s)  BY <1>1
<1> QED BY <1>2, SumIs

LEMMA SumOfNone == SumOf(<<>>) = 0
<1>1. <<>> \in Seq(Nat) /\ Len(<<>>) = 0  BY EmptySeq
<1> QED BY <1>1, SumIs DEF AddsUp

LEMMA SumOfMore ==
  ASSUME NEW s \in Seq(Nat), NEW n \in Nat
  PROVE  SumOf(Append(s, n)) = SumOf(s) + n
<1> DEFINE t == Append(s, n)  k == Len(s)
<1>1. /\ k \in Nat /\ t \in Seq(Nat) /\ Len(t) = k + 1 /\ t[k + 1] = n
      /\ \A i \in 1..k : t[i] = s[i]
  BY LenProperties, AppendProperties
<1>2. PICK f : AddsUp(f, s, k) /\ f[k] = SumOf(s)  BY SumIs
<1> HIDE DEF t, k
<1>3. PICK g : AddsUp(g, t, k + 1) /\ g[k + 1] = SumOf(t)  BY <1>1, SumIs
<1>4. AddsUp(g, t, k)
  <2>1. \A i \in 1..k : i \in 1..(k + 1)  BY <1>1
  <2> QED BY <1>3, <2>1 DEF AddsUp
<1>5. k \in 0..k /\ k + 1 \in 1..(k + 1) /\ (k + 1) - 1 = k  BY <1>1
<1>6. f[k] = g[k]  BY <1>1, <1>2, <1>4, <1>5, SumsAgree
<1>7. g[k + 1] = g[k] + n  BY <1>1, <1>3, <1>5 DEF AddsUp
<1> QED BY <1>2, <1>3, <1>6, <1>7 DEF t

\* An element at the end of the second sequence is one at the end of both.
LEMMA ConcatMore ==
  ASSUME NEW S, NEW s \in Seq(S), NEW t \in Seq(S), NEW e \in S
  PROVE  s \o t \in Seq(S) /\ s \o Append(t, e) = Append(s \o t, e)
<1>1. <<e>> \in Seq(S) /\ s \o t \in Seq(S)  BY ConcatProperties
<1>2. Append(t, e) = t \o <<e>>  BY AppendIsConcat
<1>3. Append(s \o t, e) = (s \o t) \o <<e>>  BY <1>1, AppendIsConcat
<1>4. (s \o t) \o <<e>> = s \o (t \o <<e>>)  BY <1>1, ConcatAssociative
<1> QED BY <1>1, <1>2, <1>3, <1>4

\* By induction on the length of the second sequence.
LEMMA SumOfBoth ==
  ASSUME NEW s \in Seq(Nat), NEW t \in Seq(Nat)
  PROVE  SumOf(s \o t) = SumOf(s) + SumOf(t)
<1> DEFINE T == {k \in Nat : \A u \in Seq(Nat) : Len(u) = k => SumOf(s \o u) = SumOf(s) + SumOf(u)}
<1>1. 0 \in T
  <2> SUFFICES ASSUME NEW u \in Seq(Nat), Len(u) = 0 PROVE SumOf(s \o u) = SumOf(s) + SumOf(u)
    OBVIOUS
  <2>1. u = <<>>  BY EmptySeq
  <2>2. s \o <<>> = s  BY ConcatEmptySeq
  <2>3. SumOf(s) \in Nat  BY SumIsNat
  <2> QED BY <2>1, <2>2, <2>3, SumOfNone
<1>2. ASSUME NEW k \in Nat, k \in T PROVE k + 1 \in T
  <2> SUFFICES ASSUME NEW u \in Seq(Nat), Len(u) = k + 1
               PROVE  SumOf(s \o u) = SumOf(s) + SumOf(u)
    OBVIOUS
  <2>1. u # <<>>  BY EmptySeq
  <2>2. PICK v \in Seq(Nat), n \in Nat : u = Append(v, n)  BY <2>1, SequenceEmptyOrAppend
  <2>3. Len(v) = k
    <3>1. Len(u) = Len(v) + 1 /\ Len(v) \in Nat  BY <2>2, AppendProperties, LenProperties
    <3> QED BY <3>1
  <2>4. SumOf(s \o v) = SumOf(s) + SumOf(v)  BY <1>2, <2>3
  <2>5. SumOf(u) = SumOf(v) + n  BY <2>2, SumOfMore
  <2>6. s \o u = Append(s \o v, n) /\ s \o v \in Seq(Nat)  BY <2>2, ConcatMore
  <2>7. SumOf(s \o u) = SumOf(s \o v) + n  BY <2>6, SumOfMore
  <2>8. SumOf(s) \in Nat /\ SumOf(v) \in Nat  BY SumIsNat
  <2> QED BY <2>4, <2>5, <2>7, <2>8
<1> HIDE DEF T
<1>3. Nat \subseteq T  BY <1>1, <1>2, Induct
<1>4. Len(t) \in Nat  BY LenProperties
<1>5. Len(t) \in T  BY <1>3, <1>4
<1> QED BY <1>5 DEF T

LEMMA SumOfOne == ASSUME NEW n \in Nat PROVE <<n>> \in Seq(Nat) /\ SumOf(<<n>>) = n
<1>1. <<>> \in Seq(Nat) /\ <<n>> \in Seq(Nat) /\ Append(<<>>, n) = <<n>>  BY EmptySeq
<1>2. SumOf(<<n>>) = SumOf(<<>>) + n  BY <1>1, SumOfMore
<1>3. SumOf(<<n>>) = 0 + n  BY <1>2, SumOfNone
<1> QED BY <1>1, <1>3

\* The first of the sequence and the rest of it.
LEMMA SumOfTail ==
  ASSUME NEW s \in Seq(Nat), s # <<>>
  PROVE  /\ Head(s) \in Nat /\ Tail(s) \in Seq(Nat) /\ SumOf(Tail(s)) \in Nat
         /\ SumOf(s) = Head(s) + SumOf(Tail(s))
<1>1. Head(s) \in Nat /\ Tail(s) \in Seq(Nat)  BY HeadTailProperties
<1>2. <<Head(s)>> \o Tail(s) = s  OBVIOUS
<1>3. SumOf(<<Head(s)>> \o Tail(s)) = SumOf(<<Head(s)>>) + SumOf(Tail(s))
  BY <1>1, SumOfOne, SumOfBoth
<1>4. SumOf(<<Head(s)>>) = Head(s)  BY <1>1, SumOfOne
<1> QED BY <1>1, <1>2, <1>3, <1>4, SumIsNat

\* The two parts a position cuts a sequence into.
LEMMA SumOfParts ==
  ASSUME NEW s \in Seq(Nat), NEW j \in 0..Len(s)
  PROVE  /\ SubSeq(s, 1, j) \in Seq(Nat) /\ SubSeq(s, j + 1, Len(s)) \in Seq(Nat)
         /\ SumOf(SubSeq(s, 1, j)) + SumOf(SubSeq(s, j + 1, Len(s))) = SumOf(s)
<1> DEFINE a == SubSeq(s, 1, j)  b == SubSeq(s, j + 1, Len(s))
<1>1. Len(s) \in Nat /\ j \in Int /\ j + 1 \in Int  BY LenProperties
<1>2. \A i \in 1..Len(s) : s[i] \in Nat  BY ElementOfSeq
<1>3. a \in Seq(Nat) /\ b \in Seq(Nat)
  <2>1. (\A i \in 1..j : s[i] \in Nat) /\ (\A i \in (j + 1)..Len(s) : s[i] \in Nat)
    BY <1>1, <1>2
  <2> QED BY <1>1, <2>1, SubSeqProperties
<1>4. a \o b = s
  <2>1. 1 \in 1..(Len(s) + 1) /\ j \in (1 - 1)..Len(s) /\ Len(s) \in j..Len(s)
    BY <1>1
  <2>2. a \o b = SubSeq(s, 1, Len(s))  BY <2>1, ConcatAdjacentSubSeq
  <2> QED BY <2>2, SubSeqFull
<1>5. SumOf(a \o b) = SumOf(a) + SumOf(b)  BY <1>3, SumOfBoth
<1> QED BY <1>3, <1>4, <1>5
\* One element more of the front part of a sequence.
LEMMA SumOfPart ==
  ASSUME NEW s \in Seq(Nat), NEW j \in 1..Len(s)
  PROVE  /\ s[j] \in Nat /\ SumOf(SubSeq(s, 1, j - 1)) \in Nat
         /\ SumOf(SubSeq(s, 1, j)) = SumOf(SubSeq(s, 1, j - 1)) + s[j]
<1> DEFINE a == SubSeq(s, 1, j - 1)  b == SubSeq(s, j, j)
<1>1. Len(s) \in Nat /\ j \in Int /\ j >= 1 /\ j <= Len(s)  BY LenProperties
<1>2. s[j] \in Nat  BY ElementOfSeq
<1>3. j - 1 \in 0..Len(s) /\ (j - 1) + 1 = j  BY <1>1
<1>4. a \in Seq(Nat)  BY <1>3, SumOfParts
<1>5. b = <<s[j]>>
  <2>1. j \in 1..(Len(s) + 1) /\ j \in (j - 1)..Len(s) /\ j \in Int /\ (j - j) + 1 = 1  BY <1>1
  <2>2. Len(b) = 1 /\ b[1] = s[j]  OBVIOUS
  <2>3. b \in Seq(Nat)  BY <1>1, <1>2, SubSeqProperties
  <2> HIDE DEF b
  <2>4. <<s[j]>> \in Seq(Nat) /\ Len(<<s[j]>>) = 1 /\ <<s[j]>>[1] = s[j]  BY <1>2
  <2> QED BY <2>2, <2>3, <2>4, SeqEqual
<1>6. a \o b = SubSeq(s, 1, j)
  <2>1. 1 \in 1..(Len(s) + 1) /\ j - 1 \in (1 - 1)..Len(s) /\ j \in (j - 1)..Len(s)  BY <1>1
  <2>2. SubSeq(s, 1, j - 1) \o SubSeq(s, (j - 1) + 1, j) = SubSeq(s, 1, j)
    BY <2>1, ConcatAdjacentSubSeq
  <2> QED BY <1>3, <2>2
<1>7. b \in Seq(Nat) /\ SumOf(b) = s[j]  BY <1>2, <1>5, SumOfOne
<1>8. SumOf(a \o b) = SumOf(a) + SumOf(b)  BY <1>4, <1>7, SumOfBoth
<1> QED BY <1>2, <1>4, <1>6, <1>7, <1>8, SumIsNat

\* The front parts sum up to what is asked for from some length on.
LEMMA ShortestPart ==
  ASSUME NEW s \in Seq(Nat), NEW h \in Nat, NEW got \in Nat, got <= h + SumOf(s)
  PROVE  \E j \in 0..Len(s) :
           /\ h + SumOf(SubSeq(s, 1, j)) >= got
           /\ \A i \in 0..(j - 1) : h + SumOf(SubSeq(s, 1, i)) < got
<1> DEFINE T == {j \in 0..Len(s) : h + SumOf(SubSeq(s, 1, j)) >= got}
<1>1. Len(s) \in Nat  BY LenProperties
<1>2. T \subseteq Nat  BY <1>1
<1>3. Len(s) \in T
  <2>1. SubSeq(s, 1, Len(s)) = s  BY SubSeqFull
  <2> DEFINE a == SumOf(SubSeq(s, 1, Len(s)))
  <2>2. a = SumOf(s) /\ SumOf(s) \in Nat  BY <2>1, SumIsNat
  <2>3. Len(s) \in 0..Len(s)  BY <1>1
  <2> HIDE DEF a
  <2>4. h + a >= got  BY <2>2
  <2> QED BY <2>3, <2>4 DEF a
<1>4. PICK j \in T : \A i \in T : j <= i
  <2> HIDE DEF T
  <2> QED BY <1>2, <1>3, Smallest
<1>5. ASSUME NEW i \in 0..(j - 1) PROVE h + SumOf(SubSeq(s, 1, i)) < got
  <2>1. j \in 0..Len(s) /\ j \in Nat  BY <1>1, <1>4
  <2>2. i \in 0..Len(s) /\ ~(j <= i)  BY <1>1, <2>1
  <2>3. i \notin T  BY <1>4, <2>2
  <2>4. ~(h + SumOf(SubSeq(s, 1, i)) >= got)  BY <2>2, <2>3
  <2>5. SumOf(SubSeq(s, 1, i)) \in Nat
    <3>1. SubSeq(s, 1, i) \in Seq(Nat)  BY <2>2, SumOfParts
    <3> QED BY <3>1, SumIsNat
  <2> QED BY <2>4, <2>5
<1> QED BY <1>4, <1>5
=============================================================================

--------------------------- MODULE AuxHwDrvProofs ---------------------------
(***************************************************************************)
(* Theorems about AuxHwDrv, for every filter, table and pair of            *)
(* thresholds.                                                             *)
(*                                                                         *)
(* The sensor channel: sums of sequences, the interpolation as a rising    *)
(* function, and the invariant that the running sum is the sum of the      *)
(* window.  The prover cannot instantiate a rule of induction, so a        *)
(* statement about all indices is shown by its smallest counterexample     *)
(* (LeastElement).                                                         *)
(*                                                                         *)
(* The fan: nothing about it depends on the temperatures that the channel  *)
(* computes, only on when it stores them.                                  *)
(***************************************************************************)
EXTENDS AuxHwDrv, TLAPS, WellFoundedInduction, SequenceTheorems

-----------------------------------------------------------------------------
(***************************************************************************)
(* Natural numbers and division.                                           *)
(***************************************************************************)

\* Every nonempty set of natural numbers has a least element.
LEMMA LeastElement ==
  ASSUME NEW T \in SUBSET Nat, T # {}
  PROVE  \E x \in T : \A y \in T : x <= y
<1>1. PICK x \in T : \A y \in T : ~ (<<y, x>> \in OpToRel(<, Nat))
  BY NatLessThanWellFounded, WFMin
<1>2. ASSUME NEW y \in T PROVE x <= y
  <2>1. x \in Nat /\ y \in Nat
    OBVIOUS
  <2>2. y < x => <<y, x>> \in OpToRel(<, Nat)
    BY <2>1 DEF OpToRel
  <2>3. ~ (y < x)
    BY <1>1, <2>2
  <2>4. QED
    BY <2>1, <2>3
<1>3. QED
  BY <1>2

LEMMA DivMod ==
  ASSUME NEW d \in Nat \ {0}, NEW n \in Int
  PROVE  /\ n \div d \in Int /\ n % d \in 0 .. d - 1
         /\ n = d * (n \div d) + (n % d)
<1>1. n \div d \in Int /\ n % d \in Int
  OBVIOUS
<1>2. 0 <= n % d /\ n % d < d
  OBVIOUS
<1>3. n = d * (n \div d) + (n % d)
  OBVIOUS
<1>4. QED
  BY <1>1, <1>2, <1>3
\* Remainders of numbers below twice the divisor.
LEMMA ModSmall ==
  ASSUME NEW m \in Nat \ {0}, NEW x \in 0 .. m - 1
  PROVE  x % m = x
  OBVIOUS

LEMMA ModOnce ==
  ASSUME NEW m \in Nat \ {0}, NEW x \in m .. 2 * m - 1
  PROVE  x % m = x - m
  OBVIOUS

\* A quotient between two bounds, and the laws of the division.
LEMMA DivRange ==
  ASSUME NEW n \in Nat \ {0}, NEW low \in Int, NEW high \in Int, NEW s \in Int,
         n * low <= s, s <= n * high
  PROVE  s \div n \in low .. high
  OBVIOUS

LEMMA DivBelow ==
  ASSUME NEW d \in Nat \ {0}, NEW k \in Nat \ {0}, NEW n \in Nat, n < k * d
  PROVE  n \div d \in 0 .. k - 1
<1> DEFINE q == n \div d
<1>1. q \in Int /\ n % d \in 0 .. d - 1 /\ n = d * q + (n % d)
  BY DivMod
<1> HIDE DEF q
<1>2. 0 <= q
  <2>1. ASSUME q <= 0 - 1 PROVE FALSE
    <3>1. d * q <= d * (0 - 1)
      BY <1>1, <2>1
    <3>2. QED
      BY <1>1, <3>1
  <2>2. QED
    BY <1>1, <2>1
<1>3. q < k
  <2>1. ASSUME k <= q PROVE FALSE
    <3>1. d * k <= d * q
      BY <1>1, <2>1
    <3>2. QED
      BY <1>1, <3>1
  <2>2. QED
    BY <1>1, <2>1
<1>4. QED
  BY <1>1, <1>2, <1>3 DEF q

LEMMA DivRises ==
  ASSUME NEW d \in Nat \ {0}, NEW m \in Nat, NEW n \in Nat, m <= n
  PROVE  \/ m \div d < n \div d
         \/ m \div d = n \div d /\ m % d <= n % d
<1> DEFINE p == m \div d
<1> DEFINE q == n \div d
<1>1. p \in Int /\ m % d \in 0 .. d - 1 /\ m = d * p + (m % d)
  BY DivMod
<1>2. q \in Int /\ n % d \in 0 .. d - 1 /\ n = d * q + (n % d)
  BY DivMod
<1> HIDE DEF p, q
<1>3. p <= q
  <2>1. ASSUME q + 1 <= p PROVE FALSE
    <3>1. d * (q + 1) <= d * p
      BY <1>1, <1>2, <2>1
    <3>2. d * (q + 1) = d * q + d
      BY <1>2
    <3>3. QED
      BY <1>1, <1>2, <3>1, <3>2
  <2>2. QED
    BY <1>1, <1>2, <2>1
<1>4. p = q => m % d <= n % d
  BY <1>1, <1>2
<1>5. QED
  BY <1>1, <1>2, <1>3, <1>4 DEF p, q

\* A point of a rising segment lies between its ends.
LEMMA OnSegment ==
  ASSUME NEW d \in Nat \ {0}, NEW r \in 0 .. d - 1, NEW a \in Int,
         NEW b \in Int,
         a <= b
  PROVE  /\ d * a + r * (b - a) \in Int
         /\ d * a <= d * a + r * (b - a)
         /\ d * a + r * (b - a) <= d * b
<1> DEFINE h == b - a
<1>1. h \in Nat /\ b = a + h
  OBVIOUS
<1> HIDE DEF h
<1>2. 0 <= r * h /\ r * h <= d * h
  BY <1>1
<1>3. d * b = d * a + d * h /\ d * a \in Int /\ d * h \in Int /\ r * h \in Int
  BY <1>1
<1>4. QED
  BY <1>2, <1>3 DEF h

-----------------------------------------------------------------------------
(***************************************************************************)
(* Sums of sequences.                                                      *)
(***************************************************************************)

LEMMA SequenceLength ==
  ASSUME NEW S, NEW n \in Nat, NEW s \in [1 .. n -> S]
  PROVE  s \in Seq(S) /\ Len(s) = n
<1>1. s \in Seq(S)
  BY SeqDef
<1>2. Len(s) \in Nat /\ 1 .. Len(s) = 1 .. n
  BY <1>1, LenProperties
<1>3. QED
  BY <1>1, <1>2

\* f holds the sums of the prefixes of s up to the m-th.
ArePrefixSums(f, s, m) ==
  f = [i \in 0 .. m |-> IF i = 0 THEN 0 ELSE f[i - 1] + s[i]]

LEMMA PrefixSumsExist ==
  ASSUME NEW n \in Nat, NEW s \in [1 .. n -> Int]
  PROVE  \E f : ArePrefixSums(f, s, n)
<1> DEFINE T == {m \in 0 .. n : ~ \E f : ArePrefixSums(f, s, m)}
<1>1. ASSUME T # {} PROVE FALSE
  <2>1. PICK m \in T : \A k \in T : m <= k
    <3>1. T \in SUBSET Nat
      OBVIOUS
    <3>2. QED
      BY <1>1, <3>1, LeastElement
  <2>2. m # 0
    <3>1. ArePrefixSums([i \in 0 .. 0 |-> 0], s, 0)
      BY DEF ArePrefixSums
    <3>2. QED
      BY <2>1, <3>1
  <2>3. m - 1 \in 0 .. n /\ m \in 1 .. n /\ m - 1 \notin T
    BY <2>1, <2>2
  <2>4. PICK f : ArePrefixSums(f, s, m - 1)
    BY <2>3
  <2> DEFINE g == [i \in 0 .. m |-> IF i = m THEN f[m - 1] + s[m] ELSE f[i]]
  <2>5. \A i \in 0 .. m : g[i] = IF i = 0 THEN 0 ELSE g[i - 1] + s[i]
    <3>1. \A i \in 0 .. m - 1 : f[i] = IF i = 0 THEN 0 ELSE f[i - 1] + s[i]
      BY <2>4, <2>3 DEF ArePrefixSums
    <3>2. QED
      BY <2>3, <3>1
  <2>6. ArePrefixSums(g, s, m)
    BY <2>5, Zenon DEF ArePrefixSums
  <2>7. QED
    BY <2>1, <2>6
<1>2. n \in 0 .. n
  OBVIOUS
<1>3. QED
  BY <1>1, <1>2

\* What SumOf is: the last of the sums of the prefixes.
LEMMA PrefixSums ==
  ASSUME NEW n \in Nat, NEW s \in [1 .. n -> Int]
  PROVE  \E f \in [0 .. n -> Int] :
           /\ f[0] = 0
           /\ \A i \in 1 .. n : f[i] = f[i - 1] + s[i]
           /\ SumOf(s) = f[n]
<1> DEFINE f == CHOOSE g : ArePrefixSums(g, s, n)
<1>1. ArePrefixSums(f, s, n)
  BY PrefixSumsExist
<1>2. SumOf(s) = f[n]
  <2>1. Len(s) = n
    BY SequenceLength
  <2>2. QED
    BY <2>1, Zenon DEF SumOf, ArePrefixSums
<1> HIDE DEF f
<1>3. f[0] = 0 /\ \A i \in 1 .. n : f[i] = f[i - 1] + s[i]
  BY <1>1 DEF ArePrefixSums
<1>4. f \in [0 .. n -> Int]
  <2> DEFINE T == {i \in 0 .. n : f[i] \notin Int}
  <2>1. ASSUME T # {} PROVE FALSE
    <3>1. PICK i \in T : \A k \in T : i <= k
      <4>1. T \in SUBSET Nat
        OBVIOUS
      <4>2. QED
        BY <2>1, <4>1, LeastElement
    <3>2. i \in 1 .. n /\ i - 1 \in 0 .. n /\ i - 1 \notin T
      BY <3>1, <1>3
    <3>3. QED
      BY <3>1, <3>2, <1>3
  <2>2. \A i \in 0 .. n : f[i] \in Int
    BY <2>1
  <2>3. QED
    BY <1>1, <2>2 DEF ArePrefixSums
<1>5. QED
  BY <1>2, <1>3, <1>4

\* The sum of numbers between low and high.
LEMMA SumBounds ==
  ASSUME NEW n \in Nat, NEW low \in Int, NEW high \in Int,
         NEW s \in [1 .. n -> Int], \A i \in 1 .. n : low <= s[i]
         /\ s[i] <= high
  PROVE  SumOf(s) \in Int /\ n * low <= SumOf(s) /\ SumOf(s) <= n * high
<1>1. PICK f \in [0 .. n -> Int] :
        /\ f[0] = 0
        /\ \A i \in 1 .. n : f[i] = f[i - 1] + s[i]
        /\ SumOf(s) = f[n]
  BY PrefixSums
<1> DEFINE T == {i \in 0 .. n : ~ (i * low <= f[i] /\ f[i] <= i * high)}
<1>2. ASSUME T # {} PROVE FALSE
  <2>1. PICK i \in T : \A k \in T : i <= k
    <3>1. T \in SUBSET Nat
      OBVIOUS
    <3>2. QED
      BY <1>2, <3>1, LeastElement
  <2>2. i # 0
    BY <1>1, <2>1
  <2>3. i - 1 \in 0 .. n /\ i \in 1 .. n /\ i - 1 \notin T
    BY <2>1, <2>2
  <2>4. (i - 1) * low <= f[i - 1] /\ f[i - 1] <= (i - 1) * high
    BY <2>3
  <2>5. i * low <= f[i] /\ f[i] <= i * high
    BY <1>1, <2>3, <2>4
  <2>6. QED
    BY <2>1, <2>5
<1>3. n \in 0 .. n /\ f[n] \in Int
  OBVIOUS
<1>4. n * low <= f[n] /\ f[n] <= n * high
  BY <1>2, <1>3
<1>5. QED
  BY <1>1, <1>3, <1>4

\* A sequence whose oldest element leaves and that gets a new one.
LEMMA SumShifted ==
  ASSUME NEW n \in Nat \ {0}, NEW s \in [1 .. n -> Int],
         NEW t \in [1 .. n -> Int],
         \A i \in 1 .. n - 1 : t[i] = s[i + 1]
  PROVE  SumOf(t) = SumOf(s) + t[n] - s[1]
<1>1. PICK f \in [0 .. n -> Int] :
        /\ f[0] = 0
        /\ \A i \in 1 .. n : f[i] = f[i - 1] + s[i]
        /\ SumOf(s) = f[n]
  BY PrefixSums
<1>2. PICK g \in [0 .. n -> Int] :
        /\ g[0] = 0
        /\ \A i \in 1 .. n : g[i] = g[i - 1] + t[i]
        /\ SumOf(t) = g[n]
  BY PrefixSums
<1> DEFINE T == {i \in 0 .. n - 1 : g[i] # f[i + 1] - s[1]}
<1>3. ASSUME T # {} PROVE FALSE
  <2>1. PICK i \in T : \A k \in T : i <= k
    <3>1. T \in SUBSET Nat
      OBVIOUS
    <3>2. QED
      BY <1>3, <3>1, LeastElement
  <2>2. i # 0
    BY <1>1, <1>2, <2>1
  <2>3. i - 1 \in 0 .. n - 1 /\ i \in 1 .. n - 1 /\ i - 1 \notin T
    BY <2>1, <2>2
  <2>4. g[i - 1] = f[i] - s[1]
    BY <2>3
  <2>5. g[i] = g[i - 1] + s[i + 1] /\ f[i + 1] = f[i] + s[i + 1]
    BY <1>1, <1>2, <2>3
  <2>6. g[i] = f[i + 1] - s[1]
    <3> HIDE DEF T
    <3>1. f[i] \in Int /\ s[1] \in Int /\ s[i + 1] \in Int
      BY <2>3
    <3>2. g[i] = f[i] - s[1] + s[i + 1] /\ f[i + 1] = f[i] + s[i + 1]
      BY <2>4, <2>5
    <3>3. \A a, b, c \in Int : a - b + c = (a + c) - b
      OBVIOUS
    <3>4. QED
      BY <3>1, <3>2, <3>3
  <2>7. QED
    BY <2>1, <2>6
<1>4. n - 1 \in 0 .. n - 1 /\ n \in 1 .. n
  OBVIOUS
<1>5. g[n - 1] = f[n] - s[1]
  <2>1. g[n - 1] = f[(n - 1) + 1] - s[1]
    BY <1>3, <1>4
  <2>2. (n - 1) + 1 = n
    OBVIOUS
  <2>3. QED
    BY <2>1, <2>2
<1>6. g[n] = g[n - 1] + t[n]
  BY <1>2, <1>4
<1>7. QED
  BY <1>1, <1>2, <1>5, <1>6

\* The sum with which the filter starts.
LEMMA SumConstant ==
  ASSUME NEW n \in Nat, NEW x \in Int
  PROVE  SumOf([i \in 1 .. n |-> x]) = n * x
<1> DEFINE s == [i \in 1 .. n |-> x]
<1>1. /\ s \in [1 .. n -> Int] /\ \A i \in 1 .. n : x <= s[i] /\ s[i] <= x
  OBVIOUS
<1>2. SumOf(s) \in Int /\ n * x <= SumOf(s) /\ SumOf(s) <= n * x
  <2> HIDE DEF s
  <2>1. QED
    BY <1>1, SumBounds
<1> HIDE DEF s
<1>3. SumOf(s) = n * x
  BY <1>2
<1>4. QED
  BY <1>3 DEF s

\* The static_assert on N leaves the sum room enough (adc_filter_interpolation
\* .hpp:25-26).
LEMMA SizeBounds ==
  /\ RawSize \in Nat \ {0} /\ N \in Nat \ {0} /\ N <= RawSize
  /\ averaged_samples \in Nat \ {0}
  /\ SumSize \in Nat \ {0}
  /\ N * (RawSize - 1) < SumSize
<1>1. RawSize \in Nat \ {0} /\ N \in Nat \ {0} /\ N <= RawSize
  BY FilterAssumption
<1>2. N * (RawSize - 1) <= RawSize * (RawSize - 1)
  BY <1>1
<1>3. QED
  BY <1>1, <1>2, FilterAssumption DEF SumSize

\* An average lies between the bounds of what is averaged.
LEMMA MeanBetween ==
  ASSUME NEW n \in Nat \ {0}, NEW low \in Int, NEW high \in Int,
         NEW s \in [1 .. n -> Int], \A i \in 1 .. n : low <= s[i]
         /\ s[i] <= high
  PROVE  SumOf(s) \div n \in low .. high
  BY SumBounds, DivRange

\* Readings are numbers below RawSize, and so is their average.
LEMMA SumOfRaw ==
  ASSUME NEW n \in Nat \ {0}, NEW s \in [1 .. n -> Raw]
  PROVE  /\ s \in [1 .. n -> Int]
         /\ SumOf(s) \in 0 .. n * (RawSize - 1)
         /\ SumOf(s) \div n \in Raw
<1> DEFINE low == 0
           high == RawSize - 1
<1>1. n \in Nat /\ low \in Int /\ high \in Int /\ Raw = low .. high
  BY SizeBounds DEF Raw
<1>2. s \in [1 .. n -> Int] /\ \A i \in 1 .. n : low <= s[i] /\ s[i] <= high
  BY <1>1
<1> HIDE DEF low, high
<1>3. SumOf(s) \in Int /\ n * low <= SumOf(s) /\ SumOf(s) <= n * high
  BY <1>1, <1>2, SumBounds, Zenon
<1>4. SumOf(s) \div n \in low .. high
  BY <1>1, <1>2, MeanBetween, Zenon
<1>5. SumOf(s) \in 0 .. n * high
  BY <1>1, <1>3 DEF low
<1>6. QED
  BY <1>1, <1>2, <1>4, <1>5 DEF high

-----------------------------------------------------------------------------
(***************************************************************************)
(* The table and its interpolation.                                        *)
(***************************************************************************)

span == _in_fsr_top - _in_fsr_bot
intervals == Len(Lut) - 1

\* What the constants of the table are.
LEMMA TableFacts ==
  /\ span \in Nat \ {0} /\ intervals \in Nat \ {0}
  /\ _in_fsr_bot \in Nat /\ _in_fsr_top \in Nat
  /\ _in_fsr_bot \in Raw /\ _in_fsr_top \in Raw
  /\ _in_fsr_top = _in_fsr_bot + span
  /\ Len(Lut) = intervals + 1
  /\ \A k \in 1 .. intervals + 1 : Lut[k] \in Int
<1>1. Len(Lut) \in Nat /\ \A k \in 1 .. Len(Lut) : Lut[k] \in Int
  BY FilterAssumption, LenProperties, ElementOfSeq
<1>2. {_in_fsr_bot, _in_fsr_top} \subseteq Raw /\ _in_fsr_top > _in_fsr_bot
  BY FilterAssumption
<1>3. _in_fsr_bot \in Raw /\ _in_fsr_top \in Raw
  BY <1>2
<1>4. _in_fsr_bot \in Nat /\ _in_fsr_top \in Nat
  BY <1>3, SizeBounds DEF Raw
<1>5. QED
  BY <1>1, <1>2, <1>3, <1>4, FilterAssumption DEF span, intervals

\* The table rises over any distance, not only from an entry to the next.
LEMMA TableRises ==
  ASSUME NEW i \in 1 .. Len(Lut), NEW j \in 1 .. Len(Lut), i <= j
  PROVE  Lut[i] <= Lut[j]
<1>1. Len(Lut) \in Nat /\ \A k \in 1 .. Len(Lut) : Lut[k] \in Int
  BY FilterAssumption, LenProperties, ElementOfSeq
<1> DEFINE T == {k \in i .. Len(Lut) : ~ (Lut[i] <= Lut[k])}
<1>2. ASSUME T # {} PROVE FALSE
  <2>1. PICK k \in T : \A l \in T : k <= l
    <3>1. T \in SUBSET Nat
      BY <1>1
    <3>2. QED
      BY <1>2, <3>1, LeastElement
  <2>2. k # i
    BY <1>1, <2>1
  <2>3. /\ k - 1 \in i .. Len(Lut) /\ k - 1 \notin T
        /\ k - 1 \in 1 .. Len(Lut) - 1 /\ k \in 1 .. Len(Lut)
    BY <1>1, <2>1, <2>2
  <2>4. Lut[i] <= Lut[k - 1]
    BY <2>3
  <2>5. Lut[k - 1] < Lut[(k - 1) + 1] /\ (k - 1) + 1 = k
    BY <2>3, FilterAssumption
  <2>6. Lut[i] \in Int /\ Lut[k - 1] \in Int /\ Lut[k] \in Int
    BY <1>1, <2>3
  <2>7. Lut[i] <= Lut[k]
    BY <2>4, <2>5, <2>6
  <2>8. QED
    BY <2>1, <2>7
<1>3. j \in i .. Len(Lut)
  BY <1>1
<1>4. QED
  BY <1>2, <1>3

\* Where a reading inside the range falls: an interval of the table, and how
\* far into it.
Inside(x) == x \in Raw /\ _in_fsr_bot < x /\ x < _in_fsr_top
position(x) == intervals * (x - _in_fsr_bot)
interval(x) == position(x) \div span
rest(x) == position(x) % span

LEMMA PositionInRange ==
  ASSUME NEW x, Inside(x)
  PROVE  position(x) \in Nat /\ position(x) < intervals * span
<1>1. x \in Nat
  BY SizeBounds DEF Inside, Raw
<1>2. x - _in_fsr_bot \in Nat /\ x - _in_fsr_bot < span
  BY <1>1, TableFacts DEF Inside
<1>3. QED
  BY <1>2, TableFacts DEF position

LEMMA IntervalInRange ==
  ASSUME NEW x, Inside(x)
  PROVE  interval(x) \in 0 .. intervals - 1 /\ rest(x) \in 0 .. span - 1
<1>1. /\ span \in Nat \ {0} /\ intervals \in Nat \ {0}
      /\ position(x) \in Nat /\ position(x) \in Int
  BY TableFacts, PositionInRange
<1>2. interval(x) \in 0 .. intervals - 1
  BY <1>1, PositionInRange, DivBelow, Zenon DEF interval
<1>3. rest(x) \in 0 .. span - 1
  BY <1>1, DivMod, Zenon DEF rest
<1>4. QED
  BY <1>2, <1>3

\* interpolate inside the range and at its ends.
LEMMA InterpolateCases ==
  /\ \A x \in Raw : x <= _in_fsr_bot => interpolate(x) = span * Lut[1]
  /\ \A x \in Raw : x >= _in_fsr_top => interpolate(x) = span * Lut[Len(Lut)]
  /\ \A x : Inside(x) =>
       interpolate(x) = span * Lut[interval(x) + 1]
         + rest(x) * (Lut[interval(x) + 2] - Lut[interval(x) + 1])
<1>1. \A x \in Raw : ~ (x >= _in_fsr_top /\ x <= _in_fsr_bot)
  BY TableFacts, SizeBounds DEF Raw
<1>2. \A x : Inside(x) => ~ (x <= _in_fsr_bot) /\ ~ (x >= _in_fsr_top)
  BY TableFacts, SizeBounds DEF Raw, Inside
<1>3. \A x \in Raw : x <= _in_fsr_bot => interpolate(x) = span * Lut[1]
  BY <1>1, Zenon DEF interpolate, span
<1>4. \A x \in Raw : x >= _in_fsr_top => interpolate(x) = span * Lut[Len(Lut)]
  BY <1>1, Zenon DEF interpolate, span, Last
<1>5. \A x : Inside(x) =>
        interpolate(x) = span * Lut[interval(x) + 1]
          + rest(x) * (Lut[interval(x) + 2] - Lut[interval(x) + 1])
  BY <1>2, Zenon DEF interpolate, span, intervals, position, interval, rest
<1>6. QED
  BY <1>3, <1>4, <1>5

\* A reading inside the range, between the two table entries around it.
LEMMA InsideRange ==
  ASSUME NEW x, Inside(x)
  PROVE  /\ interval(x) + 1 \in 1 .. Len(Lut)
            /\ interval(x) + 2 \in 1 .. Len(Lut)
         /\ interpolate(x) \in Int
         /\ span * Lut[interval(x) + 1] <= interpolate(x)
         /\ interpolate(x) <= span * Lut[interval(x) + 2]
<1> DEFINE a == Lut[interval(x) + 1]
           b == Lut[interval(x) + 2]
<1>1. /\ interval(x) + 1 \in 1 .. Len(Lut) /\ interval(x) + 2 \in 1 .. Len(Lut)
      /\ interval(x) + 1 <= interval(x) + 2
      /\ span \in Nat \ {0} /\ rest(x) \in 0 .. span - 1
      /\ a \in Int /\ b \in Int
  BY IntervalInRange, TableFacts
<1>2. a <= b
  BY <1>1, TableRises, Zenon
<1>3. interpolate(x) = span * a + rest(x) * (b - a)
  BY InterpolateCases, Zenon
<1> HIDE DEF a, b
<1>4. /\ span * a + rest(x) * (b - a) \in Int
      /\ span * a <= span * a + rest(x) * (b - a)
      /\ span * a + rest(x) * (b - a) <= span * b
  BY <1>1, <1>2, OnSegment, Zenon
<1>5. QED
  BY <1>1, <1>3, <1>4, Zenon DEF a, b

\* The same of the table's scaled entries.
LEMMA ScaledTable ==
  /\ 1 \in 1 .. Len(Lut) /\ Len(Lut) \in 1 .. Len(Lut)
  /\ \A i \in 1 .. Len(Lut) : 1 <= i /\ i <= Len(Lut) /\ span * Lut[i] \in Int
  /\ \A i, j \in 1 .. Len(Lut) : i <= j => span * Lut[i] <= span * Lut[j]
<1>1. /\ 1 \in 1 .. Len(Lut) /\ Len(Lut) \in 1 .. Len(Lut)
      /\ \A i \in 1 .. Len(Lut) : 1 <= i /\ i <= Len(Lut)
      /\ \A i \in 1 .. Len(Lut) : Lut[i] \in Int
  BY TableFacts
<1>2. \A i \in 1 .. Len(Lut) : span * Lut[i] \in Int
  BY <1>1, TableFacts
<1>3. \A i, j \in 1 .. Len(Lut) : i <= j => Lut[i] <= Lut[j]
  BY TableRises
<1>4. ASSUME NEW i \in 1 .. Len(Lut), NEW j \in 1 .. Len(Lut), i <= j
      PROVE  span * Lut[i] <= span * Lut[j]
  <2>1. Lut[i] <= Lut[j] /\ Lut[i] \in Int /\ Lut[j] \in Int /\ span \in Nat
    BY <1>1, <1>3, <1>4, TableFacts
  <2>2. QED
    BY <2>1
<1>5. QED
  BY <1>1, <1>2, <1>4

LEMMA InterpolateIsInt == \A x \in Raw : interpolate(x) \in Int
<1>1. \A x \in Raw : x <= _in_fsr_bot \/ x >= _in_fsr_top \/ Inside(x)
  BY TableFacts, SizeBounds DEF Raw, Inside
<1>2. QED
  BY <1>1, ScaledTable, InterpolateCases, InsideRange, Zenon

\* No temperature is outside the table.
LEMMA EndsOfTable ==
  ASSUME NEW x \in Raw
  PROVE  span * Lut[1] <= interpolate(x)
         /\ interpolate(x) <= span * Lut[Len(Lut)]
<1>1. x <= _in_fsr_bot \/ x >= _in_fsr_top \/ Inside(x)
  BY TableFacts, SizeBounds DEF Raw, Inside
<1>2. span * Lut[1] \in Int /\ span * Lut[Len(Lut)] \in Int
  BY ScaledTable
<1>3. span * Lut[1] <= span * Lut[Len(Lut)]
  BY ScaledTable
<1>4. CASE x <= _in_fsr_bot
  <2>1. interpolate(x) = span * Lut[1]
    BY <1>4, InterpolateCases
  <2>2. QED
    BY <2>1, <1>2, <1>3
<1>5. CASE x >= _in_fsr_top
  <2>1. interpolate(x) = span * Lut[Len(Lut)]
    BY <1>5, InterpolateCases
  <2>2. QED
    BY <2>1, <1>2, <1>3
<1>6. CASE Inside(x)
  <2> DEFINE a == span * Lut[interval(x) + 1]
             b == span * Lut[interval(x) + 2]
  <2>1. a <= interpolate(x) /\ interpolate(x) <= b /\ interpolate(x) \in Int
    BY <1>6, InsideRange
  <2>2. /\ interval(x) + 1 \in 1 .. Len(Lut)
           /\ interval(x) + 2 \in 1 .. Len(Lut)
    BY <1>6, InsideRange
  <2>3. a \in Int /\ b \in Int
    BY <2>2, ScaledTable
  <2>4. span * Lut[1] <= a /\ b <= span * Lut[Len(Lut)]
    BY <2>2, ScaledTable
  <2> HIDE DEF a, b
  <2>5. QED
    BY <1>2, <2>1, <2>3, <2>4
<1>7. QED
  BY <1>1, <1>4, <1>5, <1>6

\* Two readings inside the range.
LEMMA InsideRises ==
  ASSUME NEW x, NEW y, Inside(x), Inside(y), x <= y
  PROVE  interpolate(x) <= interpolate(y)
<1>1. \/ interval(x) < interval(y)
      \/ interval(x) = interval(y) /\ rest(x) <= rest(y)
  <2>1. x \in Nat /\ y \in Nat /\ intervals \in Nat /\ _in_fsr_bot \in Nat
    BY TableFacts, SizeBounds DEF Inside, Raw
  <2>2. position(x) \in Nat /\ position(y) \in Nat
    BY PositionInRange
  <2>3. position(x) <= position(y)
    BY <2>1 DEF position
  <2>4. span \in Nat \ {0}
    BY TableFacts
  <2>5. QED
    BY <2>2, <2>3, <2>4, DivRises, Zenon DEF interval, rest
<1>2. CASE interval(x) < interval(y)
  <2> DEFINE b == span * Lut[interval(x) + 2]
             a == span * Lut[interval(y) + 1]
  <2>1. interpolate(x) <= b /\ a <= interpolate(y)
    BY InsideRange
  <2>2. interpolate(x) \in Int /\ interpolate(y) \in Int
    BY InsideRange
  <2>3. /\ interval(x) + 2 \in 1 .. Len(Lut)
           /\ interval(y) + 1 \in 1 .. Len(Lut)
    BY InsideRange
  <2>4. interval(x) + 2 <= interval(y) + 1
    BY <1>2, IntervalInRange
  <2>5. a \in Int /\ b \in Int /\ b <= a
    BY <2>3, <2>4, ScaledTable
  <2> HIDE DEF a, b
  <2>6. QED
    BY <2>1, <2>2, <2>5
<1>3. CASE interval(x) = interval(y) /\ rest(x) <= rest(y)
  <2> DEFINE a == Lut[interval(x) + 1]
             b == Lut[interval(x) + 2]
  <2>1. /\ interval(x) + 1 \in 1 .. Len(Lut)
           /\ interval(x) + 2 \in 1 .. Len(Lut)
        /\ interval(x) + 1 <= interval(x) + 2
        /\ rest(x) \in Nat /\ rest(y) \in Nat /\ span \in Nat
        /\ a \in Int /\ b \in Int
    BY IntervalInRange, TableFacts
  <2>2. a <= b
    BY <2>1, TableRises, Zenon
  <2>3. /\ interpolate(x) = span * a + rest(x) * (b - a)
        /\ interpolate(y) = span * a + rest(y) * (b - a)
    BY <1>3, InterpolateCases, Zenon
  <2> HIDE DEF a, b
  <2> DEFINE h == b - a
  <2>4. h \in Nat
    BY <2>1, <2>2
  <2> HIDE DEF h
  <2>5. rest(x) * h <= rest(y) * h
    BY <1>3, <2>1, <2>4
  <2>6. span * a \in Int /\ rest(x) * h \in Int /\ rest(y) * h \in Int
    BY <2>1, <2>4
  <2>7. QED
    BY <2>3, <2>5, <2>6 DEF h
<1>4. QED
  BY <1>1, <1>2, <1>3

\* interpolate keeps the order of two readings (adc_filter_interpolation.hpp:
\* 122-150): at the ends of the range, within an interval of the table and
\* from one interval to a later one.
LEMMA InterpolateRises ==
  ASSUME NEW x \in Raw, NEW y \in Raw, x <= y
  PROVE  interpolate(x) <= interpolate(y)
<1>1. /\ x <= _in_fsr_bot \/ x >= _in_fsr_top \/ Inside(x)
      /\ y <= _in_fsr_bot \/ y >= _in_fsr_top \/ Inside(y)
      /\ y <= _in_fsr_bot => x <= _in_fsr_bot
      /\ x >= _in_fsr_top => y >= _in_fsr_top
  BY TableFacts, SizeBounds DEF Raw, Inside
<1>2. CASE x <= _in_fsr_bot
  BY <1>2, EndsOfTable, InterpolateCases
<1>3. CASE y >= _in_fsr_top
  BY <1>3, EndsOfTable, InterpolateCases
<1>4. CASE Inside(x) /\ Inside(y)
  BY <1>4, InsideRises
<1>5. QED
  BY <1>1, <1>2, <1>3, <1>4

-----------------------------------------------------------------------------
(***************************************************************************)
(* The channel.                                                            *)
(***************************************************************************)

SensorTypes ==
  /\ pc \in {"update", "get"}
  /\ current_index \in 0 .. N - 1
  /\ input_buffer \in [0 .. N - 1 -> Raw]
  /\ window \in [1 .. N -> Raw]
  /\ temp \in Int

\* The buffer is a ring that begins, with the oldest reading, at the index.
BufferInv ==
  \A i \in 1 .. N : window[i] = input_buffer[(current_index + i - 1) % N]

SumInv == result_sum = SumOf(window)

SensorInv == SensorTypes /\ BufferInv /\ SumInv

\* A step of the window, for a reading that replaces the oldest one.
LEMMA WindowShift ==
  ASSUME NEW w \in [1 .. N -> Raw], NEW v \in Raw
  PROVE  /\ Append(Tail(w), v) \in [1 .. N -> Raw]
         /\ \A i \in 1 .. N - 1 : Append(Tail(w), v)[i] = w[i + 1]
         /\ Append(Tail(w), v)[N] = v
<1>1. N \in Nat \ {0}
  BY SizeBounds
<1>2. w \in Seq(Raw) /\ Len(w) = N
  BY <1>1, SequenceLength
<1>3. w # <<>>
  BY <1>1, <1>2, EmptySeq
<1>4. /\ Tail(w) \in Seq(Raw) /\ Len(Tail(w)) = N - 1
      /\ \A i \in 1 .. N - 1 : Tail(w)[i] = w[i + 1]
  BY <1>2, <1>3, HeadTailProperties
<1>5. /\ Append(Tail(w), v) \in Seq(Raw)
      /\ Len(Append(Tail(w), v)) = (N - 1) + 1
      /\ \A i \in 1 .. N - 1 : Append(Tail(w), v)[i] = Tail(w)[i]
      /\ Append(Tail(w), v)[(N - 1) + 1] = v
  BY <1>4, AppendProperties
<1>6. (N - 1) + 1 = N
  BY <1>1
<1>7. Append(Tail(w), v) \in [1 .. N -> Raw]
  BY <1>5, <1>6, LenProperties
<1>8. QED
  BY <1>4, <1>5, <1>6, <1>7

\* The index after the last cell is the first again.
LEMMA RingIndex ==
  ASSUME NEW c \in 0 .. N - 1
  PROVE  /\ (c + 1) % N \in 0 .. N - 1
         /\ (c + 1 - 1) % N = c
         /\ \A i \in 1 .. N - 1 :
              /\ (((c + 1) % N) + i - 1) % N = (c + (i + 1) - 1) % N
              /\ (((c + 1) % N) + i - 1) % N # c
              /\ (((c + 1) % N) + i - 1) % N \in 0 .. N - 1
         /\ (((c + 1) % N) + N - 1) % N = c
<1>1. N \in Nat \ {0}
  BY SizeBounds
<1>2. ASSUME NEW k \in 0 .. 2 * N - 1
      PROVE  k % N = IF k < N THEN k ELSE k - N
  BY <1>1, ModSmall, ModOnce
<1>3. (c + 1) % N = IF c + 1 < N THEN c + 1 ELSE 0
  BY <1>1, <1>2
<1>4. (c + 1 - 1) % N = c
  BY <1>1, <1>2
<1>5. ASSUME NEW i \in 1 .. N - 1
      PROVE  /\ (((c + 1) % N) + i - 1) % N = (c + (i + 1) - 1) % N
             /\ (((c + 1) % N) + i - 1) % N # c
             /\ (((c + 1) % N) + i - 1) % N \in 0 .. N - 1
  <2>1. (c + (i + 1) - 1) % N = IF c + i < N THEN c + i ELSE c + i - N
    BY <1>1, <1>2
  <2>2. CASE c + 1 < N
    BY <1>1, <1>2, <1>3, <2>1, <2>2
  <2>3. CASE ~ (c + 1 < N)
    BY <1>1, <1>2, <1>3, <2>1, <2>3
  <2>4. QED
    BY <2>2, <2>3
<1>6. (((c + 1) % N) + N - 1) % N = c
  <2>1. CASE c + 1 < N
    BY <1>1, <1>2, <1>3, <2>1
  <2>2. CASE ~ (c + 1 < N)
    BY <1>1, <1>2, <1>3, <2>2
  <2>3. QED
    BY <2>1, <2>2
<1>7. (c + 1) % N \in 0 .. N - 1
  BY <1>1, <1>3
<1>8. QED
  BY <1>4, <1>5, <1>6, <1>7

Samples == [1 .. averaged_samples -> Raw]

LEMMA TriggerTypes ==
  ASSUME SensorInv, NEW samples \in Samples, trigger_acquisition(samples)
  PROVE  /\ current_index' \in 0 .. N - 1
         /\ input_buffer' \in [0 .. N - 1 -> Raw]
         /\ window' \in [1 .. N -> Raw]
         /\ get_raw_averaged(samples) \in Raw
<1>1. get_raw_averaged(samples) \in Raw
  BY SizeBounds, SumOfRaw, Zenon DEF get_raw_averaged, Samples
<1>2. window \in [1 .. N -> Raw] /\ current_index \in 0 .. N - 1
  BY DEF SensorInv, SensorTypes
<1>3. window' \in [1 .. N -> Raw]
  BY <1>1, <1>2, WindowShift, Zenon DEF trigger_acquisition
<1>4. current_index' \in 0 .. N - 1
  BY <1>2, RingIndex, Zenon DEF trigger_acquisition
<1>5. input_buffer' \in [0 .. N - 1 -> Raw]
  BY <1>1 DEF trigger_acquisition, SensorInv, SensorTypes
<1>6. QED
  BY <1>1, <1>3, <1>4, <1>5

\* The new reading takes the oldest one's cell and becomes the last.
LEMMA TriggerKeepsBuffer ==
  ASSUME SensorInv, NEW samples \in Samples, trigger_acquisition(samples)
  PROVE  BufferInv'
<1> DEFINE c == current_index
           v == get_raw_averaged(samples)
<1>1. /\ v \in Raw /\ c \in 0 .. N - 1
      /\ window \in [1 .. N -> Raw] /\ input_buffer \in [0 .. N - 1 -> Raw]
      /\ N \in Nat \ {0}
  BY TriggerTypes, SizeBounds DEF SensorInv, SensorTypes
<1>2. /\ current_index' = (c + 1) % N
      /\ input_buffer' = [input_buffer EXCEPT ![c] = v]
      /\ window' = Append(Tail(window), v)
  BY DEF trigger_acquisition
<1> HIDE DEF v
<1>3. ASSUME NEW i \in 1 .. N
      PROVE  window'[i] = input_buffer'[(current_index' + i - 1) % N]
  <2>1. CASE i = N
    <3>1. window'[i] = v
      BY <1>1, <1>2, <2>1, WindowShift, Zenon
    <3>2. (current_index' + i - 1) % N = c
      BY <1>1, <1>2, <2>1, RingIndex, Zenon
    <3>3. input_buffer'[c] = v
      BY <1>1, <1>2, Zenon
    <3>4. QED
      BY <3>1, <3>2, <3>3
  <2>2. CASE i \in 1 .. N - 1
    <3> DEFINE k == (current_index' + i - 1) % N
    <3>1. window'[i] = window[i + 1]
      BY <1>1, <1>2, <2>2, WindowShift, Zenon
    <3>2. k = (c + (i + 1) - 1) % N /\ k # c /\ k \in 0 .. N - 1
      BY <1>1, <1>2, <2>2, RingIndex, Zenon
    <3>3. i + 1 \in 1 .. N
      BY <1>1, <2>2
    <3>4. window[i + 1] = input_buffer[(c + (i + 1) - 1) % N]
      BY <3>3, Zenon DEF SensorInv, BufferInv
    <3> HIDE DEF k
    <3>5. input_buffer'[k] = input_buffer[k]
      BY <1>1, <1>2, <3>2, Zenon
    <3>6. window'[i] = input_buffer'[k]
      BY <3>1, <3>2, <3>4, <3>5, Zenon
    <3>7. QED
      BY <3>6 DEF k
  <2>3. QED
    BY <1>1, <2>1, <2>2
<1>4. QED
  BY <1>3, Zenon DEF BufferInv

\* The reading that leaves the sum is the oldest of the window.
LEMMA TriggerKeepsSum ==
  ASSUME SensorInv, NEW samples \in Samples, trigger_acquisition(samples)
  PROVE  SumInv'
<1> DEFINE c == current_index
           v == get_raw_averaged(samples)
<1>1. /\ v \in Raw /\ c \in 0 .. N - 1
      /\ window \in [1 .. N -> Raw] /\ window' \in [1 .. N -> Raw]
      /\ N \in Nat \ {0}
  BY TriggerTypes, SizeBounds DEF SensorInv, SensorTypes
<1>2. /\ window' = Append(Tail(window), v)
      /\ result_sum' = (result_sum + v - input_buffer[c]) % SumSize
  BY DEF trigger_acquisition
<1> HIDE DEF v
<1>3. window[1] = input_buffer[c]
  <2>1. 1 \in 1 .. N
    BY <1>1
  <2>2. window[1] = input_buffer[(c + 1 - 1) % N]
    BY <2>1, Zenon DEF SensorInv, BufferInv
  <2>3. QED
    BY <1>1, <2>2, RingIndex, Zenon
<1>4. SumOf(window') = SumOf(window) + v - window[1]
  <2>1. /\ \A i \in 1 .. N - 1 : window'[i] = window[i + 1]
        /\ window'[N] = v
    BY <1>1, <1>2, WindowShift, Zenon
  <2>2. window \in [1 .. N -> Int] /\ window' \in [1 .. N -> Int]
    BY <1>1, SumOfRaw, Zenon
  <2>3. SumOf(window') = SumOf(window) + window'[N] - window[1]
    BY <1>1, <2>1, <2>2, SumShifted, Zenon
  <2>4. QED
    BY <2>1, <2>3, Zenon
<1>5. SumOf(window') \in 0 .. SumSize - 1
  <2>1. SumOf(window') \in 0 .. N * (RawSize - 1)
    BY <1>1, SumOfRaw, Zenon
  <2>2. QED
    BY <2>1, SizeBounds
<1>6. result_sum' = SumOf(window') % SumSize
  BY <1>2, <1>3, <1>4, Zenon DEF SensorInv, SumInv
<1>7. SumOf(window') % SumSize = SumOf(window')
  BY <1>5, SizeBounds, ModSmall, Zenon
<1>8. QED
  BY <1>6, <1>7 DEF SumInv

LEMMA SensorInit == Init => SensorInv
<1> SUFFICES ASSUME Init PROVE SensorInv
  OBVIOUS
<1>1. PICK first \in Raw :
        /\ input_buffer = [i \in 0 .. N - 1 |-> first]
        /\ result_sum = (N * first) % SumSize
        /\ window = [i \in 1 .. N |-> first]
  BY DEF Init
<1>2. SensorTypes
  <2>1. temp \in Int
    BY TableFacts, InterpolateIsInt DEF Init
  <2>2. QED
    BY <1>1, <2>1, SizeBounds DEF Init, SensorTypes
<1>3. BufferInv
  <2>1. current_index = 0 /\ N \in Nat \ {0}
    BY SizeBounds DEF Init
  <2>2. \A i \in 1 .. N : (0 + i - 1) % N \in 0 .. N - 1
    BY <2>1, ModSmall
  <2>3. QED
    BY <1>1, <2>1, <2>2, Zenon DEF BufferInv
<1>4. SumInv
  <2>1. N \in Nat \ {0} /\ window \in [1 .. N -> Raw] /\ first \in Int
    BY <1>1, SizeBounds DEF Raw
  <2>2. SumOf(window) = N * first
    BY <1>1, <2>1, SumConstant
  <2>3. SumOf(window) \in 0 .. N * (RawSize - 1)
    BY <2>1, SumOfRaw, Zenon
  <2>4. SumOf(window) \in 0 .. SumSize - 1
    BY <2>3, SizeBounds
  <2>5. SumOf(window) % SumSize = SumOf(window)
    BY <2>4, SizeBounds, ModSmall, Zenon
  <2>6. QED
    BY <1>1, <2>2, <2>5 DEF SumInv
<1>5. QED
  BY <1>2, <1>3, <1>4 DEF SensorInv

LEMMA SensorStep ==
  ASSUME SensorInv, [Next]_vars
  PROVE  SensorInv'
<1>1. ASSUME NEW samples \in Samples, UpdateFilter(samples)
      PROVE  SensorInv'
  <2>1. trigger_acquisition(samples) /\ pc' = "get" /\ temp' = temp
    BY <1>1 DEF UpdateFilter
  <2>2. SensorTypes'
    BY <2>1, TriggerTypes DEF SensorInv, SensorTypes
  <2>3. QED
    BY <2>1, <2>2, TriggerKeepsBuffer, TriggerKeepsSum DEF SensorInv
<1>2. ASSUME NEW samples \in Samples, GetTempPwl(samples)
      PROVE  SensorInv'
  <2>1. /\ trigger_acquisition(samples) /\ pc' = "update"
        /\ temp' = interpolate(get_result(result_sum'))
    BY <1>2 DEF GetTempPwl
  <2>2. SumInv' /\ BufferInv'
    BY <2>1, TriggerKeepsBuffer, TriggerKeepsSum
  <2>3. window' \in [1 .. N -> Raw] /\ N \in Nat \ {0}
    BY <2>1, TriggerTypes, SizeBounds
  <2>4. get_result(result_sum') \in Raw
    BY <2>2, <2>3, SumOfRaw, Zenon DEF SumInv, get_result
  <2>5. temp' \in Int
    BY <2>1, <2>4, InterpolateIsInt
  <2>6. SensorTypes'
    BY <2>1, <2>5, TriggerTypes DEF SensorTypes
  <2>7. QED
    BY <2>2, <2>6 DEF SensorInv
<1>3. CASE UNCHANGED vars
  BY <1>3 DEF vars, SensorInv, SensorTypes, BufferInv, SumInv
<1>4. QED
  BY <1>1, <1>2, <1>3 DEF Next, Samples

\* The smallest and the largest reading of a window.
LEMMA Extremes ==
  ASSUME NEW w \in [1 .. N -> Raw]
  PROVE  /\ Min(ToSet(w)) \in Raw /\ Max(ToSet(w)) \in Raw
         /\ \A i \in 1 .. N : Min(ToSet(w)) <= w[i] /\ w[i] <= Max(ToSet(w))
<1> DEFINE S == ToSet(w)
<1>1. /\ S \in SUBSET Raw /\ S # {}
      /\ \A i \in 1 .. N : w[i] \in S
  <2>1. 1 \in 1 .. N /\ DOMAIN w = 1 .. N
    BY SizeBounds
  <2>2. QED
    BY <2>1 DEF ToSet
<1>2. \A x \in S : x \in Nat /\ x < RawSize
  BY <1>1, SizeBounds DEF Raw
<1> HIDE DEF S
<1>3. \E x \in S : \A y \in S : x <= y
  BY <1>1, <1>2, LeastElement
<1>4. \E x \in S : \A y \in S : x >= y
  <2> DEFINE T == {k \in Nat : \E y \in S : k = RawSize - y}
  <2>1. T \in SUBSET Nat /\ T # {}
    <3>1. PICK y \in S : TRUE
      BY <1>1
    <3>2. RawSize - y \in Nat
      BY <1>2, SizeBounds
    <3>3. QED
      BY <3>1, <3>2
  <2>2. PICK k \in T : \A l \in T : k <= l
    BY <2>1, LeastElement
  <2>3. PICK x \in S : k = RawSize - x
    BY <2>2
  <2>4. ASSUME NEW y \in S PROVE x >= y
    <3>1. RawSize - y \in T
      BY <1>2, SizeBounds
    <3>2. RawSize - x <= RawSize - y
      BY <2>2, <2>3, <3>1
    <3>3. QED
      BY <3>2, <1>2, SizeBounds
  <2>5. QED
    BY <2>4
<1>5. Min(S) \in S /\ \A y \in S : Min(S) <= y
  BY <1>3, Zenon DEF Min
<1>6. Max(S) \in S /\ \A y \in S : Max(S) >= y
  BY <1>4, Zenon DEF Max
<1>7. \A i \in 1 .. N : Min(S) <= w[i] /\ w[i] <= Max(S)
  BY <1>1, <1>2, <1>5, <1>6
<1>8. QED
  BY <1>1, <1>5, <1>6, <1>7 DEF S

\* The one step that stores a temperature.
LEMMA StoredTemperature ==
  ASSUME SensorInv, [Next]_vars, temp' # temp
  PROVE  /\ interpolate(Min(ToSet(window'))) <= temp'
         /\ temp' <= interpolate(Max(ToSet(window')))
<1>1. PICK samples \in Samples : GetTempPwl(samples)
  BY DEF Next, UpdateFilter, vars, Samples
<1>2. temp' = interpolate(get_result(result_sum'))
      /\ trigger_acquisition(samples)
  BY <1>1 DEF GetTempPwl
<1>3. window' \in [1 .. N -> Raw] /\ N \in Nat \ {0}
  BY <1>2, TriggerTypes, SizeBounds
<1> DEFINE w == window'
<1> DEFINE mean == get_result(result_sum')
<1>4. mean = SumOf(w) \div N
  BY <1>2, TriggerKeepsSum DEF SumInv, get_result
<1>5. \A i \in 1 .. N : w[i] \in Raw
  BY <1>3
<1>6. /\ Min(ToSet(w)) \in Raw /\ Max(ToSet(w)) \in Raw
      /\ \A i \in 1 .. N : Min(ToSet(w)) <= w[i] /\ w[i] <= Max(ToSet(w))
  BY <1>3, Extremes
<1>7. mean \in Raw
  BY <1>3, <1>4, SumOfRaw, Zenon
<1> DEFINE low == Min(ToSet(w))
           high == Max(ToSet(w))
<1>8. mean \in low .. high
  <2>1. low \in Int /\ high \in Int /\ w \in [1 .. N -> Int]
    BY <1>3, <1>6, SizeBounds DEF Raw
  <2> HIDE DEF w, mean, low, high
  <2>2. \A i \in 1 .. N : low <= w[i] /\ w[i] <= high
    BY <1>6 DEF low, high
  <2>3. QED
    BY <1>3, <1>4, <2>1, <2>2, MeanBetween, Zenon
<1>9. low <= mean /\ mean <= high
  <2>1. mean \in Int /\ low \in Int /\ high \in Int
    BY <1>6, <1>7, SizeBounds DEF Raw
  <2> HIDE DEF w, mean, low, high
  <2>2. QED
    BY <1>8, <2>1
<1>10. QED
  <2> HIDE DEF w, mean
  <2>1. interpolate(low) <= interpolate(mean)
        /\ interpolate(mean) <= interpolate(high)
    BY <1>6, <1>7, <1>9, InterpolateRises, Zenon
  <2>2. QED
    BY <1>2, <2>1 DEF w, mean

\* The driver takes the channel's steps or leaves it alone.
LEMMA SensorSteps ==
  ASSUME [AuxNext]_auxVars
  PROVE  [Next]_vars
<1>1. CASE UpdateFilters
  BY <1>1 DEF UpdateFilters, Next
<1>2. CASE StoreTemp1
  BY <1>2 DEF StoreTemp1, Next
<1>3. QED
  BY <1>1, <1>2 DEF AuxNext, StoreTemp2, SlowTick, Handler, auxVars

LEMMA SensorInvariant == AuxSpec => []SensorInv
<1>1. AuxInit => SensorInv
  BY SensorInit DEF AuxInit
<1>2. SensorInv /\ [AuxNext]_auxVars => SensorInv'
  BY SensorSteps, SensorStep
<1>3. QED
  BY <1>1, <1>2, PTL DEF AuxSpec

\* The result of the filter is the average of the last N readings for ever:
\* the running sum never loses a count, neither when the index wraps around
\* nor in its unsigned arithmetic (adc_filter_interpolation.hpp:61-75).
THEOREM FilterStaysMean == AuxSpec => []FilterIsMean
<1>1. SensorInv => FilterIsMean
  BY DEF SensorInv, SumInv, FilterIsMean, get_result
<1>2. QED
  BY SensorInvariant, <1>1, PTL

\* A new temperature lies between those of the smallest and of the largest
\* reading in the window, for every rising table and input range
\* (adc_filter_interpolation.hpp:65-75, 122-150).
THEOREM TemperatureBetweenReadings == AuxSpec => TemperatureWithinWindow
<1>1. SensorInv /\ [AuxNext]_auxVars =>
        [temp' # temp =>
           /\ interpolate(Min(ToSet(window'))) <= temp'
           /\ temp' <= interpolate(Max(ToSet(window')))]_vars
  BY SensorSteps, StoredTemperature
<1>2. QED
  BY SensorInvariant, <1>1, PTL DEF AuxSpec, TemperatureWithinWindow

-----------------------------------------------------------------------------
(***************************************************************************)
(* The fan.                                                                *)
(***************************************************************************)

bands == <<Band(temp), band_2>>

Places == {"idle", "temp_2", "decide", "compare", "set", "pin"}

\* A decision to stop the fan holds until it is carried out: temperatures are
\* stored between two evaluations only.
DecisionInv ==
  fan_pc \in {"compare", "set", "pin"} /\ ~fan_new =>
    \A s \in Fan!Sensors : bands[s] # "hot"

LEMMA BandIsBand == \A t : Band(t) \in Fan!Bands
  BY DEF Band, Fan!Bands

\* The filter and the state's copy of temperature 1 matter to the fan only as
\* a band that is stored when the event loop is not evaluating.
LEMMA AuxSteps ==
  ASSUME [AuxNext]_auxVars
  PROVE  [Fan!Next]_(Fan!vars)
<1> USE DEF fan, Fan!vars, Fan!state, Fan!outputs, Fan!Sensors
<1>1. CASE UpdateFilters
  BY <1>1 DEF UpdateFilters, UpdateFilter
<1>2. CASE StoreTemp1
  BY <1>2 DEF StoreTemp1, Fan!Next
<1>3. CASE StoreTemp2
  BY <1>3 DEF StoreTemp2, Fan!Next
<1>4. CASE SlowTick
  BY <1>4 DEF SlowTick, Fan!Next
<1>5. CASE Handler
  BY <1>5 DEF Handler, Fan!Next
<1>6. CASE UNCHANGED auxVars
  BY <1>6 DEF auxVars, vars
<1>7. QED
  BY <1>1, <1>2, <1>3, <1>4, <1>5, <1>6 DEF AuxNext

\* The driver as a whole does with the fan what FanControl alone does.
THEOREM AuxImplementsFanControl == AuxSpec => Fan!Spec
<1>1. AuxInit => Fan!Init
  BY DEF AuxInit
<1>2. [AuxNext]_auxVars => [Fan!Next]_(Fan!vars)
  BY AuxSteps
<1>3. QED
  BY <1>1, <1>2, PTL DEF AuxSpec, Fan!Spec

FanTypes ==
  /\ bands \in [Fan!Sensors -> Fan!Bands]
  /\ fan_active \in BOOLEAN /\ fan_override \in BOOLEAN
  /\ gpio_fan \in BOOLEAN /\ fan_new \in BOOLEAN
  /\ overtaken \in BOOLEAN
  /\ fan_pc \in Places

LEMMA FanTypesInit == Fan!Init => FanTypes
  BY DEF Fan!Init, FanTypes, Fan!Evaluated, Fan!Demand, Places, bands

LEMMA FanTypesStep ==
  ASSUME FanTypes, [Fan!Next]_(Fan!vars)
  PROVE  FanTypes'
<1> USE DEF FanTypes, bands, Fan!state, Fan!outputs, Fan!Goto, Places
<1>1. ASSUME NEW new_state \in BOOLEAN, Fan!set_fan_override(new_state)
      PROVE  FanTypes'
  <2>1. overtaken' \in BOOLEAN
    BY <1>1, Zenon DEF Fan!set_fan_override, Fan!Overtakes
  <2>2. QED
    BY <1>1, <2>1 DEF Fan!set_fan_override
<1>2. CASE Fan!clear_shutdown
  <2>1. overtaken' \in BOOLEAN
    BY <1>2, Zenon DEF Fan!clear_shutdown, Fan!Overtakes
  <2>2. QED
    BY <1>2, <2>1 DEF Fan!clear_shutdown, Fan!Evaluated, Fan!Demand
<1>3. ASSUME NEW s \in Fan!Sensors, Fan!UpdateSensor(s)
      PROVE  FanTypes'
  BY <1>3 DEF Fan!UpdateSensor
<1>4. CASE Fan!LoadFan
  BY <1>4 DEF Fan!LoadFan
<1>5. CASE Fan!DecideFan
  BY <1>5 DEF Fan!DecideFan, Fan!Evaluated, Fan!Demand
<1>6. CASE Fan!CompareFan
  BY <1>6 DEF Fan!CompareFan
<1>7. CASE Fan!SetFanState
  BY <1>7 DEF Fan!SetFanState
<1>8. CASE Fan!SetFanPin
  BY <1>8 DEF Fan!SetFanPin
<1>9. CASE UNCHANGED Fan!vars
  BY <1>9 DEF Fan!vars, Fan!outputs
<1>10. QED
  BY <1>1, <1>2, <1>3, <1>4, <1>5, <1>6, <1>7, <1>8, <1>9
     DEF Fan!Next, Fan!Handler, Fan!SlowTick

LEMMA DecisionStep ==
  ASSUME FanTypes, DecisionInv, [Fan!Next]_(Fan!vars)
  PROVE  DecisionInv'
<1> USE DEF DecisionInv, bands, Fan!state, Fan!outputs, Fan!Goto, Places
<1>1. ASSUME NEW new_state \in BOOLEAN, Fan!set_fan_override(new_state)
      PROVE  DecisionInv'
  BY <1>1 DEF Fan!set_fan_override
<1>2. CASE Fan!clear_shutdown
  BY <1>2 DEF Fan!clear_shutdown
<1>3. ASSUME NEW s \in Fan!Sensors, Fan!UpdateSensor(s)
      PROVE  DecisionInv'
  BY <1>3 DEF Fan!UpdateSensor
<1>4. CASE Fan!LoadFan
  BY <1>4 DEF Fan!LoadFan
<1>5. CASE Fan!DecideFan
  BY <1>5 DEF Fan!DecideFan, Fan!Evaluated, Fan!Demand
<1>6. CASE Fan!CompareFan
  BY <1>6 DEF Fan!CompareFan
<1>7. CASE Fan!SetFanState
  BY <1>7 DEF Fan!SetFanState
<1>8. CASE Fan!SetFanPin
  BY <1>8 DEF Fan!SetFanPin
<1>9. CASE UNCHANGED Fan!vars
  BY <1>9 DEF Fan!vars, Fan!outputs
<1>10. QED
  BY <1>1, <1>2, <1>3, <1>4, <1>5, <1>6, <1>7, <1>8, <1>9
     DEF Fan!Next, Fan!Handler, Fan!SlowTick

\* The pin goes low in two places only, and none of them has a hot sensor.
LEMMA PinStep ==
  ASSUME FanTypes, DecisionInv, [Fan!Next]_(Fan!vars), gpio_fan, ~gpio_fan'
  PROVE  \A s \in Fan!Sensors : bands[s] # "hot"
<1> USE DEF bands, Fan!Goto
<1>1. CASE Fan!clear_shutdown
  BY <1>1 DEF Fan!clear_shutdown, Fan!Evaluated, Fan!Demand
<1>2. CASE Fan!SetFanPin
  BY <1>2 DEF Fan!SetFanPin, DecisionInv
<1>3. QED
  BY <1>1, <1>2 DEF Fan!Next, Fan!Handler, Fan!SlowTick, Fan!vars,
     Fan!outputs, Fan!set_fan_override, Fan!UpdateSensor, Fan!LoadFan, Fan!DecideFan,
     Fan!CompareFan, Fan!SetFanState

LEMMA FanInvariant == AuxSpec => [](FanTypes /\ DecisionInv)
<1>1. Fan!Init => DecisionInv
  BY DEF Fan!Init, DecisionInv
<1>2. AuxInit => FanTypes /\ DecisionInv
  BY FanTypesInit, <1>1 DEF AuxInit
<1>3. FanTypes /\ DecisionInv /\ [AuxNext]_auxVars
        => (FanTypes /\ DecisionInv)'
  BY AuxSteps, FanTypesStep, DecisionStep
<1>4. QED
  BY <1>2, <1>3, PTL DEF AuxSpec

\* The types of the fan's variables, as seen through the band of the computed
\* temperature (aux_hw_drv.cpp:131-148).
THEOREM FanTypeCorrect == AuxSpec => []Fan!TypeOK
<1>1. FanTypes => Fan!TypeOK
  <2> USE DEF FanTypes, bands, Places
  <2>1. FanTypes => {fan_active, fan_override, gpio_fan, fan_new, overtaken}
          \subseteq BOOLEAN
    BY Zenon
  <2>2. QED
    BY <2>1 DEF Fan!TypeOK
<1>2. QED
  BY FanInvariant, <1>1, PTL

\* The fan's pin never goes low while a sensor is hot, for all thresholds and
\* tables, with handlers between any two steps of an evaluation: the two that
\* lower the pin do it on temperatures nobody can have changed since
\* (aux_hw_drv.cpp:131-148).
THEOREM HotIsNeverStopped == AuxSpec => NotStoppedWhenHot
<1>1. FanTypes /\ DecisionInv /\ [AuxNext]_auxVars =>
        [gpio_fan /\ ~gpio_fan'
          => \A s \in Fan!Sensors : bands[s] # "hot"]_(Fan!vars)
  BY AuxSteps, PinStep
<1>2. QED
  BY FanInvariant, <1>1, PTL
     DEF AuxSpec, NotStoppedWhenHot, Fan!NotStoppedWhenHot, bands

\* State and pin: what the history says of them.
PinInv ==
  /\ fan_pc # "pin" => (overtaken <=> gpio_fan # fan_active)
  /\ fan_pc = "pin" => (overtaken <=> fan_new # fan_active)

LEMMA PinInvStep ==
  ASSUME FanTypes, PinInv, [Fan!Next]_(Fan!vars)
  PROVE  PinInv'
<1> USE DEF FanTypes, PinInv, Fan!state, Fan!outputs, Fan!Goto, Places
<1>1. ASSUME NEW new_state \in BOOLEAN, Fan!set_fan_override(new_state)
      PROVE  PinInv'
  BY <1>1 DEF Fan!set_fan_override, Fan!Overtakes
<1>2. CASE Fan!clear_shutdown
  BY <1>2 DEF Fan!clear_shutdown, Fan!Overtakes, Fan!Evaluated, Fan!Demand
<1>3. ASSUME NEW s \in Fan!Sensors, Fan!UpdateSensor(s)
      PROVE  PinInv'
  BY <1>3 DEF Fan!UpdateSensor
<1>4. CASE Fan!LoadFan
  BY <1>4 DEF Fan!LoadFan
<1>5. CASE Fan!DecideFan
  BY <1>5 DEF Fan!DecideFan
<1>6. CASE Fan!CompareFan
  BY <1>6 DEF Fan!CompareFan
<1>7. CASE Fan!SetFanState
  BY <1>7 DEF Fan!SetFanState
<1>8. CASE Fan!SetFanPin
  BY <1>8 DEF Fan!SetFanPin
<1>9. CASE UNCHANGED Fan!vars
  BY <1>9 DEF Fan!vars, Fan!outputs
<1>10. QED
  BY <1>1, <1>2, <1>3, <1>4, <1>5, <1>6, <1>7, <1>8, <1>9
     DEF Fan!Next, Fan!Handler, Fan!SlowTick

\* Once a tick has written both, the fan's pin is what its state says, unless
\* a handler came between the two writes: no other interleaving separates them
\* (aux_hw_drv.cpp:71-84, 145-147).
THEOREM PinIsState ==
  AuxSpec => [](fan_pc # "pin" /\ ~overtaken => gpio_fan = fan_active)
<1>1. Fan!Init => PinInv
  BY DEF Fan!Init, PinInv
<1>2. FanTypes /\ PinInv /\ [AuxNext]_auxVars => PinInv'
  BY AuxSteps, PinInvStep
<1>3. FanTypes /\ PinInv =>
        (fan_pc # "pin" /\ ~overtaken => gpio_fan = fan_active)
  BY DEF FanTypes, PinInv
<1>4. AuxInit => PinInv
  BY <1>1 DEF AuxInit
<1>5. QED
  BY FanInvariant, <1>2, <1>3, <1>4, PTL DEF AuxSpec

\* Neither both sensors cold nor an override: where the fan keeps its state.
Warm == ~ Fan!Cool(bands) /\ ~fan_override

\* A decision to stop the fan that was taken, or is bound to be taken, while
\* the fan is running.
Stopping ==
  /\ fan_active /\ ~fan_new
  /\ \/ fan_pc \in {"compare", "set"}
     \/ fan_pc = "decide" /\ \A s \in Fan!Sensors : bands[s] # "hot"

LEMMA WarmStep ==
  ASSUME FanTypes, DecisionInv, [Fan!Next]_(Fan!vars), Warm, Warm', ~Stopping
  PROVE  ~Stopping' /\ (fan_active => fan_active')
<1> USE DEF FanTypes, Warm, Stopping, bands, Fan!state, Fan!outputs, Fan!Goto,
            Places
<1>1. ASSUME NEW new_state \in BOOLEAN, Fan!set_fan_override(new_state)
      PROVE  ~Stopping' /\ (fan_active => fan_active')
  BY <1>1 DEF Fan!set_fan_override
<1>2. CASE Fan!clear_shutdown
  BY <1>2 DEF Fan!clear_shutdown, Fan!Evaluated, Fan!Demand, Fan!Cool,
     DecisionInv
<1>3. ASSUME NEW s \in Fan!Sensors, Fan!UpdateSensor(s)
      PROVE  ~Stopping' /\ (fan_active => fan_active')
  BY <1>3 DEF Fan!UpdateSensor
<1>4. CASE Fan!LoadFan
  BY <1>4 DEF Fan!LoadFan
<1>5. CASE Fan!DecideFan
  BY <1>5 DEF Fan!DecideFan, Fan!Evaluated, Fan!Demand, Fan!Cool
<1>6. CASE Fan!CompareFan
  BY <1>6 DEF Fan!CompareFan
<1>7. CASE Fan!SetFanState
  BY <1>7 DEF Fan!SetFanState
<1>8. CASE Fan!SetFanPin
  BY <1>8 DEF Fan!SetFanPin
<1>9. CASE UNCHANGED Fan!vars
  BY <1>9 DEF Fan!vars, Fan!outputs
<1>10. QED
  BY <1>1, <1>2, <1>3, <1>4, <1>5, <1>6, <1>7, <1>8, <1>9
     DEF Fan!Next, Fan!Handler, Fan!SlowTick

\* No chatter inside the hysteresis, for every pair of thresholds.  No fairness
\* is needed: while no pair of sensors is cold and the override is off, a fan
\* that runs is stopped at most once, by a decision from before, and a decision
\* to stop it is never taken again (aux_hw_drv.cpp:136-144).
THEOREM HysteresisHolds == AuxSpec => NoChatter
<1>1. FanTypes /\ DecisionInv /\ [AuxNext]_auxVars =>
        (Warm /\ Warm' /\ ~Stopping => ~Stopping'
        /\ (fan_active => fan_active'))
  BY AuxSteps, WarmStep
<1>2. Stopping => fan_active
  BY DEF Stopping
<1>3. Warm <=> ~Fan!Cool(<<Band(temp), band_2>>) /\ ~fan_override
  BY DEF Warm, bands
<1>4. QED
  BY FanInvariant, <1>1, <1>2, <1>3, PTL
     DEF AuxSpec, NoChatter, Fan!NoChatter

\* The types of the whole driver; the sum needs no more than twice the width of
\* a reading (the static_assert on N, adc_filter_interpolation.hpp:26).
THEOREM AuxTypeCorrect == AuxSpec => []AuxTypeOK
<1>1. SensorInv => TypeOK
  <2>1. ASSUME SensorInv PROVE result_sum \in 0 .. SumSize - 1
    <3>1. window \in [1 .. N -> Raw] /\ result_sum = SumOf(window)
      BY <2>1 DEF SensorInv, SensorTypes, SumInv
    <3>2. SumOf(window) \in 0 .. N * (RawSize - 1)
      BY <3>1, SizeBounds, SumOfRaw, Zenon
    <3>3. QED
      BY <3>1, <3>2, SizeBounds
  <2>2. QED
    BY <2>1 DEF SensorInv, SensorTypes, TypeOK
<1>2. QED
  BY SensorInvariant, FanTypeCorrect, <1>1, PTL DEF AuxTypeOK
=============================================================================

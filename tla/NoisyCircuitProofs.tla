-------------------------- MODULE NoisyCircuitProofs --------------------------
(***************************************************************************)
(* Theorems about NoisyCircuit, for every register, circuit, probability   *)
(* and width of a word: an execution with errors is a behaviour of the     *)
(* context, and the errors are on the qubits of the register, none of      *)
(* which is favoured.                                                      *)
(***************************************************************************)
EXTENDS NoisyCircuit, IterationContextProofs

-----------------------------------------------------------------------------
(* Numbers of a range.                                                     *)

\* The ranges that the assertions at the start of random_integer allow.
IsRange(min, max) == /\ min \in Word /\ max \in Word
                     /\ min <= max
                     /\ max - min < UINT_FAST64_MAX

LEMMA BucketsFit ==
  ASSUME NEW min, NEW max, IsRange(min, max)
  PROVE  /\ number_of_buckets(min, max) \in Nat \ {0}
         /\ bucket_size(min, max) \in Nat \ {0}
         /\ limit(min, max) \in 1..UINT_FAST64_MAX
<1>. DEFINE n    == number_of_buckets(min, max)
            size == bucket_size(min, max)
<1>1. /\ n \in Nat \ {0} /\ n <= UINT_FAST64_MAX
      /\ UINT_FAST64_MAX \in Nat
  BY WordAssumption DEF IsRange, Word, number_of_buckets
<1>2. size = UINT_FAST64_MAX \div n
  BY DEF bucket_size
<1>3. limit(min, max) = n * size
  BY DEF limit
<1>. HIDE DEF n, size
<1>4. size \in Nat /\ n * size <= UINT_FAST64_MAX /\ UINT_FAST64_MAX < n * size + n
  BY <1>1, <1>2, Division
<1>5. size # 0
  BY <1>1, <1>4
<1>6. n * size >= 1
  <2>1. n * 0 + n <= n * size
    BY <1>1, <1>4, <1>5, NextMultiple
  <2>2. QED
    BY <1>1, <1>4, <2>1
<1>7. n * size \in Nat
  BY <1>1, <1>4
<1>8. QED
  BY <1>1, <1>3, <1>4, <1>5, <1>6, <1>7 DEF n, size

\* The loop of random_integer has a word to end with, and its limit does not overflow
\* (the assertions after it is computed).
THEOREM SomeWordIsUsable ==
  ASSUME NEW min, NEW max, IsRange(min, max)
  PROVE  /\ limit(min, max) <= UINT_FAST64_MAX
         /\ \E word \in Word : Usable(min, max, word)
<1>1. 0 \in Word /\ Usable(min, max, 0)
  BY BucketsFit, WordAssumption DEF Word, Usable
<1>2. QED
  BY <1>1, BucketsFit

\* The words that give a number are one bucket.
LEMMA WordsAreABucket ==
  ASSUME NEW min, NEW max, IsRange(min, max), NEW v \in min..max
  PROVE  WordsFor(min, max, v) =
           (bucket_size(min, max) * (v - min)) ..
             (bucket_size(min, max) * (v - min) + bucket_size(min, max) - 1)
<1>. DEFINE n    == number_of_buckets(min, max)
            size == bucket_size(min, max)
            k    == v - min
<1>1. /\ n \in Nat \ {0} /\ size \in Nat \ {0}
      /\ n * size <= UINT_FAST64_MAX
      /\ limit(min, max) = n * size
  BY BucketsFit DEF limit
<1>2. min \in Nat /\ k \in Nat /\ k < n /\ v = min + k
  BY DEF IsRange, Word, number_of_buckets
<1>3. ASSUME NEW word \in Nat
      PROVE  min + (word \div size) = v <=> size * k <= word /\ word < size * k + size
  <2>1. word \div size = k <=> size * k <= word /\ word < size * k + size
    BY <1>1, <1>2, QuotientIs
  <2>2. word \div size \in Nat
    BY <1>1, Division
  <2>3. QED
    BY <1>2, <2>1, <2>2
<1>4. size * k + size <= n * size /\ size * k \in Nat
  <2>1. size * k + size <= size * n
    BY <1>1, <1>2, NextMultiple
  <2>2. QED
    BY <1>1, <1>2, <2>1
<1>5. WordsFor(min, max, v) =
        {word \in Word : word < n * size /\ min + (word \div size) = v}
  BY <1>1 DEF WordsFor, Usable, random_integer
<1>6. UINT_FAST64_MAX \in Nat
  BY WordAssumption
<1>. HIDE DEF n, size, k
<1>7. ASSUME NEW word
      PROVE  word \in WordsFor(min, max, v) <=> word \in (size * k)..(size * k + size - 1)
  BY <1>1, <1>3, <1>4, <1>5, <1>6 DEF Word
<1>8. WordsFor(min, max, v) = (size * k)..(size * k + size - 1)
  BY <1>7
<1>9. QED
  BY <1>8 DEF size, k

\* Every word that is used gives a number of the range (the last assertions).
THEOREM RandomIntegerInRange ==
  ASSUME NEW min, NEW max, IsRange(min, max),
         NEW word \in Word, Usable(min, max, word)
  PROVE  random_integer(min, max, word) \in min..max
<1>. DEFINE n    == number_of_buckets(min, max)
            size == bucket_size(min, max)
            q    == word \div size
<1>1. n \in Nat \ {0} /\ size \in Nat \ {0} /\ word < n * size /\ word \in Nat
  BY BucketsFit, WordAssumption DEF Usable, limit, Word
<1>2. min \in Nat /\ max \in Nat /\ n = max - min + 1
  BY WordAssumption DEF IsRange, Word, number_of_buckets
<1>3. q \in Nat /\ size * q <= word
  BY <1>1, Division
<1>4. random_integer(min, max, word) = min + q
  BY DEF random_integer
<1>. HIDE DEF n, size, q
<1>5. q < n
  <2>1. SUFFICES ASSUME n <= q  PROVE FALSE
    BY <1>1, <1>3
  <2>2. size * n <= size * q
    <3>1. CASE n = q
      BY <1>1, <1>3, <3>1
    <3>2. CASE n < q
      <4>1. size * n + size <= size * q
        BY <1>1, <1>3, <3>2, NextMultiple
      <4>2. QED
        BY <1>1, <1>3, <4>1
    <3>3. QED
      BY <1>1, <1>3, <2>1, <3>1, <3>2
  <2>3. QED
    BY <1>1, <1>3, <2>2
<1>6. QED
  BY <1>2, <1>3, <1>4, <1>5

\* Every number of the range has as many words as any other: the distribution is even
\* (why random_integer draws again instead of taking a remainder).
THEOREM BucketsAreEqual ==
  ASSUME NEW min, NEW max, IsRange(min, max), NEW v \in min..max
  PROVE  Cardinality(WordsFor(min, max, v)) = bucket_size(min, max)
<1>. DEFINE size  == bucket_size(min, max)
            first == size * (v - min)
<1>1. size \in Nat \ {0} /\ v - min \in Nat
  BY BucketsFit DEF IsRange, Word
<1>2. WordsFor(min, max, v) = first..(first + size - 1)
  BY WordsAreABucket
<1>3. first \in Nat
  BY <1>1
<1>. HIDE DEF first, size
<1>4. Cardinality(first..(first + size - 1)) = size
  BY <1>1, <1>3, FS_Interval
<1>5. QED
  BY <1>2, <1>4 DEF size

-----------------------------------------------------------------------------
(* The conversion to a double.                                             *)

LEMMA PowersGrow ==
  ASSUME NEW m \in Nat, NEW n \in Nat, m <= n
  PROVE  2^m <= 2^n /\ 2^m \in Nat \ {0} /\ 2^n \in Nat \ {0}
<1>1. n - m \in Nat /\ m + (n - m) = n
  OBVIOUS
<1>2. 2^n = 2^m * 2^(n - m)
  BY <1>1, PowersMultiply
<1>3. 2^m \in Nat \ {0} /\ 2^n \in Nat \ {0} /\ 2^(n - m) \in Nat \ {0}
  BY <1>1, PowersOfTwo
<1>4. ASSUME NEW a \in Nat, NEW b \in Nat \ {0}
      PROVE  a <= a * b
  <2>1. b - 1 \in Nat /\ a * b = a + a * (b - 1) /\ a * (b - 1) \in Nat
    OBVIOUS
  <2>2. QED
    BY <2>1
<1>5. QED
  BY <1>2, <1>3, <1>4

LEMMA PowerExceeds ==
  ASSUME NEW n \in Nat
  PROVE  n < 2^n
<1>. DEFINE Good == {j \in Nat : j < 2^j}
<1>1. 0 \in Good
  BY PowersOfTwo
<1>2. ASSUME NEW j \in Good
      PROVE  j + 1 \in Good
  <2>1. j \in Nat /\ j < 2^j /\ 2^j \in Nat /\ 2^(j + 1) = 2 * 2^j
    BY PowersOfTwo
  <2>2. QED
    BY <2>1
<1>3. Good \in SUBSET Nat
  OBVIOUS
<1>. HIDE DEF Good
<1>4. n \in Good
  BY <1>1, <1>2, <1>3, Induction
<1>5. QED
  BY <1>4 DEF Good

\* The doubles around a number: it has at most as many spacings as there are mantissas
\* and, unless the spacing is one, at least half as many.
LEMMA SpacingIs ==
  ASSUME NEW n \in Nat
  PROVE  \E j \in 0..n : /\ Spacing(n) = 2^j /\ n < MANTISSA * 2^j
                         /\ j = 0 \/ n >= MANTISSA * 2^(j - 1)
<1>. DEFINE Fits(j)  == n < MANTISSA * 2^j
            Least(j) == Fits(j) /\ (j = 0 \/ n >= MANTISSA * 2^(j - 1))
<1>1. MANTISSA \in Nat \ {0} /\ \A j \in Nat : 2^j \in Nat \ {0} /\ MANTISSA * 2^j \in Nat
  <2>1. MANTISSA \in Nat \ {0}
    BY WordAssumption
  <2>2. \A j \in Nat : 2^j \in Nat \ {0}
    BY PowersOfTwo
  <2>3. QED
    BY <2>1, <2>2
<1>2. Fits(n)
  <2>1. n < 2^n /\ 2^n \in Nat
    BY <1>1, PowerExceeds
  <2>2. MANTISSA * 2^n = 2^n + (MANTISSA - 1) * 2^n /\ (MANTISSA - 1) * 2^n \in Nat
    BY <1>1
  <2>3. QED
    BY <2>1, <2>2
<1>3. \E j \in 0..n : Least(j)
  <2>. SUFFICES ASSUME ~\E j \in 0..n : Least(j)
                PROVE  FALSE
    OBVIOUS
  <2>. DEFINE Good == {j \in Nat : j <= n => ~Fits(j)}
  <2>1. 0 \in Good
    <3>1. 0 \in 0..n
      OBVIOUS
    <3>. HIDE DEF Fits
    <3>2. ~Fits(0)
      BY <3>1
    <3>3. QED
      BY <3>2
  <2>2. ASSUME NEW j \in Good
        PROVE  j + 1 \in Good
    <3>. SUFFICES ASSUME j + 1 <= n PROVE ~Fits(j + 1)
      OBVIOUS
    <3>1. j \in Nat /\ j <= n /\ j + 1 \in 0..n /\ (j + 1) - 1 = j /\ j + 1 # 0
      OBVIOUS
    <3>2. n >= MANTISSA * 2^j
      BY <1>1, <3>1
    <3>3. ~Least(j + 1)
      BY <3>1
    <3>4. QED
      BY <3>1, <3>2, <3>3
  <2>3. Good \in SUBSET Nat
    OBVIOUS
  <2>. HIDE DEF Good
  <2>4. n \in Good
    BY <2>1, <2>2, <2>3, Induction
  <2>5. QED
    BY <1>2, <2>4 DEF Good
<1>. DEFINE k == CHOOSE j \in 0..n : Least(j)
<1>4. k \in 0..n /\ Least(k)
  <2>. HIDE DEF Least
  <2>1. QED
    BY <1>3
<1>5. Spacing(n) = 2^k
  BY DEF Spacing
<1>. HIDE DEF k
<1>6. QED
  BY <1>4, <1>5

\* Rounding to a multiple of the spacing, and the multiples on both sides.
RoundedTo(n, s) ==
  LET below == n \div s
      up    == 2 * (n % s) > s \/ (2 * (n % s) = s /\ below % 2 = 1)
  IN  IF up THEN s * (below + 1) ELSE s * below

LEMMA RoundedBetween ==
  ASSUME NEW s \in Nat \ {0}, NEW n \in Nat, NEW c \in Nat
  PROVE  /\ RoundedTo(n, s) \in Nat
         /\ s * c <= n => s * c <= RoundedTo(n, s)
         /\ n < s * c => RoundedTo(n, s) <= s * c
<1>. DEFINE q == n \div s
<1>1. q \in Nat /\ s * q <= n /\ n < s * q + s
  BY Division
<1>2. RoundedTo(n, s) = s * q \/ RoundedTo(n, s) = s * (q + 1)
  BY DEF RoundedTo
<1>. HIDE DEF q
<1>3. s * (q + 1) = s * q + s /\ s * q \in Nat /\ s * c \in Nat
  BY <1>1
<1>4. q < c => s * q + s <= s * c
  BY <1>1, NextMultiple
<1>5. c < q => s * c + s <= s * q
  BY <1>1, NextMultiple
<1>6. q < c \/ c < q \/ c = q
  BY <1>1
<1>7. QED
  BY <1>1, <1>2, <1>3, <1>4, <1>5, <1>6

LEMMA RoundedMonotone ==
  ASSUME NEW s \in Nat \ {0}, NEW m \in Nat, NEW n \in Nat, m <= n
  PROVE  RoundedTo(m, s) <= RoundedTo(n, s)
<1>. DEFINE p == m \div s
            q == n \div s
            a == m % s
            b == n % s
<1>1. /\ p \in Nat /\ m = s * p + a /\ a \in 0..(s - 1)
      /\ q \in Nat /\ n = s * q + b /\ b \in 0..(s - 1)
  OBVIOUS
<1>2. /\ RoundedTo(m, s) = IF 2 * a > s \/ (2 * a = s /\ p % 2 = 1) THEN s * (p + 1) ELSE s * p
      /\ RoundedTo(n, s) = IF 2 * b > s \/ (2 * b = s /\ q % 2 = 1) THEN s * (q + 1) ELSE s * q
  BY DEF RoundedTo
<1>. HIDE DEF p, q, a, b
<1>3. s * (p + 1) = s * p + s /\ s * (q + 1) = s * q + s /\ s * p \in Nat /\ s * q \in Nat
  BY <1>1
<1>4. q < p => s * q + s <= s * p
  BY <1>1, NextMultiple
<1>5. p < q => s * p + s <= s * q
  BY <1>1, NextMultiple
<1>6. CASE p = q
  BY <1>1, <1>2, <1>3, <1>6
<1>7. CASE p < q
  BY <1>1, <1>2, <1>3, <1>5, <1>7
<1>8. CASE q < p
  BY <1>1, <1>3, <1>4, <1>8
<1>9. QED
  BY <1>1, <1>6, <1>7, <1>8

\* A larger number is never converted to a smaller double, also where the spacing grows.
LEMMA DoubleIsMonotone ==
  ASSUME NEW m \in Nat, NEW n \in Nat, m <= n
  PROVE  Double(m) \in Nat /\ Double(n) \in Nat /\ Double(m) <= Double(n)
<1>1. PICK i \in 0..m : /\ Spacing(m) = 2^i /\ m < MANTISSA * 2^i
                        /\ i = 0 \/ m >= MANTISSA * 2^(i - 1)
  BY SpacingIs
<1>2. PICK j \in 0..n : /\ Spacing(n) = 2^j /\ n < MANTISSA * 2^j
                        /\ j = 0 \/ n >= MANTISSA * 2^(j - 1)
  BY SpacingIs
<1>3. i \in Nat /\ j \in Nat /\ 2^i \in Nat \ {0} /\ 2^j \in Nat \ {0}
  BY PowersOfTwo
<1>4. Double(m) = RoundedTo(m, 2^i) /\ Double(n) = RoundedTo(n, 2^j)
  BY <1>1, <1>2 DEF Double, RoundedTo
<1>5. PICK h \in Nat \ {0} : MANTISSA = 2 * h
  <2>1. MANTISSA \in Nat \ {0} /\ MANTISSA % 2 = 0
    BY WordAssumption
  <2>2. MANTISSA = 2 * (MANTISSA \div 2) /\ MANTISSA \div 2 \in Nat \ {0}
    BY <2>1
  <2>3. QED
    BY <2>2
<1>6. Double(m) \in Nat /\ Double(n) \in Nat
  BY <1>3, <1>4, RoundedBetween
<1>7. CASE i = j
  BY <1>3, <1>4, <1>6, <1>7, RoundedMonotone
<1>8. CASE i < j
  <2>1. j - 1 \in Nat /\ 2^j = 2 * 2^(j - 1) /\ 2^(j - 1) \in Nat
    BY <1>3, <1>8, PowersOfTwo
  <2>2. 2^i <= 2^(j - 1)
    BY <1>3, <1>8, <2>1, PowersGrow
  <2>3. n >= MANTISSA * 2^(j - 1)
    BY <1>2, <1>3, <1>8
  <2>4. 2^j * h <= n
    BY <1>5, <2>1, <2>3
  <2>5. 2^j * h <= Double(n)
    BY <1>3, <1>4, <1>5, <2>4, RoundedBetween
  <2>6. Double(m) <= 2^i * MANTISSA
    <3>1. m < 2^i * MANTISSA /\ MANTISSA \in Nat
      BY <1>1, <1>3, <1>5
    <3>2. RoundedTo(m, 2^i) <= 2^i * MANTISSA
      BY <1>3, <3>1, RoundedBetween
    <3>3. QED
      BY <1>4, <3>2
  <2>7. 2^i * MANTISSA <= 2^j * h
    <3>. DEFINE a == 2^i
                b == 2^(j - 1)
    <3>1. a \in Nat /\ b - a \in Nat /\ b = a + (b - a)
      BY <1>3, <2>1, <2>2
    <3>. HIDE DEF a, b
    <3>2. a * (2 * h) + (b - a) * (2 * h) = (2 * b) * h /\ (b - a) * (2 * h) \in Nat
      BY <1>5, <3>1
    <3>3. a * (2 * h) <= (2 * b) * h
      BY <1>5, <3>1, <3>2
    <3>4. QED
      BY <1>5, <2>1, <3>3 DEF a, b
  <2>8. 2^i * MANTISSA \in Nat /\ 2^j * h \in Nat
    BY <1>3, <1>5
  <2>9. QED
    BY <1>6, <2>5, <2>6, <2>7, <2>8
<1>9. CASE j < i
  <2>1. i - 1 \in Nat /\ 2^j <= 2^(i - 1) /\ 2^(i - 1) \in Nat
    BY <1>3, <1>9, PowersGrow
  <2>2. m >= MANTISSA * 2^(i - 1) /\ n < MANTISSA * 2^j
    BY <1>1, <1>2, <1>3, <1>9
  <2>. DEFINE a == 2^j
              b == 2^(i - 1)
  <2>3. a \in Nat /\ b - a \in Nat /\ b = a + (b - a)
    BY <1>3, <2>1
  <2>4. m >= MANTISSA * b /\ n < MANTISSA * a
    BY <2>2
  <2>. HIDE DEF a, b
  <2>5. MANTISSA * b = MANTISSA * a + MANTISSA * (b - a) /\ MANTISSA * (b - a) \in Nat
        /\ MANTISSA * a \in Nat
    BY <1>5, <2>3
  <2>6. QED
    BY <2>4, <2>5
<1>10. QED
  BY <1>3, <1>6, <1>7, <1>8, <1>9

LEMMA DoubleKeepsZeroApart ==
  ASSUME NEW n \in Nat \ {0}
  PROVE  Double(0) = 0 /\ Double(n) \in Nat \ {0}
<1>1. PICK j \in 0..n : /\ Spacing(n) = 2^j /\ n < MANTISSA * 2^j
                        /\ j = 0 \/ n >= MANTISSA * 2^(j - 1)
  BY SpacingIs
<1>2. j \in Nat /\ 2^j \in Nat \ {0} /\ Double(n) = RoundedTo(n, 2^j)
  BY <1>1, PowersOfTwo DEF Double, RoundedTo
<1>3. 2^j * 1 <= n
  <2>1. CASE j = 0
    BY <2>1, PowersOfTwo
  <2>2. CASE j # 0
    <3>1. j - 1 \in Nat /\ 2^j = 2 * 2^(j - 1) /\ 2^(j - 1) \in Nat
      BY <1>2, <2>2, PowersOfTwo
    <3>2. MANTISSA \in Nat /\ MANTISSA - 2 \in Nat
      BY WordAssumption
    <3>3. MANTISSA * 2^(j - 1) = 2 * 2^(j - 1) + (MANTISSA - 2) * 2^(j - 1)
          /\ (MANTISSA - 2) * 2^(j - 1) \in Nat
      BY <3>1, <3>2
    <3>4. QED
      BY <1>1, <2>2, <3>1, <3>3
  <2>3. QED
    BY <2>1, <2>2
<1>4. Double(n) \in Nat \ {0}
  <2>1. 2^j * 1 <= RoundedTo(n, 2^j) /\ RoundedTo(n, 2^j) \in Nat
    BY <1>2, <1>3, RoundedBetween
  <2>2. QED
    BY <1>2, <2>1
<1>5. Double(0) = 0
  <2>1. PICK i \in 0..0 : Spacing(0) = 2^i
    BY SpacingIs
  <2>2. Spacing(0) = 1
    BY <2>1, PowersOfTwo
  <2>3. QED
    BY <2>2 DEF Double
<1>6. QED
  BY <1>4, <1>5

\* random_zero_one_double returns a number in (0, 1] (its comment), whatever is lost
\* when words are converted to doubles: the sum in the numerator is never zero, and is
\* never rounded above the one in the denominator.
THEOREM RandomNumberIsInUnitInterval ==
  ASSUME NEW word \in Word
  PROVE  LET number == random_zero_one_double(word)
         IN  /\ number[1] \in Nat \ {0} /\ number[2] \in Nat \ {0}
             /\ number[1] <= number[2]
<1>. DEFINE x == Double(word)
            y == Double(UINT_FAST64_MAX)
<1>1. word \in Nat /\ UINT_FAST64_MAX \in Nat \ {0} /\ UINT_FAST64_MAX - 0 = UINT_FAST64_MAX
  BY WordAssumption DEF Word
<1>2. Double(0) = 0 /\ y \in Nat
  BY <1>1, DoubleKeepsZeroApart
<1>3. x \in Nat
  BY <1>1, DoubleIsMonotone
<1>4. random_zero_one_double(word) =
        IF x < 0 THEN <<0, 1>> ELSE IF x >= y THEN <<1, 1>>
        ELSE <<Double(x - 0 + 1), Double(y + 1)>>
  BY <1>1, <1>2 DEF random_zero_one_double, uniform_min_max_integer_distribution
<1>. HIDE DEF x, y
<1>5. x - 0 + 1 = x + 1
  BY <1>3
<1>6. CASE x >= y
  BY <1>2, <1>3, <1>4, <1>6
<1>7. CASE x < y
  <2>1. x + 1 \in Nat \ {0} /\ y + 1 \in Nat \ {0} /\ x + 1 <= y + 1
    BY <1>2, <1>3, <1>7
  <2>2. /\ Double(x + 1) \in Nat \ {0} /\ Double(y + 1) \in Nat \ {0}
        /\ Double(x + 1) <= Double(y + 1)
    BY <2>1, DoubleIsMonotone, DoubleKeepsZeroApart
  <2>3. random_zero_one_double(word) = <<Double(x + 1), Double(y + 1)>>
    BY <1>2, <1>3, <1>4, <1>5, <1>7
  <2>4. QED
    BY <2>2, <2>3
<1>8. QED
  BY <1>2, <1>3, <1>6, <1>7

-----------------------------------------------------------------------------
(* The channel.                                                            *)

LEMMA QubitsAreARange ==
  ASSUME NEW n \in 1..(NumberOfQubits + 1)
  PROVE  IsRange(0, n - 1) /\ n - 1 \in Nat
BY QubitsAssumption, NoisyAssumption, WordAssumption DEF IsRange, Word

LEMMA OperandIsAQubit ==
  ASSUME NEW word \in Word, Usable(0, NumberOfQubits - 1, word)
  PROVE  random_integer(0, NumberOfQubits - 1, word) \in Qubit
<1>1. NumberOfQubits \in 1..(NumberOfQubits + 1)
  BY QubitsAssumption
<1>2. IsRange(0, NumberOfQubits - 1)
  BY <1>1, QubitsAreARange
<1>3. QED
  BY <1>2, RandomIntegerInRange DEF Qubit

\* random_integer favours no qubit, for every size of the register and every width of
\* a word that has more values than there are qubits.
THEOREM QubitsAreEquallyLikelyCorrect == NoisySpec => []QubitsAreEquallyLikely
<1>1. QubitsAreEquallyLikely
  <2>. SUFFICES ASSUME NEW n \in 1..(NumberOfQubits + 1), NEW q \in 0..(n - 1)
                PROVE  Cardinality(WordsFor(0, n - 1, q)) = bucket_size(0, n - 1)
    BY DEF QubitsAreEquallyLikely
  <2>1. IsRange(0, n - 1)
    BY QubitsAreARange
  <2>2. QED
    BY <2>1, BucketsAreEqual
<1>2. QED
  BY <1>1, PTL

-----------------------------------------------------------------------------

LEMMA ErrorIsAnOperation ==
  ASSUME NEW number, NEW q \in Qubit
  PROVE  /\ ErrorGate(number) \in {"X", "Y", "Z"}
         /\ Plain(ErrorGate(number), 0) \in Gates
         /\ <<q>> \in OperandLists(Plain(ErrorGate(number), 0))
<1>1. ErrorGate(number) \in {"X", "Y", "Z"}
  BY DEF ErrorGate
<1>2. Plain(ErrorGate(number), 0) \in Gates /\ Arity(Plain(ErrorGate(number), 0)) = 1
  BY <1>1, NoisyAssumption
<1>3. <<q>> \in [1..1 -> Qubit] /\ IsInjective(<<q>>)
  BY DEF IsInjective
<1>4. QED
  BY <1>1, <1>2, <1>3 DEF OperandLists

LEMMA InstructionsOfACircuit ==
  ASSUME NoisyTypeOK
  PROVE  /\ Len(circuit.instructions) \in Nat
         /\ \A j \in 1..Len(circuit.instructions) : IsInstruction(circuit.instructions[j])
BY NoisyAssumption DEF NoisyTypeOK

LEMMA NoisyStep ==
  ASSUME NoisyTypeOK, NoisyNext
  PROVE  [Next]_vars
<1>1. ASSUME NEW word \in Words, DrawNoError(word) \/ DrawError(word) \/ RejectWord(word) \/ AcceptWord(word)
      PROVE  UNCHANGED vars
  BY <1>1 DEF DrawNoError, DrawError, RejectWord, AcceptWord, vars
<1>2. CASE ApplyError
  <2>. DEFINE q == random_integer(0, NumberOfQubits - 1, r)
  <2>1. q \in Qubit
    BY <1>2 DEF ApplyError, NoisyTypeOK
  <2>2. Unitary(Plain(ErrorGate(random), 0), <<q>>)
    BY <1>2 DEF ApplyError
  <2>3. QED
    BY <2>1, <2>2, ErrorIsAnOperation DEF Next
<1>3. CASE ExecuteInstruction
  <2>1. pc \in 1..Len(circuit.instructions)
    BY <1>3, InstructionsOfACircuit DEF ExecuteInstruction, NoisyTypeOK, More
  <2>2. QED
    BY <1>3, <2>1, InstructionsOfACircuit, ExecuteIsAnOperation DEF ExecuteInstruction
<1>4. CASE Finish \/ Ended
  BY <1>4 DEF Finish, Ended, noisy_vars, vars
<1>5. QED
  BY <1>1, <1>2, <1>3, <1>4 DEF NoisyNext

LEMMA NoisyTypeStep ==
  ASSUME NoisyTypeOK, [NoisyNext]_noisy_vars
  PROVE  NoisyTypeOK'
<1>. USE DEF More
<1>1. TypeOK'
  <2>1. TypeOK
    BY DEF NoisyTypeOK
  <2>2. [Next]_vars
    BY NoisyStep DEF noisy_vars, vars
  <2>3. QED
    BY <2>1, <2>2, TypeStep
<1>2. /\ circuit \in NoisyCircuits /\ probability \in Probabilities
      /\ Len(circuit.instructions) \in Nat /\ pc \in Nat
      /\ Len(errors) \in Nat
  BY InstructionsOfACircuit DEF NoisyTypeOK
<1>. DEFINE Errors == [gate : {"none", "X", "Y", "Z"}, operand : Qubit]
<1>3. errors \in Seq(Errors)
  BY DEF NoisyTypeOK
<1>4. NoError \in Errors
  BY QubitsAssumption DEF NoError, Qubit
<1>5. ASSUME NEW word \in Words, DrawNoError(word)
      PROVE  NoisyTypeOK'
  <2>1. /\ errors' \in Seq(Errors) /\ Len(errors') = Len(errors) + 1
    BY <1>5, <1>3, <1>4 DEF DrawNoError
  <2>2. QED
    BY <1>5, <1>1, <1>2, <2>1 DEF DrawNoError, NoisyTypeOK
<1>6. ASSUME NEW word \in Words, DrawError(word)
      PROVE  NoisyTypeOK'
  BY <1>6, <1>1, <1>2 DEF DrawError, NoisyTypeOK
<1>7. ASSUME NEW word \in Words, RejectWord(word)
      PROVE  NoisyTypeOK'
  BY <1>7, <1>1, <1>2, NoisyAssumption DEF RejectWord, NoisyTypeOK
<1>8. ASSUME NEW word \in Words, AcceptWord(word)
      PROVE  NoisyTypeOK'
  <2>1. word \in Word /\ random_integer(0, NumberOfQubits - 1, word) \in Qubit
    BY <1>8, OperandIsAQubit, NoisyAssumption DEF AcceptWord
  <2>2. QED
    BY <1>8, <1>1, <1>2, <2>1 DEF AcceptWord, NoisyTypeOK
<1>9. CASE ApplyError
  <2>. DEFINE q == random_integer(0, NumberOfQubits - 1, r)
              e == [gate |-> ErrorGate(random), operand |-> q]
  <2>1. q \in Qubit
    BY <1>9 DEF ApplyError, NoisyTypeOK
  <2>2. e \in Errors
    BY <2>1, ErrorIsAnOperation
  <2>3. errors' = Append(errors, e)
    BY <1>9 DEF ApplyError
  <2>4. errors' \in Seq(Errors) /\ Len(errors') = Len(errors) + 1
    BY <2>2, <2>3, <1>3
  <2>5. r' \in Word
    BY <1>9, WordAssumption DEF ApplyError, Word
  <2>. HIDE DEF q, e
  <2>6. QED
    BY <1>9, <1>1, <1>2, <2>4, <2>5 DEF ApplyError, NoisyTypeOK
<1>10. CASE ExecuteInstruction
  BY <1>10, <1>1, <1>2 DEF ExecuteInstruction, NoisyTypeOK
<1>11. CASE Finish \/ Ended \/ UNCHANGED noisy_vars
  BY <1>11, <1>1, <1>2 DEF Finish, Ended, noisy_vars, NoisyTypeOK
<1>12. QED
  BY <1>5, <1>6, <1>7, <1>8, <1>9, <1>10, <1>11 DEF NoisyNext

\* An error is X, Y or Z on a qubit of the register, and there is one entry for each
\* instruction before the one that is executed.
THEOREM NoisyTypeCorrect == NoisySpec => []NoisyTypeOK
<1>1. NoisyInit => NoisyTypeOK
  <2>. SUFFICES ASSUME NoisyInit PROVE NoisyTypeOK
    OBVIOUS
  <2>1. TypeOK
    BY InitTypeOK DEF NoisyInit
  <2>2. Len(circuit.instructions) \in Nat
    BY NoisyAssumption DEF NoisyInit
  <2>3. 0 \in Word
    BY WordAssumption DEF Word
  <2>4. QED
    BY <2>1, <2>2, <2>3 DEF NoisyInit, NoisyTypeOK
<1>2. QED
  BY <1>1, NoisyTypeStep, PTL DEF NoisySpec

LEMMA ChannelIsFair ==
  ASSUME NoisyTypeOK, NEW word \in Words
  PROVE  LET number == random_zero_one_double(word)
         IN  /\ probability[1] = 0 => ~Happens(number)
             /\ probability[1] = probability[2] => Happens(number)
<1>. DEFINE number == random_zero_one_double(word)
<1>1. probability[1] \in Nat /\ probability[2] \in Nat \ {0}
  BY NoisyAssumption DEF NoisyTypeOK
<1>2. number[1] \in Nat \ {0} /\ number[2] \in Nat \ {0} /\ number[1] <= number[2]
  BY NoisyAssumption, RandomNumberIsInUnitInterval
<1>3. Happens(number) <=> number[1] * probability[2] <= probability[1] * number[2]
  BY DEF Happens, NotAbove
<1>. HIDE DEF number
<1>4. ASSUME NEW a \in Nat \ {0}, NEW b \in Nat \ {0}
      PROVE  a * b \in Nat \ {0}
  <2>1. b - 1 \in Nat /\ a * b = a + a * (b - 1) /\ a * (b - 1) \in Nat
    OBVIOUS
  <2>2. QED
    BY <2>1
<1>5. probability[1] = 0 => ~Happens(number)
  <2>. SUFFICES ASSUME probability[1] = 0 PROVE ~Happens(number)
    OBVIOUS
  <2>1. probability[1] * number[2] = 0
    BY <1>2
  <2>2. number[1] * probability[2] \in Nat \ {0}
    BY <1>1, <1>2, <1>4
  <2>3. QED
    BY <1>3, <2>1, <2>2
<1>6. probability[1] = probability[2] => Happens(number)
  <2>. SUFFICES ASSUME probability[1] = probability[2] PROVE Happens(number)
    OBVIOUS
  <2>1. probability[2] * number[2] = number[1] * probability[2]
                                       + (number[2] - number[1]) * probability[2]
        /\ (number[2] - number[1]) * probability[2] \in Nat
        /\ number[1] * probability[2] \in Nat
    BY <1>1, <1>2
  <2>2. QED
    BY <1>3, <2>1
<1>7. QED
  BY <1>5, <1>6 DEF number

\* An error that is being made is one of a channel that makes some.
ErrorIsPossible == step \in {"operand", "apply"} => probability[1] # 0

LEMMA ExtremesStep ==
  ASSUME NoisyTypeOK, ExtremesAreCertain, ErrorIsPossible, [NoisyNext]_noisy_vars
  PROVE  ExtremesAreCertain' /\ ErrorIsPossible'
<1>. DEFINE Allowed(e) == /\ probability[1] = 0 => e = NoError
                          /\ probability[1] = probability[2] => e # NoError
            Errors == [gate : {"none", "X", "Y", "Z"}, operand : Qubit]
<1>1. errors \in Seq(Errors) /\ DOMAIN errors = 1..Len(errors) /\ Len(errors) \in Nat
  BY DEF NoisyTypeOK
<1>2. \A j \in 1..Len(errors) : Allowed(errors[j])
  BY <1>1 DEF ExtremesAreCertain
<1>. HIDE DEF Allowed
<1>3. ASSUME NEW e \in Errors, Allowed(e)
      PROVE  \A j \in DOMAIN Append(errors, e) : Allowed(Append(errors, e)[j])
  <2>. HIDE DEF Errors
  <2>1. /\ DOMAIN Append(errors, e) = 1..(Len(errors) + 1)
        /\ Append(errors, e)[Len(errors) + 1] = e
        /\ \A j \in 1..Len(errors) : Append(errors, e)[j] = errors[j]
    BY <1>1
  <2>2. QED
    BY <1>1, <1>2, <1>3, <2>1
<1>4. ASSUME NEW word \in Words, DrawNoError(word)
      PROVE  ExtremesAreCertain' /\ ErrorIsPossible'
  <2>1. errors' = Append(errors, NoError) /\ probability' = probability /\ step' = "instruction"
        /\ ~Happens(random_zero_one_double(word))
    BY <1>4 DEF DrawNoError
  <2>2. Allowed(NoError)
    BY <2>1, ChannelIsFair DEF Allowed
  <2>3. NoError \in Errors
    BY QubitsAssumption DEF NoError, Qubit
  <2>4. QED
    BY <1>3, <2>1, <2>2, <2>3 DEF ExtremesAreCertain, ErrorIsPossible, Allowed
<1>5. ASSUME NEW word \in Words, DrawError(word)
      PROVE  ExtremesAreCertain' /\ ErrorIsPossible'
  <2>1. errors' = errors /\ probability' = probability
        /\ Happens(random_zero_one_double(word))
    BY <1>5 DEF DrawError
  <2>2. probability[1] # 0
    BY <2>1, ChannelIsFair
  <2>3. QED
    BY <2>1, <2>2 DEF ExtremesAreCertain, ErrorIsPossible
<1>6. ASSUME NEW word \in Words, RejectWord(word) \/ AcceptWord(word)
      PROVE  ExtremesAreCertain' /\ ErrorIsPossible'
  <2>1. errors' = errors /\ probability' = probability /\ step = "operand"
    BY <1>6 DEF RejectWord, AcceptWord
  <2>2. QED
    BY <2>1 DEF ExtremesAreCertain, ErrorIsPossible
<1>7. CASE ApplyError
  <2>. DEFINE e == [gate    |-> ErrorGate(random),
                    operand |-> random_integer(0, NumberOfQubits - 1, r)]
  <2>1. errors' = Append(errors, e) /\ probability' = probability
        /\ step = "apply" /\ step' = "instruction"
    BY <1>7 DEF ApplyError
  <2>2. e.operand \in Qubit /\ e.gate \in {"X", "Y", "Z"}
    BY <2>1, ErrorIsAnOperation DEF NoisyTypeOK
  <2>3. e \in Errors /\ e # NoError
    BY <2>2 DEF NoError
  <2>. HIDE DEF e
  <2>4. Allowed(e)
    BY <2>1, <2>3 DEF Allowed, ErrorIsPossible
  <2>5. QED
    BY <1>3, <2>1, <2>3, <2>4 DEF ExtremesAreCertain, ErrorIsPossible, Allowed
<1>8. CASE ExecuteInstruction \/ Finish \/ Ended \/ UNCHANGED noisy_vars
  <2>1. errors' = errors /\ probability' = probability
        /\ (step' = step \/ step' \in {"error", "finished"})
    BY <1>8 DEF ExecuteInstruction, Finish, Ended, noisy_vars
  <2>2. QED
    BY <2>1 DEF ExtremesAreCertain, ErrorIsPossible
<1>9. QED
  BY <1>4, <1>5, <1>6, <1>7, <1>8 DEF NoisyNext

\* A channel of probability zero makes no error and one of probability one makes one
\* before every instruction, for every width of a word and of a mantissa: the random
\* numbers are never zero, and never above one.
THEOREM ExtremesAreCertainCorrect == NoisySpec => []ExtremesAreCertain
<1>1. NoisyInit => ExtremesAreCertain /\ ErrorIsPossible
  BY DEF NoisyInit, ExtremesAreCertain, ErrorIsPossible
<1>2. NoisyTypeOK /\ ExtremesAreCertain /\ ErrorIsPossible /\ [NoisyNext]_noisy_vars
        => ExtremesAreCertain' /\ ErrorIsPossible'
  BY ExtremesStep
<1>3. QED
  BY <1>1, <1>2, NoisyTypeCorrect, PTL DEF NoisySpec

\* An execution with errors is a behaviour of the context: what is proved of that one
\* (SettledCorrect, NormalizedCorrect, MeasurementsRepeatCorrect, CleanupCorrect) holds
\* whatever the error model does.
THEOREM NoiseIsABehaviour == NoisySpec => Spec
<1>1. NoisyInit => Init
  BY DEF NoisyInit
<1>2. NoisyTypeOK /\ [NoisyNext]_noisy_vars => [Next]_vars
  BY NoisyStep DEF noisy_vars, vars
<1>3. QED
  BY <1>1, <1>2, NoisyTypeCorrect, PTL DEF NoisySpec, Spec

-----------------------------------------------------------------------------
(* How far a random number is from the word that it is made of.            *)

LEMMA SpacingIsPower ==
  ASSUME NEW n \in Nat, NEW j \in Nat, n < MANTISSA * 2^j, j = 0 \/ n >= MANTISSA * 2^(j - 1)
  PROVE  Spacing(n) = 2^j
<1>1. PICK i \in 0..n : /\ Spacing(n) = 2^i /\ n < MANTISSA * 2^i
                        /\ i = 0 \/ n >= MANTISSA * 2^(i - 1)
  BY SpacingIs
<1>2. MANTISSA \in Nat /\ i \in Nat
  BY WordAssumption
<1>3. ASSUME NEW k \in Nat, NEW l \in Nat, k <= l
      PROVE  MANTISSA * 2^k <= MANTISSA * 2^l /\ MANTISSA * 2^k \in Nat /\ MANTISSA * 2^l \in Nat
  <2>. DEFINE a == 2^k
              b == 2^l
  <2>1. a \in Nat /\ b - a \in Nat /\ b = a + (b - a)
    BY <1>3, PowersGrow
  <2>. HIDE DEF a, b
  <2>2. MANTISSA * b = MANTISSA * a + MANTISSA * (b - a) /\ MANTISSA * (b - a) \in Nat
        /\ MANTISSA * a \in Nat
    BY <1>2, <2>1
  <2>3. MANTISSA * a <= MANTISSA * b /\ MANTISSA * a \in Nat /\ MANTISSA * b \in Nat
    BY <2>2
  <2>4. QED
    BY <2>3 DEF a, b
<1>4. CASE i < j
  <2>1. j - 1 \in Nat /\ i <= j - 1 /\ n >= MANTISSA * 2^(j - 1)
    BY <1>2, <1>4
  <2>2. /\ MANTISSA * 2^i <= MANTISSA * 2^(j - 1)
        /\ MANTISSA * 2^i \in Nat /\ MANTISSA * 2^(j - 1) \in Nat
    BY <1>2, <1>3, <2>1
  <2>3. QED
    BY <1>1, <2>1, <2>2
<1>5. CASE j < i
  <2>1. i - 1 \in Nat /\ j <= i - 1 /\ n >= MANTISSA * 2^(i - 1)
    BY <1>1, <1>2, <1>5
  <2>2. /\ MANTISSA * 2^j <= MANTISSA * 2^(i - 1)
        /\ MANTISSA * 2^j \in Nat /\ MANTISSA * 2^(i - 1) \in Nat
    BY <1>3, <2>1
  <2>3. QED
    BY <2>1, <2>2
<1>6. CASE i = j
  BY <1>1, <1>6
<1>7. QED
  BY <1>2, <1>4, <1>5, <1>6

LEMMA SpacingGrows ==
  ASSUME NEW m \in Nat, NEW n \in Nat, m <= n
  PROVE  Spacing(m) \in Nat \ {0} /\ Spacing(n) \in Nat \ {0} /\ Spacing(m) <= Spacing(n)
<1>1. PICK i \in 0..m : /\ Spacing(m) = 2^i /\ m < MANTISSA * 2^i
                        /\ i = 0 \/ m >= MANTISSA * 2^(i - 1)
  BY SpacingIs
<1>2. PICK j \in 0..n : Spacing(n) = 2^j /\ n < MANTISSA * 2^j
  BY SpacingIs
<1>3. i \in Nat /\ j \in Nat /\ 2^i \in Nat \ {0} /\ 2^j \in Nat \ {0} /\ MANTISSA \in Nat
  BY PowersOfTwo, WordAssumption
<1>4. CASE i <= j
  BY <1>1, <1>2, <1>3, <1>4, PowersGrow
<1>5. CASE j < i
  <2>1. i - 1 \in Nat /\ j <= i - 1 /\ m >= MANTISSA * 2^(i - 1)
    BY <1>1, <1>3, <1>5
  <2>. DEFINE a == 2^j
              b == 2^(i - 1)
  <2>2. a \in Nat /\ b - a \in Nat /\ b = a + (b - a)
    BY <1>3, <2>1, PowersGrow
  <2>3. m >= MANTISSA * b /\ n < MANTISSA * a
    BY <1>2, <2>1
  <2>. HIDE DEF a, b
  <2>4. MANTISSA * b = MANTISSA * a + MANTISSA * (b - a) /\ MANTISSA * (b - a) \in Nat
        /\ MANTISSA * a \in Nat
    BY <1>3, <2>2
  <2>5. QED
    BY <2>3, <2>4
<1>6. QED
  BY <1>3, <1>4, <1>5

\* What is rounded is at most half a spacing away, and is not moved up to an odd multiple
\* by a tie.
LEMMA RoundedNear ==
  ASSUME NEW s \in Nat \ {0}, NEW n \in Nat
  PROVE  \E c \in Nat : /\ RoundedTo(n, s) = s * c
                        /\ 2 * (s * c) <= 2 * n + s /\ 2 * n <= 2 * (s * c) + s
                        /\ s = 2 /\ c % 2 = 1 => s * c <= n
<1>. DEFINE q == n \div s
            a == n % s
<1>1. q \in Nat /\ n = s * q + a /\ a \in 0..(s - 1)
  OBVIOUS
<1>2. RoundedTo(n, s) = IF 2 * a > s \/ (2 * a = s /\ q % 2 = 1) THEN s * (q + 1) ELSE s * q
  BY DEF RoundedTo
<1>. HIDE DEF q, a
<1>3. s * (q + 1) = s * q + s /\ s * q \in Nat
  BY <1>1
<1>4. CASE 2 * a > s \/ (2 * a = s /\ q % 2 = 1)
  <2>1. RoundedTo(n, s) = s * (q + 1) /\ q + 1 \in Nat
    BY <1>1, <1>2, <1>4
  <2>2. 2 * (s * (q + 1)) <= 2 * n + s /\ 2 * n <= 2 * (s * (q + 1)) + s
    BY <1>1, <1>3, <1>4
  <2>3. s = 2 /\ (q + 1) % 2 = 1 => s * (q + 1) <= n
    <3>. SUFFICES ASSUME s = 2, (q + 1) % 2 = 1
                  PROVE  FALSE
      OBVIOUS
    <3>1. q % 2 = 0
      BY <1>1
    <3>2. 2 * a > 2 /\ a <= 1 /\ a \in Nat
      BY <1>1, <1>4, <3>1
    <3>3. QED
      BY <3>2
  <2>4. QED
    BY <2>1, <2>2, <2>3
<1>5. CASE ~(2 * a > s \/ (2 * a = s /\ q % 2 = 1))
  <2>1. RoundedTo(n, s) = s * q
    BY <1>2, <1>5
  <2>2. 2 * (s * q) <= 2 * n + s /\ 2 * n <= 2 * (s * q) + s /\ s * q <= n
    BY <1>1, <1>3, <1>5
  <2>3. QED
    BY <1>1, <2>1, <2>2
<1>6. QED
  BY <1>4, <1>5

\* A spacing of two or more loses the one that is added to a double, or makes it two.
LEMMA RoundedNext ==
  ASSUME NEW s \in Nat, s >= 2, NEW c \in Nat
  PROVE  RoundedTo(s * c + 1, s) = IF s = 2 /\ c % 2 = 1 THEN s * c + 2 ELSE s * c
<1>. DEFINE n == s * c + 1
            q == n \div s
            a == n % s
<1>1. q \in Nat /\ n = s * q + a /\ a \in 0..(s - 1) /\ s * c \in Nat
  OBVIOUS
<1>2. RoundedTo(n, s) = IF 2 * a > s \/ (2 * a = s /\ q % 2 = 1) THEN s * (q + 1) ELSE s * q
  BY DEF RoundedTo
<1>3. n = s * c + 1
  OBVIOUS
<1>. HIDE DEF q, a, n
<1>4. q < c => s * q + s <= s * c
  BY <1>1, NextMultiple
<1>5. c < q => s * c + s <= s * q
  BY <1>1, NextMultiple
<1>6. q = c
  BY <1>1, <1>3, <1>4, <1>5
<1>7. a = 1
  BY <1>1, <1>3, <1>6
<1>8. s * (c + 1) = s * c + s
  OBVIOUS
<1>9. QED
  BY <1>1, <1>2, <1>6, <1>7, <1>8 DEF n

\* The numerator of a random number.
Numerator(word) == Double(Double(word) + 1)

\* It is nearer than a spacing to the number of words up to this one.
LEMMA NumeratorIsNear ==
  ASSUME NEW w \in Nat
  PROVE  /\ Numerator(w) \in Nat
         /\ w + 1 <= Numerator(w) + Spacing(w)
         /\ Numerator(w) <= w + Spacing(w)
<1>1. PICK j \in 0..w : /\ Spacing(w) = 2^j /\ w < MANTISSA * 2^j
                        /\ j = 0 \/ w >= MANTISSA * 2^(j - 1)
  BY SpacingIs
<1>2. j \in Nat /\ 2^j \in Nat \ {0} /\ Double(w) = RoundedTo(w, 2^j)
  BY <1>1, PowersOfTwo DEF Double, RoundedTo
<1>3. PICK h \in Nat \ {0} : MANTISSA = 2 * h
  <2>1. MANTISSA \in Nat \ {0} /\ MANTISSA % 2 = 0
    BY WordAssumption
  <2>2. MANTISSA = 2 * (MANTISSA \div 2) /\ MANTISSA \div 2 \in Nat \ {0}
    BY <2>1
  <2>3. QED
    BY <2>2
<1>. DEFINE s == 2^j
            x == Double(w)
<1>4. s \in Nat \ {0} /\ Spacing(w) = s /\ x = RoundedTo(w, s) /\ x \in Nat
  BY <1>1, <1>2, RoundedBetween
<1>5. PICK c \in Nat : /\ x = s * c
                       /\ 2 * (s * c) <= 2 * w + s /\ 2 * w <= 2 * (s * c) + s
                       /\ s = 2 /\ c % 2 = 1 => s * c <= w
  <2>. HIDE DEF s, x
  <2>1. QED
    BY <1>4, RoundedNear
<1>6. w < MANTISSA * s /\ MANTISSA * s = s * MANTISSA
  BY <1>1, <1>3
<1>7. 2^(j + 1) = 2 * s
  BY <1>2, PowersOfTwo
<1>8. Numerator(w) = Double(x + 1)
  BY DEF Numerator
<1>9. CASE j = 0
  <2>1. s = 1
    BY <1>9, PowersOfTwo
  <2>2. x = w
    <3>. HIDE DEF s, x
    <3>1. QED
      BY <1>5, <2>1
  <2>3. w + 1 <= MANTISSA
    <3>. HIDE DEF s, x
    <3>1. QED
      BY <1>3, <1>6, <2>1
  <2>4. CASE w + 1 < MANTISSA
    <3>1. 2^0 = 1 /\ w + 1 < MANTISSA * 2^0 /\ 0 \in Nat /\ w + 1 \in Nat
      BY <1>3, <2>4, PowersOfTwo
    <3>2. Spacing(w + 1) = 1
      BY <3>1, SpacingIsPower
    <3>3. Double(w + 1) = w + 1
      BY <3>2 DEF Double
    <3>4. QED
      BY <1>4, <1>8, <2>1, <2>2, <3>3
  <2>5. CASE w + 1 = MANTISSA
    <3>1. 2^1 = 2 /\ 2^0 = 1 /\ 1 \in Nat /\ w + 1 \in Nat /\ 1 - 1 = 0
      BY PowersOfTwo
    <3>2. w + 1 < MANTISSA * 2 /\ w + 1 >= MANTISSA * 1
      BY <1>3, <2>5
    <3>3. Spacing(w + 1) = 2
      BY <3>1, <3>2, SpacingIsPower
    <3>4. (w + 1) % 2 = 0 /\ 2 * ((w + 1) \div 2) = w + 1
      BY <1>3, <2>5
    <3>5. Double(w + 1) = w + 1
      BY <3>3, <3>4 DEF Double
    <3>6. QED
      BY <1>4, <1>8, <2>1, <2>2, <3>5
  <2>6. QED
    BY <1>3, <2>3, <2>4, <2>5
<1>10. CASE j # 0
  <2>1. j - 1 \in Nat /\ s = 2 * 2^(j - 1) /\ 2^(j - 1) \in Nat \ {0} /\ w >= MANTISSA * 2^(j - 1)
    BY <1>1, <1>2, <1>10, PowersOfTwo
  <2>2. s >= 2 /\ s % 2 = 0
    BY <2>1
  <2>3. MANTISSA * 2^(j - 1) = s * h
    BY <1>3, <2>1
  <2>4. s * h <= w
    BY <2>1, <2>3
  <2>5. s * h <= x /\ x <= s * MANTISSA
    <3>. HIDE DEF s, x
    <3>1. s * h <= RoundedTo(w, s)
      BY <1>3, <1>4, <2>4, RoundedBetween
    <3>2. w < s * MANTISSA /\ MANTISSA \in Nat
      BY <1>3, <1>6
    <3>3. RoundedTo(w, s) <= s * MANTISSA
      BY <1>4, <3>2, RoundedBetween
    <3>4. QED
      BY <1>4, <3>1, <3>3
  <2>6. Numerator(w) = x \/ (s = 2 /\ c % 2 = 1 /\ Numerator(w) = x + 2)
    <3>1. CASE c < MANTISSA
      <4>1. x + 1 < MANTISSA * s
        <5>1. s * c + s <= s * MANTISSA
          BY <1>3, <1>4, <3>1, NextMultiple
        <5>. HIDE DEF s, x
        <5>2. QED
          BY <1>3, <1>4, <1>5, <1>6, <2>2, <5>1
      <4>2. x + 1 >= MANTISSA * 2^(j - 1) /\ x + 1 \in Nat
        <5>. DEFINE b == MANTISSA * 2^(j - 1)
        <5>1. b = s * h /\ s * h \in Nat
          BY <1>3, <1>4, <2>3
        <5>. HIDE DEF s, x, b
        <5>2. x + 1 >= b /\ x + 1 \in Nat
          BY <1>4, <2>5, <5>1
        <5>3. QED
          BY <5>2 DEF b
      <4>3. Spacing(x + 1) = s
        <5>. HIDE DEF x
        <5>1. QED
          BY <1>2, <4>1, <4>2, SpacingIsPower
      <4>. HIDE DEF s, x
      <4>4. Double(x + 1) = RoundedTo(s * c + 1, s)
        BY <1>5, <4>3 DEF Double, RoundedTo
      <4>5. QED
        BY <1>4, <1>5, <1>8, <2>2, <4>4, RoundedNext
    <3>2. CASE c >= MANTISSA
      <4>1. x = s * MANTISSA /\ s * MANTISSA = (2 * s) * h
        <5>1. MANTISSA < c => s * MANTISSA + s <= s * c
          BY <1>3, <1>4, NextMultiple
        <5>. HIDE DEF s, x
        <5>2. s * MANTISSA \in Nat
          BY <1>3, <1>4
        <5>3. c = MANTISSA
          BY <1>3, <1>4, <1>5, <2>5, <3>2, <5>1, <5>2
        <5>4. QED
          BY <1>3, <1>4, <1>5, <5>3
      <4>2. x + 1 < MANTISSA * (2 * s) /\ x + 1 >= MANTISSA * s
        <5>. HIDE DEF s, x
        <5>1. s - 1 \in Nat /\ MANTISSA * s = MANTISSA + MANTISSA * (s - 1)
              /\ MANTISSA * (s - 1) \in Nat /\ MANTISSA * (2 * s) = MANTISSA * s + MANTISSA * s
          BY <1>3, <1>4
        <5>2. QED
          BY <1>3, <1>6, <4>1, <5>1
      <4>3. Spacing(x + 1) = 2 * s
        <5>1. /\ j + 1 \in Nat /\ (j + 1) - 1 = j /\ x + 1 \in Nat
              /\ x + 1 < MANTISSA * 2^(j + 1) /\ x + 1 >= MANTISSA * 2^j
          BY <1>2, <1>4, <1>7, <4>2
        <5>. HIDE DEF x
        <5>2. QED
          BY <1>7, <5>1, SpacingIsPower
      <4>. HIDE DEF s, x
      <4>4. Double(x + 1) = RoundedTo((2 * s) * h + 1, 2 * s)
        BY <4>1, <4>3 DEF Double, RoundedTo
      <4>. DEFINE t == 2 * s
      <4>5. t \in Nat /\ t >= 2 /\ t # 2 /\ Double(x + 1) = RoundedTo(t * h + 1, t) /\ x = t * h
        BY <1>4, <2>2, <4>1, <4>4
      <4>. HIDE DEF t
      <4>6. RoundedTo(t * h + 1, t) = t * h
        BY <1>3, <4>5, RoundedNext
      <4>7. QED
        BY <1>8, <4>5, <4>6
    <3>3. QED
      BY <1>3, <3>1, <3>2
  <2>. HIDE DEF s, x
  <2>7. QED
    BY <1>4, <1>5, <2>2, <2>6
<1>11. QED
  BY <1>9, <1>10

\* Nothing is lost of the number of all words.
LEMMA NumeratorOfLast ==
  Numerator(UINT_FAST64_MAX) = UINT_FAST64_MAX + 1
<1>. DEFINE U == UINT_FAST64_MAX
            W == U + 1
<1>1. U \in Nat \ {0} /\ W \in Nat /\ W >= 2
  BY WordAssumption
<1>2. PICK k \in 1..U : W = 2^k
  BY WidthAssumption
<1>3. PICK j \in 0..U : /\ Spacing(U) = 2^j /\ U < MANTISSA * 2^j
                        /\ j = 0 \/ U >= MANTISSA * 2^(j - 1)
  <2>. HIDE DEF U
  <2>1. QED
    BY <1>1, SpacingIs
<1>4. k \in Nat /\ j \in Nat /\ U \in Nat
  BY <1>1
<1>5. PICK h \in Nat \ {0} : MANTISSA = 2 * h
  <2>1. MANTISSA \in Nat \ {0} /\ MANTISSA % 2 = 0
    BY WordAssumption
  <2>2. MANTISSA = 2 * (MANTISSA \div 2) /\ MANTISSA \div 2 \in Nat \ {0}
    BY <2>1
  <2>3. QED
    BY <2>2
<1>6. Spacing(U) \in Nat \ {0} /\ Numerator(U) \in Nat /\ W <= Numerator(U) + Spacing(U)
  BY <1>4, SpacingGrows, NumeratorIsNear
<1>7. CASE j = 0
  <2>1. Spacing(U) = 1
    BY <1>3, <1>7, PowersOfTwo
  <2>. HIDE DEF U
  <2>2. Numerator(U) <= U + 1 /\ Numerator(U) \in Nat /\ U + 1 <= Numerator(U) + 1
    BY <1>4, <2>1, NumeratorIsNear
  <2>3. Double(U) = U
    BY <1>4, <2>1 DEF Double
  <2>4. Numerator(U) = Double(U + 1)
    BY <2>3 DEF Numerator
  <2>5. U + 1 <= Double(U + 1)
    <3>1. U < MANTISSA
      BY <1>3, <1>4, <1>5, <1>7, PowersOfTwo
    <3>2. CASE U + 1 < MANTISSA
      <4>1. 2^0 = 1 /\ U + 1 < MANTISSA * 2^0 /\ 0 \in Nat /\ U + 1 \in Nat
        BY <1>4, <1>5, <3>2, PowersOfTwo
      <4>2. Spacing(U + 1) = 1
        BY <4>1, SpacingIsPower
      <4>3. QED
        BY <1>4, <4>2 DEF Double
    <3>3. CASE U + 1 = MANTISSA
      <4>1. 2^1 = 2 /\ 2^0 = 1 /\ 1 \in Nat /\ U + 1 \in Nat /\ 1 - 1 = 0
        BY <1>4, PowersOfTwo
      <4>2. U + 1 < MANTISSA * 2 /\ U + 1 >= MANTISSA * 1
        BY <1>5, <3>3
      <4>3. Spacing(U + 1) = 2
        BY <4>1, <4>2, SpacingIsPower
      <4>4. (U + 1) % 2 = 0 /\ 2 * ((U + 1) \div 2) = U + 1
        BY <1>5, <3>3
      <4>5. Double(U + 1) = U + 1
        BY <1>4, <4>1, <4>3, <4>4 DEF Double
      <4>6. QED
        BY <4>1, <4>5
    <3>4. QED
      BY <1>4, <1>5, <3>1, <3>2, <3>3
  <2>6. QED
    BY <1>4, <2>2, <2>4, <2>5 DEF U
<1>8. CASE j # 0
  <2>. DEFINE s == 2^j
  <2>1. j - 1 \in Nat /\ s = 2 * 2^(j - 1) /\ 2^(j - 1) \in Nat \ {0}
    BY <1>4, <1>8, PowersOfTwo
  <2>2. s \in Nat /\ s >= 2
    BY <2>1
  <2>3. k >= j + 1
    <3>. SUFFICES ASSUME k <= j PROVE FALSE
      BY <1>4
    <3>1. 2^k <= s /\ 2^k \in Nat
      BY <1>4, PowersGrow
    <3>2. U >= MANTISSA * 2^(j - 1)
      BY <1>3, <1>8
    <3>3. MANTISSA * 2^(j - 1) = s * h /\ h - 1 \in Nat /\ s * h = s + s * (h - 1)
          /\ s * (h - 1) \in Nat
      BY <1>5, <2>1, <2>2
    <3>. HIDE DEF s, U, W
    <3>4. U >= s
      BY <1>1, <2>2, <3>2, <3>3
    <3>5. W = U + 1
      BY DEF W
    <3>6. QED
      BY <1>1, <1>2, <1>4, <2>2, <3>1, <3>4, <3>5
  <2>4. k - j - 1 \in Nat /\ (j + 1) + (k - j - 1) = k
    BY <1>4, <2>3
  <2>. DEFINE d == 2^(k - j - 1)
              c == 2 * d
  <2>5. d \in Nat \ {0} /\ 2^k = 2^(j + 1) * d /\ 2^(j + 1) = 2 * s
    BY <1>4, <2>4, PowersOfTwo, PowersMultiply
  <2>6. c \in Nat \ {0} /\ c % 2 = 0 /\ W = s * c /\ (c - 1) % 2 = 1
    <3>1. W = (2 * s) * d
      BY <1>2, <2>5
    <3>. HIDE DEF s, W, d
    <3>2. QED
      BY <2>2, <2>5, <3>1
  <2>. HIDE DEF d, c, s
  <2>7. Double(U) = W
    <3>1. Double(U) = RoundedTo(U, s)
      BY <1>3 DEF Double, RoundedTo, s
    <3>. DEFINE q == U \div s
                a == U % s
    <3>2. q \in Nat /\ U = s * q + a /\ a \in 0..(s - 1)
      BY <1>4, <2>2
    <3>3. RoundedTo(U, s) = IF 2 * a > s \/ (2 * a = s /\ q % 2 = 1) THEN s * (q + 1) ELSE s * q
      BY DEF RoundedTo
    <3>. HIDE DEF q, a
    <3>4. U = s * c - 1 /\ s * c \in Nat /\ s * (c - 1) = s * c - s /\ c - 1 \in Nat
      BY <1>4, <2>2, <2>6
    <3>. HIDE DEF U, W
    <3>5. q < c - 1 => s * q + s <= s * (c - 1)
      BY <2>2, <3>2, <3>4, NextMultiple
    <3>6. c - 1 < q => s * (c - 1) + s <= s * q
      BY <2>2, <3>2, <3>4, NextMultiple
    <3>7. s * q \in Nat
      BY <2>2, <3>2
    <3>8. q = c - 1
      BY <2>2, <2>6, <3>2, <3>4, <3>5, <3>6, <3>7
    <3>9. a = s - 1 /\ q % 2 = 1 /\ q + 1 = c
      BY <2>2, <2>6, <3>2, <3>4, <3>8
    <3>10. 2 * a > s \/ 2 * a = s
      BY <2>2, <3>9
    <3>11. RoundedTo(U, s) = s * c
      BY <3>3, <3>9, <3>10
    <3>12. QED
      BY <2>6, <3>1, <3>11
  <2>8. Numerator(U) = Double(W + 1)
    BY <2>7 DEF Numerator
  <2>. HIDE DEF U
  <2>9. W <= MANTISSA * s
    BY <1>3, <1>4, <1>5, <2>2 DEF W, s
  <2>10. CASE W < MANTISSA * s
    <3>1. W + 1 < MANTISSA * s
      <4>1. c < MANTISSA
        <5>. SUFFICES ASSUME MANTISSA <= c PROVE FALSE
          BY <1>5, <2>6
        <5>1. MANTISSA < c => s * MANTISSA + s <= s * c
          BY <1>5, <2>2, <2>6, NextMultiple
        <5>2. MANTISSA * s = s * MANTISSA /\ s * MANTISSA \in Nat /\ W \in Nat
          BY <1>1, <1>5, <2>2
        <5>. HIDE DEF W
        <5>3. QED
          BY <1>5, <2>2, <2>6, <2>10, <5>1, <5>2
      <4>2. s * c + s <= s * MANTISSA
        BY <1>5, <2>2, <2>6, <4>1, NextMultiple
      <4>3. MANTISSA * s = s * MANTISSA /\ s * MANTISSA \in Nat /\ W \in Nat
        BY <1>1, <1>5, <2>2
      <4>. HIDE DEF W
      <4>4. QED
        BY <2>2, <2>6, <4>2, <4>3
    <3>2. W + 1 \in Nat /\ W + 1 >= MANTISSA * 2^(j - 1)
      <4>. DEFINE b == MANTISSA * 2^(j - 1)
      <4>1. U >= b /\ b \in Nat
        BY <1>3, <1>5, <1>8, <2>1
      <4>. HIDE DEF b
      <4>2. W + 1 \in Nat /\ W + 1 >= b
        BY <1>4, <4>1 DEF W
      <4>3. QED
        BY <4>2 DEF b
    <3>3. Spacing(W + 1) = s
      <4>. HIDE DEF W
      <4>1. QED
        BY <1>4, <3>1, <3>2, SpacingIsPower DEF s
    <3>. HIDE DEF W
    <3>4. Double(W + 1) = RoundedTo(s * c + 1, s)
      BY <2>6, <3>3 DEF Double, RoundedTo
    <3>5. RoundedTo(s * c + 1, s) = s * c
      <4>1. c \in Nat /\ c % 2 # 1
        BY <2>6
      <4>2. RoundedTo(s * c + 1, s) = IF s = 2 /\ c % 2 = 1 THEN s * c + 2 ELSE s * c
        BY <2>2, <4>1, RoundedNext
      <4>3. QED
        BY <4>1, <4>2
    <3>6. QED
      BY <2>6, <2>8, <3>4, <3>5 DEF W, U
  <2>11. CASE W = MANTISSA * s
    <3>. DEFINE t == 2 * s
    <3>1. t \in Nat /\ t >= 2 /\ t # 2 /\ W = t * h /\ t = 2^(j + 1)
      BY <1>5, <2>2, <2>5, <2>11
    <3>2. W + 1 \in Nat /\ W + 1 < MANTISSA * t /\ W + 1 >= MANTISSA * s
      <4>1. MANTISSA * t = MANTISSA * s + MANTISSA * s /\ W \in Nat /\ W >= 2
        BY <1>1, <1>5, <2>2 DEF U
      <4>. HIDE DEF W, t
      <4>2. QED
        BY <2>11, <4>1
    <3>. HIDE DEF W, t
    <3>3. Spacing(W + 1) = t
      <4>1. j + 1 \in Nat /\ (j + 1) - 1 = j /\ W + 1 < MANTISSA * 2^(j + 1) /\ W + 1 >= MANTISSA * 2^j
        BY <1>4, <3>1, <3>2 DEF s
      <4>2. QED
        BY <3>1, <3>2, <4>1, SpacingIsPower
    <3>4. Double(W + 1) = RoundedTo(t * h + 1, t)
      BY <3>1, <3>3 DEF Double, RoundedTo
    <3>5. RoundedTo(t * h + 1, t) = t * h
      BY <1>5, <3>1, RoundedNext
    <3>6. QED
      BY <2>8, <3>1, <3>4, <3>5 DEF W, U
  <2>12. W \in Nat /\ MANTISSA * s \in Nat
    BY <1>1, <1>5, <2>2 DEF U
  <2>13. QED
    BY <2>9, <2>10, <2>11, <2>12
<1>9. QED
  BY <1>7, <1>8

\* A random number is its numerator over the number of words.
LEMMA NumberOfWord ==
  ASSUME NEW word \in Word
  PROVE  LET number == random_zero_one_double(word)
         IN  \/ number = <<Numerator(word), UINT_FAST64_MAX + 1>>
             \/ number = <<1, 1>> /\ Numerator(word) = UINT_FAST64_MAX + 1
<1>. DEFINE x == Double(word)
            y == Double(UINT_FAST64_MAX)
<1>1. /\ word \in Nat /\ UINT_FAST64_MAX \in Nat /\ word <= UINT_FAST64_MAX
      /\ UINT_FAST64_MAX - 0 = UINT_FAST64_MAX
  BY WordAssumption DEF Word
<1>2. Double(0) = 0
  BY DoubleKeepsZeroApart
<1>3. x \in Nat /\ y \in Nat /\ x <= y
  BY <1>1, DoubleIsMonotone
<1>4. random_zero_one_double(word) =
        IF x < 0 THEN <<0, 1>> ELSE IF x >= y THEN <<1, 1>>
        ELSE <<Double(x - 0 + 1), Double(y + 1)>>
  BY <1>1, <1>2 DEF random_zero_one_double, uniform_min_max_integer_distribution
<1>5. Numerator(word) = Double(x + 1) /\ Double(y + 1) = UINT_FAST64_MAX + 1
  BY NumeratorOfLast DEF Numerator
<1>. HIDE DEF x, y
<1>6. CASE x >= y
  BY <1>3, <1>4, <1>5, <1>6
<1>7. CASE x < y
  <2>1. x - 0 + 1 = x + 1
    BY <1>3
  <2>2. random_zero_one_double(word) = <<Double(x + 1), Double(y + 1)>>
    BY <1>3, <1>4, <1>7, <2>1
  <2>3. QED
    BY <1>5, <2>2
<1>8. QED
  BY <1>3, <1>6, <1>7

\* The words whose numbers are up to z / n times the number of words, or below that, are z / n
\* words, up to a spacing.
IsBelow(set, n, z) ==
  /\ set \subseteq Word
  /\ \A w \in Word : n * Numerator(w) < z => w \in set
  /\ \A w \in set : n * Numerator(w) <= z

LEMMA WordsBelow ==
  ASSUME NEW n \in Nat \ {0}, NEW z \in Nat, z <= n * (UINT_FAST64_MAX + 1),
         NEW set, IsBelow(set, n, z)
  PROVE  /\ IsFiniteSet(set) /\ Cardinality(set) \in Nat
         /\ z <= n * Cardinality(set) + n * Spacing(UINT_FAST64_MAX)
         /\ n * Cardinality(set) <= z + n * Spacing(UINT_FAST64_MAX)
<1>. DEFINE U == UINT_FAST64_MAX
            s == Spacing(U)
            f == z \div n
<1>1. U \in Nat
  BY WordAssumption
<1>2. s \in Nat \ {0}
  BY <1>1, SpacingGrows
<1>3. ASSUME NEW w \in Word
      PROVE  /\ w \in Nat /\ w <= U /\ Numerator(w) \in Nat
             /\ w + 1 <= Numerator(w) + s /\ Numerator(w) <= w + s
  <2>1. w \in Nat /\ w <= U
    BY <1>1 DEF Word
  <2>2. /\ Numerator(w) \in Nat
        /\ w + 1 <= Numerator(w) + Spacing(w) /\ Numerator(w) <= w + Spacing(w)
    BY <2>1, NumeratorIsNear
  <2>3. Spacing(w) \in Nat /\ Spacing(w) <= s
    BY <1>1, <2>1, SpacingGrows
  <2>. HIDE DEF s
  <2>4. QED
    BY <1>2, <2>1, <2>2, <2>3
<1>4. IsFiniteSet(Word) /\ Word = 0..U
  BY <1>1, FS_Interval DEF Word
<1>5. IsFiniteSet(set) /\ Cardinality(set) \in Nat
  BY <1>4, FS_Subset, FS_CardinalityType DEF IsBelow
<1>6. f \in Nat /\ n * f <= z /\ z < n * f + n
  BY Division
<1>. HIDE DEF U, s, f
<1>7. n * Cardinality(set) <= z + n * s
  <2>1. set \subseteq 0..(f + s - 1)
    <3>. SUFFICES ASSUME NEW w \in set PROVE w \in 0..(f + s - 1)
      OBVIOUS
    <3>1. w \in Word /\ n * Numerator(w) <= z
      BY DEF IsBelow
    <3>2. w \in Nat /\ Numerator(w) \in Nat /\ w + 1 <= Numerator(w) + s
      BY <1>3, <3>1
    <3>3. Numerator(w) <= f
      <4>. SUFFICES ASSUME f < Numerator(w) PROVE FALSE
        BY <1>6, <3>2
      <4>1. n * f + n <= n * Numerator(w)
        BY <1>6, <3>2, NextMultiple
      <4>2. n * f \in Nat /\ n * Numerator(w) \in Nat
        BY <1>6, <3>2
      <4>3. QED
        BY <1>6, <3>1, <4>1, <4>2
    <3>4. QED
      BY <1>2, <1>6, <3>2, <3>3
  <2>2. Cardinality(0..(f + s - 1)) = f + s /\ IsFiniteSet(0..(f + s - 1))
    <3>1. f + s - 1 \in Nat /\ (f + s - 1) - 0 + 1 = f + s
      BY <1>2, <1>6
    <3>2. QED
      BY <3>1, FS_Interval
  <2>3. Cardinality(set) <= f + s
    BY <2>1, <2>2, FS_Subset
  <2>. DEFINE c == Cardinality(set)
  <2>4. c \in Nat /\ f + s - c \in Nat
    BY <1>2, <1>5, <1>6, <2>3
  <2>. HIDE DEF c
  <2>5. n * (f + s) = n * c + n * (f + s - c) /\ n * (f + s - c) \in Nat /\ n * c \in Nat
        /\ n * (f + s) = n * f + n * s /\ n * s \in Nat /\ n * f \in Nat
    BY <1>2, <1>6, <2>4
  <2>6. n * c <= z + n * s
    BY <1>6, <2>5
  <2>7. QED
    BY <2>6 DEF c
<1>8. z <= n * Cardinality(set) + n * s
  <2>. DEFINE k == IF n * f = z THEN f ELSE f + 1
  <2>1. k \in Nat /\ z <= n * k /\ (k = 0 \/ n * (k - 1) < z) /\ k <= U + 1
    <3>1. n * f \in Nat /\ n * (f + 1) = n * f + n /\ n * (f - 1) = n * f - n
      BY <1>6
    <3>2. k \in Nat /\ z <= n * k /\ (k = 0 \/ n * (k - 1) < z)
      <4>1. CASE n * f = z
        BY <1>6, <3>1, <4>1
      <4>2. CASE n * f # z
        <5>1. k = f + 1 /\ k - 1 = f
          BY <1>6, <4>2
        <5>. HIDE DEF k
        <5>2. QED
          BY <1>6, <3>1, <4>2, <5>1
      <4>3. QED
        BY <4>1, <4>2
    <3>. HIDE DEF k
    <3>3. k <= U + 1
      <4>. SUFFICES ASSUME U + 1 < k PROVE FALSE
        BY <1>1, <3>2
      <4>1. k - 1 \in Nat /\ k - 1 - (U + 1) \in Nat /\ k # 0
        BY <1>1, <3>2
      <4>2. n * (k - 1) = n * (U + 1) + n * (k - 1 - (U + 1)) /\ n * (k - 1 - (U + 1)) \in Nat
            /\ n * (U + 1) \in Nat
        BY <1>1, <4>1
      <4>3. z <= n * (U + 1)
        BY DEF U
      <4>4. QED
        BY <3>2, <4>1, <4>2, <4>3
    <3>4. QED
      BY <3>2, <3>3
  <2>. HIDE DEF k
  <2>2. CASE k <= s
    <3>1. n * s = n * k + n * (s - k) /\ n * (s - k) \in Nat /\ n * k \in Nat
      <4>1. s - k \in Nat
        BY <1>2, <2>1, <2>2
      <4>2. QED
        BY <1>2, <2>1, <4>1
    <3>2. n * Cardinality(set) \in Nat
      BY <1>5
    <3>3. QED
      BY <2>1, <3>1, <3>2
  <2>3. CASE s < k
    <3>1. 0..(k - s - 1) \subseteq set
      <4>. SUFFICES ASSUME NEW w \in 0..(k - s - 1) PROVE w \in set
        OBVIOUS
      <4>1. w \in Nat /\ w <= U /\ w + s <= k - 1 /\ k # 0 /\ k - 1 \in Nat
        BY <1>1, <1>2, <2>1, <2>3
      <4>2. w \in Word
        BY <1>4, <4>1
      <4>3. Numerator(w) \in Nat /\ Numerator(w) <= k - 1
        BY <1>2, <1>3, <4>1, <4>2
      <4>. DEFINE a == Numerator(w)
      <4>4. a \in Nat /\ k - 1 - a \in Nat
        BY <4>1, <4>3
      <4>. HIDE DEF a
      <4>5. n * (k - 1) = n * a + n * (k - 1 - a) /\ n * (k - 1 - a) \in Nat /\ n * a \in Nat
        BY <4>1, <4>4
      <4>6. n * a < z
        BY <2>1, <4>1, <4>5
      <4>7. QED
        BY <4>2, <4>6 DEF IsBelow, a
    <3>2. Cardinality(0..(k - s - 1)) = k - s
      <4>1. k - s - 1 \in Nat /\ (k - s - 1) - 0 + 1 = k - s
        BY <1>2, <2>1, <2>3
      <4>2. QED
        BY <4>1, FS_Interval
    <3>3. k - s <= Cardinality(set)
      <4>. DEFINE t == 0..(k - s - 1)
      <4>1. Cardinality(t) = k - s /\ t \in SUBSET set
        BY <3>1, <3>2
      <4>. HIDE DEF t
      <4>2. Cardinality(t) <= Cardinality(set)
        BY <1>5, <4>1, FS_Subset
      <4>3. QED
        BY <4>1, <4>2
    <3>. DEFINE c == Cardinality(set)
    <3>4. c \in Nat /\ c + s - k \in Nat
      BY <1>2, <1>5, <2>1, <3>3
    <3>. HIDE DEF c
    <3>5. n * c + n * s = n * k + n * (c + s - k) /\ n * (c + s - k) \in Nat /\ n * k \in Nat
          /\ n * c \in Nat /\ n * s \in Nat
      BY <1>2, <2>1, <3>4
    <3>6. z <= n * c + n * s
      BY <2>1, <3>5
    <3>7. QED
      BY <3>6 DEF c
  <2>4. QED
    BY <1>2, <2>1, <2>2, <2>3
<1>9. QED
  BY <1>5, <1>7, <1>8 DEF s, U

\* The comparisons of a random number are those of its numerator.
LEMMA NumberIsBelow ==
  ASSUME NEW word \in Word, NEW a \in Nat, NEW b \in Nat
  PROVE  LET number == random_zero_one_double(word)
             words  == UINT_FAST64_MAX + 1
         IN  /\ number[1] * b < a * number[2] <=> b * Numerator(word) < a * words
             /\ number[1] * b <= a * number[2] <=> b * Numerator(word) <= a * words
<1>. DEFINE number == random_zero_one_double(word)
            words  == UINT_FAST64_MAX + 1
            m      == Numerator(word)
<1>1. words \in Nat \ {0} /\ m \in Nat
  <2>1. UINT_FAST64_MAX \in Nat /\ word \in Nat
    BY WordAssumption DEF Word
  <2>2. QED
    BY <2>1, NumeratorIsNear
<1>2. number = <<m, words>> \/ (number = <<1, 1>> /\ m = words)
  BY NumberOfWord
<1>. HIDE DEF number, words, m
<1>3. CASE number = <<m, words>>
  <2>1. number[1] = m /\ number[2] = words /\ m * b = b * m
    BY <1>1, <1>3
  <2>2. QED
    BY <2>1 DEF number, words, m
<1>4. CASE number = <<1, 1>> /\ m = words
  <2>1. number[1] = 1 /\ number[2] = 1 /\ m = words
    BY <1>4
  <2>2. b < a => b * words < a * words
    <3>. SUFFICES ASSUME b < a PROVE b * words < a * words
      OBVIOUS
    <3>1. b * words + words <= a * words
      <4>1. words * b + words <= words * a
        BY <1>1, NextMultiple
      <4>2. words * b = b * words /\ words * a = a * words
        BY <1>1
      <4>3. QED
        BY <4>1, <4>2
    <3>2. b * words \in Nat /\ a * words \in Nat
      BY <1>1
    <3>3. QED
      BY <1>1, <3>1, <3>2
  <2>3. a < b => a * words < b * words
    <3>. SUFFICES ASSUME a < b PROVE a * words < b * words
      OBVIOUS
    <3>1. a * words + words <= b * words
      <4>1. words * a + words <= words * b
        BY <1>1, NextMultiple
      <4>2. words * b = b * words /\ words * a = a * words
        BY <1>1
      <4>3. QED
        BY <4>1, <4>2
    <3>2. b * words \in Nat /\ a * words \in Nat
      BY <1>1
    <3>3. QED
      BY <1>1, <3>1, <3>2
  <2>4. a = b => a * words = b * words
    OBVIOUS
  <2>5. a * words \in Nat /\ b * words \in Nat
    BY <1>1
  <2>6. /\ b < a <=> b * words < a * words
        /\ b <= a <=> b * words <= a * words
    BY <2>2, <2>3, <2>4, <2>5
  <2>7. number[1] * b = b /\ a * number[2] = a
    BY <2>1
  <2>8. QED
    BY <2>1, <2>6, <2>7 DEF number, words, m
<1>5. QED
  BY <1>2, <1>3, <1>4

\* The words whose numbers are below one and two thirds of the probability, and up to it.
BelowThird(i) == {w \in Word : Less(random_zero_one_double(w), Third(probability, i))}
UpToProbability == {w \in Word : Happens(random_zero_one_double(w))}

LEMMA ThirdsAreBelow ==
  ASSUME probability \in Probabilities
  PROVE  LET p == probability[1] * (UINT_FAST64_MAX + 1)
             n == 3 * probability[2]
         IN  /\ p \in Nat /\ n \in Nat \ {0} /\ p <= probability[2] * (UINT_FAST64_MAX + 1)
             /\ \A w \in Word :
                  /\ Numerator(w) \in Nat
                  /\ w \in BelowThird(1) <=> n * Numerator(w) < p
                  /\ w \in BelowThird(2) <=> n * Numerator(w) < 2 * p
                  /\ w \in UpToProbability <=> n * Numerator(w) <= 3 * p
<1>. DEFINE a     == probability[1]
            b     == probability[2]
            words == UINT_FAST64_MAX + 1
            p     == a * words
            n     == 3 * b
<1>1. a \in Nat /\ b \in Nat \ {0} /\ a <= b /\ words \in Nat \ {0}
  BY NoisyAssumption, WordAssumption
<1>2. ASSUME NEW w \in Word, NEW i \in Nat
      PROVE  w \in BelowThird(i) <=> n * Numerator(w) < (i * a) * words
  <2>. DEFINE number == random_zero_one_double(w)
  <2>1. w \in BelowThird(i) <=> number[1] * n < (i * a) * number[2]
    BY DEF BelowThird, Less, Third
  <2>2. i * a \in Nat /\ n \in Nat
    BY <1>1
  <2>. HIDE DEF n, a
  <2>3. number[1] * n < (i * a) * number[2] <=> n * Numerator(w) < (i * a) * words
    BY <2>2, NumberIsBelow
  <2>4. QED
    BY <2>1, <2>3
<1>3. ASSUME NEW w \in Word
      PROVE  w \in UpToProbability <=> b * Numerator(w) <= a * words
  <2>. DEFINE number == random_zero_one_double(w)
  <2>1. w \in UpToProbability <=> number[1] * b <= a * number[2]
    BY DEF UpToProbability, Happens, NotAbove
  <2>. HIDE DEF b, a
  <2>2. number[1] * b <= a * number[2] <=> b * Numerator(w) <= a * words
    BY <1>1, NumberIsBelow
  <2>3. QED
    BY <2>1, <2>2
<1>4. ASSUME NEW w \in Word
      PROVE  Numerator(w) \in Nat
  <2>1. w \in Nat
    BY WordAssumption DEF Word
  <2>2. QED
    BY <2>1, NumeratorIsNear
<1>. HIDE DEF a, b, words
<1>5. p \in Nat /\ n \in Nat \ {0} /\ p <= b * words
  <2>1. b * words = a * words + (b - a) * words /\ (b - a) * words \in Nat /\ a * words \in Nat
    <3>1. b - a \in Nat /\ b = a + (b - a)
      BY <1>1
    <3>2. QED
      BY <1>1, <3>1
  <2>2. QED
    BY <1>1, <2>1
<1>6. (1 * a) * words = p /\ (2 * a) * words = 2 * p
  BY <1>1
<1>7. ASSUME NEW w \in Word
      PROVE  /\ w \in BelowThird(1) <=> n * Numerator(w) < p
             /\ w \in BelowThird(2) <=> n * Numerator(w) < 2 * p
             /\ w \in UpToProbability <=> n * Numerator(w) <= 3 * p
  <2>1. n * Numerator(w) = 3 * (b * Numerator(w)) /\ b * Numerator(w) \in Nat
    BY <1>1, <1>4
  <2>2. b * Numerator(w) <= p <=> n * Numerator(w) <= 3 * p
    <3>. DEFINE x == b * Numerator(w)
    <3>1. x \in Nat /\ n * Numerator(w) = 3 * x
      BY <2>1
    <3>. HIDE DEF x, n, p
    <3>2. x <= p <=> n * Numerator(w) <= 3 * p
      BY <1>5, <3>1
    <3>3. QED
      BY <3>2 DEF x
  <2>3. QED
    BY <1>2, <1>3, <1>6, <2>2
<1>8. QED
  BY <1>4, <1>5, <1>7 DEF a, b, words

\* Each of X, Y and Z comes from a third of the words that the probability gives an
\* error, up to two spacings, of whatever width words and mantissas are.
LEMMA ErrorsAreThirds ==
  ASSUME probability \in Probabilities
  PROVE  ErrorsAreEven
<1>. DEFINE p == probability[1] * (UINT_FAST64_MAX + 1)
            n == 3 * probability[2]
            s == Spacing(UINT_FAST64_MAX)
            low  == BelowThird(1)
            mid  == BelowThird(2)
            high == UpToProbability
            words(gate) == {w \in Word : /\ Happens(random_zero_one_double(w))
                                         /\ ErrorGate(random_zero_one_double(w)) = gate}
<1>1. /\ p \in Nat /\ n \in Nat \ {0} /\ p <= probability[2] * (UINT_FAST64_MAX + 1)
      /\ \A w \in Word :
           /\ Numerator(w) \in Nat
           /\ w \in low <=> n * Numerator(w) < p
           /\ w \in mid <=> n * Numerator(w) < 2 * p
           /\ w \in high <=> n * Numerator(w) <= 3 * p
  BY ThirdsAreBelow
<1>2. /\ probability[2] \in Nat /\ UINT_FAST64_MAX \in Nat
      /\ s \in Nat
  <2>1. probability[2] \in Nat /\ UINT_FAST64_MAX \in Nat
    BY NoisyAssumption, WordAssumption
  <2>2. QED
    BY <2>1, SpacingGrows
<1>3. 3 * p <= n * (UINT_FAST64_MAX + 1)
  <2>. DEFINE x == probability[2] * (UINT_FAST64_MAX + 1)
  <2>1. n * (UINT_FAST64_MAX + 1) = 3 * x /\ x \in Nat /\ p <= x
    BY <1>1, <1>2
  <2>. HIDE DEF x, p, n
  <2>2. QED
    BY <1>1, <2>1
<1>4. low \subseteq Word /\ mid \subseteq Word /\ high \subseteq Word
  BY DEF BelowThird, UpToProbability
<1>5. words("X") = high \intersect low
      /\ words("Y") = (high \intersect mid) \ low
      /\ words("Z") = high \ (low \union mid)
  BY DEF ErrorGate, BelowThird, UpToProbability
<1>6. ErrorsAreEven <=>
        \A gate \in {"X", "Y", "Z"} : n * Cardinality(words(gate)) - p \in -(n * 2 * s)..(n * 2 * s)
  BY DEF ErrorsAreEven
<1>. HIDE DEF p, n, s, low, mid, high, words
<1>7. \A w \in Word : n * Numerator(w) \in Nat
  BY <1>1
<1>8. IsBelow(low, n, p) /\ IsBelow(mid, n, 2 * p) /\ IsBelow(high, n, 3 * p)
  BY <1>1, <1>4, <1>7 DEF IsBelow
<1>9. /\ 2 * p \in Nat /\ 3 * p \in Nat
      /\ p <= n * (UINT_FAST64_MAX + 1) /\ 2 * p <= n * (UINT_FAST64_MAX + 1)
  <2>1. n * (UINT_FAST64_MAX + 1) \in Nat
    BY <1>1, <1>2
  <2>2. QED
    BY <1>1, <1>3, <2>1
<1>10. /\ IsFiniteSet(low) /\ Cardinality(low) \in Nat
       /\ p <= n * Cardinality(low) + n * s /\ n * Cardinality(low) <= p + n * s
  BY <1>1, <1>8, <1>9, WordsBelow DEF s
<1>11. /\ IsFiniteSet(mid) /\ Cardinality(mid) \in Nat
       /\ 2 * p <= n * Cardinality(mid) + n * s /\ n * Cardinality(mid) <= 2 * p + n * s
  <2>. DEFINE z == 2 * p
  <2>1. z \in Nat /\ z <= n * (UINT_FAST64_MAX + 1) /\ IsBelow(mid, n, z)
    BY <1>8, <1>9
  <2>. HIDE DEF z
  <2>2. /\ IsFiniteSet(mid) /\ Cardinality(mid) \in Nat
        /\ z <= n * Cardinality(mid) + n * s /\ n * Cardinality(mid) <= z + n * s
    BY <1>1, <2>1, WordsBelow DEF s
  <2>3. QED
    BY <2>2 DEF z
<1>12. /\ IsFiniteSet(high) /\ Cardinality(high) \in Nat
       /\ 3 * p <= n * Cardinality(high) + n * s /\ n * Cardinality(high) <= 3 * p + n * s
  <2>. DEFINE z == 3 * p
  <2>1. z \in Nat /\ z <= n * (UINT_FAST64_MAX + 1) /\ IsBelow(high, n, z)
    BY <1>3, <1>8, <1>9
  <2>. HIDE DEF z
  <2>2. /\ IsFiniteSet(high) /\ Cardinality(high) \in Nat
        /\ z <= n * Cardinality(high) + n * s /\ n * Cardinality(high) <= z + n * s
    BY <1>1, <2>1, WordsBelow DEF s
  <2>3. QED
    BY <2>2 DEF z
<1>13. low \subseteq mid /\ mid \subseteq high
  <2>1. \A w \in Word : (w \in low => w \in mid) /\ (w \in mid => w \in high)
    <3>1. \A x \in Nat : (x < p => x < 2 * p) /\ (x < 2 * p => x <= 3 * p)
      BY <1>1
    <3>2. QED
      BY <1>1, <1>7, <3>1
  <2>2. QED
    BY <1>4, <2>1
<1>14. /\ words("X") = low /\ words("Y") = mid \ low /\ words("Z") = high \ mid
       /\ mid \intersect low = low /\ high \intersect mid = mid
  BY <1>5, <1>13
<1>15. /\ Cardinality(words("X")) = Cardinality(low)
       /\ Cardinality(words("Y")) = Cardinality(mid) - Cardinality(low)
       /\ Cardinality(words("Z")) = Cardinality(high) - Cardinality(mid)
  <2>1. Cardinality(mid \ low) = Cardinality(mid) - Cardinality(low)
    <3>1. Cardinality(mid \ low) = Cardinality(mid) - Cardinality(mid \intersect low)
      BY <1>11, FS_Difference
    <3>2. QED
      BY <1>14, <3>1
  <2>2. Cardinality(high \ mid) = Cardinality(high) - Cardinality(mid)
    BY <1>12, <1>14, FS_Difference
  <2>3. QED
    BY <1>14, <2>1, <2>2
<1>. DEFINE x == n * Cardinality(low)
            y == n * Cardinality(mid)
            z == n * Cardinality(high)
            t == n * s
<1>16. /\ x \in Nat /\ y \in Nat /\ z \in Nat /\ t \in Nat
       /\ n * (Cardinality(mid) - Cardinality(low)) = y - x
       /\ n * (Cardinality(high) - Cardinality(mid)) = z - y
       /\ n * 2 * s = 2 * t
  BY <1>1, <1>2, <1>10, <1>11, <1>12
<1>17. /\ p <= x + t /\ x <= p + t
       /\ 2 * p <= y + t /\ y <= 2 * p + t
       /\ 3 * p <= z + t /\ z <= 3 * p + t
  BY <1>10, <1>11, <1>12
<1>18. /\ n * Cardinality(words("X")) = x
       /\ n * Cardinality(words("Y")) = y - x
       /\ n * Cardinality(words("Z")) = z - y
  BY <1>15, <1>16
<1>. HIDE DEF x, y, z, t
<1>19. /\ x - p \in -(2 * t)..(2 * t)
       /\ (y - x) - p \in -(2 * t)..(2 * t)
       /\ (z - y) - p \in -(2 * t)..(2 * t)
  BY <1>1, <1>16, <1>17
<1>20. QED
  BY <1>6, <1>16, <1>18, <1>19

\* X, Y and Z are equally likely, up to the spacing of the random numbers, for any probability
\* of the channel, any width of a word and any even size of the mantissa.
THEOREM ErrorsAreEvenCorrect == NoisySpec => []ErrorsAreEven
<1>1. NoisyTypeOK => ErrorsAreEven
  BY ErrorsAreThirds DEF NoisyTypeOK
<1>2. QED
  BY <1>1, NoisyTypeCorrect, PTL

===============================================================================

---------------------------- MODULE RandomNumbers ----------------------------
(***************************************************************************)
(* The two functions that make random numbers from the words of the        *)
(* Mersenne twister.  A word has few bits here, and so has the mantissa of *)
(* a double: a large word is rounded when it is converted, as 64 bits are  *)
(* to 53.  A number between zero and one is a fraction <<n, d>>.           *)
(***************************************************************************)
EXTENDS Integers

CONSTANTS UINT_FAST64_MAX,  \* the largest word
          MANTISSA          \* a power of two; every integer up to it is a double

ASSUME WordAssumption ==
  /\ UINT_FAST64_MAX \in Nat \ {0}
  /\ MANTISSA \in Nat \ {0} /\ MANTISSA % 2 = 0

\* A word has a number of bits.
ASSUME WidthAssumption == \E k \in 1..UINT_FAST64_MAX : UINT_FAST64_MAX + 1 = 2^k

Word == 0..UINT_FAST64_MAX

\* The distance between the doubles around n, which is a power of two.
Spacing(n) ==
  LET k == CHOOSE j \in 0..n : /\ n < MANTISSA * 2^j
                               /\ j = 0 \/ n >= MANTISSA * 2^(j - 1)
  IN  2^k

\* static_cast<double>: the nearest double, of two the one whose mantissa is even.
Double(n) ==
  LET s     == Spacing(n)
      below == n \div s
      up    == 2 * (n % s) > s \/ (2 * (n % s) = s /\ below % 2 = 1)
  IN  IF up THEN s * (below + 1) ELSE s * below

\* Mutant: a word of zero gives the number zero.
from_zero(min, max, x) ==
  IF x < Double(min) THEN <<0, 1>>
  ELSE IF x >= Double(max) THEN <<1, 1>>
  ELSE <<x - Double(min), Double(Double(max - min) + 1)>>

\* For a double x that is an integer; sums of doubles are rounded too.
uniform_min_max_integer_distribution(min, max, x) ==
  IF x < Double(min) THEN <<0, 1>>
  ELSE IF x >= Double(max) THEN <<1, 1>>
  ELSE <<Double(x - Double(min) + 1), Double(Double(max - min) + 1)>>

random_zero_one_double(word) ==
  uniform_min_max_integer_distribution(0, UINT_FAST64_MAX, Double(word))

number_of_buckets(min, max) == max - min + 1

\* Mutants: the division is rounded up, and the other way round.
BucketsRoundedUp(min, max) ==
  (UINT_FAST64_MAX + number_of_buckets(min, max) - 1) \div number_of_buckets(min, max)
BucketsInverted(min, max) == number_of_buckets(min, max) \div UINT_FAST64_MAX

bucket_size(min, max) == UINT_FAST64_MAX \div number_of_buckets(min, max)

limit(min, max) == number_of_buckets(min, max) * bucket_size(min, max)

\* Mutant: the limit itself is used.
UsableUpToLimit(min, max, r) == r <= limit(min, max)

\* Whether random_integer uses a word, or draws another one.
Usable(min, max, r) == r < limit(min, max)

\* What random_integer returns once it has drawn such a word.
random_integer(min, max, r) == min + r \div bucket_size(min, max)

\* The words that make it return v.
WordsFor(min, max, v) ==
  {r \in Word : Usable(min, max, r) /\ random_integer(min, max, r) = v}

=============================================================================

----------------------------- MODULE Amplitudes -----------------------------
(***************************************************************************)
(* Exact complex amplitudes.  The program stores an amplitude as a         *)
(* std::complex<double>; here it is an element of the ring Z[w], where     *)
(* w = exp(i*pi/4), i = w^2 and sqrt(2) = w - w^3: the tuple               *)
(* <<a, b, c, d>> stands for a + b*w + c*w^2 + d*w^3.  The amplitude a     *)
(* tuple z denotes is z / sqrt(2)^Scale, so that a state of norm 1 has     *)
(* squared magnitudes that add up to 2^Scale.                              *)
(*                                                                         *)
(* A squared magnitude is real: <<u, v>> stands for u + v*sqrt(2).         *)
(* Rounding and the 1e-12 threshold of is_null are abstracted: a value is  *)
(* null exactly when it is zero.                                           *)
(***************************************************************************)
EXTENDS Integers, Functions

CONSTANT Scale  \* An amplitude is stored as a multiple of 1 / sqrt(2)^Scale.

ASSUME ScaleAssumption == Scale \in Nat

Ring  == Int \X Int \X Int \X Int

Null  == <<0, 0, 0, 0>>
Root2 == <<0, 1, 0, -1>>
Imag  == <<0, 0, 1, 0>>

Real(n) == <<n, 0, 0, 0>>

Times(x, y) ==
  IF x = Null \/ y = Null THEN Null ELSE
  << x[1]*y[1] - x[2]*y[4] - x[3]*y[3] - x[4]*y[2],
     x[1]*y[2] + x[2]*y[1] - x[3]*y[4] - x[4]*y[3],
     x[1]*y[3] + x[2]*y[2] + x[3]*y[1] - x[4]*y[4],
     x[1]*y[4] + x[2]*y[3] + x[3]*y[2] + x[4]*y[1] >>

Plus(x, y) == [k \in DOMAIN x |-> x[k] + y[k]]

Minus(x) == [k \in DOMAIN x |-> -x[k]]

Conj(x) == <<x[1], -x[4], -x[3], -x[2]>>

\* The sum of the values of a function, of amplitudes or of squared magnitudes.
SumOf(zero, f) == FoldFunction(Plus, zero, f)

\* sqrt(2)^k, and division by it where the ring allows it.
Root2Power(k) ==
  Times(Real(2^(k \div 2)), IF k % 2 = 0 THEN Real(1) ELSE Root2)

Divisible(z, k) == \A j \in 1..4 : Times(z, Root2Power(k))[j] % 2^k = 0

Divide(z, k) == [j \in 1..4 |-> Times(z, Root2Power(k))[j] \div 2^k]

-----------------------------------------------------------------------------

\* Squared magnitude (std::norm) of an amplitude.
Norm(x) == << x[1]*x[1] + x[2]*x[2] + x[3]*x[3] + x[4]*x[4],
              x[1]*x[2] + x[2]*x[3] + x[3]*x[4] - x[4]*x[1] >>

NoWeight == <<0, 0>>
Unity    == <<2^Scale, 0>>

Positive(s) ==
  \/ s[1] >= 0 /\ s[2] >= 0 /\ s # NoWeight
  \/ s[1] > 0 /\ s[2] < 0 /\ s[1]*s[1] > 2*s[2]*s[2]
  \/ s[1] < 0 /\ s[2] > 0 /\ s[1]*s[1] < 2*s[2]*s[2]

\* n/d < s, as the comparison of a random number with a probability.
Below(n, d, s) == Positive(<<d * s[1] - n * 2^Scale, d * s[2]>>)

\* The non-negative square roots in Z[sqrt(2)] of a squared magnitude: one or none.
Roots(s) ==
  LET Candidates == (-s[1]..s[1]) \X (-s[1]..s[1])
      IsRoot(p)  == /\ p[1]*p[1] + 2*p[2]*p[2] = s[1]
                    /\ 2*p[1]*p[2] = s[2]
                    /\ Positive(p) \/ p = NoWeight
  IN  { <<p[1], p[2], 0, -p[2]>> : p \in {r \in Candidates : IsRoot(r)} }

HasRoot(s) == Roots(s) # {}

Root(s) == CHOOSE z \in Roots(s) : TRUE

\* Normalization by sqrt(1 / probability) stays in the ring for these weights.
Weights == { <<2^k, 0>> : k \in 0..Scale }

Normalize(z, s) ==
  LET k == CHOOSE j \in 0..Scale : s = <<2^(Scale - j), 0>>
  IN  Times(z, Root2Power(k))

=============================================================================

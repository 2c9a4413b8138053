------------------------------- MODULE Gates --------------------------------
(***************************************************************************)
(* DenseUnitaryMatrix and the default gate set of gates.hpp.               *)
(*                                                                         *)
(* A matrix is a record: "rows" is its sequence of rows, whose entries are *)
(* elements of Z[w] (see Amplitudes), and "halvings" counts the factors    *)
(* 1/sqrt(2) in front of it; H is <<<<1, 1>>, <<1, -1>>>> with one         *)
(* halving.  Angles are integers: a rotation by k*pi/2 and a controlled    *)
(* phase of k*pi/4, the ones whose sines and cosines lie in the ring.      *)
(* The exponents of power are integers, for the same reason.               *)
(***************************************************************************)
EXTENDS Amplitudes, Sequences

One   == Real(1)
Matrix(halvings, rows) == [halvings |-> halvings, rows |-> rows]

SizeOf(m) == Len(m.rows)
at(m, r, c) == m.rows[r + 1][c + 1]

\* The same matrix with h more halvings, to compare and combine matrices.
Rescaled(m, h) ==
  Matrix(m.halvings + h,
         [r \in 1..SizeOf(m) |->
            [c \in 1..SizeOf(m) |-> Times(m.rows[r][c], Root2Power(h))]])

Same(m, n) ==
  Rescaled(m, n.halvings).rows = Rescaled(n, m.halvings).rows

identity(size) ==
  Matrix(0, [r \in 1..size |-> [c \in 1..size |-> IF r = c THEN One ELSE Null]])

dagger(m) ==
  Matrix(m.halvings,
         [r \in 1..SizeOf(m) |-> [c \in 1..SizeOf(m) |-> Conj(m.rows[c][r])]])

Product(m, n) ==
  Matrix(m.halvings + n.halvings,
         [r \in 1..SizeOf(m) |->
            [c \in 1..SizeOf(m) |->
               SumOf(Null, [k \in 1..SizeOf(m) |->
                              Times(m.rows[r][k], n.rows[k][c])])]])

\* The identity of twice the size, with m in the quarter after the given offset.
WithQuarter(m, offset) ==
  LET Size  == 2 * SizeOf(m)
      Inside == (offset + 1)..(offset + SizeOf(m))
  IN  Matrix(m.halvings,
             [r \in 1..Size |-> [c \in 1..Size |->
                IF r \in Inside /\ c \in Inside THEN m.rows[r - offset][c - offset]
                ELSE IF r = c THEN Root2Power(m.halvings) ELSE Null]])

\* Mutant: the gate acts where the control is zero.
control_on_zero(m) == WithQuarter(m, 0)

control(m) == WithQuarter(m, SizeOf(m))

\* Eigen's matrix power, for an integer exponent.
power(m, exponent) ==
  LET base == IF exponent < 0 THEN dagger(m) ELSE m
      Power[n \in Nat] == IF n = 0 THEN identity(SizeOf(m)) ELSE Product(Power[n - 1], base)
  IN  Power[IF exponent < 0 THEN -exponent ELSE exponent]

IsUnitary(m) == Same(Product(m, dagger(m)), identity(SizeOf(m)))

-----------------------------------------------------------------------------

Omega == <<0, 1, 0, 0>>

\* exp(i*k*pi/4), and sqrt(2) times the cosine and sine of k*pi/4.
Phase(k) == LET exp[n \in 0..7] == IF n = 0 THEN One ELSE Times(Omega, exp[n - 1])
            IN  exp[k % 8]
Cosine(k) == Divide(Plus(Phase(k), Phase(-k)), 1)
Sine(k)   == Cosine(k - 2)

Diagonal(z) == Matrix(0, <<<<One, Null>>, <<Null, z>>>>)

IDENTITY == identity(2)
X     == Matrix(0, <<<<Null, One>>, <<One, Null>>>>)
Y     == Matrix(0, <<<<Null, Minus(Imag)>>, <<Imag, Null>>>>)
Z     == Diagonal(Minus(One))
S     == Diagonal(Imag)
SDAG  == dagger(S)
T     == Diagonal(Omega)
TDAG  == dagger(T)
H     == Matrix(1, <<<<One, One>>, <<One, Minus(One)>>>>)

\* The rotations by theta = k*pi/2, of half angle k*pi/4.
RX(k) == LET s == Times(Minus(Imag), Sine(k))
         IN  Matrix(1, <<<<Cosine(k), s>>, <<s, Cosine(k)>>>>)
RY(k) == Matrix(1, <<<<Cosine(k), Minus(Sine(k))>>, <<Sine(k), Cosine(k)>>>>)
RZ(k) == Matrix(0, <<<<Phase(-k), Null>>, <<Null, Phase(k)>>>>)

Complex(re, im) == <<re, 0, im, 0>>
X90   == Matrix(2, <<<<Complex(1, 1), Complex(1, -1)>>,
                     <<Complex(1, -1), Complex(1, 1)>>>>)
MX90  == Matrix(2, <<<<Complex(1, -1), Complex(1, 1)>>,
                     <<Complex(1, 1), Complex(1, -1)>>>>)
Y90   == Matrix(2, <<<<Complex(1, 1), Complex(-1, -1)>>,
                     <<Complex(1, 1), Complex(1, 1)>>>>)
MY90  == Matrix(2, <<<<Complex(1, -1), Complex(1, -1)>>,
                     <<Complex(-1, 1), Complex(1, -1)>>>>)

\* The two-qubit identity with z in its last entry.
LastPhase(z) ==
  Matrix(0, <<<<One, Null, Null, Null>>, <<Null, One, Null, Null>>,
              <<Null, Null, One, Null>>, <<Null, Null, Null, z>>>>)

CNOT  == Matrix(0, <<<<One, Null, Null, Null>>, <<Null, One, Null, Null>>,
                     <<Null, Null, Null, One>>, <<Null, Null, One, Null>>>>)
SWAP  == Matrix(0, <<<<One, Null, Null, Null>>, <<Null, Null, One, Null>>,
                     <<Null, One, Null, Null>>, <<Null, Null, Null, One>>>>)
CZ    == LastPhase(Minus(One))
CR(k) == LastPhase(Phase(k))
TOFFOLI ==
  LET Column(r) == IF r = 7 THEN 8 ELSE IF r = 8 THEN 7 ELSE r
  IN  Matrix(0, [r \in 1..8 |-> [c \in 1..8 |-> IF c = Column(r) THEN One ELSE Null]])

\* The gates that take no parameter.
fixed_gates ==
  [ CNOT |-> CNOT, CZ |-> CZ, H |-> H, I |-> IDENTITY, mX90 |-> MX90,
    mY90 |-> MY90, S |-> S, Sdag |-> SDAG, SWAP |-> SWAP, T |-> T,
    Tdag |-> TDAG, TOFFOLI |-> TOFFOLI, X |-> X, X90 |-> X90, Y |-> Y,
    Y90 |-> Y90, Z |-> Z ]

\* The angle pi / 2^(k-1) of CRk, in units of pi/4: k is 1, 2 or 3.
AngleOfCRk(k) == 2^(3 - k)

\* default_gates[name](parameters)
default_gates(name, k) ==
  CASE name = "Rx"  -> RX(k)
    [] name = "Ry"  -> RY(k)
    [] name = "Rz"  -> RZ(k)
    [] name = "CR"  -> CR(k)
    [] name = "CRk" -> CR(AngleOfCRk(k))
    [] OTHER        -> fixed_gates[name]

=============================================================================

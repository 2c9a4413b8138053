---------------------------- MODULE IdealContext ----------------------------
(***************************************************************************)
(* What an iteration context promises, whatever the representation: a      *)
(* complex amplitude for every basis vector, gates given by their action   *)
(* on eigenvectors and not by matrices, and measurements that project.     *)
(*                                                                         *)
(* Apart from H and SWAP every gate turns its last operand about an axis,  *)
(* where the operands before it are set: the component along the first     *)
(* eigenvector of the axis is turned by "first" eighths of a circle, the   *)
(* one along the second by "second".                                       *)
(***************************************************************************)
EXTENDS Amplitudes, Sequences

CONSTANTS NumberOfQubits, NumberOfBits, Gates

VARIABLES amplitude, measurement_register, bit_measurement_register

vars == <<amplitude, measurement_register, bit_measurement_register>>

Qubit       == 0..(NumberOfQubits - 1)
Bit         == 0..(NumberOfBits - 1)
BasisVector == [Qubit -> BOOLEAN]

Eighth == [k \in 0..7 |->
             <<<<1, 0, 0, 0>>, <<0, 1, 0, 0>>, <<0, 0, 1, 0>>, <<0, 0, 0, 1>>,
               <<-1, 0, 0, 0>>, <<0, -1, 0, 0>>, <<0, 0, -1, 0>>, <<0, 0, 0, -1>>>>[k + 1]]
Turned(k, z) == Times(Eighth[k % 8], z)

Turn(axis, first, second) == [axis |-> axis, first |-> first, second |-> second]

TurnOf(g) ==
  LET k == g.parameter
  IN  CASE g.name \in {"X", "CNOT", "TOFFOLI"} -> Turn("x", 0, 4)
        [] g.name = "X90"                      -> Turn("x", 0, 2)
        [] g.name = "mX90"                     -> Turn("x", 0, -2)
        [] g.name = "Rx"                       -> Turn("x", -k, k)
        [] g.name = "Y"                        -> Turn("y", 0, 4)
        [] g.name = "Y90"                      -> Turn("y", 0, 2)
        [] g.name = "mY90"                     -> Turn("y", 0, -2)
        [] g.name = "Ry"                       -> Turn("y", -k, k)
        [] g.name = "I"                        -> Turn("z", 0, 0)
        [] g.name \in {"Z", "CZ"}              -> Turn("z", 0, 4)
        [] g.name = "S"                        -> Turn("z", 0, 2)
        [] g.name = "Sdag"                     -> Turn("z", 0, -2)
        [] g.name = "T"                        -> Turn("z", 0, 1)
        [] g.name = "Tdag"                     -> Turn("z", 0, -1)
        [] g.name = "Rz"                       -> Turn("z", -k, k)
        [] g.name = "CR"                       -> Turn("z", 0, k)
        [] g.name = "CRk"                      -> Turn("z", 0, 2^(3 - k))

OperandCount(g) ==
  CASE g.name \in {"CNOT", "CZ", "CR", "CRk", "SWAP"} -> 2
    [] g.name = "TOFFOLI"                             -> 3
    [] OTHER                                          -> 1

With(v, q, bit) == [v EXCEPT ![q] = bit]

\* The components along the two eigenvectors of an axis, at qubit q.
First(amp, axis, v, q) ==
  LET zero == amp[With(v, q, FALSE)]  one == amp[With(v, q, TRUE)]
  IN  CASE axis = "x" -> Plus(zero, one)
        [] axis = "y" -> Plus(zero, Turned(-2, one))
        [] axis = "z" -> zero
Second(amp, axis, v, q) ==
  LET zero == amp[With(v, q, FALSE)]  one == amp[With(v, q, TRUE)]
  IN  CASE axis = "x" -> Plus(zero, Minus(one))
        [] axis = "y" -> Plus(zero, Turned(2, one))
        [] axis = "z" -> one

TurnQubit(turn, controls, q, before, after) ==
  \A v \in BasisVector :
    IF \A c \in controls : v[c]
    THEN /\ First(after, turn.axis, v, q)
              = Turned(turn.first, First(before, turn.axis, v, q))
         /\ Second(after, turn.axis, v, q)
              = Turned(turn.second, Second(before, turn.axis, v, q))
    ELSE after[v] = before[v]

Hadamard(q, before, after) ==
  \A v \in BasisVector :
    Times(Root2, after[v]) =
      (IF v[q] THEN Second(before, "x", v, q) ELSE First(before, "x", v, q))

Swap(p, q, before, after) ==
  \A v \in BasisVector : after[v] = before[[v EXCEPT ![p] = v[q], ![q] = v[p]]]

Effect(g, operands, before, after) ==
  CASE g.name = "H"    -> Hadamard(operands[1], before, after)
    [] g.name = "SWAP" -> Swap(operands[1], operands[2], before, after)
    [] OTHER           ->
         LET last == Len(operands)
         IN  TurnQubit(TurnOf(g), {operands[j] : j \in 1..(last - 1)},
                       operands[last], before, after)

-----------------------------------------------------------------------------

Weight(amp, q, outcome) ==
  SumOf(NoWeight, [v \in {u \in BasisVector : u[q] = outcome} |-> Norm(amp[v])])

\* after is a positive multiple of the part of before with the outcome, of norm one.
Projection(q, outcome, before, after) ==
  LET kept == {v \in BasisVector : v[q] = outcome /\ before[v] # Null}
  IN  /\ \A v \in BasisVector \ kept : after[v] = Null
      /\ \A v \in kept :
           LET ratio == Times(after[v], Conj(before[v]))
           IN  /\ ratio[3] = 0 /\ ratio[2] = -ratio[4]
               /\ Positive(<<ratio[1], ratio[2]>>)
      /\ \A v, w \in kept : Times(after[v], before[w]) = Times(after[w], before[v])
      /\ Weight(after, q, outcome) = Unity

\* The qubit becomes zero; the probabilities of the other qubits are kept.
Cleared(q, before, after) ==
  \A v \in BasisVector :
    IF v[q] THEN after[v] = Null
    ELSE Norm(after[v]) = Plus(Norm(before[v]), Norm(before[With(v, q, TRUE)]))

Ground == [v \in BasisVector |-> IF \E q \in Qubit : v[q] THEN Null ELSE Root2Power(Scale)]

Init ==
  /\ amplitude = Ground
  /\ measurement_register = [q \in Qubit |-> FALSE]
  /\ bit_measurement_register = [b \in Bit |-> FALSE]

Unitary(g, operands) ==
  /\ Effect(g, operands, amplitude, amplitude')
  /\ UNCHANGED <<measurement_register, bit_measurement_register>>

\* Only an outcome that may be seen is seen, and both registers record it.
Measure(q, b, outcome) ==
  /\ Weight(amplitude, q, outcome) # NoWeight
  /\ Projection(q, outcome, amplitude, amplitude')
  /\ measurement_register' = [measurement_register EXCEPT ![q] = outcome]
  /\ bit_measurement_register' = [bit_measurement_register EXCEPT ![b] = outcome]

Reset(q) ==
  /\ Cleared(q, amplitude, amplitude')
  /\ UNCHANGED <<measurement_register, bit_measurement_register>>

ResetAll ==
  /\ amplitude' = Ground
  /\ UNCHANGED <<measurement_register, bit_measurement_register>>

Next ==
  \/ \E g \in Gates : \E operands \in [1..OperandCount(g) -> Qubit] : Unitary(g, operands)
  \/ \E q \in Qubit, b \in Bit, outcome \in BOOLEAN : Measure(q, b, outcome)
  \/ \E q \in Qubit : Reset(q)
  \/ ResetAll

Spec == Init /\ [][Next]_vars

=============================================================================

-------------------------- MODULE IterationContext --------------------------
(***************************************************************************)
(* One SimulationIterationContext: a quantum state and the two measurement *)
(* registers, and every operation an instruction may perform on them, in   *)
(* any order.  Simulation restricts the order to that of a circuit.        *)
(***************************************************************************)
EXTENDS SparseState, Instructions

CONSTANTS NumberOfBits,  \* size of the bit register
          Gates,         \* gates a circuit may use (see Instructions)
          DrawRange,     \* a random number is a multiple of 1 / DrawRange
          Draws          \* the multiples that are drawn

Bit == 0..(NumberOfBits - 1)

ASSUME BitsAssumption == NumberOfBits \in Nat

\* A matrix of entries of the ring, as large as its number of operands requires.
IsMatrix(m) ==
  \E n \in 1..NumberOfQubits :
    m \in [halvings : Nat, rows : [1..2^n -> [1..2^n -> Ring]]]

ASSUME GatesAssumption == \A g \in Gates : IsMatrix(MatrixOf(g))

\* The default gates are declared without the constructor's check, but would pass it.
ASSUME UnitaryAssumption == \A g \in Gates : IsUnitary(MatrixOf(g))

\* random_zero_one_double returns a number in (0, 1]: zero is never drawn, one may be.
ASSUME DrawsAssumption == DrawRange \in Nat \ {0} /\ Draws \subseteq 1..DrawRange

Arity(g) == CHOOSE n \in 1..NumberOfQubits : 2^n = SizeOf(MatrixOf(g))

OperandLists(g) == { l \in [1..Arity(g) -> Qubit] : IsInjective(l) }

VARIABLES
  state,                     \* context.state: a SparseArray
  measurement_register,      \* context.measurement_register, one bit per qubit
  bit_measurement_register,  \* context.bit_measurement_register, one per bit
  settled                    \* history: qubits not touched since their last measure

vars == <<state, measurement_register, bit_measurement_register, settled>>

TypeOK ==
  /\ DOMAIN state = {"data", "zero_counter"}
  /\ DOMAIN state.data \subseteq BasisVector
  /\ state.zero_counter \in 0..ZERO_CYCLE_SIZE
  /\ measurement_register \in [Qubit -> BOOLEAN]
  /\ bit_measurement_register \in [Bit -> BOOLEAN]
  /\ settled \subseteq Qubit

Init ==
  /\ state = [data |-> [v \in {GroundState} |-> Root2Power(Scale)], zero_counter |-> 0]
  /\ measurement_register = [q \in Qubit |-> FALSE]
  /\ bit_measurement_register = [b \in Bit |-> FALSE]
  /\ settled = {}

Unitary(g, operands) ==
  /\ RepresentableApply(state, MatrixOf(g), operands)
  /\ state' = apply_linear(state, MatrixOf(g), operands)
  /\ settled' = settled \ Range(operands)
  /\ UNCHANGED <<measurement_register, bit_measurement_register>>

\* Mutant: a bit that was set stays set.
SetOrKept(register, b, measured) == [register EXCEPT ![b] = @ \/ measured]

SetTo(register, b, measured) == [register EXCEPT ![b] = measured]

\* apply_measure: draw is the random number, compared with the probability of a one.
Measure(q, b, draw) ==
  LET cleaned  == clean_up_zeros(state)
      p_one    == probability_of_measuring_one(cleaned, q)
      measured == Below(draw, DrawRange, p_one)
  IN  /\ RepresentableMeasurement(cleaned, q, measured, p_one)
      /\ state' = update_data_after_measurement(cleaned, q, measured, p_one)
      /\ measurement_register' = SetTo(measurement_register, q, measured)
      /\ bit_measurement_register' = SetTo(bit_measurement_register, b, measured)
      /\ settled' = settled \union {q}

\* apply_reset does not modify the measurement registers.
Reset(q) ==
  /\ RepresentableReset(state, q)
  /\ state' = update_data_after_reset(state, q)
  /\ settled' = settled \ {q}
  /\ UNCHANGED <<measurement_register, bit_measurement_register>>

\* QuantumState::reset, which leaves zero_counter as it is.
ResetAll ==
  /\ state' = reset_data(state)
  /\ settled' = {}
  /\ UNCHANGED <<measurement_register, bit_measurement_register>>

\* is_normalized, the probabilities and for_each clean the map up before they read it.
Inspect ==
  /\ state' = clean_up_zeros(state)
  /\ UNCHANGED <<measurement_register, bit_measurement_register, settled>>

\* instruction->execute(context)
Execute(i) ==
  \/ i.kind = "Unitary" /\ Unitary(i.gate, i.operands)
  \/ i.kind = "Measure" /\ \E draw \in Draws : Measure(i.qubit, i.bit, draw)
  \/ i.kind = "Reset"   /\ Reset(i.qubit)

IsInstruction(i) ==
  \/ \E g \in Gates : \E operands \in OperandLists(g) : i = ApplyGate(g, operands)
  \/ \E q \in Qubit, b \in Bit : i = MeasureInto(q, b)
  \/ \E q \in Qubit : i = ResetQubit(q)

Next ==
  \/ \E g \in Gates : \E operands \in OperandLists(g) : Unitary(g, operands)
  \/ \E q \in Qubit, b \in Bit, draw \in Draws : Measure(q, b, draw)
  \/ \E q \in Qubit : Reset(q)
  \/ ResetAll
  \/ Inspect

Spec == Init /\ [][Next]_vars

-----------------------------------------------------------------------------

\* The squared magnitudes of the amplitudes add up to one (is_normalized): gates
\* are unitary on every entry, a measurement renormalizes by the probability of
\* its own outcome and a reset merges entries without losing weight.
Normalized == norm(state) = Unity

\* A qubit that was measured and has not been operated on since is, in every
\* basis vector of the state, what the measurement register says: later gates,
\* measurements and resets of other qubits do not disturb it.
SettledAgree ==
  \A q \in settled : \A v \in DOMAIN state.data : v[q] = measurement_register[q]

\* Whether the periodic clean-up of null entries runs before a gate or not makes
\* no difference to the map the gate produces (apply_linear, ZERO_CYCLE_SIZE).
CleanupIsInvisible ==
  \A g \in Gates : \A operands \in OperandLists(g) :
    apply_impl(clean_up_zeros(state).data, MatrixOf(g), operands)
      = apply_impl(state.data, MatrixOf(g), operands)

\* The loop of a gate over the entries of the map and the rows of the matrix computes
\* the sum that the gate stands for, in whatever order the unordered map has its
\* entries: a basis vector that two entries add to is found again, a null value is not
\* added, and the bits of a row go back to the operands that they came from.
EntriesInAnyOrder ==
  \A g \in Gates : \A operands \in OperandLists(g) :
    LET m     == MatrixOf(g)
        after == apply_impl(state.data, m, operands)
    IN  RepresentableApply(state, m, operands) =>
          \A order \in SetToSeqs(DOMAIN state.data) :
            apply_in_order(state.data, m, operands, order) = after

\* The sparse map, its clean-ups and the matrices implement the gates, projections
\* and resets of IdealContext, and both registers record each outcome.
Ideal == INSTANCE IdealContext
           WITH amplitude <- [v \in BasisVector |-> Amplitude(state, v)]
RefinesIdeal == Ideal!Spec

\* Measuring a settled qubit again yields the outcome it had: the qubit is certain,
\* whatever happened to the others, and the draw cannot change that (apply_measure).
MeasurementsRepeat ==
  [][\A q \in settled : measurement_register'[q] = measurement_register[q]]_vars

\* What the comments of update_data_after_reset say of an entry whose qubit is set:
\* its amplitude is added to the entry with the qubit clear, here one of amplitude 0.
ResetMovesAmplitude ==
  [][\A q \in Qubit : Reset(q) =>
       \A v \in Moved(state, q) :
         Amplitude(state, Clear(v, q)) = Null =>
           Amplitude(state', Clear(v, q)) = state.data[v]]_vars

=============================================================================

----------------------------- MODULE Simulation -----------------------------
(***************************************************************************)
(* The shots of one simulation: Circuit::execute runs the instructions of  *)
(* a circuit on a new iteration context, the accumulator adds up what the  *)
(* measurement registers hold at the end of each iteration and, after the  *)
(* last one, composes the result.  The error model is std::monostate, the  *)
(* only one the simulator passes.                                          *)
(*                                                                         *)
(* A state string is the sequence of its digits.                           *)
(***************************************************************************)
EXTENDS IterationContext

CONSTANTS Jobs,    \* records [circuit, iterations]: what may be run
          NDEBUG   \* TRUE in a release build, where asserts are not compiled

\* A request for no iterations is an error before anything is run.
ASSUME JobsAssumption ==
  \A job \in Jobs :
    /\ job.iterations \in Nat \ {0}
    /\ Len(job.circuit) \in Nat /\ DOMAIN job.circuit = 1..Len(job.circuit)
    /\ \A j \in DOMAIN job.circuit : IsInstruction(job.circuit[j])

VARIABLES
  instructions,     \* circuit.instructions_
  shots_requested,  \* the iterations asked for
  accumulator,      \* the SimulationIterationAccumulator
  result,           \* the SimulationResult, once there is one
  pc,               \* next instruction of the iteration that runs
  phase,            \* "between" iterations, "executing" one, "finished" or "aborted"
  shots             \* history: what each iteration ended with

simulation_vars ==
  <<vars, instructions, shots_requested, accumulator, result, pc, phase, shots>>

NoCounts == [s \in {} |-> 0]
NoResult == [shots_done |-> 0]

EmptyAccumulator ==
  [state |-> [data |-> [v \in {} |-> Null], zero_counter |-> 0],
   measurements |-> NoCounts, bit_measurements |-> NoCounts, shots_done |-> 0]

BeforeFirstIteration ==
  /\ Init
  /\ accumulator = EmptyAccumulator
  /\ result = NoResult
  /\ pc = 0
  /\ phase = "between"
  /\ shots = <<>>

SimulationInit ==
  /\ BeforeFirstIteration
  /\ \E job \in Jobs : instructions = job.circuit /\ shots_requested = job.iterations

\* Mutant: the quantum state of the previous iteration is kept.
StaleContext ==
  /\ measurement_register' = [q \in Qubit |-> FALSE]
  /\ bit_measurement_register' = [b \in Bit |-> FALSE]
  /\ settled' = {}
  /\ UNCHANGED state

\* A new SimulationIterationContext, whose state is checked and so cleaned up.
NewContext ==
  /\ state' = [data |-> [v \in {GroundState} |-> Root2Power(Scale)], zero_counter |-> 0]
  /\ measurement_register' = [q \in Qubit |-> FALSE]
  /\ bit_measurement_register' = [b \in Bit |-> FALSE]
  /\ settled' = {}

\* Mutant: one iteration too many.
MoreIterationsInclusive == accumulator.shots_done <= shots_requested

MoreIterations == accumulator.shots_done < shots_requested

StartIteration ==
  /\ phase = "between"
  /\ MoreIterations
  /\ phase' = "executing"
  /\ pc' = 1
  /\ NewContext
  /\ UNCHANGED <<instructions, shots_requested, accumulator, result, shots>>

\* Mutant: a reset is executed for ever.
AdvanceUnlessReset ==
  pc' = IF instructions[pc].kind = "Reset" THEN pc ELSE pc + 1

Advance == pc' = pc + 1

AdvanceToNext ==
  /\ phase = "executing"
  /\ pc <= Len(instructions)
  /\ Advance

ExecuteInstruction ==
  /\ AdvanceToNext
  /\ Execute(instructions[pc])
  /\ UNCHANGED <<instructions, shots_requested, accumulator, result, phase, shots>>

\* Mutant: a key that is inserted is not counted.
InsertedAsZero(counts, s) ==
  [t \in DOMAIN counts \union {s} |->
     IF t \notin DOMAIN counts THEN 0 ELSE counts[t] + (IF t = s THEN 1 ELSE 0)]

\* Mutant: a key that is there already is not counted again.
InsertedOnly(counts, s) ==
  [t \in DOMAIN counts \union {s} |-> IF t \in DOMAIN counts THEN counts[t] ELSE 1]

\* counts[s]++, which inserts a key that is not there.
Incremented(counts, s) ==
  [t \in DOMAIN counts \union {s} |->
     (IF t \in DOMAIN counts THEN counts[t] ELSE 0) + (IF t = s THEN 1 ELSE 0)]

\* The first n bits of a register as digits, the least significant one last.
to_substring(bits, n) == [k \in 1..n |-> IF bits[n - k] THEN 1 ELSE 0]

\* Mutant: a string is read from the left.
ValueFromLeft(state_string, index) == state_string[index + 1]

\* What get_qubit_state and get_bit_measurement read at an index of the register.
ValueAt(state_string, index) == state_string[Len(state_string) - index]

\* The assertions of append_measurement and append_bit_measurement: both compare
\* the number of keys with the number of values of the qubit register.
MeasurementAssertion ==
  Cardinality(DOMAIN accumulator.measurements) < 2^NumberOfQubits
BitMeasurementAssertion ==
  Cardinality(DOMAIN accumulator.bit_measurements) < 2^NumberOfQubits

IterationEnds == phase = "executing" /\ pc > Len(instructions)

\* Mutant: the state of the first iteration is kept.
FirstState == IF accumulator.shots_done = 0 THEN state ELSE accumulator.state

\* state = context.state
LastState == state

\* SimulationIterationAccumulator::add
Accumulate ==
  /\ IterationEnds
  /\ NDEBUG \/ (MeasurementAssertion /\ BitMeasurementAssertion)
  /\ accumulator' =
       [state            |-> LastState,
        measurements     |->
          Incremented(accumulator.measurements,
                      to_substring(measurement_register, NumberOfQubits)),
        bit_measurements |->
          Incremented(accumulator.bit_measurements,
                      to_substring(bit_measurement_register, NumberOfBits)),
        shots_done       |-> accumulator.shots_done + 1]
  /\ shots' = Append(shots, [measured |-> measurement_register,
                             bits     |-> bit_measurement_register,
                             data     |-> clean_up_zeros(state).data])
  /\ phase' = "between"
  /\ UNCHANGED <<vars, instructions, shots_requested, result, pc>>

\* In a debug build an assertion that fails ends the process.
Abort ==
  /\ IterationEnds
  /\ ~NDEBUG
  /\ ~(MeasurementAssertion /\ BitMeasurementAssertion)
  /\ phase' = "aborted"
  /\ UNCHANGED <<vars, instructions, shots_requested, accumulator, result, pc, shots>>

\* get_simulation_result: the non-null entries of the last state, and the counts.
GetSimulationResult ==
  /\ phase = "between"
  /\ accumulator.shots_done = shots_requested
  /\ LET cleaned == clean_up_zeros(accumulator.state)
     IN  /\ accumulator' = [accumulator EXCEPT !.state = cleaned]
         /\ result' = [shots_requested  |-> shots_requested,
                       shots_done       |-> accumulator.shots_done,
                       state            |->
                         [s \in {to_substring(v, NumberOfQubits) : v \in DOMAIN cleaned.data} |->
                            cleaned.data[CHOOSE v \in DOMAIN cleaned.data :
                                           to_substring(v, NumberOfQubits) = s]],
                       measurements     |-> accumulator.measurements,
                       bit_measurements |-> accumulator.bit_measurements]
  /\ phase' = "finished"
  /\ UNCHANGED <<vars, instructions, shots_requested, pc, shots>>

Ended == phase \in {"finished", "aborted"} /\ UNCHANGED simulation_vars

BetweenInstructions ==
  \/ StartIteration
  \/ Accumulate
  \/ Abort
  \/ GetSimulationResult

SimulationNext ==
  \/ BetweenInstructions
  \/ ExecuteInstruction
  \/ Ended

SimulationSpec == SimulationInit /\ [][SimulationNext]_simulation_vars

-----------------------------------------------------------------------------

SimulationTypeOK ==
  /\ TypeOK
  /\ \E job \in Jobs : instructions = job.circuit /\ shots_requested = job.iterations
  /\ accumulator.shots_done \in 0..shots_requested
  /\ DOMAIN accumulator.measurements \subseteq [1..NumberOfQubits -> {0, 1}]
  /\ DOMAIN accumulator.bit_measurements \subseteq [1..NumberOfBits -> {0, 1}]
  /\ pc \in 0..(Len(instructions) + 1)
  /\ phase \in {"between", "executing", "finished", "aborted"}
  /\ Len(shots) = accumulator.shots_done

Total(counts) == SumFunction(counts)

\* Every count is the number of iterations that ended with that register, no
\* iteration is counted twice or lost, and no register is listed that none ended
\* with (append_measurement, append_bit_measurement).
CountsMatchShots ==
  LET Ending(r, register) == Cardinality({j \in DOMAIN shots : shots[j][r] = register})
      Count(counts, s) == IF s \in DOMAIN counts THEN counts[s] ELSE 0
  IN  /\ \A register \in [Qubit -> BOOLEAN] :
           Ending("measured", register) =
             Count(accumulator.measurements, to_substring(register, NumberOfQubits))
      /\ \A register \in [Bit -> BOOLEAN] :
           Ending("bits", register) =
             Count(accumulator.bit_measurements, to_substring(register, NumberOfBits))

\* A result accounts for every shot that was requested, in both registers.
ResultIsComplete ==
  phase = "finished" =>
    /\ result.shots_done = result.shots_requested
    /\ Total(result.measurements) = result.shots_requested
    /\ Total(result.bit_measurements) = result.shots_requested

\* The quantum state of a result is the one of the last iteration, each entry under
\* the string of its own basis vector: normalized, without null amplitudes, and in
\* agreement with what that iteration measured.
ResultIsTheLastState ==
  phase = "finished" =>
    LET last == shots[Len(shots)]
        String(v) == to_substring(v, NumberOfQubits)
    IN  /\ DOMAIN result.state = {String(v) : v \in DOMAIN last.data}
        /\ \A v \in DOMAIN last.data : result.state[String(v)] = last.data[v]
        /\ SumOf(NoWeight, [s \in DOMAIN result.state |-> Norm(result.state[s])]) = Unity
        /\ \A s \in DOMAIN result.state :
             /\ result.state[s] # Null
             /\ \A q \in settled : (ValueAt(s, q) = 1) = last.measured[q]

Measures == {j \in DOMAIN instructions : instructions[j].kind = "Measure"}

\* When an iteration ends a bit holds the outcome of the last measure into it: what
\* its qubit's register holds, unless the qubit was measured again.  A bit or a qubit
\* that no instruction measures holds zero.
RegistersTellLastMeasure ==
  IterationEnds =>
    /\ \A last \in Measures :
         LET q == instructions[last].qubit
             b == instructions[last].bit
         IN  (\A j \in Measures :
                instructions[j].qubit = q \/ instructions[j].bit = b => j <= last)
               => bit_measurement_register[b] = measurement_register[q]
    /\ \A b \in Bit :
         (\A j \in Measures : instructions[j].bit # b) => ~bit_measurement_register[b]
    /\ \A q \in Qubit :
         (\A j \in Measures : instructions[j].qubit # q) => ~measurement_register[q]

\* Every instruction is a gate or a measure, and no qubit is measured twice, so that
\* the register of an iteration tells all of its outcomes.
OutcomesAreInRegister ==
  /\ \A j \in DOMAIN instructions : instructions[j].kind \in {"Unitary", "Measure"}
  /\ \A j, k \in Measures : instructions[j].qubit = instructions[k].qubit => j = k

\* Iterations do not influence each other, and nothing but the outcomes of its measures
\* makes one differ from another: those with the same outcomes, such as all iterations of
\* a circuit without a measure, end in the same state.  Circuits with a reset, of which the
\* user guide says that it is random as well, are left out.
IterationsAreIndependent ==
  OutcomesAreInRegister =>
    \A j, k \in DOMAIN shots :
      shots[j].measured = shots[k].measured => shots[j].data = shots[k].data

\* Each instruction does what its own name and operands promise, whatever the map it
\* works on looks like: a gate acts on its operands in their order, a measurement
\* projects its qubit into its registers, a reset clears its qubit (IdealContext).
InstructionsAreIdeal ==
  [][phase = "executing" /\ phase' = "executing" =>
       LET i == instructions[pc]
       IN  CASE i.kind = "Unitary" -> Ideal!Unitary(i.gate, i.operands)
             [] i.kind = "Measure" ->
                  Ideal!Measure(i.qubit, i.bit, measurement_register'[i.qubit])
             [] i.kind = "Reset"   -> Ideal!Reset(i.qubit)]_simulation_vars

\* What the assertions of append_measurement and append_bit_measurement say, where
\* they are checked: there is room for one more outcome.
AssertionsHold == IterationEnds => MeasurementAssertion /\ BitMeasurementAssertion

=============================================================================

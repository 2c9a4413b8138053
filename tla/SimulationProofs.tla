--------------------------- MODULE SimulationProofs ---------------------------
(***************************************************************************)
(* The shots of a simulation, for any circuits, numbers of shots and sizes *)
(* of the registers, in a debug build and in a release build.              *)
(***************************************************************************)
EXTENDS Simulation, IterationContextProofs

-----------------------------------------------------------------------------
(* Lists, state strings and counts.                                        *)

LEMMA AppendToList ==
  ASSUME NEW list, IsList(list), NEW e
  PROVE  /\ IsList(Append(list, e))
         /\ Len(Append(list, e)) = Len(list) + 1
         /\ \A j \in 1..Len(list) : Append(list, e)[j] = list[j]
         /\ Append(list, e)[Len(list) + 1] = e
<1>. DEFINE n == Len(list)
            Values == {list[j] : j \in 1..n} \union {e}
<1>1. n \in Nat /\ list \in [1..n -> Values]
  BY DEF IsList
<1>2. list \in Seq(Values) /\ e \in Values
  BY <1>1
<1>. HIDE DEF Values
<1>3. /\ Append(list, e) \in Seq(Values)
      /\ Len(Append(list, e)) = n + 1
      /\ \A j \in 1..n : Append(list, e)[j] = list[j]
      /\ Append(list, e)[n + 1] = e
  BY <1>1, <1>2
<1>4. ASSUME NEW seq \in Seq(Values)
      PROVE  IsList(seq)
  <2>1. Len(seq) \in Nat /\ seq \in [1..Len(seq) -> Values]
    OBVIOUS
  <2>2. QED
    BY <2>1 DEF IsList
<1>5. QED
  BY <1>3, <1>4

\* Different registers have different strings.
LEMMA StringsAreInjective ==
  ASSUME NEW n \in Nat, NEW a \in [0..(n - 1) -> BOOLEAN], NEW b \in [0..(n - 1) -> BOOLEAN],
         to_substring(a, n) = to_substring(b, n)
  PROVE  a = b
<1>1. ASSUME NEW q \in 0..(n - 1)
      PROVE  a[q] = b[q]
  <2>1. n - q \in 1..n /\ n - (n - q) = q
    OBVIOUS
  <2>2. (IF a[q] THEN 1 ELSE 0) = (IF b[q] THEN 1 ELSE 0)
    BY <2>1 DEF to_substring
  <2>3. a[q] \in BOOLEAN /\ b[q] \in BOOLEAN
    OBVIOUS
  <2>4. QED
    BY <2>2, <2>3
<1>2. QED
  BY <1>1

LEMMA StringsAreDigits ==
  ASSUME NEW n \in Nat, NEW bits
  PROVE  to_substring(bits, n) \in [1..n -> {0, 1}]
BY DEF to_substring

\* The iterations of a list that ended with a register, and how often it is counted.
EndedWith(list, r, register) == {j \in 1..Len(list) : list[j][r] = register}
CountOf(counts, s) == IF s \in DOMAIN counts THEN counts[s] ELSE 0

CountsAre(list, r, counts, n) ==
  \A register \in [0..(n - 1) -> BOOLEAN] :
    Cardinality(EndedWith(list, r, register)) = CountOf(counts, to_substring(register, n))

\* One more iteration, whose register is counted, keeps the counts right.
LEMMA CountsStep ==
  ASSUME NEW n \in Nat, NEW list, IsList(list), NEW e, NEW r,
         e[r] \in [0..(n - 1) -> BOOLEAN],
         NEW counts, CountsAre(list, r, counts, n)
  PROVE  CountsAre(Append(list, e), r, Incremented(counts, to_substring(e[r], n)), n)
<1>. DEFINE s == to_substring(e[r], n)
<1>. SUFFICES ASSUME NEW register \in [0..(n - 1) -> BOOLEAN]
              PROVE  Cardinality(EndedWith(Append(list, e), r, register))
                       = CountOf(Incremented(counts, s), to_substring(register, n))
  BY DEF CountsAre
<1>. DEFINE t   == to_substring(register, n)
            Old == EndedWith(list, r, register)
            m   == Len(list)
<1>1. m \in Nat
  BY DEF IsList
<1>2. IsFiniteSet(Old) /\ m + 1 \notin Old
  <2>1. Old \subseteq 1..m /\ IsFiniteSet(1..m)
    BY <1>1, FS_Interval DEF EndedWith
  <2>2. QED
    BY <1>1, <2>1, FS_Subset
<1>3. Cardinality(Old) \in Nat /\ CountOf(counts, t) = Cardinality(Old)
  BY <1>2, FS_CardinalityType DEF CountsAre
<1>4. register = e[r] <=> t = s
  BY StringsAreInjective
<1>5. EndedWith(Append(list, e), r, register)
        = IF register = e[r] THEN Old \union {m + 1} ELSE Old
  BY <1>1, AppendToList DEF EndedWith
<1>6. CountOf(Incremented(counts, s), t) = CountOf(counts, t) + (IF t = s THEN 1 ELSE 0)
  <2>. HIDE DEF s, t
  <2>1. CASE t \in DOMAIN counts
    BY <1>3, <2>1 DEF CountOf, Incremented
  <2>2. CASE t \notin DOMAIN counts
    BY <2>2 DEF CountOf, Incremented
  <2>3. QED
    BY <2>1, <2>2
<1>7. CASE register = e[r]
  <2>1. Cardinality(Old \union {m + 1}) = Cardinality(Old) + 1
    BY <1>2, FS_AddElement
  <2>2. QED
    BY <1>3, <1>4, <1>5, <1>6, <1>7, <2>1
<1>8. CASE register # e[r]
  BY <1>3, <1>4, <1>5, <1>6, <1>8
<1>9. QED
  BY <1>7, <1>8

-----------------------------------------------------------------------------
(* The inductive invariant.                                                *)

\* The measures that the iteration has executed.
Done == {j \in Measures : j < pc}

\* RegistersTellLastMeasure, of the part of an iteration that is done.
RegistersTellDone == phase = "executing" =>
  /\ \A last \in Done :
       (\A j \in Done : \/ instructions[j].qubit = instructions[last].qubit
                        \/ instructions[j].bit = instructions[last].bit
                        => j <= last)
         => bit_measurement_register[instructions[last].bit]
              = measurement_register[instructions[last].qubit]
  /\ \A b \in Bit :
       (\A j \in Done : instructions[j].bit # b) => ~bit_measurement_register[b]
  /\ \A q \in Qubit :
       (\A j \in Done : instructions[j].qubit # q) => ~measurement_register[q]

ShotCounts ==
  /\ CountsAre(shots, "measured", accumulator.measurements, NumberOfQubits)
  /\ CountsAre(shots, "bits", accumulator.bit_measurements, NumberOfBits)

StateTypes ==
  /\ TypeOK
  /\ accumulator.shots_done \in 0..shots_requested
  /\ DOMAIN accumulator.measurements \subseteq [1..NumberOfQubits -> {0, 1}]
  /\ DOMAIN accumulator.bit_measurements \subseteq [1..NumberOfBits -> {0, 1}]
  /\ pc \in 0..(Len(instructions) + 1)
  /\ phase \in {"between", "executing", "finished", "aborted"}
  /\ Len(shots) = accumulator.shots_done

\* All that is asked of a circuit, wherever it comes from.
CircuitIsPlaced ==
  /\ shots_requested \in Nat \ {0}
  /\ Len(instructions) \in Nat /\ DOMAIN instructions = 1..Len(instructions)
  /\ \A j \in 1..Len(instructions) : IsPlaced(instructions[j])

SInv ==
  /\ StateTypes
  /\ CircuitIsPlaced
  /\ IsList(shots)
  /\ phase = "executing" => pc > 0 /\ MoreIterations
  /\ ShotCounts
  /\ RegistersTellDone

\* What runs is one of the jobs.
RunsAJob == \E job \in Jobs : instructions = job.circuit /\ shots_requested = job.iterations

LEMMA JobsArePlaced ==
  ASSUME RunsAJob
  PROVE  CircuitIsPlaced /\ \A j \in 1..Len(instructions) : IsInstruction(instructions[j])
<1>1. /\ shots_requested \in Nat \ {0}
      /\ Len(instructions) \in Nat /\ DOMAIN instructions = 1..Len(instructions)
      /\ \A j \in 1..Len(instructions) : IsInstruction(instructions[j])
  BY JobsAssumption DEF RunsAJob
<1>2. QED
  BY <1>1, InstructionIsPlaced DEF CircuitIsPlaced

LEMMA CircuitOfSimulation ==
  ASSUME SInv
  PROVE  /\ shots_requested \in Nat \ {0}
         /\ Len(instructions) \in Nat /\ DOMAIN instructions = 1..Len(instructions)
         /\ \A j \in 1..Len(instructions) : IsPlaced(instructions[j])
BY DEF SInv, CircuitIsPlaced

LEMMA MeasureOperands ==
  ASSUME SInv, NEW j \in Measures
  PROVE  instructions[j].qubit \in Qubit /\ instructions[j].bit \in Bit /\ j \in Nat
BY CircuitOfSimulation DEF Measures, IsPlaced

LEMMA InitSInv ==
  ASSUME BeforeFirstIteration, CircuitIsPlaced
  PROVE  SInv
<1>. USE DEF BeforeFirstIteration
<1>2. StateTypes
  <2>1. TypeOK
    BY InitTypeOK
  <2>2. /\ accumulator.shots_done = 0
        /\ DOMAIN accumulator.measurements = {}
        /\ DOMAIN accumulator.bit_measurements = {}
    BY DEF EmptyAccumulator, NoCounts
  <2>3. shots_requested \in Nat /\ Len(instructions) \in Nat
    BY DEF CircuitIsPlaced
  <2>4. QED
    BY <2>1, <2>2, <2>3 DEF StateTypes
<1>3. IsList(shots)
  BY DEF IsList
<1>4. ShotCounts
  <2>1. \A r, register : EndedWith(shots, r, register) = {}
    BY DEF EndedWith
  <2>2. Cardinality({}) = 0
    BY FS_EmptySet
  <2>3. \A s : CountOf(accumulator.measurements, s) = 0 /\ CountOf(accumulator.bit_measurements, s) = 0
    BY DEF CountOf, EmptyAccumulator, NoCounts
  <2>4. QED
    BY <2>1, <2>2, <2>3 DEF ShotCounts, CountsAre
<1>5. QED
  BY <1>2, <1>3, <1>4 DEF SInv, RegistersTellDone

LEMMA CircuitIsKept ==
  ASSUME CircuitIsPlaced, UNCHANGED <<instructions, shots_requested>>
  PROVE  CircuitIsPlaced'
BY DEF CircuitIsPlaced, IsPlaced

LEMMA StartStep ==
  ASSUME SInv, StartIteration
  PROVE  SInv'
<1>. USE DEF StartIteration, NewContext
<1>1. TypeOK'
  <2>1. Init'
    BY DEF Init
  <2>2. QED
    BY <2>1, InitTypeOK, PTL
<1>2. StateTypes'
  BY <1>1, CircuitOfSimulation DEF SInv, StateTypes
<1>3. ShotCounts'
  BY DEF SInv, ShotCounts
<1>4. Done' = {}
  BY CircuitOfSimulation DEF Done, Measures
<1>5. RegistersTellDone'
  BY <1>4 DEF RegistersTellDone
<1>6. IsList(shots)' /\ (phase = "executing" => pc > 0 /\ MoreIterations)'
  BY DEF SInv, IsList, MoreIterations
<1>7. CircuitIsPlaced'
  BY CircuitIsKept DEF SInv
<1>8. QED
  BY <1>2, <1>3, <1>5, <1>6, <1>7 DEF SInv

\* A step of the instruction keeps what the registers tell, and adds what it measures.
LEMMA RegistersStep ==
  ASSUME SInv, ExecuteInstruction
  PROVE  RegistersTellDone'
<1>. USE DEF ExecuteInstruction, AdvanceToNext, Advance
<1>1. /\ phase = "executing" /\ phase' = "executing" /\ instructions' = instructions
      /\ pc \in 1..Len(instructions) /\ pc' = pc + 1
  BY CircuitOfSimulation DEF SInv, StateTypes
<1>2. Measures' = Measures /\ \A j \in Measures : j \in Nat
  BY <1>1, MeasureOperands DEF Measures
<1>3. RegistersTellDone
  BY DEF SInv
<1>4. CASE instructions[pc].kind # "Measure"
  <2>1. Done' = Done
    BY <1>1, <1>2, <1>4 DEF Done, Measures
  <2>2. /\ measurement_register' = measurement_register
        /\ bit_measurement_register' = bit_measurement_register
    BY <1>4 DEF Execute, Unitary, Reset
  <2>3. QED
    BY <1>1, <1>3, <2>1, <2>2 DEF RegistersTellDone
<1>5. CASE instructions[pc].kind = "Measure"
  <2>1. pc \in Measures
    BY <1>1, <1>5, CircuitOfSimulation DEF Measures
  <2>2. Done' = Done \union {pc} /\ pc \notin Done
    <3>1. pc \in Nat /\ \A j \in Measures : j \in Nat
      BY <1>1, <1>2, CircuitOfSimulation
    <3>2. \A j \in Measures : j < pc + 1 <=> j < pc \/ j = pc
      BY <3>1
    <3>3. \A j : j \in Done' <=> j \in Measures /\ j < pc + 1
      BY <1>1, <1>2 DEF Done
    <3>4. \A j : j \in Done <=> j \in Measures /\ j < pc
      BY DEF Done
    <3>5. pc \notin Done
      BY <3>1, <3>4
    <3>6. \A j : j \in Done' <=> j \in Done \union {pc}
      BY <2>1, <3>2, <3>3, <3>4
    <3>7. Done' = Done \union {pc}
      BY <3>6
    <3>8. QED
      BY <3>5, <3>7
  <2>. DEFINE Q == instructions[pc].qubit
              B == instructions[pc].bit
  <2>3. Q \in Qubit /\ B \in Bit
    BY <2>1, MeasureOperands
  <2>4. PICK draw \in Draws : Measure(Q, B, draw)
    BY <1>5 DEF Execute
  <2>5. PICK outcome : /\ measurement_register' = [measurement_register EXCEPT ![Q] = outcome]
                       /\ bit_measurement_register' =
                            [bit_measurement_register EXCEPT ![B] = outcome]
    BY <2>4 DEF Measure, SetTo
  <2>6. /\ measurement_register'[Q] = outcome
        /\ bit_measurement_register'[B] = outcome
        /\ \A q \in Qubit : q # Q => measurement_register'[q] = measurement_register[q]
        /\ \A b \in Bit : b # B => bit_measurement_register'[b] = bit_measurement_register[b]
    BY <2>3, <2>5 DEF SInv, StateTypes, TypeOK
  <2>7. ASSUME NEW last \in Done',
               \A j \in Done' : \/ instructions[j].qubit = instructions[last].qubit
                                \/ instructions[j].bit = instructions[last].bit
                                => j <= last
        PROVE  bit_measurement_register'[instructions[last].bit]
                 = measurement_register'[instructions[last].qubit]
    <3>1. CASE last = pc
      BY <3>1, <2>6
    <3>2. CASE last \in Done
      <4>1. last < pc /\ last \in Measures
        BY <3>2 DEF Done
      <4>2. instructions[last].qubit # Q /\ instructions[last].bit # B
        BY <1>1, <1>2, <2>2, <2>7, <4>1
      <4>3. instructions[last].qubit \in Qubit /\ instructions[last].bit \in Bit
        BY <4>1, MeasureOperands
      <4>4. bit_measurement_register[instructions[last].bit]
              = measurement_register[instructions[last].qubit]
        BY <1>1, <1>3, <2>2, <2>7, <3>2 DEF RegistersTellDone
      <4>5. QED
        BY <2>6, <4>2, <4>3, <4>4
    <3>3. QED
      BY <2>2, <3>1, <3>2
  <2>8. ASSUME NEW b \in Bit, \A j \in Done' : instructions[j].bit # b
        PROVE  ~bit_measurement_register'[b]
    BY <1>1, <1>3, <2>2, <2>6, <2>8 DEF RegistersTellDone
  <2>9. ASSUME NEW q \in Qubit, \A j \in Done' : instructions[j].qubit # q
        PROVE  ~measurement_register'[q]
    BY <1>1, <1>3, <2>2, <2>6, <2>9 DEF RegistersTellDone
  <2>10. QED
    BY <1>1, <2>7, <2>8, <2>9 DEF RegistersTellDone
<1>6. QED
  BY <1>4, <1>5

LEMMA ExecuteStep ==
  ASSUME SInv, ExecuteInstruction
  PROVE  SInv'
<1>. USE DEF ExecuteInstruction, AdvanceToNext, Advance
<1>1. pc \in 1..Len(instructions) /\ Len(instructions) \in Nat
  BY CircuitOfSimulation DEF SInv, StateTypes
<1>3. TypeOK'
  BY <1>1, CircuitOfSimulation, ExecuteKeepsTypes DEF SInv, StateTypes
<1>4. StateTypes'
  BY <1>1, <1>3 DEF SInv, StateTypes
<1>5. ShotCounts' /\ IsList(shots)' /\ (phase = "executing" => pc > 0 /\ MoreIterations)'
  BY <1>1 DEF SInv, ShotCounts, IsList, MoreIterations
<1>6. CircuitIsPlaced'
  BY CircuitIsKept DEF SInv
<1>7. QED
  BY <1>4, <1>5, <1>6, RegistersStep DEF SInv

LEMMA AccumulateStep ==
  ASSUME SInv, Accumulate
  PROVE  SInv'
<1>. USE DEF Accumulate, IterationEnds
<1>. DEFINE e == [measured |-> measurement_register, bits |-> bit_measurement_register,
                  data |-> clean_up_zeros(state).data]
<1>1. /\ shots' = Append(shots, e) /\ IsList(shots)
      /\ e.measured = measurement_register /\ e.bits = bit_measurement_register
      /\ e["measured"] = measurement_register /\ e["bits"] = bit_measurement_register
  BY DEF SInv
<1>2. /\ measurement_register \in [0..(NumberOfQubits - 1) -> BOOLEAN]
      /\ bit_measurement_register \in [0..(NumberOfBits - 1) -> BOOLEAN]
  BY DEF SInv, StateTypes, TypeOK, Bit, Qubit
<1>3. NumberOfQubits \in Nat /\ NumberOfBits \in Nat
  BY QubitsAssumption, BitsAssumption
<1>4. /\ accumulator'.measurements =
           Incremented(accumulator.measurements, to_substring(measurement_register, NumberOfQubits))
      /\ accumulator'.bit_measurements =
           Incremented(accumulator.bit_measurements,
                       to_substring(bit_measurement_register, NumberOfBits))
      /\ accumulator'.shots_done = accumulator.shots_done + 1
  OBVIOUS
<1>. HIDE DEF e
<1>5. CountsAre(shots', "measured", accumulator'.measurements, NumberOfQubits)
  BY <1>1, <1>2, <1>3, <1>4, CountsStep DEF SInv, ShotCounts
<1>6. CountsAre(shots', "bits", accumulator'.bit_measurements, NumberOfBits)
  BY <1>1, <1>2, <1>3, <1>4, CountsStep DEF SInv, ShotCounts
<1>7. IsList(shots)' /\ Len(shots') = Len(shots) + 1
  BY <1>1, AppendToList
<1>8. StateTypes'
  <2>1. TypeOK'
    BY DEF SInv, StateTypes, TypeOK, vars
  <2>2. accumulator'.shots_done \in 0..shots_requested'
    BY <1>4, CircuitOfSimulation DEF SInv, StateTypes, MoreIterations
  <2>3. /\ DOMAIN accumulator'.measurements \subseteq [1..NumberOfQubits -> {0, 1}]
        /\ DOMAIN accumulator'.bit_measurements \subseteq [1..NumberOfBits -> {0, 1}]
    BY <1>3, <1>4, StringsAreDigits DEF SInv, StateTypes, Incremented
  <2>4. Len(shots') = accumulator'.shots_done
    BY <1>4, <1>7 DEF SInv, StateTypes
  <2>5. QED
    BY <2>1, <2>2, <2>3, <2>4 DEF SInv, StateTypes
<1>9. ShotCounts'
  BY <1>5, <1>6 DEF ShotCounts, CountsAre, EndedWith, CountOf
<1>10. CircuitIsPlaced'
  BY CircuitIsKept DEF SInv
<1>11. QED
  BY <1>7, <1>8, <1>9, <1>10 DEF SInv, RegistersTellDone

LEMMA ResultStep ==
  ASSUME SInv, GetSimulationResult
  PROVE  SInv'
<1>. USE DEF GetSimulationResult
<1>1. /\ accumulator'.measurements = accumulator.measurements
      /\ accumulator'.bit_measurements = accumulator.bit_measurements
      /\ accumulator'.shots_done = accumulator.shots_done
  OBVIOUS
<1>2. TypeOK'
  BY DEF SInv, StateTypes, TypeOK, vars
<1>3. StateTypes'
  BY <1>1, <1>2 DEF SInv, StateTypes
<1>4. ShotCounts'
  BY <1>1 DEF SInv, ShotCounts
<1>5. CircuitIsPlaced'
  BY CircuitIsKept DEF SInv
<1>6. QED
  BY <1>3, <1>4, <1>5 DEF SInv, IsList, RegistersTellDone

LEMMA SInvStep ==
  ASSUME SInv, [SimulationNext]_simulation_vars
  PROVE  SInv'
<1>1. CASE StartIteration
  BY <1>1, StartStep
<1>2. CASE Accumulate
  BY <1>2, AccumulateStep
<1>3. CASE Abort
  BY <1>3, CircuitIsKept DEF Abort, SInv, StateTypes, TypeOK, vars, IsList, ShotCounts, RegistersTellDone
<1>4. CASE GetSimulationResult
  BY <1>4, ResultStep
<1>5. CASE ExecuteInstruction
  BY <1>5, ExecuteStep
<1>6. CASE UNCHANGED simulation_vars
  BY <1>6, CircuitIsKept DEF simulation_vars, vars, SInv, StateTypes, TypeOK, IsList, ShotCounts,
              RegistersTellDone, Done, Measures, MoreIterations
<1>7. QED
  BY <1>1, <1>2, <1>3, <1>4, <1>5, <1>6 DEF SimulationNext, BetweenInstructions, Ended

\* The inductive invariant: what is counted of the iterations that ended, and what the
\* registers tell of the measures done in the one that runs.
THEOREM SInvCorrect == SimulationSpec => []SInv
<1>1. SimulationInit => BeforeFirstIteration /\ CircuitIsPlaced
  BY JobsArePlaced DEF SimulationInit, RunsAJob
<1>2. QED
  BY <1>1, InitSInv, SInvStep, PTL DEF SimulationSpec

LEMMA RunsAJobCorrect == SimulationSpec => []RunsAJob
<1>1. SimulationInit => RunsAJob
  BY DEF SimulationInit, RunsAJob
<1>2. RunsAJob /\ [SimulationNext]_simulation_vars => RunsAJob'
  BY DEF RunsAJob, SimulationNext, BetweenInstructions, Ended, StartIteration, Accumulate, Abort,
         GetSimulationResult, ExecuteInstruction, simulation_vars
<1>3. QED
  BY <1>1, <1>2, PTL DEF SimulationSpec

\* The variables of a simulation have the values the code gives them; in particular no
\* iteration is started beyond those asked for.
THEOREM SimulationTypeCorrect == SimulationSpec => []SimulationTypeOK
<1>1. SInv /\ RunsAJob => SimulationTypeOK
  BY DEF SInv, StateTypes, RunsAJob, SimulationTypeOK
<1>2. QED
  BY <1>1, SInvCorrect, RunsAJobCorrect, PTL

LEMMA CountsOfInvariant ==
  ASSUME SInv
  PROVE  CountsMatchShots
<1>1. DOMAIN shots = 1..Len(shots)
  BY DEF SInv, IsList
<1>2. ASSUME NEW register \in [Qubit -> BOOLEAN]
      PROVE  Cardinality({j \in DOMAIN shots : shots[j]["measured"] = register})
               = CountOf(accumulator.measurements, to_substring(register, NumberOfQubits))
  BY <1>1 DEF SInv, ShotCounts, CountsAre, EndedWith, Qubit
<1>3. ASSUME NEW register \in [Bit -> BOOLEAN]
      PROVE  Cardinality({j \in DOMAIN shots : shots[j]["bits"] = register})
               = CountOf(accumulator.bit_measurements, to_substring(register, NumberOfBits))
  BY <1>1 DEF SInv, ShotCounts, CountsAre, EndedWith, Bit
<1>4. QED
  BY <1>2, <1>3 DEF CountOf, CountsMatchShots

\* Every count is the number of iterations that ended with its register, for any
\* circuit, number of shots and sizes of the registers.
THEOREM CountsMatchShotsCorrect == SimulationSpec => []CountsMatchShots
BY CountsOfInvariant, SInvCorrect, PTL

LEMMA RegistersOfInvariant ==
  ASSUME SInv
  PROVE  RegistersTellLastMeasure
<1>. SUFFICES ASSUME IterationEnds PROVE RegistersTellLastMeasure
  BY DEF RegistersTellLastMeasure
<1>1. Done = Measures
  BY CircuitOfSimulation DEF IterationEnds, Done, Measures, SInv, StateTypes
<1>2. QED
  BY <1>1 DEF SInv, RegistersTellDone, RegistersTellLastMeasure, IterationEnds

\* When an iteration ends both registers tell the last measure into each bit and of each
\* qubit, for any circuit.
THEOREM RegistersTellLastMeasureCorrect == SimulationSpec => []RegistersTellLastMeasure
BY RegistersOfInvariant, SInvCorrect, PTL

-----------------------------------------------------------------------------
(* The totals of the counts.                                               *)

IsCounts(counts) == IsFiniteSet(DOMAIN counts) /\ ValuesIn(counts, DOMAIN counts, Int)

\* Sums of functions with equal values on a set are equal.
LEMMA IntegerSumEqual ==
  ASSUME NEW Keys, IsFiniteSet(Keys), NEW f, ValuesIn(f, Keys, Int), NEW g, \A x \in Keys : g[x] = f[x]
  PROVE  SumFunctionOnSet(g, Keys) = SumFunctionOnSet(f, Keys)
<1>. DEFINE a == [s \in SUBSET Keys |-> SumFunctionOnSet(f, s)]
            b == [s \in SUBSET Keys |-> SumFunctionOnSet(g, s)]
<1>1. ValuesIn(g, Keys, Int)
  BY DEF ValuesIn
<1>2. a[{}] = b[{}]
  BY <1>1, IntegerSums
<1>3. ASSUME NEW s \in SUBSET Keys, NEW x \in s, a[s \ {x}] = b[s \ {x}]
      PROVE  a[s] = b[s]
  <2>1. s \ {x} \in SUBSET Keys /\ x \in Keys
    OBVIOUS
  <2>2. SumFunctionOnSet(f, s) = f[x] + SumFunctionOnSet(f, s \ {x})
    BY IntegerSums
  <2>3. SumFunctionOnSet(g, s) = g[x] + SumFunctionOnSet(g, s \ {x})
    BY <1>1, IntegerSums
  <2>4. SumFunctionOnSet(f, s \ {x}) = SumFunctionOnSet(g, s \ {x})
    BY <1>3, <2>1
  <2>5. QED
    BY <2>1, <2>2, <2>3, <2>4
<1>. HIDE DEF a, b
<1>4. DecidedBelow(a, b, Keys)
  BY <1>3 DEF DecidedBelow
<1>5. a[Keys] = b[Keys]
  BY <1>2, <1>4, SubsetFunctionsAgree
<1>6. QED
  BY <1>5 DEF a, b

\* Counting one more shot adds one to the total of the counts.
LEMMA IncrementedTotal ==
  ASSUME NEW counts, IsCounts(counts), NEW s
  PROVE  /\ IsCounts(Incremented(counts, s))
         /\ Total(Incremented(counts, s)) = Total(counts) + 1
         /\ Total(counts) \in Int
<1>. DEFINE D    == DOMAIN counts
            E    == D \union {s}
            R    == D \ {s}
            more == Incremented(counts, s)
            sum(f, keys) == SumFunctionOnSet(f, keys)
<1>1. IsFiniteSet(D) /\ IsFiniteSet(E) /\ IsFiniteSet(R) /\ ValuesIn(counts, D, Int)
  BY FS_AddElement, FS_RemoveElement DEF IsCounts
<1>2. DOMAIN more = E
  BY DEF Incremented
<1>3. /\ \A t \in R : more[t] = counts[t] /\ counts[t] \in Int
      /\ more[s] = (IF s \in D THEN counts[s] ELSE 0) + 1
      /\ s \in D => counts[s] \in Int
  <2>1. \A t \in D : counts[t] \in Int
    BY <1>1 DEF ValuesIn
  <2>2. QED
    BY <2>1 DEF Incremented
<1>. HIDE DEF more
<1>4. \A t \in E : more[t] \in Int
  BY <1>3
<1>. HIDE DEF D
<1>5. ValuesIn(more, E, Int) /\ ValuesIn(counts, R, Int)
  BY <1>3, <1>4 DEF ValuesIn
<1>6. sum(more, E) = more[s] + sum(more, E \ {s})
  <2>1. E \in SUBSET E /\ s \in E
    OBVIOUS
  <2>. HIDE DEF E
  <2>2. QED
    BY <1>1, <1>5, <2>1, IntegerSums
<1>7. E \ {s} = R
  OBVIOUS
<1>8. sum(more, R) = sum(counts, R) /\ sum(counts, R) \in Int
  <2>1. R \in SUBSET R /\ \A t \in R : more[t] = counts[t]
    BY <1>3
  <2>. HIDE DEF R
  <2>2. sum(more, R) = sum(counts, R)
    BY <1>1, <1>5, <2>1, IntegerSumEqual
  <2>3. sum(counts, R) \in Int
    BY <1>1, <1>5, <2>1, IntegerSums
  <2>4. QED
    BY <2>2, <2>3
<1>9. CASE s \in D
  <2>1. D \in SUBSET D
    OBVIOUS
  <2>2. sum(counts, D) = counts[s] + sum(counts, D \ {s})
    BY <1>1, <1>9, <2>1, IntegerSums
  <2>3. QED
    BY <1>1, <1>2, <1>3, <1>5, <1>6, <1>7, <1>8, <1>9, <2>2 DEF Total, SumFunction, IsCounts, D, more
<1>10. CASE s \notin D
  <2>1. R = D
    BY <1>10
  <2>2. QED
    BY <1>1, <1>2, <1>3, <1>5, <1>6, <1>7, <1>8, <1>10, <2>1 DEF Total, SumFunction, IsCounts, D, more
<1>11. QED
  BY <1>9, <1>10

Totals ==
  /\ IsCounts(accumulator.measurements)
  /\ Total(accumulator.measurements) = accumulator.shots_done
  /\ IsCounts(accumulator.bit_measurements)
  /\ Total(accumulator.bit_measurements) = accumulator.shots_done

TInv == Totals /\ ResultIsComplete

LEMMA InitTotals ==
  ASSUME BeforeFirstIteration
  PROVE  TInv
<1>1. DOMAIN NoCounts = {} /\ IsFiniteSet({}) /\ ValuesIn(NoCounts, {}, Int)
  BY FS_EmptySet DEF NoCounts, ValuesIn
<1>2. SumFunctionOnSet(NoCounts, {}) = 0
  BY <1>1, IntegerSums
<1>3. IsCounts(NoCounts) /\ Total(NoCounts) = 0
  BY <1>1, <1>2 DEF IsCounts, Total, SumFunction
<1>4. accumulator.measurements = NoCounts /\ accumulator.bit_measurements = NoCounts
      /\ accumulator.shots_done = 0 /\ phase = "between"
  BY DEF BeforeFirstIteration, EmptyAccumulator
<1>5. QED
  BY <1>3, <1>4 DEF TInv, Totals, ResultIsComplete

LEMMA TotalsStep ==
  ASSUME SInv, TInv, [SimulationNext]_simulation_vars
  PROVE  TInv'
<1>1. CASE Accumulate
  <2>. DEFINE qubits == to_substring(measurement_register, NumberOfQubits)
              bits   == to_substring(bit_measurement_register, NumberOfBits)
  <2>1. /\ accumulator'.measurements = Incremented(accumulator.measurements, qubits)
        /\ accumulator'.bit_measurements = Incremented(accumulator.bit_measurements, bits)
        /\ accumulator'.shots_done = accumulator.shots_done + 1
        /\ phase' = "between"
    BY <1>1 DEF Accumulate
  <2>. HIDE DEF qubits, bits
  <2>2. /\ IsCounts(accumulator'.measurements)
        /\ Total(accumulator'.measurements) = accumulator.shots_done + 1
    BY <2>1, IncrementedTotal DEF TInv, Totals
  <2>3. /\ IsCounts(accumulator'.bit_measurements)
        /\ Total(accumulator'.bit_measurements) = accumulator.shots_done + 1
    BY <2>1, IncrementedTotal DEF TInv, Totals
  <2>4. Totals'
    BY <2>1, <2>2, <2>3 DEF Totals, IsCounts, ValuesIn, Total
  <2>5. QED
    BY <2>1, <2>4 DEF TInv, ResultIsComplete
<1>2. CASE GetSimulationResult
  <2>1. /\ accumulator'.measurements = accumulator.measurements
        /\ accumulator'.bit_measurements = accumulator.bit_measurements
        /\ accumulator'.shots_done = accumulator.shots_done
        /\ accumulator.shots_done = shots_requested
        /\ result'.shots_requested = shots_requested
        /\ result'.shots_done = accumulator.shots_done
        /\ result'.measurements = accumulator.measurements
        /\ result'.bit_measurements = accumulator.bit_measurements
    BY <1>2 DEF GetSimulationResult
  <2>2. Totals'
    BY <2>1 DEF TInv, Totals, IsCounts, ValuesIn, Total
  <2>3. ResultIsComplete'
    BY <2>1 DEF TInv, Totals, ResultIsComplete, Total
  <2>4. QED
    BY <2>2, <2>3 DEF TInv
<1>3. CASE StartIteration \/ ExecuteInstruction \/ Abort
  <2>1. accumulator' = accumulator /\ phase' # "finished"
    BY <1>3 DEF StartIteration, ExecuteInstruction, AdvanceToNext, Abort
  <2>2. QED
    BY <2>1 DEF TInv, Totals, ResultIsComplete, IsCounts, ValuesIn, Total
<1>4. CASE UNCHANGED simulation_vars
  BY <1>4 DEF simulation_vars, TInv, Totals, ResultIsComplete, IsCounts, ValuesIn, Total
<1>5. QED
  BY <1>1, <1>2, <1>3, <1>4 DEF SimulationNext, BetweenInstructions, Ended

\* A result accounts for every shot, in both registers, for any circuit and number of
\* shots: each iteration adds one to the total of the counts, whether the key is new to
\* the map or not.
THEOREM ResultIsCompleteCorrect == SimulationSpec => []ResultIsComplete
<1>1. TInv => ResultIsComplete
  BY DEF TInv
<1>2. SimulationInit => BeforeFirstIteration
  BY DEF SimulationInit
<1>3. QED
  BY <1>1, <1>2, InitTotals, TotalsStep, SInvCorrect, PTL DEF SimulationSpec

-----------------------------------------------------------------------------
(* Iterations with the same outcomes end in the same state.                *)

NewState == [data |-> [v \in {GroundState} |-> Root2Power(Scale)], zero_counter |-> 0]

\* What a measure with that outcome makes of the state.
Collapsed(array, q, measured) ==
  LET cleaned == clean_up_zeros(array)
  IN  update_data_after_measurement(cleaned, q, measured, probability_of_measuring_one(cleaned, q))

\* What an instruction makes of the state, if its outcome is the one that the register
\* tells, and the states that the first instructions of a circuit make one after the other.
After(i, array, register) ==
  IF i.kind = "Unitary" THEN apply_linear(array, MatrixOf(i.gate), i.operands)
  ELSE IF i.kind = "Measure" THEN Collapsed(array, i.qubit, register[i.qubit])
  ELSE update_data_after_reset(array, i.qubit)

IsRun(circuit, states, register, n) ==
  /\ states[1] = NewState
  /\ \A j \in 1..(n - 1) : states[j + 1] = After(circuit[j], states[j], register)

LEMMA RunsAgree ==
  ASSUME NEW circuit, NEW register, NEW n \in Nat \ {0}, NEW a, NEW b,
         IsRun(circuit, a, register, n), IsRun(circuit, b, register, n)
  PROVE  a[n] = b[n]
<1>. DEFINE Good == {j \in Nat : j + 1 <= n => a[j + 1] = b[j + 1]}
<1>1. 0 \in Good
  BY DEF IsRun
<1>2. ASSUME NEW j \in Good
      PROVE  j + 1 \in Good
  <2>. SUFFICES ASSUME (j + 1) + 1 <= n
                PROVE  a[(j + 1) + 1] = b[(j + 1) + 1]
    OBVIOUS
  <2>1. j + 1 \in 1..(n - 1) /\ j + 1 <= n
    OBVIOUS
  <2>2. a[j + 1] = b[j + 1]
    BY <2>1
  <2>3. QED
    BY <2>1, <2>2 DEF IsRun
<1>3. Good = Nat
  <2>1. Good \in SUBSET Nat
    OBVIOUS
  <2>. HIDE DEF Good
  <2>2. QED
    BY <1>1, <1>2, <2>1, Induction
<1>4. a[(n - 1) + 1] = b[(n - 1) + 1]
  <2>1. n - 1 \in Nat /\ (n - 1) + 1 <= n
    OBVIOUS
  <2>2. n - 1 \in Good
    BY <1>3, <2>1
  <2>3. QED
    BY <2>1, <2>2
<1>5. (n - 1) + 1 = n
  OBVIOUS
<1>6. QED
  BY <1>4, <1>5

\* A run only depends on the outcomes of its own measures.
LEMMA RunWithOutcomes ==
  ASSUME NEW circuit, NEW st, NEW n, NEW r, NEW s, IsRun(circuit, st, r, n),
         \A j \in 1..(n - 1) : circuit[j].kind = "Measure" => r[circuit[j].qubit] = s[circuit[j].qubit]
  PROVE  IsRun(circuit, st, s, n)
<1>1. ASSUME NEW j \in 1..(n - 1)
      PROVE  After(circuit[j], st[j], r) = After(circuit[j], st[j], s)
  BY DEF After
<1>2. QED
  BY <1>1 DEF IsRun

EachIsMeasuredOnce ==
  \A j, k \in Measures : instructions[j].qubit = instructions[k].qubit => j = k

EndsIn(circuit, shot) ==
  \E st : /\ IsRun(circuit, st, shot.measured, Len(circuit) + 1)
          /\ shot.data = clean_up_zeros(st[Len(circuit) + 1]).data

\* The state of the iteration that runs, and what each iteration ended with.
IterationsAreRuns == EachIsMeasuredOnce =>
  /\ phase = "executing" =>
       \E st : IsRun(instructions, st, measurement_register, pc) /\ st[pc] = state
  /\ \A k \in 1..Len(shots) : EndsIn(instructions, shots[k])

\* The outcome of an instruction is what the register tells then.
LEMMA ExecuteIsAfter ==
  ASSUME SInv, ExecuteInstruction
  PROVE  /\ state' = After(instructions[pc], state, measurement_register')
         /\ \A q : ~(instructions[pc].kind = "Measure" /\ q = instructions[pc].qubit)
                     => measurement_register'[q] = measurement_register[q]
<1>. DEFINE i == instructions[pc]
<1>1. Execute(i) /\ IsPlaced(i) /\ measurement_register \in [Qubit -> BOOLEAN]
  BY CircuitOfSimulation
     DEF ExecuteInstruction, AdvanceToNext, SInv, StateTypes, TypeOK
<1>. HIDE DEF i
<1>2. CASE i.kind = "Unitary" /\ Unitary(i.gate, i.operands)
  <2>1. measurement_register' = measurement_register
        /\ state' = apply_linear(state, MatrixOf(i.gate), i.operands)
    BY <1>2 DEF Unitary
  <2>2. QED
    BY <1>2, <2>1 DEF After, i
<1>3. ASSUME i.kind = "Measure", NEW draw \in Draws, Measure(i.qubit, i.bit, draw)
      PROVE  /\ state' = After(i, state, measurement_register')
             /\ \A q : q # i.qubit => measurement_register'[q] = measurement_register[q]
  <2>. DEFINE cleaned  == clean_up_zeros(state)
              p_one    == probability_of_measuring_one(cleaned, i.qubit)
              measured == Below(draw, DrawRange, p_one)
  <2>1. /\ state' = update_data_after_measurement(cleaned, i.qubit, measured, p_one)
        /\ measurement_register' = [measurement_register EXCEPT ![i.qubit] = measured]
    BY <1>3 DEF Measure, SetTo
  <2>2. i.qubit \in Qubit
    BY <1>1, <1>3 DEF IsPlaced
  <2>. HIDE DEF measured
  <2>3. /\ measurement_register'[i.qubit] = measured
        /\ \A q : q # i.qubit => measurement_register'[q] = measurement_register[q]
    BY <1>1, <2>1, <2>2
  <2>4. state' = Collapsed(state, i.qubit, measurement_register'[i.qubit])
    BY <2>1, <2>3 DEF Collapsed
  <2>5. After(i, state, measurement_register') = Collapsed(state, i.qubit, measurement_register'[i.qubit])
    BY <1>3 DEF After
  <2>6. QED
    BY <2>3, <2>4, <2>5
<1>4. CASE i.kind = "Reset" /\ Reset(i.qubit)
  <2>1. measurement_register' = measurement_register
        /\ state' = update_data_after_reset(state, i.qubit)
    BY <1>4 DEF Reset
  <2>2. QED
    BY <1>4, <2>1 DEF After, i
<1>5. QED
  BY <1>1, <1>2, <1>3, <1>4 DEF Execute, i

LEMMA RunsStep ==
  ASSUME SInv, IterationsAreRuns, [SimulationNext]_simulation_vars
  PROVE  IterationsAreRuns'
<1>. DEFINE c == instructions
            r == measurement_register
            n == Len(instructions) + 1
<1>1. c' = c
  BY DEF SimulationNext, BetweenInstructions, Ended, StartIteration, Accumulate, Abort,
         GetSimulationResult, ExecuteInstruction, simulation_vars
<1>. SUFFICES ASSUME EachIsMeasuredOnce
              PROVE  /\ phase' = "executing" => \E st : IsRun(c, st, r', pc') /\ st[pc'] = state'
                     /\ \A k \in 1..Len(shots') : EndsIn(c, shots'[k])
  BY <1>1 DEF IterationsAreRuns, EachIsMeasuredOnce, Measures
<1>2. /\ phase = "executing" => \E st : IsRun(c, st, r, pc) /\ st[pc] = state
      /\ \A k \in 1..Len(shots) : EndsIn(c, shots[k])
  BY DEF IterationsAreRuns
<1>3. n \in Nat \ {0} /\ pc \in 0..n /\ (phase = "executing" => pc > 0)
  BY CircuitOfSimulation DEF SInv, StateTypes
<1>. HIDE DEF n
<1>4. CASE StartIteration
  <2>1. pc' = 1 /\ state' = NewState /\ shots' = shots
    BY <1>4 DEF StartIteration, NewContext, NewState
  <2>2. IsRun(c, [j \in {1} |-> NewState], r', 1)
    BY DEF IsRun
  <2>3. QED
    BY <1>2, <2>1, <2>2
<1>5. CASE ExecuteInstruction
  <2>1. /\ phase = "executing" /\ shots' = shots /\ pc' = pc + 1
        /\ pc \in 1..Len(instructions)
    BY <1>3, <1>5, CircuitOfSimulation DEF ExecuteInstruction, AdvanceToNext, Advance, n
  <2>2. state' = After(c[pc], state, r')
    BY <1>5, ExecuteIsAfter
  <2>3. PICK st : IsRun(c, st, r, pc) /\ st[pc] = state
    BY <1>2, <2>1
  <2>4. IsRun(c, st, r', pc)
    <3>1. ASSUME NEW j \in 1..(pc - 1), c[j].kind = "Measure"
          PROVE  r[c[j].qubit] = r'[c[j].qubit]
      <4>1. j \in DOMAIN c /\ pc \in DOMAIN c /\ j # pc
        BY <2>1, CircuitOfSimulation
      <4>2. ~(c[pc].kind = "Measure" /\ c[j].qubit = c[pc].qubit)
        BY <3>1, <4>1 DEF EachIsMeasuredOnce, Measures
      <4>3. QED
        BY <1>5, <4>2, ExecuteIsAfter
    <3>2. QED
      BY <2>3, <3>1, RunWithOutcomes
  <2>. DEFINE next == [j \in 1..(pc + 1) |-> IF j = pc + 1 THEN state' ELSE st[j]]
  <2>5. /\ next[pc + 1] = state' /\ \A j \in 1..pc : next[j] = st[j]
        /\ pc \in Nat \ {0}
    BY <2>1, <1>3
  <2>. HIDE DEF next
  <2>6. IsRun(c, next, r', pc + 1)
    <3>1. next[1] = NewState
      BY <2>4, <2>5 DEF IsRun
    <3>2. ASSUME NEW j \in 1..((pc + 1) - 1)
          PROVE  next[j + 1] = After(c[j], next[j], r')
      <4>1. CASE j = pc
        BY <2>2, <2>3, <2>5, <4>1
      <4>2. CASE j # pc
        <5>1. j \in 1..(pc - 1) /\ j + 1 \in 1..pc /\ j \in 1..pc
          BY <2>5, <4>2
        <5>2. QED
          BY <2>4, <2>5, <5>1 DEF IsRun
      <4>3. QED
        BY <4>1, <4>2
    <3>3. QED
      BY <3>1, <3>2 DEF IsRun
  <2>7. QED
    BY <1>2, <2>1, <2>5, <2>6
<1>6. CASE Accumulate
  <2>. DEFINE e == [measured |-> measurement_register, bits |-> bit_measurement_register,
                    data |-> clean_up_zeros(state).data]
  <2>1. /\ phase = "executing" /\ pc > Len(instructions) /\ phase' = "between"
        /\ shots' = Append(shots, e)
    BY <1>6 DEF Accumulate, IterationEnds
  <2>2. pc = n
    BY <1>3, <2>1, CircuitOfSimulation DEF n
  <2>3. PICK st : IsRun(c, st, r, n) /\ st[n] = state
    BY <1>2, <2>1, <2>2
  <2>4. e.data = clean_up_zeros(state).data /\ e.measured = r
    OBVIOUS
  <2>. HIDE DEF e
  <2>5. EndsIn(c, e)
    BY <2>3, <2>4 DEF EndsIn, n
  <2>6. /\ Len(shots') = Len(shots) + 1 /\ shots'[Len(shots) + 1] = e /\ Len(shots) \in Nat
        /\ \A j \in 1..Len(shots) : shots'[j] = shots[j]
    BY <2>1, AppendToList DEF SInv, IsList
  <2>7. ASSUME NEW k \in 1..Len(shots')
        PROVE  EndsIn(c, shots'[k])
    <3>1. k = Len(shots) + 1 \/ k \in 1..Len(shots)
      BY <2>6
    <3>2. QED
      BY <1>2, <2>5, <2>6, <3>1
  <2>8. QED
    BY <2>1, <2>7
<1>7. CASE Abort \/ GetSimulationResult
  BY <1>2, <1>7 DEF Abort, GetSimulationResult
<1>8. CASE UNCHANGED simulation_vars
  BY <1>2, <1>8 DEF simulation_vars, vars
<1>9. QED
  BY <1>4, <1>5, <1>6, <1>7, <1>8 DEF SimulationNext, BetweenInstructions, Ended

LEMMA InitRuns ==
  ASSUME BeforeFirstIteration
  PROVE  IterationsAreRuns
BY DEF BeforeFirstIteration, IterationsAreRuns

LEMMA IndependenceOfInvariant ==
  ASSUME SInv, IterationsAreRuns
  PROVE  IterationsAreIndependent
<1>. SUFFICES ASSUME OutcomesAreInRegister, NEW j \in DOMAIN shots, NEW k \in DOMAIN shots,
                     shots[j].measured = shots[k].measured
              PROVE  shots[j].data = shots[k].data
  BY DEF IterationsAreIndependent
<1>. DEFINE n == Len(instructions) + 1
            r == shots[j].measured
<1>1. n \in Nat \ {0} /\ j \in 1..Len(shots) /\ k \in 1..Len(shots)
  BY CircuitOfSimulation DEF SInv, IsList
<1>2. EndsIn(instructions, shots[j]) /\ EndsIn(instructions, shots[k])
  BY <1>1 DEF IterationsAreRuns, OutcomesAreInRegister, EachIsMeasuredOnce
<1>3. PICK a : IsRun(instructions, a, r, n) /\ shots[j].data = clean_up_zeros(a[n]).data
  BY <1>2 DEF EndsIn
<1>4. PICK b : IsRun(instructions, b, r, n) /\ shots[k].data = clean_up_zeros(b[n]).data
  BY <1>2 DEF EndsIn
<1>5. a[n] = b[n]
  BY <1>1, <1>3, <1>4, RunsAgree
<1>6. QED
  BY <1>3, <1>4, <1>5

\* Iterations with the same outcomes end in the same state, for any circuit of gates and
\* measures that measures no qubit twice and any number of shots: each starts from the ground state, and the
\* outcomes determine the states that the instructions make one after the other.
THEOREM IterationsAreIndependentCorrect == SimulationSpec => []IterationsAreIndependent
<1>1. SimulationInit => BeforeFirstIteration
  BY DEF SimulationInit
<1>2. SInv /\ IterationsAreRuns /\ [SimulationNext]_simulation_vars => IterationsAreRuns'
  BY RunsStep
<1>3. QED
  BY <1>1, <1>2, InitRuns, IndependenceOfInvariant, SInvCorrect, PTL DEF SimulationSpec

-----------------------------------------------------------------------------
(* The state of the result.                                                *)

\* The entries of a map, by the state strings of their basis vectors.
Strings(vectors) == {to_substring(v, NumberOfQubits) : v \in vectors}

ByString(data) ==
  [s \in {to_substring(v, NumberOfQubits) : v \in DOMAIN data} |->
     data[CHOOSE v \in DOMAIN data : to_substring(v, NumberOfQubits) = s]]

\* Each entry is found under its own string and none is lost.
LEMMA StringsOfState ==
  ASSUME NEW array, IsSparse(array)
  PROVE  LET r == ByString(array.data)
         IN  /\ SumOf(NoWeight, [s \in DOMAIN r |-> Norm(r[s])]) = norm(array)
             /\ DOMAIN r = Strings(DOMAIN array.data)
             /\ \A v \in DOMAIN array.data : r[to_substring(v, NumberOfQubits)] = array.data[v]
<1>. DEFINE data    == array.data
            D       == DOMAIN data
            str(v)  == to_substring(v, NumberOfQubits)
            Images  == Strings(D)
            r       == ByString(data)
            f       == [v \in D |-> Norm(data[v])]
            g       == [s \in Images |-> Norm(r[s])]
            b       == [v \in D |-> str(v)]
<1>1. D \in SUBSET BasisVector /\ IsFiniteSet(D) /\ \A v \in D : data[v] \in Ring
  <2>1. D \subseteq BasisVector /\ \A v \in D : data[v] \in Ring
    BY DEF IsSparse, ValuesIn
  <2>2. IsFiniteSet(D)
    BY <2>1, BasisVectorsFinite, FS_Subset
  <2>3. QED
    BY <2>1, <2>2
<1>2. \A v, w \in D : str(v) = str(w) => v = w
  <2>. SUFFICES ASSUME NEW v \in D, NEW w \in D, str(v) = str(w)
                PROVE  v = w
    OBVIOUS
  <2>1. /\ v \in [0..(NumberOfQubits - 1) -> BOOLEAN]
        /\ w \in [0..(NumberOfQubits - 1) -> BOOLEAN]
    BY <1>1 DEF BasisVector, Qubit
  <2>2. QED
    BY <2>1, QubitsAssumption, StringsAreInjective
<1>. HIDE DEF data, str
<1>3. /\ DOMAIN r = Images
      /\ \A v \in D : r[str(v)] = data[v]
  <2>1. r = [s \in Images |-> data[CHOOSE v \in D : str(v) = s]]
    BY DEF ByString, Strings, str
  <2>2. ASSUME NEW v \in D
        PROVE  r[str(v)] = data[v]
    <3>1. (CHOOSE u \in D : str(u) = str(v)) = v
      BY <1>2
    <3>2. str(v) \in Images
      BY DEF Strings, str
    <3>. HIDE DEF Images
    <3>3. QED
      BY <2>1, <3>1, <3>2
  <2>3. QED
    BY <2>1, <2>2
<1>. HIDE DEF r
<1>4. b \in Bijection(D, Images)
  BY <1>2 DEF Strings, str, Bijection, Injection, Surjection, IsInjective
<1>5. ValuesIn(g, Images, Weight)
  BY <1>1, <1>3, NormIsSquare DEF ValuesIn, Strings, str
<1>6. \A v \in D : f[v] = g[b[v]]
  <2>1. \A v \in D : str(v) \in Images
    BY DEF Strings, str
  <2>. HIDE DEF Images
  <2>2. QED
    BY <1>3, <2>1
<1>7. SumOver(NoWeight, f, D) = SumOver(NoWeight, g, Images)
  <2>. HIDE DEF f, g, b, Images, D
  <2>1. QED
    BY <1>1, <1>4, <1>5, <1>6, Spaces, SumReindexed
<1>8. SumOf(NoWeight, f) = norm(array)
  BY DEF norm, data
<1>9. SumOf(NoWeight, f) = SumOver(NoWeight, f, D) /\ SumOf(NoWeight, g) = SumOver(NoWeight, g, Images)
  BY SumOfIsSum
<1>10. SumOf(NoWeight, [s \in DOMAIN r |-> Norm(r[s])]) = norm(array)
  BY <1>3, <1>7, <1>8, <1>9
<1>11. QED
  BY <1>3, <1>10 DEF r, data, str

\* A digit of a string is the bit it was made from.
LEMMA DigitOfString ==
  ASSUME NEW n \in Nat, NEW v \in [0..(n - 1) -> BOOLEAN], NEW q \in 0..(n - 1)
  PROVE  (ValueAt(to_substring(v, n), q) = 1) <=> v[q]
<1>1. Len(to_substring(v, n)) = n
  BY DEF to_substring
<1>2. n - q \in 1..n /\ n - (n - q) = q
  OBVIOUS
<1>3. to_substring(v, n)[n - q] = IF v[q] THEN 1 ELSE 0
  BY <1>2 DEF to_substring
<1>4. QED
  BY <1>1, <1>3 DEF ValueAt

\* Between two iterations the accumulator and the history hold the last one.
LastShot ==
  phase = "between" /\ accumulator.shots_done > 0 =>
    /\ accumulator.state = state
    /\ shots[Len(shots)].measured = measurement_register
    /\ shots[Len(shots)].data = clean_up_zeros(state).data

\* The gates of a circuit are on distinct qubits and unitary.
CircuitIsIsometric == \A j \in 1..Len(instructions) : IsIsometry(instructions[j])

ResultInv == SettledAgree /\ NormInv /\ LastShot /\ ResultIsTheLastState

LEMMA ResultOfLastShot ==
  ASSUME SInv, SettledAgree, NormInv, LastShot, GetSimulationResult
  PROVE  ResultIsTheLastState'
<1>. DEFINE cleaned == clean_up_zeros(state)
<1>1. /\ phase = "between" /\ accumulator.shots_done = shots_requested
      /\ result'.state = ByString(clean_up_zeros(accumulator.state).data)
      /\ settled' = settled /\ shots' = shots
  BY DEF GetSimulationResult, ByString, vars
<1>2. /\ accumulator.state = state /\ shots[Len(shots)].measured = measurement_register
      /\ shots[Len(shots)].data = cleaned.data
  BY <1>1, CircuitOfSimulation DEF LastShot
<1>3. /\ IsSparse(cleaned) /\ norm(cleaned) = Unity
      /\ \A v \in DOMAIN cleaned.data : v \in DOMAIN state.data /\ cleaned.data[v] # Null
  <2>1. IsSparse(state) /\ norm(state) = Unity
    BY DEF NormInv, Normalized
  <2>2. /\ \A v : Amplitude(cleaned, v) = Amplitude(state, v)
        /\ \A v : v \in DOMAIN cleaned.data <=> v \in DOMAIN state.data /\ state.data[v] # Null
        /\ IsSparse(cleaned) /\ norm(cleaned) = Unity
    BY <2>1, CleanUpKeepsAmplitudes
  <2>. HIDE DEF cleaned
  <2>3. QED
    BY <2>2 DEF Amplitude
<1>. HIDE DEF cleaned
<1>. DEFINE r == ByString(cleaned.data)
<1>4. /\ SumOf(NoWeight, [s \in DOMAIN r |-> Norm(r[s])]) = Unity
      /\ DOMAIN r = Strings(DOMAIN cleaned.data)
      /\ \A v \in DOMAIN cleaned.data : r[to_substring(v, NumberOfQubits)] = cleaned.data[v]
  BY <1>3, StringsOfState
<1>. HIDE DEF r
<1>5. result'.state = r
  BY <1>1, <1>2 DEF r, cleaned
<1>6. ASSUME NEW s \in DOMAIN r
      PROVE  /\ r[s] # Null
             /\ \A q \in settled : (ValueAt(s, q) = 1) = measurement_register[q]
  <2>1. PICK v \in DOMAIN cleaned.data :
               s = to_substring(v, NumberOfQubits) /\ r[s] = cleaned.data[v]
    BY <1>4 DEF Strings
  <2>2. v \in [0..(NumberOfQubits - 1) -> BOOLEAN] /\ v \in DOMAIN state.data
    BY <1>3 DEF SInv, StateTypes, TypeOK, BasisVector, Qubit
  <2>3. ASSUME NEW q \in settled
        PROVE  (ValueAt(s, q) = 1) = measurement_register[q]
    <3>1. q \in 0..(NumberOfQubits - 1) /\ q \in Qubit /\ NumberOfQubits \in Nat
      BY QubitsAssumption DEF SInv, StateTypes, TypeOK, Qubit
    <3>2. (ValueAt(s, q) = 1) <=> v[q]
      BY <2>1, <2>2, <3>1, DigitOfString
    <3>3. v[q] = measurement_register[q] /\ measurement_register[q] \in BOOLEAN
      BY <2>2, <3>1 DEF SettledAgree, SInv, StateTypes, TypeOK
    <3>4. QED
      BY <3>2, <3>3
  <2>4. QED
    BY <1>3, <2>1, <2>3
<1>7. shots'[Len(shots')].measured = measurement_register /\ shots'[Len(shots')].data = cleaned.data
  BY <1>1, <1>2
<1>8. /\ DOMAIN r = {to_substring(v, NumberOfQubits) : v \in DOMAIN cleaned.data}
      /\ \A v \in DOMAIN cleaned.data : r[to_substring(v, NumberOfQubits)] = cleaned.data[v]
  BY <1>4 DEF Strings
<1>9. QED
  BY <1>1, <1>4, <1>5, <1>6, <1>7, <1>8 DEF ResultIsTheLastState

LEMMA ResultInvStep ==
  ASSUME DrawRange \notin Draws, SInv, CircuitIsIsometric, ResultInv, [SimulationNext]_simulation_vars
  PROVE  ResultInv'
<1>. USE DEF ResultInv
<1>1. CASE StartIteration
  <2>1. state'.data = [v \in {GroundState} |-> Root2Power(Scale)]
        /\ settled' = {} /\ phase' = "executing"
    BY <1>1 DEF StartIteration, NewContext
  <2>2. IsSparse(state') /\ norm(state') = Unity
    BY <2>1, GroundStateNorm
  <2>3. NormInv'
    BY <2>2 DEF NormInv, Normalized, IsSparse, norm
  <2>4. QED
    BY <2>1, <2>3 DEF SettledAgree, LastShot, ResultIsTheLastState
<1>2. CASE ExecuteInstruction
  <2>1. /\ pc \in 1..Len(instructions) /\ Len(instructions) \in Nat
        /\ phase' = "executing" /\ Execute(instructions[pc])
    BY <1>2, CircuitOfSimulation
       DEF ExecuteInstruction, AdvanceToNext, SInv, StateTypes
  <2>2. IsPlaced(instructions[pc]) /\ IsIsometry(instructions[pc])
    BY <2>1, CircuitOfSimulation DEF CircuitIsIsometric
  <2>3. TypeOK
    BY DEF SInv, StateTypes
  <2>4. SettledAgree' /\ NormInv'
    BY <2>1, <2>2, <2>3, ExecuteKeepsAgreement, ExecuteKeepsNorm
  <2>5. QED
    BY <2>1, <2>4 DEF LastShot, ResultIsTheLastState
<1>3. CASE Accumulate
  <2>. DEFINE e == [measured |-> measurement_register, bits |-> bit_measurement_register,
                    data |-> clean_up_zeros(state).data]
  <2>1. /\ phase' = "between" /\ vars' = vars
        /\ accumulator'.state = state /\ shots' = Append(shots, e)
    BY <1>3 DEF Accumulate, LastState
  <2>2. e.measured = measurement_register /\ e.data = clean_up_zeros(state).data
    OBVIOUS
  <2>. HIDE DEF e
  <2>3. Len(shots') = Len(shots) + 1 /\ shots'[Len(shots) + 1] = e
    BY <2>1, AppendToList DEF SInv
  <2>4. SettledAgree' /\ NormInv'
    BY <2>1 DEF vars, SettledAgree, NormInv, Normalized
  <2>5. LastShot'
    BY <2>1, <2>2, <2>3 DEF LastShot, vars
  <2>6. QED
    BY <2>1, <2>4, <2>5 DEF ResultIsTheLastState
<1>4. CASE GetSimulationResult
  <2>1. vars' = vars /\ phase' = "finished"
    BY <1>4 DEF GetSimulationResult
  <2>2. SettledAgree' /\ NormInv'
    BY <2>1 DEF vars, SettledAgree, NormInv, Normalized
  <2>3. QED
    BY <1>4, <2>1, <2>2, ResultOfLastShot DEF LastShot
<1>5. CASE Abort
  <2>1. vars' = vars /\ phase' = "aborted"
    BY <1>5 DEF Abort
  <2>2. QED
    BY <2>1 DEF vars, SettledAgree, NormInv, Normalized, LastShot, ResultIsTheLastState
<1>6. CASE UNCHANGED simulation_vars
  <2>1. /\ state' = state /\ measurement_register' = measurement_register /\ settled' = settled
        /\ phase' = phase /\ accumulator' = accumulator /\ shots' = shots /\ result' = result
    BY <1>6 DEF simulation_vars, vars
  <2>2. ResultIsTheLastState'
    BY <2>1 DEF ResultIsTheLastState
  <2>3. QED
    BY <2>1, <2>2 DEF SettledAgree, NormInv, Normalized, LastShot
<1>7. QED
  BY <1>1, <1>2, <1>3, <1>4, <1>5, <1>6 DEF SimulationNext, BetweenInstructions, Ended

LEMMA InitResultInv ==
  ASSUME BeforeFirstIteration
  PROVE  ResultInv
<1>1. /\ state.data = [v \in {GroundState} |-> Root2Power(Scale)] /\ settled = {}
      /\ accumulator.shots_done = 0 /\ phase = "between"
  BY DEF BeforeFirstIteration, Init, EmptyAccumulator
<1>2. NormInv
  BY <1>1, InitNorm
<1>3. QED
  BY <1>1, <1>2 DEF ResultInv, SettledAgree, LastShot, ResultIsTheLastState

LEMMA ResultInvCorrect ==
  ASSUME DrawRange \notin Draws
  PROVE  SimulationSpec => []ResultInv
<1>1. SimulationInit => ResultInv
  BY InitResultInv DEF SimulationInit
<1>2. RunsAJob => CircuitIsIsometric
  BY JobsArePlaced, InstructionIsIsometry DEF CircuitIsIsometric
<1>3. SInv /\ RunsAJob /\ ResultInv /\ [SimulationNext]_simulation_vars => ResultInv'
  BY <1>2, ResultInvStep
<1>4. QED
  BY <1>1, <1>3, SInvCorrect, RunsAJobCorrect, PTL DEF SimulationSpec

\* The state of a result is the last iteration's, for any circuit, number of shots and
\* size of the register, if no draw is exactly 1: it is normalized, it has no null entry,
\* two entries never share a state string, and what each string says of a settled qubit
\* is what that iteration measured.
THEOREM ResultIsTheLastStateCorrect ==
  ASSUME DrawRange \notin Draws
  PROVE  SimulationSpec => []ResultIsTheLastState
<1>1. ResultInv => ResultIsTheLastState
  BY DEF ResultInv
<1>2. QED
  BY <1>1, ResultInvCorrect, PTL

-----------------------------------------------------------------------------
(* What each instruction does.                                             *)

\* Each instruction does what IdealContext says of its name and operands.
LEMMA InstructionIsIdeal ==
  ASSUME DrawRange \notin Draws, \A g \in Gates : IsPlainGate(g),
         NormInv, [Next]_vars, measurement_register \in [Qubit -> BOOLEAN],
         NEW i, IsInstruction(i), Execute(i)
  PROVE  /\ i.kind = "Unitary" => Ideal!Unitary(i.gate, i.operands)
         /\ i.kind = "Measure" => Ideal!Measure(i.qubit, i.bit, measurement_register'[i.qubit])
         /\ i.kind = "Reset"   => Ideal!Reset(i.qubit)
<1>1. NormInv'
  BY NormStep
<1>2. ASSUME NEW g \in Gates, NEW operands \in OperandLists(g), i = ApplyGate(g, operands)
      PROVE  i.kind = "Unitary" /\ Ideal!Unitary(i.gate, i.operands)
  <2>1. i.kind = "Unitary" /\ i.gate = g /\ i.operands = operands
    BY <1>2 DEF ApplyGate
  <2>2. Unitary(g, operands)
    BY <2>1 DEF Execute
  <2>3. Ideal!Unitary(g, operands)
    BY <1>1, <2>2, IdealUnitary
  <2>4. QED
    BY <2>1, <2>3
<1>3. ASSUME NEW q \in Qubit, NEW b \in Bit, i = MeasureInto(q, b)
      PROVE  i.kind = "Measure" /\ Ideal!Measure(i.qubit, i.bit, measurement_register'[i.qubit])
  <2>1. i.kind = "Measure" /\ i.qubit = q /\ i.bit = b
    BY <1>3 DEF MeasureInto
  <2>2. PICK draw \in Draws : Measure(q, b, draw)
    BY <2>1 DEF Execute
  <2>3. PICK measured \in BOOLEAN :
          /\ Ideal!Measure(q, b, measured)
          /\ measurement_register' = [measurement_register EXCEPT ![q] = measured]
    BY <2>2, IdealMeasurement
  <2>4. measurement_register'[q] = measured
    BY <2>3
  <2>5. QED
    BY <2>1, <2>3, <2>4
<1>4. ASSUME NEW q \in Qubit, i = ResetQubit(q)
      PROVE  i.kind = "Reset" /\ Ideal!Reset(i.qubit)
  <2>1. i.kind = "Reset" /\ i.qubit = q
    BY <1>4 DEF ResetQubit
  <2>2. Reset(q)
    BY <2>1 DEF Execute
  <2>3. QED
    BY <2>1, <2>2, IdealReset
<1>5. QED
  BY <1>2, <1>3, <1>4 DEF IsInstruction

\* In any circuit of default gates without modifiers, of any length and about any number of
\* qubits, each instruction does what its name promises of its own operands, on whatever
\* state the instructions before it left, for all draws but the one that is exactly 1.
THEOREM InstructionsAreIdealCorrect ==
  ASSUME DrawRange \notin Draws, \A g \in Gates : IsPlainGate(g)
  PROVE  SimulationSpec => InstructionsAreIdeal
<1>. DEFINE Ideally == phase = "executing" /\ phase' = "executing" =>
              LET i == instructions[pc]
              IN  CASE i.kind = "Unitary" -> Ideal!Unitary(i.gate, i.operands)
                    [] i.kind = "Measure" ->
                         Ideal!Measure(i.qubit, i.bit, measurement_register'[i.qubit])
                    [] i.kind = "Reset"   -> Ideal!Reset(i.qubit)
<1>1. SInv /\ RunsAJob /\ ResultInv /\ [SimulationNext]_simulation_vars
        => [Ideally]_simulation_vars
  <2>. SUFFICES ASSUME SInv, RunsAJob, ResultInv, SimulationNext, phase = "executing", phase' = "executing",
                       ~UNCHANGED simulation_vars
                PROVE  Ideally
    OBVIOUS
  <2>. DEFINE i == instructions[pc]
  <2>1. ExecuteInstruction
    BY DEF SimulationNext, BetweenInstructions, StartIteration, Accumulate, Abort,
           GetSimulationResult, Ended
  <2>2. IsInstruction(i) /\ Execute(i) /\ measurement_register \in [Qubit -> BOOLEAN] /\ NormInv
    <3>1. pc \in 1..Len(instructions) /\ Len(instructions) \in Nat /\ Execute(i)
      BY <2>1, CircuitOfSimulation DEF ExecuteInstruction, AdvanceToNext, SInv, StateTypes
    <3>2. measurement_register \in [Qubit -> BOOLEAN] /\ NormInv
      BY DEF SInv, StateTypes, TypeOK, ResultInv
    <3>3. QED
      BY <3>1, <3>2, JobsArePlaced
  <2>3. [Next]_vars
    BY <2>2, ExecuteIsAnOperation
  <2>4. i.kind \in {"Unitary", "Measure", "Reset"}
    BY <2>2 DEF Execute
  <2>5. /\ i.kind = "Unitary" => Ideal!Unitary(i.gate, i.operands)
        /\ i.kind = "Measure" => Ideal!Measure(i.qubit, i.bit, measurement_register'[i.qubit])
        /\ i.kind = "Reset"   => Ideal!Reset(i.qubit)
    BY <2>2, <2>3, InstructionIsIdeal
  <2>6. QED
    BY <2>4, <2>5
<1>2. QED
  BY <1>1, SInvCorrect, RunsAJobCorrect, ResultInvCorrect, PTL
     DEF SimulationSpec, InstructionsAreIdeal

=============================================================================

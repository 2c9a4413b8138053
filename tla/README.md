# QX simulator: TLA+ models, model checks and proofs

QX simulates quantum circuits written in cQASM 3. A program is parsed by an
external analyzer (libqasm), its variables are laid out in a qubit register and
a bit register, its statements become a list of instructions, and the list is
executed once per shot on a sparse map from basis vectors to complex
amplitudes. This directory holds TLA+ models of that program, the TLC
configurations that check them on small instances, and TLAPS proofs of the
properties that matter for every instance.

Paths below are relative to the repository.

## 1. Inventory

The program is sequential: one thread, no callbacks that interleave, nothing
persisted. What is hard to test is elsewhere: state vectors that are equal but
stored differently, bit orders, boundaries of random numbers and sizes, values
that are computed before an update and used after it, and state that outlives
one shot or one program.

| Component | Source | State | Operations | What makes it correct |
|---|---|---|---|---|
| Amplitudes, matrices | `dense_unitary_matrix.*`, `core.hpp` | a matrix | product, dagger, control, power, comparison | unitary stays unitary; `is_null` threshold |
| Default gates | `gates.hpp` | 22 matrices or generators | `default_gates[name](parameters)` | each matrix is the gate its name promises |
| Sparse array | `sparse_array.*` | map `data_`, `zero_counter_`, `size_` | `apply_linear`, `accumulate`, `for_each`, `erase_if`, `*=`, `[]`, `clean_up_zeros` | null entries are invisible and do not pile up |
| Quantum state | `quantum_state.*` | a sparse array | `apply`, `apply_measure`, `apply_reset`, `reset`, probabilities, norm check | norm 1; operand order; measurement and reset as in quantum mechanics |
| Instructions | `instructions.*` | operands, matrix | `execute` on a context | registers record the outcomes |
| Circuit | `circuit.*` | list of instructions | `add_instruction`, `add_error`, `execute` | a new context for each shot, every instruction once |
| Iteration context, accumulator, result | `simulation_result.*` | quantum state, two registers; two count maps, `shots_done` | `add`, `get_simulation_result` | every shot counted once; the state is the last iteration's |
| Register | `register_manager.*` | size, name to range, index to name, dirty bits | constructor, look-ups, `set_dirty` | ranges tile the register; look-ups are inverse |
| Register manager | `register_manager.*` | two shared pointers, process-wide | `create_instance`, `get_instance`, `set_dirty_*` | both registers belong to the program that runs |
| Simulator | `simulator.*` | the random generator's seed | `execute_string`, `execute_file` | a result or an error, never anything else |
| Circuit builder, operands helper | `circuit_builder.*`, `operands_helper.*` | the circuit under construction | one visit per statement | unrolling, operand order, modifiers, `init` on a used qubit |
| Random numbers | `random.*` | generator | `seed`, `random_zero_one_double`, `random_integer` | range (0, 1], equal buckets |
| Error models | `error_models.*` | probability | `add_error` | X, Y or Z with a third of the probability each |
| Command line | `qx-simulator/simulator.cpp` | arguments, file path, iterations | `main` | it simulates what its arguments say, or nothing; the exit status |
| Python module | `qxelarator.*` | none | conversion of options and results | - |
| Analyzer | libqasm (external) | - | syntax tree | - |

How they interact: `execute` (simulator.cpp:48) calls
`RegisterManager::create_instance`, then the circuit's constructor, whose
builder asks the manager for indices and marks qubits dirty through
`Circuit::add_instruction`; then, once per iteration, `Circuit::execute` makes a
context of the manager's sizes and runs the instructions on it, and the
accumulator adds it. The result copies both registers of the manager.

The hazards, each at its line, are listed in `PROJECT.json`.

## 2. Modules

| Module | Models | Depends on |
|---|---|---|
| `Amplitudes` | complex numbers, squared magnitudes, square roots, comparison with a random number | - |
| `Gates` | `DenseUnitaryMatrix`, the default gate set | `Amplitudes` |
| `SparseState` | the sparse map and the operations of `QuantumState`, as operators; the loop of a gate over entries and rows | `Gates` |
| `Instructions` | the instructions, their qubits, and the matrix of a gate with modifiers | `Gates` |
| `IterationContext` | one `SimulationIterationContext` as a state machine, every operation in any order | `SparseState`, `Instructions` |
| `IdealContext` | what a context promises, without a representation: the abstract specification | `Amplitudes` |
| `RandomNumbers` | `random_zero_one_double` and `random_integer`, as functions of a word of the generator | - |
| `NoisyCircuit` | `Circuit::execute` with the depolarizing channel | `IterationContext`, `RandomNumbers` |
| `Simulation` | the shots of a simulation: circuit, accumulator, result, assertions | `IterationContext` |
| `Register` | the constructor of `Register`, one action per loop iteration, and the look-ups | - |
| `RegisterManager` | the two registers over the programs of one process | - |
| `CircuitBuilder` | the visits of a program's statements: operands, modifiers, errors | `Instructions` |
| `Execution` | one whole call: the two registers, the builder and the iterations, composed; the look-ups of a result | `Simulation`, instances of `Register` (two), `CircuitBuilder`, `Simulator` |
| `Simulator` | the calls of one process, each from its checks to its result or error, with the random generator | `RegisterManager` |
| `CommandLine` | `main` of qx-simulator, or a client that makes calls as it likes | `Simulator` |
| `GatesProofs` | lemmas: induction over numbers and finite sets, folds, sums, the ring, isometries; unitary matrices, the default gates, their control, powers and modifiers | `Instructions` |
| `IterationContextProofs`, `SimulationProofs`, `RegisterProofs`, `CircuitBuilderProofs`, `NoisyCircuitProofs`, `SimulatorProofs` | theorems and proofs; `SimulatorProofs` also has those of `RegisterManager` and `CommandLine`, `NoisyCircuitProofs` those of `RandomNumbers` | the module they name; all but `RegisterProofs` and `SimulatorProofs` also `GatesProofs` |
| `ExecutionProofs` | theorems and proofs of a whole call | `Execution`, `SimulationProofs`, instances of `RegisterProofs` (two) and `CircuitBuilderProofs` |
| `MCIterationContext`, `MCSimulation`, `MCRegister`, `MCCircuitBuilder`, `MCNoisyCircuit`, `MCExecution`, `MCSimulator` | constants for TLC | the module they name, the last `CommandLine` |

How they fit together, from the outside in:

    CommandLine --calls--> Simulator --drives--> RegisterManager
                               ^
                               | is implemented by
                           Execution = Register (qubits) ; Register (bits) ;
                                       CircuitBuilder ; Simulation
                                                            | each shot
                                       NoisyCircuit --is--> IterationContext
                                                            | implements
                                                        IdealContext

### How amplitudes are modelled

The program computes with doubles. The models compute exactly in the ring
Z[w], w = exp(i*pi/4), which holds every entry of every fixed gate up to a power
of sqrt(2). `Scale` is the power of sqrt(2) that all amplitudes of a state are
divided by. Rounding is abstracted, and `is_null`, which compares with 1e-12,
becomes equality with zero. What is lost: accumulated rounding, and amplitudes
so small that they are erased although they are not zero.

An operation whose result leaves the ring (a Hadamard on an amplitude that is
already a multiple of 1/2 at `Scale` 2, a measurement whose probability is not
a power of 1/2) is not taken; the operators named `Representable...` are the
guards, and they are the only conditions of the models that are not the code's.
They bound the reachable amplitudes and with them the state space. The
refinement and the theorems are about every step that is taken, so that a guard
removes behaviours but cannot hide a wrong step within those that remain.

### State and actions against the code

* `state` is `context.state`: `data` is `data_`, `zero_counter` is
  `zero_counter_`. An entry that holds null and an absent entry are different
  states, as in the code. `size_` is left out: it is only used by the bounds
  check of a debug build and by `to_vector`.
* `Unitary` is `Unitary::execute`, with the clean-up every `ZERO_CYCLE_SIZE`
  gates that `apply_linear` starts with; `Measure` is all of `apply_measure`,
  from the clean-up inside `get_probability_of_measuring_one` to the two register
  writes; `Reset` is `update_data_after_reset`, whose copy is taken before the
  clean-up; `ResetAll` is `QuantumState::reset`; `Inspect` stands for the public
  reads that clean the map up.
* A gate is one function, `apply_impl`: each new entry is the sum of what the old
  entries add to it. The loop of the code, entry by entry and row by row with
  `try_emplace`, is `apply_in_order`, and `EntriesInAnyOrder` says that the two agree
  for every order in which the unordered map may be walked (but for rounding).
* `settled` is a history variable, as are `shots` in `Simulation`, `sums` in
  `Register`, `program` and `operated` in `RegisterManager`, `origins` in
  `CircuitBuilder`, and `start` and `calls` in `Simulator`.
* A state string is the sequence of its digits, made by `to_substring` as in the code,
  the last qubit first; `ValueAt` is the look-up that reads it from the right.
* An instruction holds its gate, a record of name, parameter and modifiers, where the
  code holds a matrix: `MatrixOf` is that matrix.
* `phase = "aborted"` is the end of the process by an assertion; what the
  accumulator holds then is never read. With `NDEBUG` the assertions are not
  compiled.
* `Simulation` takes its circuits from a constant; `CircuitBuilder` is the model of
  how a program becomes such a list.
* `CircuitBuilder` has one action per kind of statement and one per error. A
  statement's operands are whole variables or lists of indices; the variables come
  with the ranges that the registers gave them, which do not overlap
  (`VariablesAreLaidOut`: it is what `RegisterProofs` proves of the constructor).
  An exponent of `pow` is an integer.
* What the analyzer has checked of an operand (it exists, it is of the right kind,
  operands are of one length, indices are in range, a reset has one operand, a gate
  has as many as its name and its controls take) is `IsResolved`. `GatesFit` then is
  about the builder: its modifiers have to make a matrix of just that size.
* `Simulator` is `execute` in a release build, with calls one after the other. It
  abstracts the builder to what each statement does to its qubits and a shot to the
  numbers it draws, one for each measure (quantum_state.hpp:75). The generator is a
  seed and the position in the sequence of that seed. `Seed` comes before the
  registers, as in the code, so that a call that fails later has set the seed.
* `Execution` runs the steps of its instances one after the other: a step of the qubit
  register, then of the bit register, of the builder, of the iterations. They share
  what the code shares: the instructions, the dirty bits, the ranges. Its two registers
  have the sizes of the instance (three qubits, two bits), or are too large and fail.
  `Scale` is zero, which the gates of its programs (permutations and Z) never leave, so
  that no guard removes a step and `Termination` is about the code.
* `Execution` implements `Simulator` under the mapping at its end: registers become
  visible together, a statement is the qubits that it is about and the measures it makes
  (one for each bit it names), and an iteration draws its numbers when it is added up.
  Steps inside the constructors and within a shot stutter, `barrier` and `wait` are
  statements about no qubit. A call that an assertion of a debug build stops is one that
  has not ended.
* `CommandLine` has the arguments as a sequence of words. `Atoi` is what C's `atoi`
  returns for a word, 0 for one that is no number, and the conversion to `size_t` is
  `% (SIZE_MAX + 1)`. `Files` is what the analyzer makes of a path. An exception that
  nothing catches ends the process with the status of an abort. A client of the library
  is the same process without a command line.
* `NoisyCircuit` draws words of few bits. `random` is the number that decided on the
  error and chose its gate, `r` the last word of `random_integer`'s loop. The error
  comes before every instruction, also before a measure, a reset and the first one
  (circuit.cpp:33-36); the developer guide (dev-guide.md, "Error models") has it
  between gates. Nothing passes the channel to `execute` in this version, as the guide
  says; the models of whole simulations have none.
* In `RandomNumbers` a double has a mantissa of few bits: `Double` rounds to the
  nearest, ties to even, as a conversion of 64 bits to 53 does. Divisions are exact
  fractions.
* `RegisterManager` leaves `set_dirty_bit` out: nothing calls it, and it marks the
  qubit register (register_manager.cpp:203).
* `Register` has the variables of one kind, qubits or bits, in the order the
  analyzer lists them, and relies on the analyzer to refuse two variables of one
  name (`DeclarationsAssumption`).

## 3. Runs

All constants are small sets given in the configuration or in the MC module.
`DrawRange = 8` with draws 1/8 and 6/8 is enough to reach both outcomes of every
probability that is measured (1/4, 1/2, 3/4; 0 and 1 are certain), and 6/8 is the
boundary of one of them: the comparison only depends on which side of the
probability a draw is.

| Run | Bounds | What it shows |
|---|---|---|
| `two_qubits` | 2 qubits, 2 bits; H, Z, CNOT; clean-up every 2 gates | norm, agreement of settled qubits, invisibility of the clean-up, repeatability of measurements, refinement of `IdealContext` |
| `instructions` | 3 qubits, 2 bits; 516 circuits: each of the 22 gates, with several angles, on every list of operands, every measure and every reset, after each of 4 preparations; one shot; clean-up every 3 gates | each matrix is the gate its name promises and acts on the operands it is given, adjacent and ordered or not |
| `simulation` | 7 circuits on 2 qubits and 2 bits, 1 to 3 shots, and one with 5, debug build | counts, completeness of the result, its state entry by entry, iterations that differ by nothing but their outcomes |
| `register` | up to 3 variables of up to 3 elements, limit 4 | the ranges tile the register; the limit is exact |
| `builder` | all programs of up to 3 of 15 statements, and each of 15 gates under modifiers that has a second name, over 4 variables that mix qubits and bits | every element of every statement has its instruction on its own operands; modifiers; `init`; building fails exactly when a statement is wrong |
| `execution` | all programs of up to 3 of 9 statements over two layouts of 3 qubits and 2 bits in 4 variables, 6 longer ones, two that are too large; 1 or 2 iterations, debug build | the result, read by the names of the variables, is what the program means; every call ends; the call implements `Simulator` |
| `noise` | 4 circuits on 2 qubits, probabilities 0, 1/4 and 1, words of 5 bits, mantissa 16, 5 words drawn | the random functions are fair up to rounding, and certain at the extremes; every measurement tells exactly the errors that reach it; an operand is found |
| `simulator` | 3 calls out of 12, which succeed or fail in each way a call may; limits 2 and 1; and all command lines of up to 3 of 7 words with 4 longer ones, `size_t` of 3 bits | a call's outcome and, with a seed, its random numbers depend on its arguments only; both registers are the current program's; `main` does what its arguments say |
| `draw_of_one` | 1 qubit, draws 4/8 and 8/8 | finding 1 |
| `reset_sign` | 2 qubits | finding 2 |
| `assertions` | 1 qubit, 3 shots, debug build | finding 3 |
| `exception` | as `simulator`, one call | finding 4 |

Why the bounds are enough. The refinement in `two_qubits` hides which operation made
a step: a CNOT with its operands exchanged is the other CNOT. `instructions` names
the instruction, so that its operands count; by linearity, basis states and one
superposition with distinct phases tell any two matrices apart. Two qubits are the least on which entanglement, a
spectator qubit and both orders of a two-qubit gate exist, and three the least
for TOFFOLI and for a gate whose operands skip a qubit. A clean-up period of 2
gives maps with null entries, a clean-up that finds them and one that comes from
a read in between. Three shots on one qubit are the least with which an outcome
is seen again after all outcomes were seen. Limit 4 with up to three variables of
0 to 3 elements has sums below, at and above the limit, empty variables at either
end and in the middle. `MAX_QUBIT_NUMBER` and `MAX_BIT_NUMBER` only occur in
comparisons. A word of five bits and a mantissa of 16 values round one bit away, to even
in both directions, as 64 bits to 53 do; 0 and 31 are the extremes, 30 and 31 are
beyond the limit of `random_integer` for three and two values. In `execution` the two
layouts put every variable at another index, and qubits and bits at different ones,
so that an index mistaken for another shows. A command line of three words has each of
the branches of the loop twice, and the longer ones have two options, so that the last
one has to win. In `builder` the second variable of each kind does not start at index 0,
so that an element taken for an index of the register is another qubit or bit; three statements are an instruction, an `init` of part of its qubits and one
between or after them. In `simulator` two calls with the same arguments and any
third between them are the least that can tell whether the third is noticed.

The draw 8/8 is left out of the passing runs on purpose: it is what finding 1 is
about, and `draw_of_one` has it.

Deadlock is checked where the model has a step to take in every state
(`simulation`, `instructions`, `noise`, `execution`); a context whose gates all leave the ring and
a register or a builder in state "error" really stop. `Simulator` stops after
`MaxCalls` calls, and `main` ends.

### Fairness

All loops of the program run in one thread that waits for nothing, so that some step is
taken while one is enabled. `CircuitBuilder` has weak fairness of its next-state
relation, `Register` of the constructor's steps (`set_dirty`, which is called from
outside, is not fair), `Execution` of the steps of each of its parts. For the
instructions of an iteration it is stated as weak fairness of the step of `pc`, whose
enabling condition has no amplitudes in it: every instruction that has been built can
be executed. No fairness is assumed between alternatives, such as the outcomes of a
measurement.

`NoisyCircuit` has weak fairness of `AcceptWord`: the generator returns every word again
and again, so that `random_integer`'s loop ends, which the code leaves to chance.
`IterationContext`, `Simulation`, `Simulator` and `CommandLine` have no fairness: whether a
next operation or call comes is the caller's choice.

## 4. Proofs

TLAPS proves these for every value of the constants, under the named assumptions
of the modules (positive number of qubits and clean-up period, unitary matrices of
the right shape, draws in 1..`DrawRange`, declarations with distinct names).

* `GatesProofs` begins with what the other proofs need of numbers and folds. The induction
  theorems of the library take an operator, which the provers cannot instantiate;
  `Induction` and `SubsetInduction` take a set, of the numbers or the subsets a claim
  holds of, so that a proof by induction shows that this set is everything. By it a fold
  of the community modules exists and is what its recursion says (`FoldExists`), in
  whichever order it takes the elements (`AnyOrder`), and `SumOf` is a sum (`Sums`,
  `SumUnion`, `SumReindexed`, `SumSwapped`): of amplitudes or of squared magnitudes, whose
  common laws are `IsSpace`. A linear map whose columns are orthogonal multiplies the sum
  of the squared magnitudes (`Isometry`), and if the columns of a square matrix are
  orthogonal so are its rows (`RowsAndColumns`): the products of the rows with each
  other differ from what they should be by amounts whose squares add up to zero.
* `IterationContextProofs!TypeCorrect`: `TypeOK` is inductive. Lemmas give the
  domain of what each operation returns and the bound of the counter.
* `IterationContextProofs!SettledCorrect`: the invariant is `TypeOK` together with
  `SettledAgree`. The heart of it is that every entry a gate creates agrees with
  an existing entry outside the operands, that a measurement only erases entries,
  and that a reset adds entries that differ from existing ones at the reset qubit
  only. No fact about amplitudes is needed: the property holds even for matrices
  that are not unitary.
* `IterationContextProofs!CleanupCorrect`: erasing null entries changes neither
  the set of entries that contribute to a new entry nor their values
  (`SourcesAreNotNull`, `CleanUpKeepsSources`), so that the periodic clean-up
  cannot be seen.
* `IterationContextProofs!EntriesInAnyOrderCorrect`: the invariant is that the map is one of
  basis vectors (`IsSparse`). The loops over rows and over entries are folds, whose states
  `LoopExists` and `LoopIs` give. The bits of a row, put back at the operands, give that
  row as their index (`RowIndexIs`), so that an entry adds its `Contribution` to each basis vector
  once and creates exactly those where it is not null (`EntryAdded`); every order has each
  entry once (`OrderIsOnto`), and each sum grows by one term at a time (`EntryStep`).
* `IterationContextProofs!NormalizedCorrect`: the invariant `NormInv` adds that the map has amplitudes of
  basis vectors. Its norm is a sum over all basis vectors, to which null and absent
  entries add nothing (`NormOverAll`). The entry that `operands`
  select is a bijection between the basis vectors that agree outside the operands and the
  rows of the matrix (`IndexIsBijection`), so that a gate on the whole register is a map
  with orthogonal columns (`GateIsOrthogonal`) because its matrix is, which is
  `IsUnitary` for the rows (`UnitaryColumns`). A measurement keeps the entries of its
  outcome, which weigh what the amplitudes are divided by (`KeptWeight`). It fails if
  they weigh nothing; `OutcomeHasWeight` excludes that for every draw but the one that
  is exactly 1. The theorem has that as its hypothesis, `DrawRange \notin Draws`, since
  with that draw the property is false: finding 1, which `draw_of_one` shows. A reset
  adds squared magnitudes in pairs (`ResetKeepsNorm`).
* `IterationContextProofs!MeasurementsRepeatCorrect`, under the same hypothesis: by
  `SettledAgree` the other outcome of a settled qubit would keep no entry, and by
  `OutcomeHasWeight` a measurement keeps one.
* `IterationContextProofs!RefinesIdealCorrect`: initial states map to initial states, and under `NormInv`
  every step is one of `IdealContext` or leaves its variables as they are (`IdealStep`). A
  gate leaves a basis vector alone unless the operands before the last are set, and then applies
  a 2x2 block to the last (`BlockApplied`, `Blocks`); each block multiplies the eigenvectors of
  an axis by phases (`EntriesTurn`, `TurnOfBoth`, for rotations `Euler`), which is the effect of the
  gate's name (`UnitaryEffect`). A measurement divides by a number whose square is
  a weight, and that the quotient is positive needs that sqrt(2) is irrational
  (`RootOfTwoIsIrrational`, `RatioIsPositive`). A reset clears its qubit by `ResetClears`. The theorem has
  two hypotheses: the one on draws, and `IsPlainGate` for every gate, that
  it is a default gate with no modifiers, since `IdealContext` names no others. The gates of
  `two_qubits` satisfy it. That powers, inversions and controls make the gates one expects of
  them is `CircuitBuilderProofs!ModifiersMakeNamedGatesCorrect`.
* `RegisterProofs!TypeCorrect` and `NamesAndIndicesCorrect`: the invariant adds to
  `TypeOK` that `sums` holds the partial sums of the sizes (`PartialSums`), that
  the variables assigned so far have the ranges between two partial sums, of their
  sizes, and no index of theirs has another name (`RangesAssigned`), and where the two loops
  are (`Progress`). It is needed because the property speaks of a register that is
  built and says nothing about how far a loop is.
* `SimulationProofs`: nothing is asked of a circuit but that its measures and resets lie in
  the registers (`CircuitIsPlaced`), so that the lemmas hold of circuits of any origin; that
  a simulation's circuit is one of `Jobs`, which are such circuits, is `RunsAJob`. The
  invariant `SInv` adds to this and the types, for every register, that the
  number of shots that ended with it is what its string is counted (`ShotCounts`), and
  what the registers tell of the measures before `pc` (`RegistersTellDone`). The counts
  stay right because different registers have different strings
  (`StringsAreInjective`) and a shot adds one to one cardinality (`CountsStep`).
  `RegistersTellLastMeasure` speaks of the end of an iteration only, so that its induction
  needs the measures done so far. `SimulationTypeCorrect`, `CountsMatchShotsCorrect`
  and `RegistersTellLastMeasureCorrect` follow, with and without assertions.
* `SimulationProofs!ResultIsCompleteCorrect`: `TInv` says that each of the two maps sums up to
  the iterations accumulated, and `IncrementedTotal` that counting a key, be it new or not, adds one.
* `SimulationProofs!IterationsAreIndependentCorrect`: `IterationsAreRuns` is that the state at
  `pc`, and each final state so far, is the end of a run: a sequence of states that begins in
  the ground state and in which each follows from the one before by its instruction, where a
  measure collapses to what the register holds of its qubit at the end
  (`RunWithOutcomes`; no later measure overwrites it). Two runs with the same register agree
  (`RunsAgree`). `IterationsAreRuns` needs only that no qubit is measured twice: it holds of
  circuits with resets, too (see the note after the findings).
* `SimulationProofs!ResultIsTheLastStateCorrect`, under the hypothesis on draws: the
  state at hand is that of the last shot (`LastShot`), and the
  result's strings are distinct for distinct entries (`StringsOfState`), so that each entry is found
  under its own string, the sum over strings is the norm of the last state, and `DigitOfString` gives the bit of each settled qubit.
* `SimulationProofs!InstructionsAreIdealCorrect`, under the two hypotheses of `RefinesIdealCorrect`: in any
  circuit each instruction is the step of `IdealContext` that its own name and operands
  promise, by `IdealUnitary`, `IdealMeasurement` and `IdealReset`, the parts of `IdealStep`. The gates and
  draws of `instructions` satisfy both.
* `SimulatorProofs!TogetherCorrect` and `DirtyCorrect`, of `RegisterManager`: by one step per
  action, each register whole also after a constructor of the second one has failed; `DirtyCorrect`
  needs that an instruction's qubits lie in the register.
* `CircuitBuilderProofs!TypeCorrect`: lemmas give the type of the indices an operand
  unrolls to (each lies in its variable, so in the register of its kind) and of the
  instructions a statement makes.
* `CircuitBuilderProofs!InitsCorrect`: the invariant adds to `TypeOK` that every
  instruction comes from a statement already visited (`OriginsArePast`) and that the
  qubits of every instruction are dirty (`ActingIsDirty`). Both are needed: the
  check of an `init` reads the dirty bits, while the property speaks of the
  instructions of earlier statements.
* `CircuitBuilderProofs!InstructionsCorrect`: the third part of the invariant is the property
  itself. A step appends the instructions of one statement, and reading each back gives what the
  statement says of one element: `Flatten` is a concatenation (`FlattenExtended`), and the name of
  the index of an element of a variable is that element, because ranges do not overlap
  (`NameOfIndex`, `IndexNames`).
* `CircuitBuilderProofs!GatesFitCorrect`: the last part of the invariant (`GatesAreKnown`) is that a
  gate has a name of `GateNames` and as many operands as the analyzer counts. Then its matrix
  fits, by the lemmas of `GatesProofs`: the rows of each default gate are orthogonal and of
  one norm (`HasOrthogonalRows`), which the conjugate transpose, a product, so any power, and
  a control keep, and a control alone doubles the size. `UnitaryIsOrthogonal` is that for a
  square matrix this is the condition that the constructor checks. The modifiers
  are a fold, whose induction is over the length of their list.
* `CircuitBuilderProofs!ModifiersMakeNamedGatesCorrect`: a matrix with only phases on its
  diagonal, or one that swaps the last two basis vectors, is known by its size and its last
  entry (`IsPhase`, `IsLastSwap`), and an inversion, a square and a control of it are again of
  that form (`PhaseInverted`, `PhaseSquared`, `PhaseControlled`, `SwapControlled`). The gates of the
  property that are neither, `H` and rotations, have two rows, which are multiplied out. The property is
  about a table of gates and modifiers, and no state occurs in it.
* `NoisyCircuitProofs`, of `RandomNumbers`: for every width of a word, `random_integer` has a word
  it can use (`SomeWordIsUsable`), returns a number of its range (`RandomIntegerInRange`), and has
  equally many words for each (`BucketsAreEqual`): the words for one number are an interval
  of the bucket's size, by `QuotientIs`, a lemma of `GatesProofs` about division with remainder.
* `NoisyCircuitProofs!RandomNumberIsInUnitInterval`: rounding to a mantissa is monotone
  (`RoundedMonotone`), also where the spacing of doubles doubles (`DoubleIsMonotone`), and
  keeps the numerator from zero. The latter needs the size of the mantissa to be even
  (`WordAssumption`), as a power of two is.
* `NoisyCircuitProofs!ErrorsAreEvenCorrect`: a random number is a fraction of the number of words
  (a power of two by `WidthAssumption`, so that it is a double) whose numerator is no further
  from the word than a spacing of doubles (`NumeratorIsNear`). So the words whose number is
  below a bound are, up to a spacing, the ones below it. The words that choose one gate are the difference of
  two such sets (`ThirdsAreBelow`), so that their number is exact up to two spacings.
* `NoisyCircuitProofs!ExtremesAreCertainCorrect`: a number in (0, 1] is never below or at 0 and never
  above 1 (`ChannelIsFair`); the invariant adds that an error in the making has a
  positive probability (`ErrorIsPossible`).
* `NoisyCircuitProofs!NoiseIsABehaviour`: every step of an execution with errors is a step
  of `IterationContext` or none, so that the theorems about that one hold of it.
  The invariant is `NoisyTypeOK` (`NoisyTypeCorrect`): the number that
  `random_integer` returns is a qubit, by `RandomIntegerInRange`.
  `QubitsAreEquallyLikelyCorrect` is `BucketsAreEqual` for the qubits of a register.
* `SimulatorProofs`: the inductive invariant `IInv` says, of a call that ended, that its outcome
  is `Outcome` of its arguments and its numbers start at its seed or where the call
  before stopped (`CallsDone`); of the call that runs, what its steps so far have
  shown of its arguments and left in the circuit (`Progress`) and how far the generator
  is (`GeneratorMoves`); and of the registers what `RegisterManager` promises.
  `Progress` is what the properties do not say: they only speak of calls that ended.
  `ArgumentsDecideOutcomeCorrect`, `SeedDecidesNumbersCorrect` and
  `NumbersAreUsedOnceCorrect` follow from it, and `SimulatorDrivesRegisterManager`, that a
  process is a behaviour of `RegisterManager`, from its types.
* `SimulatorProofs!ProcessCallsSimulator`: every process is a behaviour of `Simulator`, so
  that the theorems above hold of qx-simulator and of every client. The invariant
  `MainInv` says which arguments are parsed (`OptionsParsed`, `PathParsed`) and that the
  request of the call is the one the arguments ask for; it also proves
  `MainAnswersItsArgumentsCorrect`.

* `ExecutionProofs` puts the parts of a call together. The theorems about one part do not
  apply as they stand: each part of a call takes steps while the others have begun or
  ended, and what one is given is what the one before it made, not a constant. The
  inductive invariant `CallInv` (`CallInvCorrect`) says that the program is one the analyzer returned, that
  both registers satisfy the invariant of `RegisterProofs`, for the variables of their own kind
  (`QR!Inv`, `BR!Inv`), that each part is untouched until the one before it is finished
  (`InOrder`), that the builder is inside its program (`BuilderIsInProgram`) and that no more
  iterations are done than asked for (`ShotsAreRequested`). `RegistersOfCallCorrect` follows.
* `ExecutionProofs!RequestOfCallCorrect`: sums of sizes increase (`SumsIncrease`), so that the
  indices of an operand lie in the register of its kind (`IndicesOfOperand`). So what
  `Simulator` assumes of requests (`IsRequest`) is true of every call.
* `ExecutionProofs!ImplementsSimulatorCorrect`: initial states map to initial states, and
  under `CallInv` every step is one of `Simulator` or leaves its variables as they are. The parts
  are a lemma each: the loops of the constructors stutter until the last one ends
  (`CallerBefore`, `CallerIsUnchanged`), a visit of the builder is a visit of an abstract statement, where
  the error of an `init` depends on the same dirty bits (`DirtyOfCaller`) and the measures
  added are as many as the bits that a statement names (`MeasuresAdded`), and an iteration that is
  added up draws a number for each.
* `ExecutionProofs!BuilderOfCallCorrect`: the ranges of registers that are built are laid out
  as the builder's assumption asks (`VariablesAreLaidOut`), with the program resolved in them, so that from
  then on the invariant of `CircuitBuilderProofs` is one of the call.
* `ExecutionProofs!ShotsOfCallCorrect`: every instruction that is built is placed
  (`BuiltIsPlaced`), by the type invariant of the builder and the sizes of the registers, so that
  `SInv`, `TInv` and `IterationsAreRuns` hold of the call's own iterations (`ShotsInv`).
* `ExecutionProofs!GatesOfCallFitCorrect`: `BuilderInv` has `GatesAreKnown` of the call's instructions, so
  that each matrix is unitary and as large as the operands it is applied to require (`BuiltGate`).
* `ExecutionProofs!StatesOfCallCorrect`: hence a circuit that was built satisfies what the states of a
  simulation need (`BuiltIsIsometric`): after every step of every shot the norm is one, the
  entries agree with what was measured, and a result has the last state. It has two hypotheses. No draw is
  exactly 1, as above. And no gate has one qubit twice (`OperandsAreDistinct`): the builder does not compare
  the operands of a gate, so that whether such a gate reaches it is the analyzer's business, and on such
  operands the loop of `QuantumState::apply` need not keep the norm.

The assumptions are the named ones of the modules: registers have natural sizes and
limits (`QubitsAssumption`, `BitsAssumption`, `LimitsAssumption`), matrices the shape of their operands and
unitary as the constructor checks (`GatesAssumption`, `UnitaryAssumption`), declarations distinct names (`DeclarationsAssumption`), statements are
resolved by the analyzer (`ProgramsAssumption`, and `AnalyzerAssumption` for whole calls) and about qubits of their program (`RequestsAssumption`, which `ExecutionProofs!RequestOfCallCorrect`
shows of every call), the programs of whole calls ask for at least one iteration, have distinct
names, and registers of the sizes of the instance or too large ones (`ExecutionAssumption`), the
largest word is one less than a power of two (`WidthAssumption`), the error gates are gates of one qubit (`NoisyAssumption`), and
a file's request is one that may be made (`CommandLineAssumption`).
`AnglesAssumption` is a bound: the angle of a `CRk` is a multiple of pi/4. TLC evaluates each.

Only model-checked:

* `OutcomesTellErrors` and `ResultAnswersTheProgram` are about the circuits and programs of their instances, which were
  chosen so that outcomes are certain, and are false of others.
* Liveness (`Termination`, `ConstructionEnds`, `BuildingEnds`, `OperandIsFound`: fairness,
  ENABLED).

## 5. Findings

1. `draw_of_one`: the generator may return exactly 1.0 (random.cpp:77-81), and
   1.0 < 1.0 is false, so that a qubit which is certainly one is measured as zero
   with probability about 2^-54 per measurement; the state is empty afterwards.
   quantum_state.cpp:126 promises a normalized state.
2. `reset_sign`: `update_data_after_reset` keeps magnitudes and drops signs and
   phases (quantum_state.cpp:165), while the comment at 155-157 says that the
   amplitude is added. Resetting one qubit of (|01> - |11>)/sqrt(2) leaves the
   other in |+> and not in |->. Which of the two is intended is for the authors:
   adding amplitudes would not keep the norm, as merging by magnitude does.
3. `assertions`: the assertion at simulation_result.cpp:89 fails in a debug build on
   the first shot after every outcome was seen; `<=` after the increment would be
   true. The one at line 95 has the same fault, and compares the number of bit
   strings with 2 to the number of qubits.
4. `exception`: a program without qubits makes the constructor of the first shot's
   state throw a `QuantumStateError`, which is not a `SimulationError`
   (quantum_state.hpp:35), so that the handler at simulator.cpp:75 lets it through.
   README.md:14-17 promises a result or an error.

One more disagreement is not a run. docs/user-guide/python-user-guide.md:88-89 says that,
without a seed, `measure`, `reset` and error models make results non-deterministic. The
code's reset (instructions.cpp:78-80, quantum_state.cpp:158-176) draws no number: it
merges the two halves of the state by magnitude. A circuit with resets and without measures
and errors therefore ends every iteration, and every execution, in the same state, as
`IterationsAreRuns` proves. That something may come out differently speaks of two behaviours,
so that no single trace refutes it. Which
one is intended is for the authors: a reset that measured its qubit and flipped a one would be
random, and would make the guide true. The properties do not take a side: `IterationsAreIndependent` is
about circuits of gates and measures only, while `NumbersAreUsedOnce`, `SeedDecidesNumbers` and the abstract
`Simulator` count numbers as the code draws them, one for each measure and none for a reset.

## 6. Plan

Done: every component that has control of its own (but `set_dirty_bit`, see 7). The order was amplitudes, gates,
sparse state, context and its abstract specification, simulation, register, register
manager, circuit builder, simulator; then random numbers, the error model, the whole
call with its refinement of `Simulator`, and the command line.

Theorems left: that each instruction of a call's own circuit is the step of `IdealContext` that its
name promises (`InstructionsAreIdealCorrect` is about circuits of a constant set of gates without modifiers),
and, if `IdealContext` is given the modifiers, the same for gates that have some.

## 7. Not modelled

* The Python module and the printing of results: conversions without control.
* libqasm, the analyzer: what it has checked is an assumption on programs.
* `visit_node` and its "unsupported node" error (circuit_builder.cpp:24-26): the statements of a
  modelled program are gate and non-gate instructions, for which the builder has visitors. Any other
  node ends the build in an error, like a failing statement, without changes of its own.
* `BitControlledInstruction` (instructions.cpp:11-26): no code constructs one.
* `set_dirty_bit`: nothing calls it.
* The size of a `SparseArray` and its bounds check in a debug build, `to_vector`, and the
  construction of states and matrices from lists, which only tests use.
* An index past the end of a variable in a look-up: the analyzer refuses it in
  programs, and no document says what a result answers a client that passes one.
* Rounding of amplitudes, the threshold of `is_null`, and powers with a fractional
  exponent, which Eigen computes.

## 8. Running

    tlc -workers 2 -config MCTwoQubits.cfg MCIterationContext.tla
    tlapm IterationContextProofs.tla

and likewise for the other pairs of configuration and module in `PROJECT.json`.

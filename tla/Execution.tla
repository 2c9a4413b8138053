------------------------------ MODULE Execution -------------------------------
(***************************************************************************)
(* One call of execute, from the analyzed program to the result: the qubit *)
(* register is constructed, then the bit register, then the circuit is     *)
(* built with the indices of both, then its iterations are run.  It is     *)
(* composed of two instances of Register, one of CircuitBuilder and        *)
(* Simulation, which share the instructions and the dirty bits.            *)
(*                                                                         *)
(* A program has its variables in the order in which they are declared.    *)
(***************************************************************************)
EXTENDS Simulation

CONSTANTS AnalyzedPrograms,  \* records [variables, statements, iterations]
          MAX_QUBIT_NUMBER,
          MAX_BIT_NUMBER

OfKind(variables, kind) ==
  FlattenSeq([j \in DOMAIN variables |->
                IF variables[j].kind = kind
                THEN <<[name |-> variables[j].name, size |-> variables[j].size]>> ELSE <<>>])
TotalSize(variables, kind) ==
  LET list == OfKind(variables, kind)
  IN  SumFunction([j \in DOMAIN list |-> list[j].size])

DeclaredVariable == [name : STRING, kind : {"qubit", "bit"}, size : Nat \ {0}]

\* A program whose registers fit has those of this instance.
ASSUME ExecutionAssumption ==
  /\ MAX_QUBIT_NUMBER \in Nat /\ MAX_BIT_NUMBER \in Nat
  /\ NumberOfQubits <= MAX_QUBIT_NUMBER /\ NumberOfBits <= MAX_BIT_NUMBER
  /\ \A p \in AnalyzedPrograms :
       /\ p.iterations \in Nat \ {0}
       /\ p.variables \in Seq(DeclaredVariable)
       /\ \A j, k \in DOMAIN p.variables : p.variables[j].name = p.variables[k].name => j = k
       /\ \/ TotalSize(p.variables, "qubit") > MAX_QUBIT_NUMBER
          \/ TotalSize(p.variables, "bit") > MAX_BIT_NUMBER
          \/ /\ TotalSize(p.variables, "qubit") = NumberOfQubits
             /\ TotalSize(p.variables, "bit") = NumberOfBits

VARIABLES
  program,                                        \* the argument of the call
  qubit_next, qubit_size, qubit_index,            \* the qubit register (see Register)
  qubit_ranges, qubit_names, qubit_phase, qubit_sums,
  bit_next, bit_size, bit_index,                  \* the bit register
  bit_ranges, bit_names, bit_phase, bit_sums,
  builder_next, builder_phase, dirty, origins     \* the builder (see CircuitBuilder)

qubit_vars   == <<qubit_next, qubit_size, qubit_index, qubit_ranges, qubit_names,
                  qubit_phase, qubit_sums>>
bit_vars     == <<bit_next, bit_size, bit_index, bit_ranges, bit_names, bit_phase, bit_sums>>
builder_vars == <<instructions, builder_next, builder_phase, dirty, origins>>
shot_vars    == <<vars, shots_requested, accumulator, result, pc, phase, shots>>

execution_vars == <<program, qubit_vars, bit_vars, builder_vars, shot_vars>>

QubitRegister ==
  INSTANCE Register
    WITH Names <- {}, Declarations <- {}, max_register_size <- MAX_QUBIT_NUMBER,
         variables <- OfKind(program.variables, "qubit"),
         next <- qubit_next, register_size <- qubit_size, current_index <- qubit_index,
         variable_name_to_range <- qubit_ranges, index_to_variable_name <- qubit_names,
         dirty_bitset <- [j \in DOMAIN qubit_names |-> j \in dirty],
         phase <- qubit_phase, sums <- qubit_sums

BitRegister ==
  INSTANCE Register
    WITH Names <- {}, Declarations <- {}, max_register_size <- MAX_BIT_NUMBER,
         variables <- OfKind(program.variables, "bit"),
         next <- bit_next, register_size <- bit_size, current_index <- bit_index,
         variable_name_to_range <- bit_ranges, index_to_variable_name <- bit_names,
         dirty_bitset <- [j \in DOMAIN bit_names |-> FALSE],
         phase <- bit_phase, sums <- bit_sums

\* The variables with the ranges that the builder asks the register manager for.
Ranges ==
  [n \in DOMAIN qubit_ranges \union DOMAIN bit_ranges |->
     IF n \in DOMAIN qubit_ranges
     THEN [kind |-> "qubit", first |-> qubit_ranges[n].first, size |-> qubit_ranges[n].size]
     ELSE [kind |-> "bit", first |-> bit_ranges[n].first, size |-> bit_ranges[n].size]]

Builder ==
  INSTANCE CircuitBuilder
    WITH Programs <- {},
         program <- [variables |-> Ranges, statements |-> program.statements],
         next <- builder_next, phase <- builder_phase

\* The variables of a program by their names.
Declared(variables) ==
  [n \in {variables[j].name : j \in DOMAIN variables} |->
     variables[CHOOSE j \in DOMAIN variables : variables[j].name = n]]

\* What the analyzer has checked of the operands of a program, and the bound on the angle
\* of CRk (see CircuitBuilder).
ASSUME AnalyzerAssumption ==
  \A p \in AnalyzedPrograms :
    /\ p.statements \in Seq(Builder!AnyStatement)
    /\ \A k \in DOMAIN p.statements :
         /\ Builder!IsResolved(Declared(p.variables), p.statements[k])
         /\ p.statements[k].name = "CRk" => p.statements[k].parameter <= 3

ExecutionInit ==
  /\ program \in AnalyzedPrograms
  /\ qubit_next = 1 /\ qubit_size = 0 /\ qubit_index = 0
  /\ qubit_ranges = <<>> /\ qubit_names = <<>>
  /\ qubit_phase = "summing" /\ qubit_sums = <<0>>
  /\ bit_next = 1 /\ bit_size = 0 /\ bit_index = 0
  /\ bit_ranges = <<>> /\ bit_names = <<>>
  /\ bit_phase = "summing" /\ bit_sums = <<0>>
  /\ builder_next = 1 /\ builder_phase = "building" /\ dirty = {} /\ origins = <<>>
  /\ instructions = <<>>
  /\ shots_requested = program.iterations
  /\ BeforeFirstIteration

Ongoing(constructor_phase) == constructor_phase \notin {"built", "error"}

ConstructQubitRegister ==
  /\ Ongoing(qubit_phase)
  /\ UNCHANGED <<program, bit_vars, builder_vars, shot_vars>>
  /\ QubitRegister!ConstructorStep

ConstructBitRegister ==
  /\ qubit_phase = "built"
  /\ Ongoing(bit_phase)
  /\ UNCHANGED <<program, qubit_vars, builder_vars, shot_vars>>
  /\ BitRegister!ConstructorStep

BuildCircuit ==
  /\ bit_phase = "built"
  /\ UNCHANGED <<program, qubit_vars, bit_vars, shot_vars>>
  /\ Builder!Next

Iterating(step) ==
  /\ builder_phase = "built"
  /\ UNCHANGED <<program, qubit_vars, bit_vars, builder_vars>>
  /\ step

RunIterations == Iterating(BetweenInstructions) \/ Iterating(ExecuteInstruction)

\* execute catches the error of a register or of the builder, and returns it.
Failed   == "error" \in {qubit_phase, bit_phase, builder_phase}
Returned == Failed \/ phase \in {"finished", "aborted"}

Stopped == Returned /\ UNCHANGED execution_vars

ExecutionNext ==
  \/ ConstructQubitRegister
  \/ ConstructBitRegister
  \/ BuildCircuit
  \/ RunIterations
  \/ Stopped

\* One thread, that waits for nothing.  Every instruction of a program like these can be
\* executed, so that the fairness of ExecuteInstruction is the one of its pc, which says
\* nothing of amplitudes.
ExecutionSpec ==
  /\ ExecutionInit
  /\ [][ExecutionNext]_execution_vars
  /\ WF_execution_vars(\/ ConstructQubitRegister
                       \/ ConstructBitRegister
                       \/ BuildCircuit
                       \/ Iterating(BetweenInstructions))
  /\ WF_pc(AdvanceToNext)

-----------------------------------------------------------------------------
(* What a program means, for gates that permute the basis states: the      *)
(* elements <<variable, j>> that are one.                                  *)

get_qubit_state(state_string, name, sub_index) ==
  ValueAt(state_string, QubitRegister!at(name, sub_index))
get_bit_measurement(state_string, name, sub_index) ==
  ValueAt(state_string, BitRegister!at(name, sub_index))

With(set, e, value) == IF value THEN set \union {e} ELSE set \ {e}

\* X under modifiers flips the last operand when the ones before it are one, unless
\* it is raised to an even power.
Flips(s) ==
  /\ s.name \in {"X", "CNOT", "TOFFOLI"}
  /\ \A m \in DOMAIN s.modifiers : s.modifiers[m].name = "pow" => s.modifiers[m].exponent % 2 = 1

Meaning(ones, s, e) ==
  CASE s.name = "measure" ->
         [ones EXCEPT !.bits     = With(@, e[1], e[2] \in ones.qubits),
                      !.measured = With(@, e[2], e[2] \in ones.qubits)]
    [] s.name = "reset" -> [ones EXCEPT !.qubits = @ \ {e[1]}]
    [] s.name = "SWAP" ->
         [ones EXCEPT !.qubits = With(With(@, e[1], e[2] \in @), e[2], e[1] \in @)]
    [] s.name \notin {"measure", "reset", "SWAP"} ->
         [ones EXCEPT !.qubits =
            IF Flips(s) /\ ToSet(Front(e)) \subseteq @ THEN SymDiff(@, {Last(e)}) ELSE @]

MeaningOfProgram ==
  FoldLeft(LAMBDA ones, s :
             FoldLeft(LAMBDA o, e : Meaning(o, s, e), ones, Builder!Unrolled(Builder!Variables, s)),
           [qubits |-> {}, measured |-> {}, bits |-> {}], program.statements)

ElementsOf(kind) ==
  {e \in (DOMAIN Ranges) \X (0..(NumberOfQubits + NumberOfBits)) :
     Ranges[e[1]].kind = kind /\ e[2] < Ranges[e[1]].size}

\* The result, read by the names of the program's variables, is what the program means:
\* the layout of the registers, the unrolling of operands, the order of bits in a basis
\* vector, a matrix and a string, and the look-ups of a result all agree.
ResultAnswersTheProgram ==
  phase = "finished" =>
    LET ones == MeaningOfProgram
    IN  /\ \A e \in ElementsOf("qubit") :
             /\ \A s \in DOMAIN result.state :
                  (get_qubit_state(s, e[1], e[2]) = 1) = (e \in ones.qubits)
             /\ \A s \in DOMAIN result.measurements :
                  (get_qubit_state(s, e[1], e[2]) = 1) = (e \in ones.measured)
        /\ \A e \in ElementsOf("bit") : \A s \in DOMAIN result.bit_measurements :
             (get_bit_measurement(s, e[1], e[2]) = 1) = (e \in ones.bits)

\* A call of execute returns: an error, a result, or in a debug build it may be stopped
\* by an assertion.
Termination == <>Returned

-----------------------------------------------------------------------------
(* The call as Simulator has it: registers created in one step, a          *)
(* statement as the qubits it is about and the measures it makes, a shot   *)
(* in one step.  A call that an assertion stops does not end.              *)

VariableOf(operand) == Declared(program.variables)[operand.variable]

\* A variable comes after those of its kind that are declared before it.
FirstIndex(variable) ==
  LET list == OfKind(program.variables, variable.kind)
      j    == CHOOSE k \in DOMAIN list : list[k].name = variable.name
  IN  SumFunction([k \in 1..(j - 1) |-> list[k].size])

IndicesOf(operand) ==
  { FirstIndex(VariableOf(operand)) + j :
      j \in IF operand.ref = "variable" THEN 0..(VariableOf(operand).size - 1)
            ELSE ToSet(operand.indices) }

NumberOfElements(operand) ==
  IF operand.ref = "variable" THEN VariableOf(operand).size ELSE Len(operand.indices)

Is(s, name) == s.kind = "nongate" /\ s.name = name

IsUnknown(s) ==
  \/ s.kind = "gate" /\ s.name \notin Builder!GateNames
  \/ s.kind = "nongate" /\ s.name \notin {"measure", "reset", "init", "barrier", "wait"}
  \/ Is(s, "wait") /\ s.parameter < 0

\* The operands whose qubits a statement is about: a measure names its bits first, and
\* a barrier or a wait does nothing to its qubits.
QubitOperands(s) ==
  { s.operands[o] : o \in {k \in DOMAIN s.operands :
                             /\ Is(s, "measure") => k = 2
                             /\ ~Is(s, "barrier") /\ ~Is(s, "wait")} }

AbstractStatement(s) ==
  [kind     |-> IF IsUnknown(s) THEN "unknown" ELSE IF Is(s, "init") THEN "init" ELSE "operate",
   qubits   |-> IF IsUnknown(s) THEN {} ELSE UNION {IndicesOf(o) : o \in QubitOperands(s)},
   measures |-> IF Is(s, "measure") THEN NumberOfElements(s.operands[1]) ELSE 0]

AbstractProgram ==
  [id |-> 1, qubits |-> TotalSize(program.variables, "qubit"),
   bits |-> TotalSize(program.variables, "bit"),
   statements |-> [k \in DOMAIN program.statements |-> AbstractStatement(program.statements[k])]]

AbstractRequest == [version |-> "3.0", analysis |-> "program", program |-> AbstractProgram,
                    iterations |-> program.iterations, seed |-> "none"]

AbstractRegister(size, dirty_indices) ==
  [program |-> AbstractProgram, dirty_bitset |-> [j \in 0..(size - 1) |-> j \in dirty_indices]]

Uninitialized == [program |-> [id |-> 0, qubits |-> 0, bits |-> 0], dirty_bitset |-> <<>>]

FirstNumber == [seed |-> "device", drawn |-> 0]

Answered == Failed \/ phase = "finished"

caller_qubit_register ==
  IF Ongoing(bit_phase) THEN Uninitialized ELSE AbstractRegister(AbstractProgram.qubits, dirty)
caller_bit_register ==
  IF bit_phase = "built" THEN AbstractRegister(AbstractProgram.bits, {}) ELSE Uninitialized
caller_program ==
  IF Ongoing(bit_phase) /\ qubit_phase # "error" THEN Uninitialized.program ELSE AbstractProgram
caller_generator ==
  [FirstNumber EXCEPT !.drawn = accumulator.shots_done * Cardinality(Measures)]
caller_phase ==
  IF Answered THEN "idle"
  ELSE IF Ongoing(bit_phase) THEN "registers"
  ELSE IF builder_phase = "building" THEN "building" ELSE "executing"
caller_calls ==
  IF ~Answered THEN <<>>
  ELSE << [request |-> AbstractRequest, outcome |-> IF Failed THEN "error" ELSE "result",
           from |-> FirstNumber, to |-> caller_generator] >>

Caller ==
  INSTANCE Simulator
    WITH Programs <- {}, Requests <- {}, MaxCalls <- 1,
         qubit_register <- caller_qubit_register, bit_register <- caller_bit_register,
         created <- bit_phase = "built", program <- caller_program, operated <- dirty,
         generator <- caller_generator, request <- AbstractRequest, phase <- caller_phase,
         next <- builder_next, measures <- Cardinality(Measures),
         shots_done <- accumulator.shots_done, start <- FirstNumber, calls <- caller_calls

\* Every step of the call is one of Simulator's calls, or none: the registers become
\* visible together, an error ends it where Simulator says so, each measure of each
\* shot draws one number and each instruction marks the qubits of its statement.
ImplementsSimulator == [][Caller!SimulatorNext]_(Caller!simulator_vars)

=============================================================================

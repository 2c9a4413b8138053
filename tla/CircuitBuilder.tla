--------------------------- MODULE CircuitBuilder ----------------------------
(***************************************************************************)
(* The circuit builder: it visits the statements of an analyzed program in *)
(* their order and appends instructions to the circuit, one for each of    *)
(* the elements that the operands of a statement name.  An error ends the  *)
(* building.                                                               *)
(*                                                                         *)
(* The variables of a program come with the ranges that the registers gave *)
(* them (see Register).  A gate under the modifiers of its "modifiers",    *)
(* outermost first, is a gate statement; every other statement has kind    *)
(* "nongate".                                                              *)
(***************************************************************************)
EXTENDS Instructions

CONSTANT Programs  \* records [variables, statements], as the analyzer returns them

Variable == [kind : {"qubit", "bit"}, first : Nat, size : Nat \ {0}]

Operand == [ref : {"variable"}, variable : STRING]
             \union [ref : {"index"}, variable : STRING, indices : Seq(Nat)]

Modifier == [name : {"inv", "ctrl"}] \union [name : {"pow"}, exponent : Int]

AnyStatement ==
  [kind : {"gate"}, name : STRING, parameter : Int, modifiers : Seq(Modifier),
   operands : Seq(Operand)]
    \union [kind : {"nongate"}, name : STRING, parameter : Int, operands : Seq(Operand)]

IndicesOf(variable) == variable.first..(variable.first + variable.size - 1)

\* The elements of a variable that an operand names.
Elements(variables, operand) ==
  IF operand.ref = "variable" THEN [j \in 1..variables[operand.variable].size |-> j - 1]
  ELSE operand.indices

\* The registers give the variables of a kind ranges that do not overlap.
VariablesAreLaidOut(variables) ==
  \A v, w \in DOMAIN variables :
    /\ variables[v] \in Variable
    /\ v # w /\ variables[v].kind = variables[w].kind
         => IndicesOf(variables[v]) \intersect IndicesOf(variables[w]) = {}

GateNames == DOMAIN fixed_gates \union {"Rx", "Ry", "Rz", "CR", "CRk"}

\* The operands of a gate: one more for each control.
NumberOfOperands(name) ==
  IF name = "TOFFOLI" THEN 3
  ELSE IF name \in {"CNOT", "CZ", "CR", "CRk", "SWAP"} THEN 2 ELSE 1
Controls(modifiers) == {i \in DOMAIN modifiers : modifiers[i].name = "ctrl"}

\* The analyzer checks that operands exist, are of one length and of the right kind, and
\* that a gate has as many as it takes.
IsResolved(variables, s) ==
  /\ s \in AnyStatement
  /\ s.operands # <<>>
  /\ s.name = "measure" => Len(s.operands) = 2
  /\ s.name \in {"reset", "init"} => Len(s.operands) = 1
  /\ s.kind = "gate" /\ s.name \in GateNames =>
       Len(s.operands) = NumberOfOperands(s.name) + Cardinality(Controls(s.modifiers))
  /\ \A o \in DOMAIN s.operands :
       /\ s.operands[o].variable \in DOMAIN variables
       /\ variables[s.operands[o].variable].kind =
            (IF s.name = "measure" /\ o = 1 THEN "bit" ELSE "qubit")
       /\ LET elements == Elements(variables, s.operands[o])
          IN  /\ Len(elements) = Len(Elements(variables, s.operands[1]))
              /\ \A j \in DOMAIN elements :
                   elements[j] < variables[s.operands[o].variable].size

ASSUME ProgramsAssumption ==
  \A p \in Programs :
    /\ VariablesAreLaidOut(p.variables)
    /\ p.statements \in Seq(AnyStatement)
    /\ \A k \in DOMAIN p.statements : IsResolved(p.variables, p.statements[k])

\* A bound: the angle of CRk is a multiple of pi/4 (see Gates).
ASSUME AnglesAssumption ==
  \A p \in Programs : \A k \in DOMAIN p.statements :
    p.statements[k].name = "CRk" => p.statements[k].parameter <= 3

VARIABLES
  program,       \* circuit.program
  next,          \* the statement that is visited next
  instructions,  \* circuit.instructions_
  dirty,         \* the qubits set in the dirty_bitset of the qubit register
  phase,         \* "building", "built" or "error"
  origins        \* history: the statement of each instruction

vars == <<program, next, instructions, dirty, phase, origins>>

Variables == program.variables
Statement == program.statements[next]

-----------------------------------------------------------------------------

\* Mutant: an index is taken for one of the register.
IndicesWithoutFirst(operand) ==
  LET range == Variables[operand.variable]
  IN  IF operand.ref = "variable"
      THEN [j \in 1..range.size |-> range.first + j - 1]
      ELSE operand.indices

\* The indices of one operand (an SGMQ group): a variable stands for all of its own.
get_sgmq_group_indices(operand) ==
  LET range == Variables[operand.variable]
  IN  IF operand.ref = "variable"
      THEN [j \in 1..range.size |-> range.first + j - 1]
      ELSE [j \in DOMAIN operand.indices |-> range.first + operand.indices[j]]

\* One index of every group for each instruction; the first group says how many.
to_instructions_indices(groups) ==
  [j \in 1..Len(groups[1]) |-> [o \in DOMAIN groups |-> groups[o][j]]]

get_instructions_indices(operands) ==
  to_instructions_indices([o \in DOMAIN operands |-> get_sgmq_group_indices(operands[o])])

Indices == get_instructions_indices(Statement.operands)

GateOf(s) == [name |-> s.name, parameter |-> s.parameter, modifiers |-> s.modifiers]

-----------------------------------------------------------------------------

Init ==
  /\ program \in Programs
  /\ next = 1
  /\ instructions = <<>>
  /\ dirty = {}
  /\ phase = "building"
  /\ origins = <<>>

Visiting(kind, names) ==
  /\ phase = "building"
  /\ next <= Len(program.statements)
  /\ Statement.kind = kind
  /\ Statement.name \in names

\* Mutant: only gates mark their qubits.
MarkedByGates(added) ==
  UNION {get_qubit_indices(added[j]) : j \in {k \in DOMAIN added : added[k].kind = "Unitary"}}

Marked(added) == UNION {get_qubit_indices(added[j]) : j \in DOMAIN added}

\* Circuit::add_instruction for each of a statement's instructions.
AddInstructions(added) ==
  /\ instructions' = instructions \o added
  /\ dirty' = dirty \union Marked(added)
  /\ origins' = origins \o [j \in DOMAIN added |-> next]
  /\ next' = next + 1
  /\ UNCHANGED <<program, phase>>

ThrowCircuitBuilderError ==
  /\ phase' = "error"
  /\ UNCHANGED <<program, next, instructions, dirty, origins>>

GateInstruction ==
  /\ Visiting("gate", GateNames)
  /\ AddInstructions([j \in DOMAIN Indices |-> ApplyGate(GateOf(Statement), Indices[j])])

UnknownGate ==
  /\ phase = "building"
  /\ next <= Len(program.statements)
  /\ Statement.kind = "gate"
  /\ Statement.name \notin GateNames
  /\ ThrowCircuitBuilderError

\* Mutant: the operands are taken the other way round.
MeasureSwapped ==
  /\ Visiting("nongate", {"measure"})
  /\ AddInstructions([j \in DOMAIN Indices |-> MeasureInto(Indices[j][1], Indices[j][2])])

\* b = measure q: the bit is operand 0, the qubit operand 1.
MeasureInstruction ==
  /\ Visiting("nongate", {"measure"})
  /\ AddInstructions([j \in DOMAIN Indices |-> MeasureInto(Indices[j][2], Indices[j][1])])

ResetInstruction ==
  /\ Visiting("nongate", {"reset"})
  /\ AddInstructions([j \in DOMAIN Indices |-> ResetQubit(Indices[j][1])])

\* Mutant: the first qubit only is checked.
FirstIsDirty == Indices[1][1] \in dirty

SomeAreDirty == \E j \in DOMAIN Indices : Indices[j][1] \in dirty

InitInstruction ==
  /\ Visiting("nongate", {"init"})
  /\ ~SomeAreDirty
  /\ AddInstructions(<<>>)

InitOfDirtyQubit ==
  /\ Visiting("nongate", {"init"})
  /\ SomeAreDirty
  /\ ThrowCircuitBuilderError

BarrierInstruction ==
  /\ Visiting("nongate", {"barrier"})
  /\ AddInstructions(<<>>)

WaitInstruction ==
  /\ Visiting("nongate", {"wait"})
  /\ Statement.parameter >= 0
  /\ AddInstructions(<<>>)

NegativeWait ==
  /\ Visiting("nongate", {"wait"})
  /\ Statement.parameter < 0
  /\ ThrowCircuitBuilderError

UnsupportedInstruction ==
  /\ phase = "building"
  /\ next <= Len(program.statements)
  /\ Statement.kind = "nongate"
  /\ Statement.name \notin {"measure", "reset", "init", "barrier", "wait"}
  /\ ThrowCircuitBuilderError

Built ==
  /\ phase = "building"
  /\ next > Len(program.statements)
  /\ phase' = "built"
  /\ UNCHANGED <<program, next, instructions, dirty, origins>>

Next ==
  \/ GateInstruction
  \/ UnknownGate
  \/ MeasureInstruction
  \/ ResetInstruction
  \/ InitInstruction
  \/ InitOfDirtyQubit
  \/ BarrierInstruction
  \/ WaitInstruction
  \/ NegativeWait
  \/ UnsupportedInstruction
  \/ Built

\* One thread, that waits for nothing.
Spec == Init /\ [][Next]_vars /\ WF_vars(Next)

-----------------------------------------------------------------------------

Qubits == UNION {IndicesOf(Variables[v]) : v \in {w \in DOMAIN Variables : Variables[w].kind = "qubit"}}
Bits   == UNION {IndicesOf(Variables[v]) : v \in {w \in DOMAIN Variables : Variables[w].kind = "bit"}}

Instruction ==
  [kind : {"Unitary"}, gate : [name : STRING, parameter : Int, modifiers : Seq(Modifier)],
   operands : Seq(Qubits)]
    \union [kind : {"Measure"}, qubit : Qubits, bit : Bits]
    \union [kind : {"Reset"}, qubit : Qubits]

TypeOK ==
  /\ program \in Programs
  /\ next \in 1..(Len(program.statements) + 1)
  /\ instructions \in Seq(Instruction)
  /\ dirty \subseteq Qubits
  /\ phase \in {"building", "built", "error"}
  /\ origins \in Seq(Nat)
  /\ Len(origins) = Len(instructions)

\* Every gate can be executed, whatever its modifiers: the matrix they make is unitary
\* and as large as the number of operands requires, which only the analyzer checks.
GatesFit ==
  \A j \in DOMAIN instructions : instructions[j].kind = "Unitary" =>
    LET m == MatrixOf(instructions[j].gate)
    IN  SizeOf(m) = 2^Len(instructions[j].operands) /\ IsUnitary(m)

\* The element that an index of a register belongs to.
NameOf(variables, kind, index) ==
  LET v == CHOOSE w \in DOMAIN variables :
             variables[w].kind = kind /\ index \in IndicesOf(variables[w])
  IN  <<v, index - variables[v].first>>

\* The elements an instruction is about, in the order a program writes them.
Written(variables, i) ==
  LET qubit(index) == NameOf(variables, "qubit", index)
  IN  CASE i.kind = "Unitary" -> [o \in DOMAIN i.operands |-> qubit(i.operands[o])]
        [] i.kind = "Measure" -> <<NameOf(variables, "bit", i.bit), qubit(i.qubit)>>
        [] i.kind = "Reset"   -> <<qubit(i.qubit)>>

\* What a statement stands for: one instruction for each element of its operands.
Unrolled(variables, s) ==
  IF s.kind = "gate" \/ s.name \in {"measure", "reset"}
  THEN [j \in DOMAIN Elements(variables, s.operands[1]) |->
          [o \in DOMAIN s.operands |->
             <<s.operands[o].variable, Elements(variables, s.operands[o])[j]>>]]
  ELSE <<>>

\* The instructions are those the program writes, in its order: read back in terms of
\* variables, every element of every statement has its instruction, on its own operands
\* (the example in operands_helper.cpp: CNOT q[0:2], q[3:5]).
InstructionsAreTheProgram ==
  [j \in DOMAIN instructions |-> Written(Variables, instructions[j])] =
    FlattenSeq([k \in 1..(next - 1) |-> Unrolled(Variables, program.statements[k])])

Acting(k) == UNION {get_qubit_indices(instructions[j]) : j \in {n \in DOMAIN origins : origins[n] < k}}

Inits == {k \in DOMAIN program.statements :
            program.statements[k].kind = "nongate" /\ program.statements[k].name = "init"}

Initialized(k) ==
  {get_instructions_indices(program.statements[k].operands)[j][1] :
     j \in DOMAIN get_instructions_indices(program.statements[k].operands)}

\* An init that is accepted comes before every instruction on its qubits.
InitsComeFirst ==
  \A k \in Inits : k < next => Initialized(k) \intersect Acting(k) = {}

\* Modified gates that have a name of their own, with that name.
NamedGates ==
  LET inv    == [name |-> "inv"]
      ctrl   == [name |-> "ctrl"]
      pow(n) == [name |-> "pow", exponent |-> n]
  IN { << <<inv>>, Plain("S", 0), Plain("Sdag", 0) >>,
       << <<inv>>, Plain("X90", 0), Plain("mX90", 0) >>,
       << <<inv>>, Plain("Y90", 0), Plain("mY90", 0) >>,
       << <<inv>>, Plain("Rx", 1), Plain("Rx", -1) >>,
       << <<inv, inv>>, Plain("H", 0), Plain("H", 0) >>,
       << <<pow(2)>>, Plain("S", 0), Plain("Z", 0) >>,
       << <<pow(-1)>>, Plain("T", 0), Plain("Tdag", 0) >>,
       << <<pow(2)>>, Plain("X90", 0), Plain("X", 0) >>,
       << <<pow(0)>>, Plain("H", 0), Plain("I", 0) >>,
       << <<ctrl>>, Plain("X", 0), Plain("CNOT", 0) >>,
       << <<ctrl, ctrl>>, Plain("X", 0), Plain("TOFFOLI", 0) >>,
       << <<ctrl, pow(2)>>, Plain("S", 0), Plain("CZ", 0) >>,
       << <<pow(2), ctrl>>, Plain("S", 0), Plain("CZ", 0) >>,
       << <<inv, ctrl>>, Plain("T", 0), Plain("CR", 7) >>,
       << <<ctrl, inv>>, Plain("S", 0), Plain("CR", -2) >> }

\* A gate under modifiers is the gate those modifiers make of it: the controlled X
\* is CNOT, the square of S is Z, and the inverse of X90 is mX90 (the comments of
\* integration_test.cpp).
ModifiersMakeNamedGates ==
  \A j \in DOMAIN instructions : instructions[j].kind = "Unitary" =>
    LET gate == instructions[j].gate
    IN  \A g \in NamedGates :
          g[1] = gate.modifiers /\ g[2] = Plain(gate.name, gate.parameter)
            => Same(MatrixOf(gate), MatrixOf(g[3]))

\* The statements alone decide how building ends: it fails on a gate or a statement
\* the builder does not know, a negative wait or an init of a qubit that an earlier
\* statement uses, and only then.
Uses(k) == IF program.statements[k].kind = "gate" \/ program.statements[k].name \in {"measure", "reset"}
           THEN {Unrolled(Variables, program.statements[k])[j][o] :
                   j \in DOMAIN Unrolled(Variables, program.statements[k]),
                   o \in DOMAIN program.statements[k].operands}
           ELSE {}
StatementFails(k) ==
  LET s == program.statements[k]
  IN  \/ s.kind = "gate" /\ s.name \notin GateNames
      \/ s.kind = "nongate" /\ s.name \notin {"measure", "reset", "init", "barrier", "wait"}
      \/ s.kind = "nongate" /\ s.name = "wait" /\ s.parameter < 0
      \/ /\ k \in Inits
         /\ \E l \in 1..(k - 1), e \in ToSet(Elements(Variables, s.operands[1])) :
              <<s.operands[1].variable, e>> \in Uses(l)
BuildingEnds ==
  <>(IF \E k \in DOMAIN program.statements : StatementFails(k)
     THEN phase = "error" ELSE phase = "built")

=============================================================================

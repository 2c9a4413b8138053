------------------------ MODULE CircuitBuilderProofs -------------------------
(***************************************************************************)
(* The circuit builder, for any programs: the indices of an instruction    *)
(* lie in their registers, its matrix is unitary and takes its operands,   *)
(* the instructions are those of the program, and an accepted init comes   *)
(* before every instruction on its qubits.                                 *)
(***************************************************************************)
EXTENDS CircuitBuilder, GatesProofs, SequenceTheorems

-----------------------------------------------------------------------------
(* The inductive invariant.                                                *)

\* The instructions so far come from statements that were visited.
OriginsArePast == \A j \in DOMAIN origins : origins[j] < next

\* What an instruction acts on was marked when it was added.
ActingIsDirty ==
  \A j \in DOMAIN instructions : get_qubit_indices(instructions[j]) \subseteq dirty

\* A gate was taken for one the builder knows, with the operands it takes.
IsKnown(gate) ==
  /\ gate.name \in GateNames /\ gate.parameter \in Int /\ gate.modifiers \in Seq(Modifier)
  /\ gate.name = "CRk" => gate.parameter <= 3
TakesOperands(gate, n) ==
  IsKnown(gate) /\ n = NumberOfOperands(gate.name) + Cardinality(Controls(gate.modifiers))
GatesAreKnown ==
  \A j \in DOMAIN instructions :
    instructions[j].kind = "Unitary" => TakesOperands(instructions[j].gate, Len(instructions[j].operands))

Inv ==
  /\ TypeOK /\ OriginsArePast /\ ActingIsDirty /\ InitsComeFirst
  /\ InstructionsAreTheProgram /\ GatesAreKnown

-----------------------------------------------------------------------------
(* Sequences one after the other.                                          *)

LEMMA SequenceIs ==
  ASSUME NEW V, NEW a \in Seq(V)
  PROVE  DOMAIN a = 1..Len(a) /\ a = [j \in DOMAIN a |-> a[j]]
  OBVIOUS

LEMMA ConcatIs ==
  ASSUME NEW a, IsList(a), NEW b, IsList(b), NEW c,
         c = [j \in 1..(Len(a) + Len(b)) |-> IF j <= Len(a) THEN a[j] ELSE b[j - Len(a)]]
  PROVE  c = a \o b
<1>. DEFINE V == {a[j] : j \in 1..Len(a)} \union {b[j] : j \in 1..Len(b)}
<1>1. Len(a) \in Nat /\ Len(b) \in Nat
  BY DEF IsList
<1>2. (\A j \in 1..Len(a) : a[j] \in V) /\ (\A j \in 1..Len(b) : b[j] \in V)
  OBVIOUS
<1>. HIDE DEF V
<1>3. a \in Seq(V) /\ b \in Seq(V)
  BY <1>2, ListType
<1>4. /\ a \o b \in Seq(V)
      /\ Len(a \o b) = Len(a) + Len(b)
      /\ \A j \in 1..(Len(a) + Len(b)) :
           (a \o b)[j] = IF j <= Len(a) THEN a[j] ELSE b[j - Len(a)]
  BY <1>3, ConcatProperties
<1>5. a \o b = [j \in 1..(Len(a) + Len(b)) |-> (a \o b)[j]]
  <2>1. DOMAIN (a \o b) = 1..(Len(a) + Len(b)) /\ a \o b = [j \in DOMAIN (a \o b) |-> (a \o b)[j]]
    BY <1>1, <1>4, SequenceIs
  <2>2. QED
    BY <2>1
<1>6. QED
  BY <1>4, <1>5

-----------------------------------------------------------------------------
(* What the operands of a statement stand for.                             *)

\* The statement that is visited is one the analyzer resolved.
LEMMA StatementType ==
  ASSUME TypeOK, next <= Len(program.statements)
  PROVE  /\ Statement \in AnyStatement
         /\ VariablesAreLaidOut(Variables)
         /\ IsResolved(Variables, Statement)
         /\ Statement.operands \in Seq(Operand)
         /\ 1 \in DOMAIN Statement.operands
<1>1. program \in Programs /\ next \in 1..Len(program.statements)
  BY DEF TypeOK
<1>2. /\ VariablesAreLaidOut(program.variables)
      /\ program.statements \in Seq(AnyStatement)
      /\ \A k \in DOMAIN program.statements : IsResolved(program.variables, program.statements[k])
  BY <1>1, ProgramsAssumption
<1>3. DOMAIN program.statements = 1..Len(program.statements)
  BY <1>2
<1>4. IsResolved(Variables, Statement) /\ VariablesAreLaidOut(Variables)
  BY <1>1, <1>2, <1>3 DEF Variables, Statement
<1>5. Statement \in AnyStatement /\ Statement.operands # <<>>
  BY <1>4 DEF IsResolved
<1>6. Statement.operands \in Seq(Operand)
  BY <1>5 DEF AnyStatement
<1>7. 1 \in DOMAIN Statement.operands
  BY <1>5, <1>6
<1>8. QED
  BY <1>4, <1>5, <1>6, <1>7

\* An operand stands for as many indices as it names elements, each of its register.
LEMMA GroupType ==
  ASSUME TypeOK, next <= Len(program.statements), NEW o \in DOMAIN Statement.operands
  PROVE  LET operand == Statement.operands[o]
             group   == get_sgmq_group_indices(operand)
         IN  /\ Len(group) \in Nat
             /\ DOMAIN group = 1..Len(group)
             /\ Len(group) = Len(Elements(Variables, Statement.operands[1]))
             /\ \A j \in DOMAIN group :
                  group[j] \in IndicesOf(Variables[operand.variable])
<1> DEFINE operand == Statement.operands[o]
           group   == get_sgmq_group_indices(operand)
           range   == Variables[operand.variable]
           elements == Elements(Variables, operand)
<1>1. /\ operand \in Operand
      /\ operand.variable \in DOMAIN Variables
      /\ Len(elements) = Len(Elements(Variables, Statement.operands[1]))
      /\ \A j \in DOMAIN elements : elements[j] < range.size
  <2>1. Statement.operands \in Seq(Operand) /\ IsResolved(Variables, Statement)
    BY StatementType
  <2>2. operand \in Operand
    BY <2>1
  <2>3. QED
    BY <2>1, <2>2 DEF IsResolved
<1>2. range \in Variable
  BY <1>1, StatementType DEF VariablesAreLaidOut
<1>3. range.first \in Nat /\ range.size \in Nat
  BY <1>2 DEF Variable
<1>4. CASE operand.ref = "variable"
  <2>1. elements = [j \in 1..range.size |-> j - 1]
    BY <1>4 DEF Elements
  <2>2. group = [j \in 1..range.size |-> range.first + j - 1]
    BY <1>4 DEF get_sgmq_group_indices
  <2>3. Len(elements) = range.size /\ Len(group) = range.size
    BY <1>3, <2>1, <2>2
  <2>4. \A j \in 1..range.size : group[j] \in IndicesOf(range)
    BY <1>3, <2>2 DEF IndicesOf
  <2>5. QED
    BY <1>1, <1>3, <2>2, <2>3, <2>4
<1>5. CASE operand.ref # "variable"
  <2>1. elements = operand.indices /\ operand.indices \in Seq(Nat)
    BY <1>1, <1>5 DEF Elements, Operand
  <2>2. group = [j \in DOMAIN elements |-> range.first + elements[j]]
    BY <1>5, <2>1 DEF get_sgmq_group_indices
  <2>3. Len(elements) \in Nat /\ DOMAIN elements = 1..Len(elements)
    BY <2>1
  <2>4. DOMAIN group = 1..Len(elements) /\ Len(group) = Len(elements)
    BY <2>2, <2>3
  <2>5. \A j \in DOMAIN group : group[j] \in IndicesOf(range)
    <3> SUFFICES ASSUME NEW j \in DOMAIN group
                 PROVE  group[j] \in IndicesOf(range)
      OBVIOUS
    <3>1. elements[j] \in Nat /\ elements[j] < range.size
      BY <1>1, <2>1, <2>3, <2>4
    <3>2. QED
      BY <1>3, <2>2, <3>1 DEF IndicesOf
  <2>6. QED
    BY <1>1, <2>3, <2>4, <2>5
<1>6. QED
  BY <1>4, <1>5

\* The unrolled indices: one sequence for each element, with one index per operand,
\* which is a bit for the first operand of a measure and a qubit otherwise.
LEMMA IndicesType ==
  ASSUME TypeOK, next <= Len(program.statements)
  PROVE  /\ Len(Indices) \in Nat /\ DOMAIN Indices = 1..Len(Indices)
         /\ \A j \in DOMAIN Indices :
              /\ Indices[j] = [o \in DOMAIN Statement.operands |-> Indices[j][o]]
              /\ \A o \in DOMAIN Statement.operands :
                   Indices[j][o] \in
                     (IF Statement.name = "measure" /\ o = 1 THEN Bits ELSE Qubits)
<1> DEFINE operands == Statement.operands
           groups == [o \in DOMAIN operands |-> get_sgmq_group_indices(operands[o])]
           n == Len(groups[1])
<1>1. 1 \in DOMAIN operands
  BY StatementType
<1>2. n \in Nat /\ \A o \in DOMAIN operands : Len(groups[o]) = n /\ DOMAIN groups[o] = 1..n
  <2>1. \A o \in DOMAIN operands :
          /\ Len(groups[o]) \in Nat
          /\ DOMAIN groups[o] = 1..Len(groups[o])
          /\ Len(groups[o]) = Len(Elements(Variables, Statement.operands[1]))
    BY GroupType
  <2>2. QED
    BY <1>1, <2>1
<1>3. Indices = [j \in 1..n |-> [o \in DOMAIN groups |-> groups[o][j]]]
  BY DEF Indices, get_instructions_indices, to_instructions_indices
<1>4. Len(Indices) = n /\ DOMAIN Indices = 1..n
  BY <1>2, <1>3
<1>5. ASSUME NEW j \in 1..n, NEW o \in DOMAIN operands
      PROVE  Indices[j][o] \in (IF Statement.name = "measure" /\ o = 1 THEN Bits ELSE Qubits)
  <2> DEFINE v == operands[o].variable
  <2>1. Indices[j][o] = groups[o][j]
    BY <1>3
  <2>2. groups[o][j] \in IndicesOf(Variables[v])
    BY <1>2, GroupType
  <2>3. /\ v \in DOMAIN Variables
        /\ Variables[v].kind = (IF Statement.name = "measure" /\ o = 1 THEN "bit" ELSE "qubit")
    BY StatementType DEF IsResolved
  <2>4. QED
    BY <2>1, <2>2, <2>3 DEF Qubits, Bits
<1>6. QED
  BY <1>2, <1>3, <1>4, <1>5

-----------------------------------------------------------------------------
(* An index is read back as the element it stands for.                     *)

LEMMA NameOfIndex ==
  ASSUME VariablesAreLaidOut(Variables), NEW v \in DOMAIN Variables,
         NEW index \in IndicesOf(Variables[v])
  PROVE  NameOf(Variables, Variables[v].kind, index) = <<v, index - Variables[v].first>>
<1>. DEFINE Has(w) == Variables[w].kind = Variables[v].kind /\ index \in IndicesOf(Variables[w])
<1>1. \A w \in DOMAIN Variables : Has(w) <=> w = v
  BY DEF VariablesAreLaidOut
<1>2. (CHOOSE w \in DOMAIN Variables : Has(w)) = v
  <2>. HIDE DEF Has
  <2>1. QED
    BY <1>1
<1>3. QED
  BY <1>2 DEF NameOf

LEMMA IndexNames ==
  ASSUME TypeOK, next <= Len(program.statements)
  PROVE  LET operands == Statement.operands
         IN  /\ DOMAIN Indices = DOMAIN Elements(Variables, operands[1])
             /\ \A j \in DOMAIN Indices : \A o \in DOMAIN operands :
                  NameOf(Variables, IF Statement.name = "measure" /\ o = 1 THEN "bit" ELSE "qubit",
                         Indices[j][o])
                    = <<operands[o].variable, Elements(Variables, operands[o])[j]>>
<1>. DEFINE operands == Statement.operands
            groups   == [o \in DOMAIN operands |-> get_sgmq_group_indices(operands[o])]
            n        == Len(groups[1])
            elements(o) == Elements(Variables, operands[o])
<1>1. /\ 1 \in DOMAIN operands /\ VariablesAreLaidOut(Variables)
      /\ IsResolved(Variables, Statement) /\ operands \in Seq(Operand)
  BY StatementType
<1>2. \A o \in DOMAIN operands :
        /\ Len(groups[o]) \in Nat
        /\ DOMAIN groups[o] = 1..Len(groups[o])
        /\ Len(groups[o]) = Len(elements(1))
        /\ \A j \in DOMAIN groups[o] :
             groups[o][j] \in IndicesOf(Variables[operands[o].variable])
  BY GroupType
<1>3. Indices = [j \in 1..n |-> [o \in DOMAIN groups |-> groups[o][j]]]
  BY DEF Indices, get_instructions_indices, to_instructions_indices
<1>4. ASSUME NEW o \in DOMAIN operands
      PROVE  /\ operands[o].variable \in DOMAIN Variables
             /\ Variables[operands[o].variable].kind =
                  (IF Statement.name = "measure" /\ o = 1 THEN "bit" ELSE "qubit")
             /\ Variables[operands[o].variable].first \in Nat
             /\ Variables[operands[o].variable].size \in Nat
             /\ operands[o] \in Operand
  <2>1. /\ operands[o].variable \in DOMAIN Variables
        /\ Variables[operands[o].variable].kind =
             (IF Statement.name = "measure" /\ o = 1 THEN "bit" ELSE "qubit")
    BY <1>1 DEF IsResolved
  <2>2. Variables[operands[o].variable] \in Variable
    BY <1>1, <2>1 DEF VariablesAreLaidOut
  <2>3. operands[o] \in Operand
    BY <1>1
  <2>4. QED
    BY <2>1, <2>2, <2>3 DEF Variable
<1>5. ASSUME NEW o \in DOMAIN operands
      PROVE  /\ DOMAIN elements(o) = DOMAIN groups[o]
             /\ \A j \in DOMAIN groups[o] :
                  groups[o][j] - Variables[operands[o].variable].first = elements(o)[j]
  <2>. DEFINE operand == operands[o]
              range   == Variables[operand.variable]
  <2>1. range.first \in Nat /\ range.size \in Nat /\ operand \in Operand
    BY <1>4
  <2>2. groups[o] = get_sgmq_group_indices(operand)
    OBVIOUS
  <2>3. CASE operand.ref = "variable"
    <3>1. elements(o) = [j \in 1..range.size |-> j - 1]
      BY <2>3 DEF Elements
    <3>2. groups[o] = [j \in 1..range.size |-> range.first + j - 1]
      BY <2>2, <2>3 DEF get_sgmq_group_indices
    <3>3. QED
      BY <2>1, <3>1, <3>2
  <2>4. CASE operand.ref # "variable"
    <3>1. elements(o) = operand.indices /\ operand.indices \in Seq(Nat)
      BY <2>1, <2>4 DEF Elements, Operand
    <3>2. groups[o] = [j \in DOMAIN operand.indices |-> range.first + operand.indices[j]]
      BY <2>2, <2>4 DEF get_sgmq_group_indices
    <3>3. \A j \in DOMAIN operand.indices : operand.indices[j] \in Nat
      BY <3>1
    <3>4. QED
      BY <2>1, <3>1, <3>2, <3>3
  <2>5. QED
    BY <2>3, <2>4
<1>6. DOMAIN Indices = DOMAIN elements(1)
  BY <1>1, <1>2, <1>3, <1>5
<1>7. ASSUME NEW j \in DOMAIN Indices, NEW o \in DOMAIN operands
      PROVE  NameOf(Variables, IF Statement.name = "measure" /\ o = 1 THEN "bit" ELSE "qubit",
                    Indices[j][o])
               = <<operands[o].variable, elements(o)[j]>>
  <2>1. j \in DOMAIN groups[o] /\ Indices[j][o] = groups[o][j]
    BY <1>1, <1>2, <1>3
  <2>. DEFINE v == operands[o].variable
              index == groups[o][j]
  <2>2. v \in DOMAIN Variables /\ index \in IndicesOf(Variables[v])
        /\ index - Variables[v].first = elements(o)[j]
        /\ Variables[v].kind = (IF Statement.name = "measure" /\ o = 1 THEN "bit" ELSE "qubit")
    BY <1>2, <1>4, <1>5, <2>1
  <2>. HIDE DEF v, index, elements
  <2>3. NameOf(Variables, Variables[v].kind, index) = <<v, index - Variables[v].first>>
    BY <1>1, <2>2, NameOfIndex
  <2>4. QED
    BY <2>1, <2>2, <2>3 DEF v, index, elements
<1>8. QED
  BY <1>6, <1>7

-----------------------------------------------------------------------------
(* Adding the instructions of a statement.                                 *)

\* The sequence that is read back grows by what the statement stands for.
LEMMA WrittenStep ==
  ASSUME TypeOK, InstructionsAreTheProgram, next <= Len(program.statements),
         NEW added \in Seq(Instruction), AddInstructions(added),
         [j \in DOMAIN added |-> Written(Variables, added[j])] = Unrolled(Variables, Statement)
  PROVE  InstructionsAreTheProgram'
<1>. DEFINE read == [j \in DOMAIN instructions |-> Written(Variables, instructions[j])]
            more == [j \in DOMAIN added |-> Written(Variables, added[j])]
            s    == [k \in 1..(next - 1) |-> Unrolled(Variables, program.statements[k])]
            t    == [k \in 1..next |-> Unrolled(Variables, program.statements[k])]
            n    == Len(instructions)
            m    == Len(added)
<1>1. /\ program' = program /\ next' = next + 1 /\ instructions' = instructions \o added
      /\ (next + 1) - 1 = next /\ next - 1 \in Nat /\ (next - 1) + 1 = next
  BY DEF AddInstructions, TypeOK
<1>2. /\ n \in Nat /\ DOMAIN instructions = 1..n /\ m \in Nat /\ DOMAIN added = 1..m
  BY DEF TypeOK
<1>3. /\ DOMAIN instructions' = 1..(n + m)
      /\ \A j \in 1..(n + m) :
           instructions'[j] = IF j <= n THEN instructions[j] ELSE added[j - n]
  BY <1>1, ConcatProperties DEF TypeOK
<1>4. IsList(read) /\ Len(read) = n /\ IsList(more) /\ Len(more) = m
  BY <1>2 DEF IsList
<1>5. \A j \in 1..(n + m) :
        Written(Variables, instructions'[j]) = IF j <= n THEN read[j] ELSE more[j - n]
  BY <1>2, <1>3
<1>6. [j \in DOMAIN instructions' |-> Written(Variables, instructions'[j])] = read \o more
  <2>. DEFINE c == [j \in 1..(n + m) |-> Written(Variables, instructions'[j])]
  <2>. HIDE DEF read, more
  <2>1. c = [j \in 1..(Len(read) + Len(more)) |->
               IF j <= Len(read) THEN read[j] ELSE more[j - Len(read)]]
    BY <1>2, <1>4, <1>5
  <2>. HIDE DEF c
  <2>2. c = read \o more
    BY <1>4, <2>1, ConcatIs
  <2>3. QED
    BY <1>3, <2>2 DEF c
<1>7. FlattenSeq(t) = FlattenSeq(s) \o more
  <2>1. t[next] = more
    <3>1. next \in 1..next
      BY DEF TypeOK
    <3>2. QED
      BY <3>1 DEF Statement
  <2>2. \A k \in 1..(next - 1) : t[k] = s[k]
    BY <1>1
  <2>3. /\ Len(s) = next - 1 /\ s = [k \in 1..(next - 1) |-> s[k]]
        /\ Len(t) = (next - 1) + 1
    BY <1>1
  <2>. DEFINE V == {more[j] : j \in 1..m}
  <2>4. more \in Seq(V)
    <3>1. more \in [1..m -> V]
      BY <1>2
    <3>2. QED
      BY <1>2, <3>1
  <2>. HIDE DEF s, t, more, V
  <2>5. FlattenSeq(t) = FlattenSeq(s) \o t[(next - 1) + 1]
    BY <1>1, <2>1, <2>2, <2>3, <2>4, FlattenExtended
  <2>6. QED
    BY <1>1, <2>1, <2>5
<1>8. Variables' = Variables
  BY <1>1 DEF Variables
<1>9. [k \in 1..(next' - 1) |-> Unrolled(Variables', program'.statements[k])] = t
  BY <1>1, <1>8
<1>10. read = FlattenSeq(s)
  BY DEF InstructionsAreTheProgram
<1>11. [j \in DOMAIN instructions' |-> Written(Variables', instructions'[j])] = FlattenSeq(t)
  <2>. HIDE DEF read, more, s, t
  <2>1. QED
    BY <1>6, <1>7, <1>8, <1>10
<1>12. QED
  BY <1>9, <1>11 DEF InstructionsAreTheProgram

\* Whatever a statement adds, unless it is an init of a qubit that was used.
LEMMA AddStep ==
  ASSUME Inv, next <= Len(program.statements), NEW added \in Seq(Instruction),
         AddInstructions(added),
         next \in Inits => Initialized(next) \intersect dirty = {} /\ added = <<>>,
         [j \in DOMAIN added |-> Written(Variables, added[j])] = Unrolled(Variables, Statement),
         \A j \in DOMAIN added :
           added[j].kind = "Unitary" => TakesOperands(added[j].gate, Len(added[j].operands))
  PROVE  Inv'
<1> DEFINE n == Len(instructions)
           m == Len(added)
           marks == [j \in DOMAIN added |-> next]
<1>1. /\ program \in Programs /\ next \in Nat /\ next >= 1
      /\ instructions \in Seq(Instruction) /\ origins \in Seq(Nat)
      /\ n \in Nat /\ Len(origins) = n /\ m \in Nat
      /\ DOMAIN instructions = 1..n /\ DOMAIN origins = 1..n /\ DOMAIN added = 1..m
  BY DEF Inv, TypeOK
<1>2. /\ program' = program /\ phase' = phase /\ next' = next + 1
      /\ instructions' = instructions \o added
      /\ origins' = origins \o marks
      /\ dirty' = dirty \union Marked(added)
  BY DEF AddInstructions
<1>3. marks \in Seq(Nat) /\ Len(marks) = m
  BY <1>1
<1>4. /\ instructions' \in Seq(Instruction) /\ Len(instructions') = n + m
      /\ DOMAIN instructions' = 1..(n + m)
      /\ \A j \in 1..(n + m) :
           instructions'[j] = IF j <= n THEN instructions[j] ELSE added[j - n]
  BY <1>1, <1>2, ConcatProperties
<1>5. /\ origins' \in Seq(Nat) /\ Len(origins') = n + m
      /\ DOMAIN origins' = 1..(n + m)
      /\ \A j \in 1..(n + m) : origins'[j] = IF j <= n THEN origins[j] ELSE next
  <2>1. \A s, t \in Seq(Nat) :
          /\ s \o t \in Seq(Nat)
          /\ Len(s \o t) = Len(s) + Len(t)
          /\ \A j \in 1..(Len(s) + Len(t)) :
               (s \o t)[j] = IF j <= Len(s) THEN s[j] ELSE t[j - Len(s)]
    BY ConcatProperties
  <2>2. /\ origins' \in Seq(Nat) /\ Len(origins') = n + m
        /\ \A j \in 1..(n + m) :
             origins'[j] = IF j <= n THEN origins[j] ELSE marks[j - n]
    <3> HIDE DEF n, m, marks
    <3>1. QED
      BY <1>1, <1>2, <1>3, <2>1
  <2>3. QED
    BY <1>1, <2>2
<1>6. Qubits' = Qubits /\ Instruction' = Instruction
  BY <1>2 DEF Qubits, Bits, Instruction, Variables
<1>7. \A j \in 1..m : get_qubit_indices(added[j]) \subseteq Marked(added)
  BY <1>1 DEF Marked
<1>8. Marked(added) \subseteq Qubits
  <2>1. \A j \in 1..m : added[j] \in Instruction
    BY <1>1
  <2>2. \A i \in Instruction : get_qubit_indices(i) \subseteq Qubits
    BY DEF Instruction, get_qubit_indices, ToSet
  <2>3. QED
    BY <1>1, <2>1, <2>2 DEF Marked
<1>9. TypeOK'
  <2>1. next' \in 1..(Len(program'.statements) + 1)
    BY <1>1, <1>2 DEF Inv, TypeOK
  <2>2. dirty' \subseteq Qubits'
    BY <1>2, <1>6, <1>8 DEF Inv, TypeOK
  <2>3. QED
    BY <1>1, <1>2, <1>4, <1>5, <1>6, <2>1, <2>2 DEF Inv, TypeOK
<1>10. OriginsArePast'
  BY <1>1, <1>2, <1>5 DEF Inv, OriginsArePast
<1>11. ActingIsDirty'
  BY <1>1, <1>2, <1>4, <1>7 DEF Inv, ActingIsDirty
<1>12. InitsComeFirst'
  <2> SUFFICES ASSUME NEW k \in Inits', k < next'
               PROVE  Initialized(k)' \intersect Acting(k)' = {}
    BY DEF InitsComeFirst
  <2>1. k \in Inits /\ k \in Nat /\ k <= next
    <3>1. k \in Inits
      BY <1>2 DEF Inits
    <3>2. k \in Nat
      <4>1. program.statements \in Seq(AnyStatement)
        BY <1>1, ProgramsAssumption
      <4>2. QED
        BY <3>1, <4>1 DEF Inits
    <3>3. QED
      BY <1>1, <1>2, <3>1, <3>2
  <2>2. Initialized(k)' = Initialized(k)
    <3>1. Variables' = Variables
      BY <1>2 DEF Variables
    <3>2. ASSUME NEW operands
          PROVE  get_instructions_indices(operands)' = get_instructions_indices(operands)
      BY <3>1 DEF get_instructions_indices, get_sgmq_group_indices
    <3>3. QED
      BY <1>2, <3>2 DEF Initialized
  <2>3. Acting(k)' \subseteq Acting(k)
    <3>0. Acting(k)' = UNION {get_qubit_indices(instructions'[j]) :
                                j \in {l \in 1..(n + m) : origins'[l] < k}}
      BY <1>5 DEF Acting, get_qubit_indices
    <3> SUFFICES ASSUME NEW j \in 1..(n + m), origins'[j] < k,
                        NEW q \in get_qubit_indices(instructions'[j])
                 PROVE  q \in Acting(k)
      BY <3>0
    <3>1. j \in 1..n
      BY <1>1, <1>5, <2>1
    <3>2. origins[j] < k /\ instructions'[j] = instructions[j]
      BY <1>1, <1>4, <1>5, <3>1
    <3>3. QED
      BY <1>1, <3>1, <3>2 DEF Acting
  <2>4. Acting(k) \subseteq dirty
    BY <1>1 DEF Inv, ActingIsDirty, Acting
  <2>5. CASE k < next
    BY <2>1, <2>2, <2>3, <2>5 DEF Inv, InitsComeFirst
  <2>6. CASE k = next
    BY <2>1, <2>2, <2>3, <2>4, <2>6
  <2>7. QED
    BY <1>1, <2>1, <2>5, <2>6
<1>13. InstructionsAreTheProgram'
  BY WrittenStep DEF Inv
<1>14. GatesAreKnown'
  <2>. SUFFICES ASSUME NEW j \in 1..(n + m), instructions'[j].kind = "Unitary"
                PROVE  TakesOperands(instructions'[j].gate, Len(instructions'[j].operands))
    BY <1>4 DEF GatesAreKnown, TakesOperands, IsKnown
  <2>1. CASE j <= n
    <3>1. j \in DOMAIN instructions /\ instructions'[j] = instructions[j]
      BY <1>1, <1>4, <2>1
    <3>2. QED
      BY <3>1 DEF Inv, GatesAreKnown
  <2>2. CASE j > n
    <3>1. j - n \in DOMAIN added /\ instructions'[j] = added[j - n]
      BY <1>1, <1>4, <2>2
    <3>2. QED
      BY <3>1
  <2>3. QED
    BY <1>1, <2>1, <2>2
<1>15. QED
  BY <1>9, <1>10, <1>11, <1>12, <1>13, <1>14 DEF Inv

\* An error, or the end of the statements, leaves what was built alone.
LEMMA EndStep ==
  ASSUME Inv, UNCHANGED <<program, next, instructions, dirty, origins>>,
         phase' \in {"building", "built", "error"}
  PROVE  Inv'
<1>1. TypeOK'
  BY DEF Inv, TypeOK, Qubits, Bits, Instruction, Variables
<1>2. OriginsArePast' /\ ActingIsDirty'
  BY DEF Inv, OriginsArePast, ActingIsDirty
<1>3. InitsComeFirst'
  <2>1. Inits' = Inits /\ next' = next
    BY DEF Inits
  <2>2. ASSUME NEW k PROVE Acting(k)' = Acting(k)
    BY DEF Acting, get_qubit_indices
  <2>3. ASSUME NEW k PROVE Initialized(k)' = Initialized(k)
    BY DEF Initialized, get_instructions_indices, get_sgmq_group_indices, Variables
  <2>4. QED
    BY <2>1, <2>2, <2>3 DEF Inv, InitsComeFirst
<1>4. InstructionsAreTheProgram'
  <2>1. Variables' = Variables
    BY DEF Variables
  <2>2. QED
    BY <2>1 DEF Inv, InstructionsAreTheProgram
<1>5. GatesAreKnown'
  BY DEF Inv, GatesAreKnown, TakesOperands, IsKnown
<1>6. QED
  BY <1>1, <1>2, <1>3, <1>4, <1>5 DEF Inv

-----------------------------------------------------------------------------
(* One step for each kind of statement.                                    *)

LEMMA InvInit == Init => Inv
<1> SUFFICES ASSUME Init PROVE Inv
  OBVIOUS
<1>1. TypeOK
  <2>1. program \in Programs /\ Len(program.statements) \in Nat
    BY ProgramsAssumption DEF Init
  <2>2. QED
    BY <2>1 DEF Init, TypeOK
<1>2. OriginsArePast /\ ActingIsDirty
  BY DEF Init, OriginsArePast, ActingIsDirty
<1>3. InitsComeFirst
  BY DEF Init, InitsComeFirst, Acting
<1>4. InstructionsAreTheProgram
  BY DEF Init, InstructionsAreTheProgram, FlattenSeq
<1>5. GatesAreKnown
  BY DEF Init, GatesAreKnown
<1>6. QED
  BY <1>1, <1>2, <1>3, <1>4, <1>5 DEF Inv

LEMMA GateStep == ASSUME Inv, GateInstruction PROVE Inv'
<1> DEFINE added == [j \in DOMAIN Indices |-> ApplyGate(GateOf(Statement), Indices[j])]
<1>1. next <= Len(program.statements) /\ Statement.kind = "gate" /\ AddInstructions(added)
  BY DEF GateInstruction, Visiting
<1>2. TypeOK
  BY DEF Inv
<1>3. Statement \in AnyStatement /\ Statement.operands \in Seq(Operand)
  BY <1>1, <1>2, StatementType
<1>4. next \notin Inits
  BY <1>1 DEF Inits, Statement
<1>5. Statement.name # "measure"
  BY <1>1 DEF GateInstruction, Visiting, GateNames, fixed_gates
<1>6. \A j \in DOMAIN Indices : Indices[j] \in Seq(Qubits)
  <2> SUFFICES ASSUME NEW j \in DOMAIN Indices PROVE Indices[j] \in Seq(Qubits)
    OBVIOUS
  <2>1. DOMAIN Statement.operands = 1..Len(Statement.operands) /\ Len(Statement.operands) \in Nat
    BY <1>3
  <2>2. Indices[j] \in [1..Len(Statement.operands) -> Qubits]
    BY <1>1, <1>2, <1>5, <2>1, IndicesType
  <2>3. QED
    BY <2>1, <2>2
<1>7. GateOf(Statement) \in [name : STRING, parameter : Int, modifiers : Seq(Modifier)]
  BY <1>1, <1>3 DEF GateOf, AnyStatement
<1>8. \A j \in DOMAIN Indices : added[j] \in Instruction
  BY <1>6, <1>7 DEF ApplyGate, Instruction
<1>9. added \in Seq(Instruction)
  BY <1>1, <1>2, <1>8, IndicesType
<1>10. [j \in DOMAIN added |-> Written(Variables, added[j])] = Unrolled(Variables, Statement)
  <2>1. DOMAIN Indices = DOMAIN Elements(Variables, Statement.operands[1])
    BY <1>1, <1>2, IndexNames
  <2>2. ASSUME NEW j \in DOMAIN Indices
        PROVE  Written(Variables, added[j]) =
                 [o \in DOMAIN Statement.operands |->
                    <<Statement.operands[o].variable,
                      Elements(Variables, Statement.operands[o])[j]>>]
    <3>1. DOMAIN Indices[j] = DOMAIN Statement.operands
      BY <1>1, <1>2, IndicesType
    <3>2. \A o \in DOMAIN Statement.operands :
            NameOf(Variables, "qubit", Indices[j][o]) =
              <<Statement.operands[o].variable, Elements(Variables, Statement.operands[o])[j]>>
      BY <1>1, <1>2, <1>5, IndexNames
    <3>3. Written(Variables, added[j]) = [o \in DOMAIN Indices[j] |-> NameOf(Variables, "qubit", Indices[j][o])]
      BY DEF Written, ApplyGate
    <3>4. QED
      BY <3>1, <3>2, <3>3
  <2>3. Unrolled(Variables, Statement) =
          [j \in DOMAIN Indices |->
             [o \in DOMAIN Statement.operands |->
                <<Statement.operands[o].variable, Elements(Variables, Statement.operands[o])[j]>>]]
    BY <1>1, <2>1 DEF Unrolled
  <2>4. QED
    BY <2>2, <2>3
<1>11. ASSUME NEW j \in DOMAIN added
       PROVE  TakesOperands(added[j].gate, Len(added[j].operands))
  <2>1. added[j].gate = GateOf(Statement) /\ added[j].operands = Indices[j] /\ j \in DOMAIN Indices
    BY DEF ApplyGate
  <2>2. /\ Statement.name \in GateNames /\ Statement.parameter \in Int
        /\ Statement.modifiers \in Seq(Modifier)
    BY <1>1, <1>3 DEF GateInstruction, Visiting, AnyStatement
  <2>3. Statement.name = "CRk" => Statement.parameter <= 3
    <3>1. program \in Programs /\ next \in DOMAIN program.statements
      BY <1>1, <1>2, ProgramsAssumption DEF TypeOK
    <3>2. QED
      BY <3>1, AnglesAssumption DEF Statement
  <2>4. Len(Statement.operands)
          = NumberOfOperands(Statement.name) + Cardinality(Controls(Statement.modifiers))
    BY <1>1, <1>2, <2>2, StatementType DEF IsResolved
  <2>5. Len(Indices[j]) = Len(Statement.operands)
    <3>1. DOMAIN Indices[j] = DOMAIN Statement.operands
      BY <1>1, <1>2, <2>1, IndicesType
    <3>2. DOMAIN Statement.operands = 1..Len(Statement.operands) /\ Len(Statement.operands) \in Nat
      BY <1>3
    <3>3. QED
      BY <1>6, <2>1, <3>1, <3>2
  <2>6. QED
    BY <2>1, <2>2, <2>3, <2>4, <2>5 DEF TakesOperands, IsKnown, GateOf
<1>12. QED
  BY <1>1, <1>4, <1>9, <1>10, <1>11, AddStep

LEMMA MeasureStep == ASSUME Inv, MeasureInstruction PROVE Inv'
<1> DEFINE added == [j \in DOMAIN Indices |-> MeasureInto(Indices[j][2], Indices[j][1])]
<1>1. /\ next <= Len(program.statements) /\ Statement.name = "measure"
      /\ AddInstructions(added)
  BY DEF MeasureInstruction, Visiting
<1>2. TypeOK
  BY DEF Inv
<1>3. 1 \in DOMAIN Statement.operands /\ 2 \in DOMAIN Statement.operands
  BY <1>1, <1>2, StatementType DEF IsResolved
<1>4. next \notin Inits
  BY <1>1 DEF Inits, Statement
<1>5. \A j \in DOMAIN Indices : Indices[j][1] \in Bits /\ Indices[j][2] \in Qubits
  BY <1>1, <1>2, <1>3, IndicesType
<1>6. \A j \in DOMAIN Indices : added[j] \in Instruction
  BY <1>5 DEF MeasureInto, Instruction
<1>7. added \in Seq(Instruction)
  BY <1>1, <1>2, <1>6, IndicesType
<1>8. [j \in DOMAIN added |-> Written(Variables, added[j])] = Unrolled(Variables, Statement)
  <2>1. DOMAIN Indices = DOMAIN Elements(Variables, Statement.operands[1])
    BY <1>1, <1>2, IndexNames
  <2>. DEFINE Named(j) == [o \in DOMAIN Statement.operands |->
                             <<Statement.operands[o].variable,
                               Elements(Variables, Statement.operands[o])[j]>>]
  <2>2. DOMAIN Statement.operands = {1, 2}
    <3>1. Len(Statement.operands) = 2 /\ Statement.operands \in Seq(Operand)
      BY <1>1, <1>2, StatementType DEF IsResolved
    <3>2. DOMAIN Statement.operands = 1..2
      BY <3>1
    <3>3. QED
      BY <3>2
  <2>3. ASSUME NEW j \in DOMAIN Indices
        PROVE  Written(Variables, added[j]) = Named(j)
    <3>1. NameOf(Variables, "bit", Indices[j][1]) = Named(j)[1]
      BY <1>1, <1>2, <1>3, IndexNames
    <3>2. NameOf(Variables, "qubit", Indices[j][2]) = Named(j)[2]
      <4>1. NameOf(Variables, IF Statement.name = "measure" /\ 2 = 1 THEN "bit" ELSE "qubit",
                   Indices[j][2])
              = <<Statement.operands[2].variable, Elements(Variables, Statement.operands[2])[j]>>
        BY <1>1, <1>2, <1>3, IndexNames
      <4>2. (IF Statement.name = "measure" /\ 2 = 1 THEN "bit" ELSE "qubit") = "qubit"
        OBVIOUS
      <4>3. QED
        BY <1>3, <4>1, <4>2
    <3>3. Written(Variables, added[j]) = <<NameOf(Variables, "bit", Indices[j][1]),
                                             NameOf(Variables, "qubit", Indices[j][2])>>
      BY DEF Written, MeasureInto
    <3>4. DOMAIN Named(j) = 1..2
      BY <2>2
    <3>. HIDE DEF Named
    <3>5. Named(j) = [o \in 1..2 |-> Named(j)[o]]
      BY <2>2, <3>4 DEF Named
    <3>6. Named(j) = <<Named(j)[1], Named(j)[2]>>
      BY <3>5
    <3>7. QED
      BY <3>1, <3>2, <3>3, <3>6
  <2>4. Unrolled(Variables, Statement) = [j \in DOMAIN Indices |-> Named(j)]
    BY <1>1, <2>1 DEF Unrolled
  <2>. HIDE DEF Named
  <2>5. QED
    BY <2>3, <2>4
<1>9. \A j \in DOMAIN added : added[j].kind # "Unitary"
  BY DEF MeasureInto
<1>10. QED
  BY <1>1, <1>4, <1>7, <1>8, <1>9, AddStep

LEMMA ResetStep == ASSUME Inv, ResetInstruction PROVE Inv'
<1> DEFINE added == [j \in DOMAIN Indices |-> ResetQubit(Indices[j][1])]
<1>1. /\ next <= Len(program.statements) /\ Statement.name = "reset"
      /\ AddInstructions(added)
  BY DEF ResetInstruction, Visiting
<1>2. TypeOK
  BY DEF Inv
<1>3. 1 \in DOMAIN Statement.operands
  BY <1>1, <1>2, StatementType
<1>4. next \notin Inits
  BY <1>1 DEF Inits, Statement
<1>5. \A j \in DOMAIN Indices : Indices[j][1] \in Qubits
  BY <1>1, <1>2, <1>3, IndicesType
<1>6. \A j \in DOMAIN Indices : added[j] \in Instruction
  BY <1>5 DEF ResetQubit, Instruction
<1>7. added \in Seq(Instruction)
  BY <1>1, <1>2, <1>6, IndicesType
<1>8. [j \in DOMAIN added |-> Written(Variables, added[j])] = Unrolled(Variables, Statement)
  <2>1. DOMAIN Indices = DOMAIN Elements(Variables, Statement.operands[1])
    BY <1>1, <1>2, IndexNames
  <2>. DEFINE Named(j) == [o \in DOMAIN Statement.operands |->
                             <<Statement.operands[o].variable,
                               Elements(Variables, Statement.operands[o])[j]>>]
  <2>2. DOMAIN Statement.operands = 1..1
    BY <1>1, <1>2, StatementType DEF IsResolved
  <2>3. ASSUME NEW j \in DOMAIN Indices
        PROVE  Written(Variables, added[j]) = Named(j)
    <3>1. NameOf(Variables, "qubit", Indices[j][1]) = Named(j)[1]
      BY <1>1, <1>2, <1>3, IndexNames
    <3>2. Written(Variables, added[j]) = <<NameOf(Variables, "qubit", Indices[j][1])>>
      BY DEF Written, ResetQubit
    <3>3. Named(j) = [o \in 1..1 |-> Named(j)[o]]
      BY <2>2
    <3>. HIDE DEF Named
    <3>4. Named(j) = <<Named(j)[1]>>
      BY <3>3
    <3>5. QED
      BY <3>1, <3>2, <3>4
  <2>4. Unrolled(Variables, Statement) = [j \in DOMAIN Indices |-> Named(j)]
    BY <1>1, <2>1 DEF Unrolled
  <2>. HIDE DEF Named
  <2>5. QED
    BY <2>3, <2>4
<1>9. \A j \in DOMAIN added : added[j].kind # "Unitary"
  BY DEF ResetQubit
<1>10. QED
  BY <1>1, <1>4, <1>7, <1>8, <1>9, AddStep

LEMMA InitStep == ASSUME Inv, InitInstruction PROVE Inv'
<1>1. /\ next <= Len(program.statements) /\ ~SomeAreDirty /\ AddInstructions(<<>>)
      /\ Unrolled(Variables, Statement) = <<>>
  BY DEF InitInstruction, Visiting, Unrolled
<1>2. Initialized(next) \intersect dirty = {}
  BY <1>1 DEF SomeAreDirty, Initialized, Indices, Statement
<1>3. <<>> \in Seq(Instruction)
  OBVIOUS
<1>4. [j \in DOMAIN <<>> |-> Written(Variables, <<>>[j])] = <<>>
  OBVIOUS
<1>5. \A j \in DOMAIN <<>> :
        <<>>[j].kind = "Unitary" => TakesOperands(<<>>[j].gate, Len(<<>>[j].operands))
  OBVIOUS
<1>6. QED
  BY <1>1, <1>2, <1>3, <1>4, <1>5, AddStep

LEMMA NothingStep == ASSUME Inv, BarrierInstruction \/ WaitInstruction PROVE Inv'
<1>1. /\ next <= Len(program.statements) /\ Statement.name \in {"barrier", "wait"}
      /\ AddInstructions(<<>>) /\ Unrolled(Variables, Statement) = <<>>
  BY DEF BarrierInstruction, WaitInstruction, Visiting, Unrolled
<1>2. next \notin Inits
  BY <1>1 DEF Inits, Statement
<1>3. <<>> \in Seq(Instruction)
  OBVIOUS
<1>4. [j \in DOMAIN <<>> |-> Written(Variables, <<>>[j])] = <<>>
  OBVIOUS
<1>5. \A j \in DOMAIN <<>> :
        <<>>[j].kind = "Unitary" => TakesOperands(<<>>[j].gate, Len(<<>>[j].operands))
  OBVIOUS
<1>6. QED
  BY <1>1, <1>2, <1>3, <1>4, <1>5, AddStep

LEMMA InvStep == Inv /\ [Next]_vars => Inv'
<1> SUFFICES ASSUME Inv, [Next]_vars PROVE Inv'
  OBVIOUS
<1>1. CASE \/ UnknownGate \/ InitOfDirtyQubit \/ NegativeWait
           \/ UnsupportedInstruction \/ Built
  BY <1>1, EndStep DEF UnknownGate, InitOfDirtyQubit, NegativeWait, UnsupportedInstruction,
                       Built, ThrowCircuitBuilderError
<1>2. CASE UNCHANGED vars
  BY <1>2, EndStep DEF vars, Inv, TypeOK
<1>3. QED
  BY <1>1, <1>2, GateStep, MeasureStep, ResetStep, InitStep, NothingStep DEF Next

\* Every instruction that is built is about qubits and bits of its own program, for any
\* variables and any operands the analyzer resolves.
THEOREM TypeCorrect == Spec => []TypeOK
<1>1. Inv => TypeOK
  BY DEF Inv
<1>2. QED
  BY InvInit, InvStep, <1>1, PTL DEF Spec

\* No instruction before an accepted init acts on the qubits it initializes, for any
\* program.
THEOREM InitsCorrect == Spec => []InitsComeFirst
<1>1. Inv => InitsComeFirst
  BY DEF Inv
<1>2. QED
  BY InvInit, InvStep, <1>1, PTL DEF Spec

\* The instructions that were built, read back in terms of variables, are the elements
\* of the statements that were visited, each on its own operands and in the order of the
\* program, for any layout of the registers and any statements the analyzer resolves.
THEOREM InstructionsCorrect == Spec => []InstructionsAreTheProgram
<1>1. Inv => InstructionsAreTheProgram
  BY DEF Inv
<1>2. QED
  BY InvInit, InvStep, <1>1, PTL DEF Spec

-----------------------------------------------------------------------------
(* The matrices of the gates.                                              *)

LEMMA KnownGateFits ==
  ASSUME NEW gate, NEW n, TakesOperands(gate, n)
  PROVE  SizeOf(MatrixOf(gate)) = 2^n /\ IsUnitary(MatrixOf(gate))
<1>. DEFINE modifiers == gate.modifiers
            k         == NumberOfOperands(gate.name)
            length    == Len(modifiers)
<1>1. IsKnown(gate) /\ n = k + Cardinality(Controls(modifiers))
  BY DEF TakesOperands
<1>2. /\ gate.name \in DefaultNames /\ gate.parameter \in Int
      /\ gate.name = "CRk" => gate.parameter <= 3
  BY <1>1 DEF IsKnown, GateNames, DefaultNames
<1>3. IsGate(default_gates(gate.name, gate.parameter), 2^k) /\ k \in Nat
  <2>1. 2^1 = 2 /\ 2^2 = 4 /\ 2^3 = 8
    BY SmallPowers
  <2>2. /\ gate.name \in OfThreeQubits => k = 3
        /\ gate.name \notin OfThreeQubits /\ gate.name \in OfTwoQubits => k = 2
        /\ gate.name \notin OfThreeQubits /\ gate.name \notin OfTwoQubits => k = 1
    BY DEF NumberOfOperands, OfThreeQubits, OfTwoQubits
  <2>. DEFINE size == IF gate.name \in OfThreeQubits THEN 8
                      ELSE IF gate.name \in OfTwoQubits THEN 4 ELSE 2
  <2>. HIDE DEF k
  <2>3. size = 2^k
    BY <2>1, <2>2
  <2>4. IsGate(default_gates(gate.name, gate.parameter), size)
    BY <1>2, DefaultGateIsGate
  <2>. HIDE DEF size
  <2>5. k \in Nat
    BY <2>2
  <2>6. QED
    BY <2>3, <2>4, <2>5
<1>4. /\ length \in Nat /\ DOMAIN modifiers = 1..length
      /\ \A i \in 1..length : modifiers[i] \in Modifier
  BY <1>1 DEF IsKnown
<1>5. \A d \in Modifier : IsModifier(d)
  BY DEF Modifier, IsModifier
<1>6. AreModifiers(modifiers, length) /\ Controls(modifiers) = ControlsIn(modifiers, 1..length)
  BY <1>4, <1>5 DEF AreModifiers, Controls, ControlsIn
<1>. HIDE DEF length, k
<1>7. QED
  BY <1>1, <1>3, <1>4, <1>6, ModifiedGateFits

\* Whatever the gate, its parameter and its modifiers, the matrix that get_gates makes of
\* them is unitary, so that the check of its constructor passes, and as large as the
\* number of operands requires, so that its application stays within the matrix.
THEOREM GatesFitCorrect == Spec => []GatesFit
<1>1. Inv => GatesFit
  <2>. SUFFICES ASSUME Inv, NEW j \in DOMAIN instructions, instructions[j].kind = "Unitary"
                PROVE  /\ SizeOf(MatrixOf(instructions[j].gate)) = 2^Len(instructions[j].operands)
                       /\ IsUnitary(MatrixOf(instructions[j].gate))
    BY DEF GatesFit
  <2>1. TakesOperands(instructions[j].gate, Len(instructions[j].operands))
    BY DEF Inv, GatesAreKnown
  <2>2. QED
    BY <2>1, KnownGateFits
<1>2. QED
  BY InvInit, InvStep, <1>1, PTL DEF Spec

-----------------------------------------------------------------------------
(* Modified gates that have a name of their own.                           *)

LEMMA EqualMatrices ==
  ASSUME NEW n \in Nat, NEW m, IsSquare(m, n), NEW k, IsSquare(k, n),
         m.halvings = k.halvings, \A r, c \in 1..n : m.rows[r][c] = k.rows[r][c]
  PROVE  m = k
<1>1. m.rows \in [1..n -> [1..n -> Ring]] /\ k.rows \in [1..n -> [1..n -> Ring]]
  BY DEF IsSquare
<1>2. \A r \in 1..n : m.rows[r] = k.rows[r]
  BY <1>1
<1>3. m.rows = k.rows
  BY <1>1, <1>2
<1>4. m = Matrix(m.halvings, m.rows) /\ k = Matrix(k.halvings, k.rows)
  BY DEF IsSquare, Matrix
<1>5. QED
  BY <1>3, <1>4

LEMMA SameMatrix ==
  ASSUME NEW m
  PROVE  Same(m, m)
BY DEF Same

\* Modifiers apply from the last to the first.
Folded(modifiers, m) == FoldRight(Modified, modifiers, m)

LEMMA OneModifier ==
  ASSUME NEW d, NEW base
  PROVE  Folded(<<d>>, base) = Modified(d, base)
<1>. DEFINE list == <<d>>
            D == DOMAIN list
            IsIter(h) == h = [s \in SUBSET D |->
                IF s = {} THEN base ELSE Modified(list[Min(s)], h[s \ {Min(s)}])]
            iter == CHOOSE h : IsIter(h)
            outer == Modified(d, base)
            g == [s \in SUBSET D |-> IF s = {} THEN base ELSE outer]
<1>1. D = {1} /\ list[1] = d /\ SUBSET D = {{}, {1}} /\ {1} \ {1} = {}
  OBVIOUS
<1>2. Min({1}) = 1
  <2>1. 1 \in Nat /\ {1} \in SUBSET (1..1) /\ {1} # {}
    OBVIOUS
  <2>2. QED
    BY <2>1, Minimum
<1>. HIDE DEF list, D, outer
<1>3. g[{}] = base /\ g[{1}] = outer
  BY <1>1
<1>4. ASSUME NEW s \in SUBSET D
      PROVE  g[s] = IF s = {} THEN base ELSE Modified(list[Min(s)], g[s \ {Min(s)}])
  <2>. HIDE DEF g
  <2>1. CASE s = {}
    BY <1>3, <2>1
  <2>2. CASE s = {1}
    <3>1. s # {} /\ list[Min(s)] = d /\ g[s \ {Min(s)}] = base /\ g[s] = outer
      BY <1>1, <1>2, <1>3, <2>2
    <3>2. QED
      BY <3>1 DEF outer
  <2>3. QED
    BY <1>1, <2>1, <2>2
<1>5. IsIter(g)
  BY <1>4
<1>6. IsIter(iter)
  <2>. HIDE DEF IsIter
  <2>1. QED
    BY <1>5
<1>. HIDE DEF iter
<1>7. iter[D] = Modified(d, base)
  BY <1>1, <1>2, <1>6
<1>8. Folded(list, base) = iter[D]
  BY DEF Folded, FoldRight, MapThenFoldSet, iter, D
<1>9. QED
  BY <1>7, <1>8 DEF list

LEMMA TwoModifiers ==
  ASSUME NEW d, NEW e, NEW base
  PROVE  Folded(<<d, e>>, base) = Modified(d, Modified(e, base))
<1>. DEFINE list == <<d, e>>
            D == DOMAIN list
            IsIter(h) == h = [s \in SUBSET D |->
                IF s = {} THEN base ELSE Modified(list[Min(s)], h[s \ {Min(s)}])]
            iter == CHOOSE h : IsIter(h)
            inner == Modified(e, base)
            first == Modified(d, base)
            outer == Modified(d, inner)
            g == [s \in SUBSET D |->
                    IF s = {} THEN base ELSE IF s = {1} THEN first
                    ELSE IF s = {2} THEN inner ELSE outer]
<1>1. D = {1, 2} /\ list[1] = d /\ list[2] = e
  OBVIOUS
<1>2. /\ SUBSET {1, 2} = {{}, {1}, {2}, {1, 2}}
      /\ {1} \ {1} = {} /\ {2} \ {2} = {} /\ {1, 2} \ {1} = {2}
      /\ {1} # {} /\ {2} # {} /\ {1, 2} # {} /\ {1} # {2} /\ {1, 2} # {1} /\ {1, 2} # {2}
  OBVIOUS
<1>3. Min({1}) = 1 /\ Min({2}) = 2 /\ Min({1, 2}) = 1
  <2>1. /\ 2 \in Nat /\ {1} \in SUBSET (1..2) /\ {2} \in SUBSET (1..2) /\ {1, 2} \in SUBSET (1..2)
        /\ {1} # {} /\ {2} # {} /\ {1, 2} # {}
    OBVIOUS
  <2>2. Min({1}) \in {1} /\ Min({2}) \in {2}
    BY <2>1, Minimum
  <2>3. Min({1, 2}) = 1
    <3>1. 1 \in {1, 2} /\ \A y \in {1, 2} : 1 =< y
      OBVIOUS
    <3>2. Min({1, 2}) \in {1, 2} /\ Min({1, 2}) =< 1
      BY <3>1 DEF Min
    <3>3. QED
      BY <3>2
  <2>4. QED
    BY <2>2, <2>3
<1>. HIDE DEF list, inner, first, outer
<1>4. g[{}] = base /\ g[{1}] = first /\ g[{2}] = inner /\ g[{1, 2}] = outer
  BY <1>1, <1>2
<1>. DEFINE value(s) == IF s = {} THEN base ELSE Modified(list[Min(s)], g[s \ {Min(s)}])
<1>5. /\ value({1}) = Modified(list[Min({1})], g[{1} \ {Min({1})}])
      /\ value({2}) = Modified(list[Min({2})], g[{2} \ {Min({2})}])
      /\ value({1, 2}) = Modified(list[Min({1, 2})], g[{1, 2} \ {Min({1, 2})}])
      /\ value({}) = base
  <2>. HIDE DEF g, D
  <2>1. QED
    BY <1>2
<1>. HIDE DEF value, g, D
<1>. DEFINE Agree(s) == g[s] = value(s)
<1>6. Agree({})
  BY <1>4, <1>5
<1>7. Agree({1})
  BY <1>1, <1>2, <1>3, <1>4, <1>5 DEF first
<1>8. Agree({2})
  BY <1>1, <1>2, <1>3, <1>4, <1>5 DEF inner
<1>9. Agree({1, 2})
  BY <1>1, <1>2, <1>3, <1>4, <1>5 DEF outer
<1>10. \A s \in SUBSET D : Agree(s)
  <2>. HIDE DEF Agree
  <2>1. QED
    BY <1>1, <1>2, <1>6, <1>7, <1>8, <1>9
<1>11. IsIter(g)
  BY <1>10 DEF value, g
<1>12. IsIter(iter)
  <2>. HIDE DEF IsIter
  <2>1. QED
    BY <1>11
<1>. HIDE DEF iter, D
<1>13. iter[{}] = base /\ iter[{2}] = Modified(e, iter[{}]) /\ iter[{1, 2}] = Modified(d, iter[{2}])
  BY <1>1, <1>2, <1>3, <1>12
<1>14. Folded(list, base) = iter[D]
  BY DEF Folded, FoldRight, MapThenFoldSet, iter, D
<1>15. QED
  BY <1>1, <1>13, <1>14 DEF list

\* The identity changes no gate, so that a gate's powers by 0, 2 and -1 are the identity,
\* its product with itself and its dagger.
LEMMA IdentityTimes ==
  ASSUME NEW n \in Nat, NEW m, IsSquare(m, n)
  PROVE  Product(identity(n), m) = m
<1>. DEFINE I == identity(n)
            J == 1..n
<1>1. /\ IsSquare(I, n) /\ I.halvings = 0
      /\ \A r, c \in J : I.rows[r][c] = IF r = c THEN One ELSE Null
  BY IdentityIs
<1>2. m.halvings \in Nat /\ \A r, c \in J : m.rows[r][c] \in Ring
  BY SquareType
<1>. HIDE DEF I
<1>3. /\ IsSquare(Product(I, m), n) /\ Product(I, m).halvings = 0 + m.halvings
      /\ \A r, c \in J : Product(I, m).rows[r][c] = SumOver(Null, EntryTerms(I, m, n, r, c), J)
  BY <1>1, ProductIs
<1>4. ASSUME NEW r \in J, NEW c \in J
      PROVE  Product(I, m).rows[r][c] = m.rows[r][c]
  <2>. DEFINE t == EntryTerms(I, m, n, r, c)
  <2>1. \A j \in J : t[j] = Times(I.rows[r][j], m.rows[j][c])
    BY DEF EntryTerms
  <2>2. One \in Ring /\ Null \in Ring
    BY OneIsUnit
  <2>3. \A j \in J : Times(One, m.rows[j][c]) = m.rows[j][c] /\ Times(Null, m.rows[j][c]) = Null
    BY <1>2, TimesRing DEF One
  <2>. HIDE DEF t
  <2>4. t[r] = m.rows[r][c] /\ \A j \in J \ {r} : t[j] = Null
    BY <1>1, <2>1, <2>3
  <2>5. ValuesIn(t, J, Ring)
    BY <1>2, <2>2, <2>4 DEF ValuesIn
  <2>6. IsFiniteSet(J)
    BY FiniteRows
  <2>. HIDE DEF J
  <2>7. SumOver(Null, t, J) = t[r]
    BY <2>4, <2>5, <2>6, OneTerm
  <2>8. QED
    BY <1>3, <2>4, <2>7 DEF t
<1>5. Product(I, m).halvings = m.halvings
  BY <1>2, <1>3
<1>. HIDE DEF J
<1>6. Product(I, m) = m
  BY <1>3, <1>4, <1>5, EqualMatrices DEF J
<1>7. QED
  BY <1>6 DEF I

LEMMA SmallExponents ==
  ASSUME NEW n \in Nat, NEW m, IsGate(m, n)
  PROVE  power(m, 0) = identity(n) /\ power(m, 2) = Product(m, m) /\ power(m, -1) = dagger(m)
<1>1. /\ PowerBase(m, 0) = m /\ PowerBase(m, 2) = m /\ PowerBase(m, -1) = dagger(m)
      /\ PowerCount(0) = 0 /\ PowerCount(2) = 2 /\ PowerCount(-1) = 1
  BY MinusMinusOne DEF PowerBase, PowerCount
<1>2. 0 \in Int /\ 2 \in Int /\ -1 \in Int /\ 0 \in Nat /\ 1 \in Nat /\ 0 + 1 = 1 /\ 1 + 1 = 2
  OBVIOUS
<1>3. IsSquare(m, n) /\ IsSquare(dagger(m), n)
  BY DaggerIs DEF IsGate
<1>4. power(m, 0) = identity(n)
  <2>1. PICK P : power(m, 0) = P[PowerCount(0)] /\ ArePowers(P, PowerBase(m, 0), n)
    BY <1>2, PowerRepeats
  <2>2. QED
    BY <1>1, <2>1 DEF ArePowers
<1>5. power(m, 2) = Product(m, m)
  <2>1. PICK P : power(m, 2) = P[PowerCount(2)] /\ ArePowers(P, PowerBase(m, 2), n)
    BY <1>2, PowerRepeats
  <2>2. P[0] = identity(n) /\ P[0 + 1] = Product(P[0], m) /\ P[1 + 1] = Product(P[1], m)
    BY <1>1, <1>2, <2>1 DEF ArePowers
  <2>3. P[1] = m
    BY <1>2, <1>3, <2>2, IdentityTimes
  <2>4. QED
    BY <1>1, <1>2, <2>1, <2>2, <2>3
<1>6. power(m, -1) = dagger(m)
  <2>1. PICK P : power(m, -1) = P[PowerCount(-1)] /\ ArePowers(P, PowerBase(m, -1), n)
    BY <1>2, PowerRepeats
  <2>2. P[0] = identity(n) /\ P[0 + 1] = Product(P[0], dagger(m))
    BY <1>1, <1>2, <2>1 DEF ArePowers
  <2>3. QED
    BY <1>1, <1>2, <1>3, <2>1, <2>2, IdentityTimes
<1>7. QED
  BY <1>4, <1>5, <1>6

\* The identity of a size, with z in its last entry.
IsPhase(m, n, z) ==
  /\ IsSquare(m, n) /\ m.halvings = 0 /\ z \in Ring
  /\ \A r, c \in 1..n : m.rows[r][c] = IF r # c THEN Null ELSE IF r = n THEN z ELSE One

LEMMA PhaseUnique ==
  ASSUME NEW n \in Nat, NEW z, NEW m, IsPhase(m, n, z), NEW k, IsPhase(k, n, z)
  PROVE  m = k
BY EqualMatrices DEF IsPhase

LEMMA Phases ==
  ASSUME NEW z \in Ring
  PROVE  IsPhase(Diagonal(z), 2, z) /\ IsPhase(LastPhase(z), 4, z)
<1>1. One \in Ring /\ Null \in Ring
  BY OneIsUnit
<1>2. IsPhase(Diagonal(z), 2, z)
  <2>. DEFINE rows == <<<<One, Null>>, <<Null, z>>>>
  <2>1. rows \in [1..2 -> [1..2 -> Ring]]
    BY <1>1
  <2>2. ASSUME NEW r \in 1..2, NEW c \in 1..2
        PROVE  rows[r][c] = IF r # c THEN Null ELSE IF r = 2 THEN z ELSE One
    <3>1. (r = 1 \/ r = 2) /\ (c = 1 \/ c = 2)
      OBVIOUS
    <3>2. QED
      BY <3>1
  <2>3. Diagonal(z) = [halvings |-> 0, rows |-> rows]
    BY DEF Diagonal, Matrix
  <2>. HIDE DEF rows
  <2>4. QED
    BY <2>1, <2>2, <2>3 DEF IsPhase, IsSquare
<1>3. IsPhase(LastPhase(z), 4, z)
  <2>. DEFINE rows == <<<<One, Null, Null, Null>>, <<Null, One, Null, Null>>,
                        <<Null, Null, One, Null>>, <<Null, Null, Null, z>>>>
  <2>1. rows \in [1..4 -> [1..4 -> Ring]]
    BY <1>1
  <2>2. ASSUME NEW r \in 1..4, NEW c \in 1..4
        PROVE  rows[r][c] = IF r # c THEN Null ELSE IF r = 4 THEN z ELSE One
    <3>1. (r = 1 \/ r = 2 \/ r = 3 \/ r = 4) /\ (c = 1 \/ c = 2 \/ c = 3 \/ c = 4)
      OBVIOUS
    <3>2. QED
      BY <3>1
  <2>3. LastPhase(z) = [halvings |-> 0, rows |-> rows]
    BY DEF LastPhase, Matrix
  <2>. HIDE DEF rows
  <2>4. QED
    BY <2>1, <2>2, <2>3 DEF IsPhase, IsSquare
<1>4. QED
  BY <1>2, <1>3

LEMMA PhaseInverted ==
  ASSUME NEW n \in Nat, NEW z, NEW m, IsPhase(m, n, z)
  PROVE  IsPhase(dagger(m), n, Conj(z))
<1>1. IsSquare(m, n) /\ m.halvings = 0 /\ z \in Ring
  BY DEF IsPhase
<1>2. /\ dagger(m).halvings = 0 /\ IsSquare(dagger(m), n)
      /\ \A r, c \in 1..n : dagger(m).rows[r][c] = Conj(m.rows[c][r])
  BY <1>1, DaggerIs
<1>3. Conj(z) \in Ring /\ Conj(Null) = Null /\ Conj(One) = One
  <2>1. Conj(One) = One
    BY MinusZero DEF Conj, One, Real
  <2>2. QED
    BY <1>1, <2>1, ConjRing, ConjNull
<1>4. ASSUME NEW r \in 1..n, NEW c \in 1..n
      PROVE  dagger(m).rows[r][c] = IF r # c THEN Null ELSE IF r = n THEN Conj(z) ELSE One
  <2>1. m.rows[c][r] = IF c # r THEN Null ELSE IF c = n THEN z ELSE One
    BY DEF IsPhase
  <2>2. QED
    BY <1>2, <1>3, <2>1
<1>5. QED
  BY <1>2, <1>3, <1>4 DEF IsPhase

LEMMA PhaseSquared ==
  ASSUME NEW n \in Nat, NEW z, NEW m, IsPhase(m, n, z)
  PROVE  IsPhase(Product(m, m), n, Times(z, z))
<1>. DEFINE J == 1..n
            entry(r, c) == IF r # c THEN Null ELSE IF r = n THEN z ELSE One
            square(r, c) == IF r # c THEN Null ELSE IF r = n THEN Times(z, z) ELSE One
<1>1. IsSquare(m, n) /\ m.halvings = 0 /\ z \in Ring /\ \A r, c \in J : m.rows[r][c] = entry(r, c)
  BY DEF IsPhase
<1>2. /\ IsSquare(Product(m, m), n) /\ Product(m, m).halvings = 0 + 0
      /\ \A r, c \in J : Product(m, m).rows[r][c] = SumOver(Null, EntryTerms(m, m, n, r, c), J)
  BY <1>1, ProductIs
<1>3. One \in Ring /\ Null \in Ring /\ Times(z, z) \in Ring
  BY <1>1, OneIsUnit, TimesRing
<1>4. /\ \A x \in Ring : Times(Null, x) = Null /\ Times(x, Null) = Null
      /\ Times(One, One) = One
  BY <1>3, TimesRing DEF One
<1>5. ASSUME NEW r \in J, NEW c \in J
      PROVE  Product(m, m).rows[r][c] = square(r, c)
  <2>. DEFINE t == EntryTerms(m, m, n, r, c)
  <2>1. \A j \in J : t[j] = Times(m.rows[r][j], m.rows[j][c])
    BY DEF EntryTerms
  <2>2. \A j \in J : m.rows[j][c] \in Ring /\ m.rows[r][j] \in Ring
    BY <1>1, SquareType
  <2>. HIDE DEF t
  <2>3. ASSUME NEW j \in J, j # r
        PROVE  t[j] = Null
    <3>1. m.rows[r][j] = Null
      BY <1>1, <2>3
    <3>2. QED
      BY <1>4, <2>1, <2>2, <3>1
  <2>4. t[r] = square(r, c)
    <3>1. t[r] = Times(m.rows[r][r], m.rows[r][c])
      BY <2>1
    <3>2. m.rows[r][r] = entry(r, r) /\ m.rows[r][c] = entry(r, c)
      BY <1>1
    <3>3. CASE r # c
      BY <1>4, <2>2, <3>1, <3>2, <3>3
    <3>4. CASE r = c
      BY <1>4, <3>1, <3>2, <3>4
    <3>5. QED
      BY <3>3, <3>4
  <2>5. ValuesIn(t, J, Ring)
    BY <1>3, <2>3, <2>4 DEF ValuesIn
  <2>6. IsFiniteSet(J) /\ \A j \in J \ {r} : t[j] = Null
    BY <2>3, FiniteRows
  <2>. HIDE DEF J, square
  <2>7. SumOver(Null, t, J) = t[r]
    BY <2>5, <2>6, OneTerm
  <2>8. QED
    BY <1>2, <2>4, <2>7 DEF t
<1>6. QED
  BY <1>2, <1>3, <1>5 DEF IsPhase

LEMMA PhaseControlled ==
  ASSUME NEW n \in Nat \ {0}, NEW z, NEW m, IsPhase(m, n, z)
  PROVE  IsPhase(control(m), 2 * n, z)
<1>. DEFINE J == 1..(2 * n)
            C == control(m)
<1>1. IsSquare(m, n) /\ m.halvings = 0 /\ z \in Ring
  BY DEF IsPhase
<1>2. Root2Power(0) = One
  BY FactorOfProduct DEF One
<1>3. /\ IsSquare(C, 2 * n) /\ C.halvings = 0
      /\ \A r, c \in J : C.rows[r][c] = IF r > n /\ c > n THEN m.rows[r - n][c - n]
                                        ELSE IF r = c THEN One ELSE Null
  BY <1>1, <1>2, ControlIs
<1>4. ASSUME NEW r \in J, NEW c \in J
      PROVE  C.rows[r][c] = IF r # c THEN Null ELSE IF r = 2 * n THEN z ELSE One
  <2>. HIDE DEF C
  <2>1. CASE r > n /\ c > n
    <3>1. r - n \in 1..n /\ c - n \in 1..n /\ (r - n = c - n <=> r = c) /\ (r - n = n <=> r = 2 * n)
      BY <2>1
    <3>2. m.rows[r - n][c - n] = IF r - n # c - n THEN Null ELSE IF r - n = n THEN z ELSE One
      BY <3>1 DEF IsPhase
    <3>3. C.rows[r][c] = m.rows[r - n][c - n]
      BY <1>3, <2>1
    <3>4. QED
      BY <3>1, <3>2, <3>3
  <2>2. CASE ~(r > n /\ c > n)
    <3>1. C.rows[r][c] = IF r = c THEN One ELSE Null
      BY <1>3, <2>2
    <3>2. r = c => r # 2 * n
      BY <2>2
    <3>3. QED
      BY <3>1, <3>2
  <2>3. QED
    BY <2>1, <2>2
<1>5. QED
  BY <1>1, <1>3, <1>4 DEF IsPhase

\* The identity of a size, with its last two rows in each other's place.
LastSwapped(n, r) == IF r = n THEN n - 1 ELSE IF r = n - 1 THEN n ELSE r
IsLastSwap(m, n) ==
  /\ IsSquare(m, n) /\ m.halvings = 0
  /\ \A r, c \in 1..n : m.rows[r][c] = IF c = LastSwapped(n, r) THEN One ELSE Null

LEMMA SwapUnique ==
  ASSUME NEW n \in Nat, NEW m, IsLastSwap(m, n), NEW k, IsLastSwap(k, n)
  PROVE  m = k
BY EqualMatrices DEF IsLastSwap

LEMMA Swaps == IsLastSwap(X, 2) /\ IsLastSwap(CNOT, 4) /\ IsLastSwap(TOFFOLI, 8)
<1>1. One \in Ring /\ Null \in Ring
  BY OneIsUnit
<1>2. IsLastSwap(X, 2)
  <2>. DEFINE rows == <<<<Null, One>>, <<One, Null>>>>
  <2>1. rows \in [1..2 -> [1..2 -> Ring]]
    BY <1>1
  <2>2. ASSUME NEW r \in 1..2, NEW c \in 1..2
        PROVE  rows[r][c] = IF c = LastSwapped(2, r) THEN One ELSE Null
    <3>1. (r = 1 \/ r = 2) /\ (c = 1 \/ c = 2)
      OBVIOUS
    <3>2. QED
      BY <3>1 DEF LastSwapped
  <2>3. X = [halvings |-> 0, rows |-> rows]
    BY DEF X, Matrix
  <2>. HIDE DEF rows
  <2>4. QED
    BY <2>1, <2>2, <2>3 DEF IsLastSwap, IsSquare
<1>3. IsLastSwap(CNOT, 4)
  <2>. DEFINE rows == <<<<One, Null, Null, Null>>, <<Null, One, Null, Null>>,
                        <<Null, Null, Null, One>>, <<Null, Null, One, Null>>>>
  <2>1. rows \in [1..4 -> [1..4 -> Ring]]
    BY <1>1
  <2>2. ASSUME NEW r \in 1..4, NEW c \in 1..4
        PROVE  rows[r][c] = IF c = LastSwapped(4, r) THEN One ELSE Null
    <3>1. (r = 1 \/ r = 2 \/ r = 3 \/ r = 4) /\ (c = 1 \/ c = 2 \/ c = 3 \/ c = 4)
      OBVIOUS
    <3>2. QED
      BY <3>1 DEF LastSwapped
  <2>3. CNOT = [halvings |-> 0, rows |-> rows]
    BY DEF CNOT, Matrix
  <2>. HIDE DEF rows
  <2>4. QED
    BY <2>1, <2>2, <2>3 DEF IsLastSwap, IsSquare
<1>4. IsLastSwap(TOFFOLI, 8)
  <2>1. IsSquare(TOFFOLI, 8) /\ TOFFOLI.halvings = 0
    BY <1>1 DEF IsSquare, TOFFOLI, Matrix
  <2>2. \A r, c \in 1..8 : TOFFOLI.rows[r][c] = IF c = LastSwapped(8, r) THEN One ELSE Null
    BY DEF TOFFOLI, Matrix, LastSwapped
  <2>3. QED
    BY <2>1, <2>2 DEF IsLastSwap
<1>5. QED
  BY <1>2, <1>3, <1>4

LEMMA SwapControlled ==
  ASSUME NEW n \in Nat, n >= 2, NEW m, IsLastSwap(m, n)
  PROVE  IsLastSwap(control(m), 2 * n)
<1>. DEFINE J == 1..(2 * n)
            C == control(m)
<1>1. IsSquare(m, n) /\ m.halvings = 0
  BY DEF IsLastSwap
<1>2. Root2Power(0) = One
  BY FactorOfProduct DEF One
<1>3. /\ IsSquare(C, 2 * n) /\ C.halvings = 0
      /\ \A r, c \in J : C.rows[r][c] = IF r > n /\ c > n THEN m.rows[r - n][c - n]
                                        ELSE IF r = c THEN One ELSE Null
  BY <1>1, <1>2, ControlIs
<1>4. ASSUME NEW r \in J, NEW c \in J
      PROVE  C.rows[r][c] = IF c = LastSwapped(2 * n, r) THEN One ELSE Null
  <2>. HIDE DEF C
  <2>1. CASE r > n /\ c > n
    <3>1. r - n \in 1..n /\ c - n \in 1..n
      BY <2>1
    <3>2. c - n = LastSwapped(n, r - n) <=> c = LastSwapped(2 * n, r)
      BY <2>1 DEF LastSwapped
    <3>3. m.rows[r - n][c - n] = IF c - n = LastSwapped(n, r - n) THEN One ELSE Null
      BY <3>1 DEF IsLastSwap
    <3>4. C.rows[r][c] = m.rows[r - n][c - n]
      BY <1>3, <2>1
    <3>5. QED
      BY <3>2, <3>3, <3>4
  <2>2. CASE ~(r > n /\ c > n)
    <3>1. C.rows[r][c] = IF r = c THEN One ELSE Null
      BY <1>3, <2>2
    <3>2. r = c <=> c = LastSwapped(2 * n, r)
      BY <2>2 DEF LastSwapped
    <3>3. QED
      BY <3>1, <3>2
  <2>3. QED
    BY <2>1, <2>2
<1>5. QED
  BY <1>1, <1>3, <1>4 DEF IsLastSwap

\* The daggers and products of matrices of two rows.
LEMMA TwoRowsInverted ==
  ASSUME NEW h, NEW a, NEW b, NEW c, NEW d
  PROVE  dagger(Matrix(h, <<<<a, b>>, <<c, d>>>>))
           = Matrix(h, <<<<Conj(a), Conj(c)>>, <<Conj(b), Conj(d)>>>>)
<1>. DEFINE rows   == <<<<a, b>>, <<c, d>>>>
            turned == <<<<Conj(a), Conj(c)>>, <<Conj(b), Conj(d)>>>>
<1>1. Len(rows) = 2
  OBVIOUS
<1>2. \A r, k \in 1..2 : Conj(rows[k][r]) = turned[r][k]
  <2>1. ASSUME NEW r \in 1..2, NEW k \in 1..2
        PROVE  Conj(rows[k][r]) = turned[r][k]
    <3>1. (r = 1 \/ r = 2) /\ (k = 1 \/ k = 2)
      OBVIOUS
    <3>2. QED
      BY <3>1
  <2>2. QED
    BY <2>1
<1>3. turned = [r \in 1..2 |-> [k \in 1..2 |-> turned[r][k]]]
  OBVIOUS
<1>4. dagger(Matrix(h, rows)) = Matrix(h, [r \in 1..2 |-> [k \in 1..2 |-> Conj(rows[k][r])]])
  <2>. HIDE DEF rows
  <2>1. QED
    BY <1>1 DEF dagger, Matrix, SizeOf
<1>. HIDE DEF rows, turned
<1>5. [r \in 1..2 |-> [k \in 1..2 |-> Conj(rows[k][r])]]
        = [r \in 1..2 |-> [k \in 1..2 |-> turned[r][k]]]
  BY <1>2
<1>6. dagger(Matrix(h, rows)) = Matrix(h, turned)
  BY <1>3, <1>4, <1>5
<1>7. QED
  BY <1>6 DEF rows, turned

LEMMA TwoRowsMultiplied ==
  ASSUME NEW h \in Nat, NEW a \in Ring, NEW b \in Ring, NEW c \in Ring, NEW d \in Ring,
         NEW m, m = Matrix(h, <<<<a, b>>, <<c, d>>>>)
  PROVE  /\ IsSquare(m, 2) /\ IsSquare(Product(m, m), 2) /\ Product(m, m).halvings = h + h
         /\ Product(m, m).rows[1][1] = Plus(Times(a, a), Times(b, c))
         /\ Product(m, m).rows[1][2] = Plus(Times(a, b), Times(b, d))
         /\ Product(m, m).rows[2][1] = Plus(Times(c, a), Times(d, c))
         /\ Product(m, m).rows[2][2] = Plus(Times(c, b), Times(d, d))
<1>. DEFINE n == 2
            e == m.rows
            sum(r, k) == Plus(Times(e[r][1], e[1][k]), Times(e[r][2], e[2][k]))
<1>1. /\ IsSquare(m, n) /\ m.halvings = h
      /\ e[1][1] = a /\ e[1][2] = b /\ e[2][1] = c /\ e[2][2] = d
  BY DEF IsSquare, Matrix
<1>2. n \in Nat /\ 1 \in 1..n /\ 2 \in 1..n /\ 1..n = 1..2
  OBVIOUS
<1>. HIDE DEF n
<1>3. /\ IsSquare(Product(m, m), n) /\ Product(m, m).halvings = h + h
      /\ \A r, k \in 1..n :
           Product(m, m).rows[r][k] = SumOver(Null, EntryTerms(m, m, n, r, k), 1..n)
  BY <1>1, <1>2, ProductIs
<1>4. ASSUME NEW r \in 1..n, NEW k \in 1..n
      PROVE  Product(m, m).rows[r][k] = sum(r, k)
  <2>. DEFINE t == EntryTerms(m, m, n, r, k)
  <2>1. t[1] = Times(e[r][1], e[1][k]) /\ t[2] = Times(e[r][2], e[2][k])
    BY <1>2 DEF EntryTerms
  <2>2. e[r][1] \in Ring /\ e[1][k] \in Ring /\ e[r][2] \in Ring /\ e[2][k] \in Ring
    BY <1>1, <1>2, SquareType
  <2>. HIDE DEF t, e
  <2>3. t[1] \in Ring /\ t[2] \in Ring
    BY <2>1, <2>2, TimesRing
  <2>4. SumOver(Null, t, 1..2) = Plus(t[1], t[2])
    BY <2>3, TwoTerms
  <2>5. QED
    BY <1>2, <1>3, <2>1, <2>4 DEF t
<1>. HIDE DEF e
<1>5. /\ Product(m, m).rows[1][1] = Plus(Times(a, a), Times(b, c))
      /\ Product(m, m).rows[1][2] = Plus(Times(a, b), Times(b, d))
      /\ Product(m, m).rows[2][1] = Plus(Times(c, a), Times(d, c))
      /\ Product(m, m).rows[2][2] = Plus(Times(c, b), Times(d, d))
  BY <1>1, <1>2, <1>4
<1>6. QED
  BY <1>1, <1>3, <1>5 DEF n

\* What modifiers make of a default gate is another default gate.
Makes(modifiers, name, k, other, l) ==
  Same(Folded(modifiers, default_gates(name, k)), default_gates(other, l))

InvModifier    == [name |-> "inv"]
CtrlModifier   == [name |-> "ctrl"]
PowModifier(n) == [name |-> "pow", exponent |-> n]

LEMMA ModifiersDo ==
  ASSUME NEW m, NEW n
  PROVE  /\ Modified(InvModifier, m) = dagger(m) /\ Modified(CtrlModifier, m) = control(m)
         /\ Modified(PowModifier(n), m) = power(m, n)
BY DEF Modified, InvModifier, CtrlModifier, PowModifier

LEMMA NamedDefaults ==
  ASSUME NEW k
  PROVE  /\ default_gates("S", k) = S /\ default_gates("Sdag", k) = SDAG
         /\ default_gates("T", k) = T /\ default_gates("Tdag", k) = TDAG
         /\ default_gates("X", k) = X
         /\ default_gates("X90", k) = X90 /\ default_gates("mX90", k) = MX90
         /\ default_gates("Y90", k) = Y90 /\ default_gates("mY90", k) = MY90
         /\ default_gates("H", k) = H
         /\ default_gates("I", k) = IDENTITY /\ default_gates("Z", k) = Z
         /\ default_gates("CNOT", k) = CNOT /\ default_gates("CZ", k) = CZ
         /\ default_gates("TOFFOLI", k) = TOFFOLI
         /\ default_gates("Rx", k) = RX(k) /\ default_gates("CR", k) = CR(k)
BY FixedNames DEF default_gates

LEMMA ResidueIs ==
  ASSUME NEW k \in Int, NEW r \in 0..7, k = r \/ k + 8 = r
  PROVE  k % 8 = r
OBVIOUS

LEMMA LowResidues == (-1) % 8 = 7 /\ (1 - 2) % 8 = 7 /\ (-1 - 2) % 8 = 5 /\ (-2) % 8 = 6
<1>. DEFINE a == -1
            b == -2
            c == -3
<1>1. /\ a \in Int /\ a + 8 = 7 /\ b \in Int /\ b + 8 = 6 /\ c \in Int /\ c + 8 = 5
      /\ 1 - 2 = a /\ -1 - 2 = c
  OBVIOUS
<1>. HIDE DEF a, b, c
<1>2. a % 8 = 7
  BY <1>1, ResidueIs
<1>3. b % 8 = 6
  BY <1>1, ResidueIs
<1>4. c % 8 = 5
  BY <1>1, ResidueIs
<1>5. (1 - 2) % 8 = 7 /\ (-1 - 2) % 8 = 5
  BY <1>1, <1>2, <1>4
<1>6. QED
  BY <1>2, <1>3, <1>5 DEF a, b

LEMMA InvertedGates ==
  /\ Makes(<<InvModifier>>, "S", 0, "Sdag", 0)
  /\ Makes(<<InvModifier>>, "X90", 0, "mX90", 0)
  /\ Makes(<<InvModifier>>, "Y90", 0, "mY90", 0)
  /\ Makes(<<InvModifier>>, "Rx", 1, "Rx", -1)
  /\ Makes(<<InvModifier, InvModifier>>, "H", 0, "H", 0)
<1>1. dagger(X90) = MX90 /\ dagger(Y90) = MY90
  <2>1. /\ Conj(Complex(1, 1)) = Complex(1, -1) /\ Conj(Complex(1, -1)) = Complex(1, 1)
        /\ Conj(Complex(-1, -1)) = Complex(-1, 1)
    BY MinusZero, MinusMinusOne DEF Conj, Complex
  <2>2. QED
    BY <2>1, TwoRowsInverted DEF X90, MX90, Y90, MY90
<1>2. dagger(RX(1)) = RX(-1)
  <2>1. 1 % 8 = 1 /\ (-1) % 8 = 7 /\ (1 - 2) % 8 = 7 /\ (-1 - 2) % 8 = 5
    <3>1. 1 % 8 = 1
      BY ResidueIs
    <3>2. (-1) % 8 = 7
      BY LowResidues
    <3>3. (1 - 2) % 8 = 7
      BY LowResidues
    <3>4. (-1 - 2) % 8 = 5
      BY LowResidues
    <3>5. QED
      BY <3>1, <3>2, <3>3, <3>4
  <2>2. /\ Cosine(1) = CosineOf(1) /\ Cosine(-1) = CosineOf(7)
        /\ Cosine(1 - 2) = CosineOf(7) /\ Cosine(-1 - 2) = CosineOf(5)
    BY <2>1, CosineIs
  <2>3. /\ CosineOf(1) = <<1, 0, 0, 0>> /\ CosineOf(7) = <<1, 0, 0, 0>>
        /\ CosineOf(5) = <<-1, 0, 0, 0>>
    BY DEF CosineOf
  <2>4. /\ Cosine(1) = <<1, 0, 0, 0>> /\ Sine(1) = <<1, 0, 0, 0>>
        /\ Cosine(-1) = <<1, 0, 0, 0>> /\ Sine(-1) = <<-1, 0, 0, 0>>
    BY <2>2, <2>3 DEF Sine
  <2>5. Minus(Imag) = <<0, 0, -1, 0>>
    BY Parts, MinusZero DEF Imag
  <2>6. /\ Times(<<0, 0, -1, 0>>, <<1, 0, 0, 0>>) = <<0, 0, -1, 0>>
        /\ Times(<<0, 0, -1, 0>>, <<-1, 0, 0, 0>>) = <<0, 0, 1, 0>>
    BY DEF Times, Null
  <2>7. /\ Conj(<<1, 0, 0, 0>>) = <<1, 0, 0, 0>> /\ Conj(<<0, 0, -1, 0>>) = <<0, 0, 1, 0>>
    BY MinusZero, MinusMinusOne DEF Conj
  <2>8. /\ RX(1)  = Matrix(1, <<<<<<1, 0, 0, 0>>, <<0, 0, -1, 0>>>>,
                                 <<<<0, 0, -1, 0>>, <<1, 0, 0, 0>>>>>>)
        /\ RX(-1) = Matrix(1, <<<<<<1, 0, 0, 0>>, <<0, 0, 1, 0>>>>,
                                 <<<<0, 0, 1, 0>>, <<1, 0, 0, 0>>>>>>)
    BY <2>4, <2>5, <2>6 DEF RX
  <2>9. QED
    BY <2>7, <2>8, TwoRowsInverted
<1>3. dagger(H) = H
  <2>1. Conj(One) = One /\ Conj(Minus(One)) = Minus(One)
    <3>1. One = <<1, 0, 0, 0>> /\ Minus(<<1, 0, 0, 0>>) = <<-1, 0, 0, 0>>
      BY Parts, MinusZero DEF One, Real
    <3>2. Conj(<<1, 0, 0, 0>>) = <<1, 0, 0, 0>> /\ Conj(<<-1, 0, 0, 0>>) = <<-1, 0, 0, 0>>
      BY MinusZero DEF Conj
    <3>3. QED
      BY <3>1, <3>2
  <2>2. QED
    BY <2>1, TwoRowsInverted DEF H
<1>4. ASSUME NEW m
      PROVE  /\ Folded(<<InvModifier>>, m) = dagger(m)
             /\ Folded(<<InvModifier, InvModifier>>, m) = dagger(dagger(m))
  <2>1. Folded(<<InvModifier>>, m) = Modified(InvModifier, m)
    BY OneModifier
  <2>2. Folded(<<InvModifier, InvModifier>>, m) = Modified(InvModifier, Modified(InvModifier, m))
    BY TwoModifiers
  <2>3. QED
    BY <2>1, <2>2, ModifiersDo
<1>5. dagger(S) = SDAG
  BY DEF SDAG
<1>6. QED
  BY <1>1, <1>2, <1>3, <1>4, <1>5, NamedDefaults, SameMatrix DEF Makes

\* The numbers in the last entries of the phases, and the phases.
LEMMA NamedPhases ==
  /\ IsPhase(S, 2, Imag) /\ IsPhase(T, 2, Omega) /\ IsPhase(Z, 2, Minus(One))
  /\ IsPhase(CZ, 4, Minus(One)) /\ Times(Imag, Imag) = Minus(One)
  /\ IsPhase(CR(7), 4, Conj(Omega)) /\ IsPhase(CR(-2), 4, Conj(Imag))
<1>1. One = <<1, 0, 0, 0>> /\ Imag = <<0, 0, 1, 0>> /\ Omega = <<0, 1, 0, 0>>
  BY DEF One, Imag, Omega, Real
<1>2. Minus(One) = <<-1, 0, 0, 0>>
  BY <1>1, Parts, MinusZero
<1>3. Times(Imag, Imag) = Minus(One)
  <2>1. Times(<<0, 0, 1, 0>>, <<0, 0, 1, 0>>) = <<-1, 0, 0, 0>>
    BY DEF Times, Null
  <2>2. QED
    BY <1>1, <1>2, <2>1
<1>4. /\ Imag \in Ring /\ Omega \in Ring /\ Minus(One) \in Ring
      /\ Conj(Imag) \in Ring /\ Conj(Omega) \in Ring
  BY Units, ConjRing DEF IsUnit
<1>5. Phase(7) = Conj(Omega) /\ Phase(-2) = Conj(Imag)
  <2>1. 7 % 8 = 7 /\ (-2) % 8 = 6 /\ 7 \in Int /\ -2 \in Int
    <3>1. 7 % 8 = 7 /\ 7 \in Int /\ -2 \in Int
      BY ResidueIs
    <3>2. (-2) % 8 = 6
      BY LowResidues
    <3>3. QED
      BY <3>1, <3>2
  <2>2. Phase(7) = PhaseOf(7) /\ Phase(-2) = PhaseOf(6)
    BY <2>1, PhaseIs
  <2>3. PhaseOf(7) = <<0, 0, 0, -1>> /\ PhaseOf(6) = <<0, 0, -1, 0>>
    BY DEF PhaseOf
  <2>4. Conj(Omega) = <<0, 0, 0, -1>> /\ Conj(Imag) = <<0, 0, -1, 0>>
    BY MinusZero DEF Conj, Omega, Imag
  <2>5. QED
    BY <2>2, <2>3, <2>4
<1>6. QED
  BY <1>3, <1>4, <1>5, Phases DEF S, T, Z, CZ, CR

LEMMA SquareOfS == Product(S, S) = Z
<1>1. 2 \in Nat /\ IsPhase(S, 2, Imag) /\ IsPhase(Z, 2, Minus(One)) /\ Times(Imag, Imag) = Minus(One)
  BY NamedPhases
<1>2. IsPhase(Product(S, S), 2, Times(Imag, Imag))
  BY <1>1, PhaseSquared
<1>3. QED
  BY <1>1, <1>2, PhaseUnique

LEMMA PoweredGates ==
  /\ Makes(<<PowModifier(2)>>, "S", 0, "Z", 0)
  /\ Makes(<<PowModifier(-1)>>, "T", 0, "Tdag", 0)
  /\ Makes(<<PowModifier(2)>>, "X90", 0, "X", 0)
  /\ Makes(<<PowModifier(0)>>, "H", 0, "I", 0)
<1>1. IsGate(S, 2) /\ IsGate(T, 2) /\ IsGate(X90, 2) /\ IsGate(H, 2) /\ 2 \in Nat
  BY FixedOfTwoRows, FixedDense
<1>2. /\ power(S, 2) = Product(S, S) /\ power(T, -1) = dagger(T)
      /\ power(X90, 2) = Product(X90, X90) /\ power(H, 0) = IDENTITY
  BY <1>1, SmallExponents DEF IDENTITY
<1>3. Product(S, S) = Z
  BY SquareOfS
<1>4. dagger(T) = TDAG
  BY DEF TDAG
<1>5. Same(Product(X90, X90), X)
  <2>. DEFINE a == Complex(1, 1)
              b == Complex(1, -1)
              m == Product(X90, X90)
              four == <<4, 0, 0, 0>>
              h    == 2
  <2>1. a = <<1, 0, 1, 0>> /\ b = <<1, 0, -1, 0>> /\ a \in Ring /\ b \in Ring /\ four \in Ring /\ h \in Nat
    BY DEF Complex, Ring
  <2>2. /\ Plus(Times(a, a), Times(b, b)) = Null /\ Plus(Times(b, b), Times(a, a)) = Null
        /\ Plus(Times(a, b), Times(b, a)) = four /\ Plus(Times(b, a), Times(a, b)) = four
    <3>1. /\ Times(<<1, 0, 1, 0>>, <<1, 0, 1, 0>>) = <<0, 0, 2, 0>>
          /\ Times(<<1, 0, -1, 0>>, <<1, 0, -1, 0>>) = <<0, 0, -2, 0>>
          /\ Times(<<1, 0, 1, 0>>, <<1, 0, -1, 0>>) = <<2, 0, 0, 0>>
          /\ Times(<<1, 0, -1, 0>>, <<1, 0, 1, 0>>) = <<2, 0, 0, 0>>
      BY DEF Times, Null
    <3>2. /\ Plus(<<0, 0, 2, 0>>, <<0, 0, -2, 0>>) = Null
          /\ Plus(<<0, 0, -2, 0>>, <<0, 0, 2, 0>>) = Null
          /\ Plus(<<2, 0, 0, 0>>, <<2, 0, 0, 0>>) = four
      BY DEF Plus, Null
    <3>3. QED
      BY <2>1, <3>1, <3>2
  <2>3. X90 = Matrix(h, <<<<a, b>>, <<b, a>>>>)
    BY DEF X90
  <2>. HIDE DEF a, b, h
  <2>4. a \in Ring /\ b \in Ring /\ h \in Nat
    BY <2>1
  <2>5. /\ IsSquare(m, 2) /\ m.halvings = h + h
        /\ m.rows[1][1] = Null /\ m.rows[1][2] = four /\ m.rows[2][1] = four /\ m.rows[2][2] = Null
    <3>1. /\ IsSquare(m, 2) /\ m.halvings = h + h
          /\ m.rows[1][1] = Plus(Times(a, a), Times(b, b))
          /\ m.rows[1][2] = Plus(Times(a, b), Times(b, a))
          /\ m.rows[2][1] = Plus(Times(b, a), Times(a, b))
          /\ m.rows[2][2] = Plus(Times(b, b), Times(a, a))
      <4>. DEFINE g == X90
      <4>1. g = Matrix(h, <<<<a, b>>, <<b, a>>>>)
        BY <2>3
      <4>. HIDE DEF g
      <4>2. QED
        BY <2>4, <4>1, TwoRowsMultiplied DEF g
    <3>2. QED
      BY <2>2, <3>1
  <2>6. /\ IsSquare(X, 2) /\ X.halvings = 0
        /\ X.rows[1][1] = Null /\ X.rows[1][2] = One /\ X.rows[2][1] = One /\ X.rows[2][2] = Null
    BY Swaps DEF IsLastSwap, X, Matrix
  <2>7. /\ Root2Power(0) = One /\ Root2Power(h + h) = four
    <3>1. Root2Power(0) = Real(1) /\ Root2Power(h + h) = Real(2^h)
      BY <2>1, FactorOfProduct
    <3>2. QED
      BY <3>1, SmallPowers DEF One, Real, h
  <2>8. Times(Null, One) = Null /\ Times(four, One) = four /\ Times(Null, four) = Null /\ Times(One, four) = four
    BY DEF Times, One, Real, Null
  <2>. HIDE DEF m, four
  <2>9. ASSUME NEW r \in 1..2, NEW c \in 1..2
        PROVE  Times(m.rows[r][c], Root2Power(X.halvings)) = Times(X.rows[r][c], Root2Power(m.halvings))
    <3>1. (r = 1 \/ r = 2) /\ (c = 1 \/ c = 2)
      OBVIOUS
    <3>2. QED
      BY <2>5, <2>6, <2>7, <2>8, <3>1
  <2>10. QED
    BY <1>1, <2>5, <2>6, <2>9, SameIs DEF m
<1>6. ASSUME NEW m
      PROVE  /\ Folded(<<PowModifier(2)>>, m) = power(m, 2)
             /\ Folded(<<PowModifier(-1)>>, m) = power(m, -1)
             /\ Folded(<<PowModifier(0)>>, m) = power(m, 0)
  BY OneModifier, ModifiersDo
<1>7. QED
  BY <1>2, <1>3, <1>4, <1>5, <1>6, NamedDefaults, SameMatrix DEF Makes

LEMMA ControlledGates ==
  /\ Makes(<<CtrlModifier>>, "X", 0, "CNOT", 0)
  /\ Makes(<<CtrlModifier, CtrlModifier>>, "X", 0, "TOFFOLI", 0)
  /\ Makes(<<CtrlModifier, PowModifier(2)>>, "S", 0, "CZ", 0)
  /\ Makes(<<PowModifier(2), CtrlModifier>>, "S", 0, "CZ", 0)
  /\ Makes(<<InvModifier, CtrlModifier>>, "T", 0, "CR", 7)
  /\ Makes(<<CtrlModifier, InvModifier>>, "S", 0, "CR", -2)
<1>1. /\ 2 \in Nat \ {0} /\ 2 >= 2 /\ 4 >= 2 /\ 2 * 2 = 4 /\ 2 * 4 = 8 /\ 4 \in Nat /\ 8 \in Nat
  OBVIOUS
<1>2. control(X) = CNOT
  <2>1. IsLastSwap(control(X), 4)
    BY <1>1, Swaps, SwapControlled
  <2>2. QED
    BY <1>1, <2>1, Swaps, SwapUnique
<1>3. control(CNOT) = TOFFOLI
  <2>1. IsLastSwap(control(CNOT), 8)
    BY <1>1, Swaps, SwapControlled
  <2>2. QED
    BY <1>1, <2>1, Swaps, SwapUnique
<1>4. IsGate(S, 2) /\ IsGate(control(S), 4)
  <2>1. IsGate(S, 2)
    BY FixedOfTwoRows
  <2>2. QED
    BY <1>1, <2>1, ControlIsGate
<1>5. IsPhase(control(S), 4, Imag) /\ IsPhase(control(T), 4, Omega) /\ IsPhase(control(Z), 4, Minus(One))
  BY <1>1, NamedPhases, PhaseControlled
<1>6. control(power(S, 2)) = CZ
  <2>1. power(S, 2) = Z
    BY <1>1, <1>4, SmallExponents, SquareOfS
  <2>2. QED
    BY <1>1, <1>5, <2>1, NamedPhases, PhaseUnique
<1>7. power(control(S), 2) = CZ
  <2>1. power(control(S), 2) = Product(control(S), control(S))
    BY <1>1, <1>4, SmallExponents
  <2>2. IsPhase(Product(control(S), control(S)), 4, Times(Imag, Imag))
    BY <1>1, <1>5, PhaseSquared
  <2>3. QED
    BY <1>1, <2>1, <2>2, NamedPhases, PhaseUnique
<1>8. dagger(control(T)) = CR(7)
  <2>1. IsPhase(dagger(control(T)), 4, Conj(Omega))
    BY <1>1, <1>5, PhaseInverted
  <2>2. QED
    BY <1>1, <2>1, NamedPhases, PhaseUnique
<1>9. control(dagger(S)) = CR(-2)
  <2>1. IsPhase(dagger(S), 2, Conj(Imag))
    BY <1>1, NamedPhases, PhaseInverted
  <2>2. IsPhase(control(dagger(S)), 4, Conj(Imag))
    BY <1>1, <2>1, PhaseControlled
  <2>3. QED
    BY <1>1, <2>2, NamedPhases, PhaseUnique
<1>10. Folded(<<CtrlModifier>>, X) = CNOT
  BY <1>2, OneModifier, ModifiersDo
<1>11. Folded(<<CtrlModifier, CtrlModifier>>, X) = TOFFOLI
  <2>1. Folded(<<CtrlModifier, CtrlModifier>>, X) = Modified(CtrlModifier, Modified(CtrlModifier, X))
    BY TwoModifiers
  <2>2. QED
    BY <1>2, <1>3, <2>1, ModifiersDo
<1>12. Folded(<<CtrlModifier, PowModifier(2)>>, S) = CZ
  <2>1. Folded(<<CtrlModifier, PowModifier(2)>>, S) = Modified(CtrlModifier, Modified(PowModifier(2), S))
    BY TwoModifiers
  <2>2. QED
    BY <1>6, <2>1, ModifiersDo
<1>13. Folded(<<PowModifier(2), CtrlModifier>>, S) = CZ
  <2>1. Folded(<<PowModifier(2), CtrlModifier>>, S) = Modified(PowModifier(2), Modified(CtrlModifier, S))
    BY TwoModifiers
  <2>2. QED
    BY <1>7, <2>1, ModifiersDo
<1>14. Folded(<<InvModifier, CtrlModifier>>, T) = CR(7)
  <2>1. Folded(<<InvModifier, CtrlModifier>>, T) = Modified(InvModifier, Modified(CtrlModifier, T))
    BY TwoModifiers
  <2>2. QED
    BY <1>8, <2>1, ModifiersDo
<1>15. Folded(<<CtrlModifier, InvModifier>>, S) = CR(-2)
  <2>1. Folded(<<CtrlModifier, InvModifier>>, S) = Modified(CtrlModifier, Modified(InvModifier, S))
    BY TwoModifiers
  <2>2. QED
    BY <1>9, <2>1, ModifiersDo
<1>16. Makes(<<CtrlModifier>>, "X", 0, "CNOT", 0) /\ Makes(<<CtrlModifier, CtrlModifier>>, "X", 0, "TOFFOLI", 0)
  BY <1>10, <1>11, NamedDefaults, SameMatrix DEF Makes
<1>17. Makes(<<CtrlModifier, PowModifier(2)>>, "S", 0, "CZ", 0)
  BY <1>12, NamedDefaults, SameMatrix DEF Makes
<1>18. Makes(<<PowModifier(2), CtrlModifier>>, "S", 0, "CZ", 0)
  BY <1>13, NamedDefaults, SameMatrix DEF Makes
<1>19. Makes(<<InvModifier, CtrlModifier>>, "T", 0, "CR", 7)
  BY <1>14, NamedDefaults, SameMatrix DEF Makes
<1>20. Makes(<<CtrlModifier, InvModifier>>, "S", 0, "CR", -2)
  BY <1>15, NamedDefaults, SameMatrix DEF Makes
<1>21. QED
  BY <1>16, <1>17, <1>18, <1>19, <1>20

\* A gate that is written as one of the list has the matrix of its name.
IsWritten(g, modifiers, name, k, other, l) == g = <<modifiers, Plain(name, k), Plain(other, l)>>
IsNamed(g) ==
  \A gate : g[1] = gate.modifiers /\ g[2] = Plain(gate.name, gate.parameter)
              => Same(MatrixOf(gate), MatrixOf(g[3]))

LEMMA WrittenIsNamed ==
  ASSUME NEW g, NEW modifiers, NEW name, NEW k, NEW other, NEW l,
         IsWritten(g, modifiers, name, k, other, l), Makes(modifiers, name, k, other, l)
  PROVE  IsNamed(g)
<1>1. g[1] = modifiers /\ g[2] = Plain(name, k) /\ g[3] = Plain(other, l)
  BY DEF IsWritten
<1>2. MatrixOf(g[3]) = default_gates(other, l)
  <2>1. /\ Plain(other, l).name = other /\ Plain(other, l).parameter = l
        /\ Plain(other, l).modifiers = <<>>
    BY DEF Plain
  <2>2. QED
    BY <1>1, <2>1, NoModifiers DEF MatrixOf
<1>3. ASSUME NEW gate, g[1] = gate.modifiers, g[2] = Plain(gate.name, gate.parameter)
      PROVE  Same(MatrixOf(gate), MatrixOf(g[3]))
  <2>1. gate.modifiers = modifiers /\ gate.name = name /\ gate.parameter = k
    BY <1>1, <1>3 DEF Plain
  <2>2. MatrixOf(gate) = Folded(modifiers, default_gates(name, k))
    BY <2>1 DEF MatrixOf, Folded
  <2>3. QED
    BY <1>2, <2>2 DEF Makes
<1>4. QED
  BY <1>3 DEF IsNamed

LEMMA AllNamed == \A g \in NamedGates : IsNamed(g)
<1>. SUFFICES ASSUME NEW g \in NamedGates
              PROVE  IsNamed(g)
  OBVIOUS
<1>1. \/ IsWritten(g, <<InvModifier>>, "S", 0, "Sdag", 0)
      \/ IsWritten(g, <<InvModifier>>, "X90", 0, "mX90", 0)
      \/ IsWritten(g, <<InvModifier>>, "Y90", 0, "mY90", 0)
      \/ IsWritten(g, <<InvModifier>>, "Rx", 1, "Rx", -1)
      \/ IsWritten(g, <<InvModifier, InvModifier>>, "H", 0, "H", 0)
      \/ IsWritten(g, <<PowModifier(2)>>, "S", 0, "Z", 0)
      \/ IsWritten(g, <<PowModifier(-1)>>, "T", 0, "Tdag", 0)
      \/ IsWritten(g, <<PowModifier(2)>>, "X90", 0, "X", 0)
      \/ IsWritten(g, <<PowModifier(0)>>, "H", 0, "I", 0)
      \/ IsWritten(g, <<CtrlModifier>>, "X", 0, "CNOT", 0)
      \/ IsWritten(g, <<CtrlModifier, CtrlModifier>>, "X", 0, "TOFFOLI", 0)
      \/ IsWritten(g, <<CtrlModifier, PowModifier(2)>>, "S", 0, "CZ", 0)
      \/ IsWritten(g, <<PowModifier(2), CtrlModifier>>, "S", 0, "CZ", 0)
      \/ IsWritten(g, <<InvModifier, CtrlModifier>>, "T", 0, "CR", 7)
      \/ IsWritten(g, <<CtrlModifier, InvModifier>>, "S", 0, "CR", -2)
  BY Zenon DEF NamedGates, IsWritten, InvModifier, CtrlModifier, PowModifier
<1>2. QED
  BY <1>1, InvertedGates, PoweredGates, ControlledGates, WrittenIsNamed

\* A gate under modifiers is the gate that those modifiers make of it: the inverse, the
\* square or the controlled version of a default gate that has a name has the matrix of
\* that name, in whatever order the modifiers are written (get_gates, and the powers and
\* controls of gates.hpp, as the comments of integration_test.cpp say).
THEOREM ModifiersMakeNamedGatesCorrect == Spec => []ModifiersMakeNamedGates
<1>1. ModifiersMakeNamedGates
  BY AllNamed DEF ModifiersMakeNamedGates, IsNamed
<1>2. QED
  BY <1>1, PTL

=============================================================================

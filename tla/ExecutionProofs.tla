--------------------------- MODULE ExecutionProofs ---------------------------
(***************************************************************************)
(* One call of execute, for any programs: its registers, its builder and   *)
(* its shots keep, one after the other, what is proved of each alone, and  *)
(* the call is one of Simulator's.                                         *)
(***************************************************************************)
EXTENDS Execution, SimulationProofs

-----------------------------------------------------------------------------
(* The variables of one kind.                                              *)

HasDistinctNames(list) ==
  \A j, k \in 1..Len(list) : list[j].name = list[k].name => j = k

\* What a register is told of a variable.
Told(v) == [name |-> v.name, size |-> v.size]
ToldVariable == [name : STRING, size : Nat]

\* Of the first n variables, list has those of a kind.
IsFiltered(list, variables, kind, n) ==
  /\ list \in Seq(ToldVariable)
  /\ \A k \in 1..Len(list) : \E j \in 1..n :
       variables[j].kind = kind /\ list[k] = Told(variables[j])
  /\ \A j \in 1..n : variables[j].kind = kind => \E k \in 1..Len(list) : list[k] = Told(variables[j])
  /\ HasDistinctNames(list)

LEMMA FilteredStep ==
  ASSUME NEW variables \in Seq(DeclaredVariable), HasDistinctNames(variables), NEW kind,
         NEW n \in Nat, n + 1 <= Len(variables), NEW list, IsFiltered(list, variables, kind, n)
  PROVE  IsFiltered(list \o (IF variables[n + 1].kind = kind THEN <<Told(variables[n + 1])>> ELSE <<>>),
                    variables, kind, n + 1)
<1>. DEFINE v    == variables[n + 1]
            more == list \o <<Told(v)>>
            m    == Len(list)
<1>1. /\ n + 1 \in 1..Len(variables) /\ 1..(n + 1) = 1..n \union {n + 1}
      /\ \A j \in 1..n : j \in 1..Len(variables) /\ j # n + 1
  OBVIOUS
<1>2. v \in DeclaredVariable
  BY <1>1
<1>3. Told(v) \in ToldVariable
  BY <1>2 DEF Told, ToldVariable, DeclaredVariable
<1>4. list \in Seq(ToldVariable) /\ m \in Nat
  BY DEF IsFiltered
<1>. HIDE DEF v
<1>5. /\ more \in Seq(ToldVariable) /\ Len(more) = m + 1
      /\ \A k \in 1..m : more[k] = list[k]
      /\ more[m + 1] = Told(v)
  BY <1>3, <1>4
<1>6. 1..(m + 1) = 1..m \union {m + 1} /\ \A k \in 1..m : k # m + 1
  BY <1>4
<1>. HIDE DEF more, m
<1>7. CASE v.kind = kind
  <2>1. \A k \in 1..m : \E j \in 1..n : variables[j].kind = kind /\ more[k] = Told(variables[j])
    BY <1>5 DEF IsFiltered, m
  <2>2. ASSUME NEW k \in 1..m
        PROVE  more[k].name # v.name
    <3>1. PICK j \in 1..n : more[k] = Told(variables[j])
      BY <2>1
    <3>2. variables[j].name # v.name
      BY <1>1 DEF HasDistinctNames, v
    <3>3. QED
      BY <3>1, <3>2 DEF Told
  <2>3. HasDistinctNames(more)
    <3>1. \A j, k \in 1..m : more[j].name = more[k].name => j = k
      BY <1>5 DEF IsFiltered, HasDistinctNames, m
    <3>2. more[m + 1].name = v.name
      BY <1>5 DEF Told
    <3>3. QED
      BY <1>5, <1>6, <2>2, <3>1, <3>2 DEF HasDistinctNames
  <2>4. \A k \in 1..(m + 1) : \E j \in 1..(n + 1) :
          variables[j].kind = kind /\ more[k] = Told(variables[j])
    BY <1>1, <1>5, <1>6, <1>7, <2>1 DEF v
  <2>5. \A j \in 1..(n + 1) : variables[j].kind = kind =>
          \E k \in 1..(m + 1) : more[k] = Told(variables[j])
    <3>1. \A j \in 1..n : variables[j].kind = kind => \E k \in 1..m : more[k] = Told(variables[j])
      BY <1>5 DEF IsFiltered, m
    <3>2. QED
      BY <1>1, <1>5, <1>6, <3>1 DEF v
  <2>6. IsFiltered(more, variables, kind, n + 1)
    BY <1>5, <2>3, <2>4, <2>5 DEF IsFiltered
  <2>7. QED
    BY <1>7, <2>6 DEF v, more
<1>8. CASE v.kind # kind
  <2>1. list \o <<>> = list
    BY <1>4
  <2>2. IsFiltered(list, variables, kind, n + 1)
    BY <1>1, <1>8 DEF IsFiltered, v
  <2>3. QED
    BY <1>8, <2>1, <2>2 DEF v
<1>9. QED
  BY <1>7, <1>8

\* The list of a kind has the variables of that kind, each once.
LEMMA OfKindIsFiltered ==
  ASSUME NEW variables \in Seq(DeclaredVariable), HasDistinctNames(variables), NEW kind
  PROVE  IsFiltered(OfKind(variables, kind), variables, kind, Len(variables))
<1>. DEFINE n       == Len(variables)
            part(j) == IF variables[j].kind = kind THEN <<Told(variables[j])>> ELSE <<>>
            parts   == [j \in DOMAIN variables |-> part(j)]
<1>1. n \in Nat /\ DOMAIN variables = 1..n /\ Len(parts) = n
  OBVIOUS
<1>2. OfKind(variables, kind) = FlattenSeq(parts)
  BY DEF OfKind, Told
<1>3. IsFiltered(<<>>, variables, kind, 0)
  BY DEF IsFiltered, HasDistinctNames
<1>4. CASE n = 0
  <2>1. FlattenSeq(parts) = parts /\ parts = <<>>
    BY <1>1, <1>4 DEF FlattenSeq
  <2>2. QED
    BY <1>2, <1>3, <1>4, <2>1
<1>5. CASE n # 0
  <2>1. n \in Nat \ {0}
    BY <1>1, <1>5
  <2>. HIDE DEF n, parts
  <2>2. PICK g : IsFlat(g, parts, n)
    BY <2>1, FlatExists
  <2>3. FlattenSeq(parts) = g[n]
    BY <1>1, <2>1, <2>2, FlattenIs
  <2>. DEFINE Good == {m \in Nat : m + 1 <= n => IsFiltered(g[m + 1], variables, kind, m + 1)}
  <2>4. 0 \in Good
    <3>1. <<>> \o part(1) = part(1) /\ g[1] = part(1)
      BY <1>1, <2>1, <2>2 DEF IsFlat, parts
    <3>. HIDE DEF part
    <3>2. IsFiltered(<<>> \o part(1), variables, kind, 0 + 1)
      <4>1. 0 + 1 <= Len(variables) /\ 0 \in Nat
        BY <2>1 DEF n
      <4>2. part(0 + 1) = IF variables[0 + 1].kind = kind THEN <<Told(variables[0 + 1])>> ELSE <<>>
        BY DEF part
      <4>3. IsFiltered(<<>> \o part(0 + 1), variables, kind, 0 + 1)
        BY <1>3, <4>1, <4>2, FilteredStep
      <4>4. QED
        BY <4>3
    <3>3. QED
      BY <3>1, <3>2
  <2>5. ASSUME NEW m \in Good
        PROVE  m + 1 \in Good
    <3>. SUFFICES ASSUME (m + 1) + 1 <= n
                  PROVE  IsFiltered(g[(m + 1) + 1], variables, kind, (m + 1) + 1)
      OBVIOUS
    <3>1. m \in Nat /\ m + 1 \in Nat /\ m + 1 <= n /\ m + 1 \in 1..(n - 1) /\ (m + 1) + 1 \in 1..n
      BY <2>1
    <3>2. IsFiltered(g[m + 1], variables, kind, m + 1)
      BY <3>1
    <3>3. g[(m + 1) + 1] = g[m + 1] \o part((m + 1) + 1)
      BY <1>1, <2>2, <3>1 DEF IsFlat, parts
    <3>. DEFINE l == m + 1
    <3>. HIDE DEF l, Good
    <3>4. IsFiltered(g[l] \o part(l + 1), variables, kind, l + 1)
      BY <3>1, <3>2, FilteredStep DEF l, n
    <3>5. QED
      BY <3>3, <3>4 DEF l
  <2>6. Good \in SUBSET Nat /\ n - 1 \in Nat /\ (n - 1) + 1 = n /\ n <= n
    BY <2>1
  <2>. HIDE DEF Good
  <2>7. n - 1 \in Good
    BY <2>4, <2>5, <2>6, Induction
  <2>8. IsFiltered(g[n], variables, kind, n)
    BY <2>6, <2>7 DEF Good
  <2>9. QED
    BY <1>2, <2>3, <2>8 DEF n
<1>6. QED
  BY <1>4, <1>5

-----------------------------------------------------------------------------
(* Sums of sizes, and the layout they make.                                *)

Sizes(list, n) == [i \in 1..n |-> list[i].size]

LEMMA SumOfSizes ==
  ASSUME NEW list, NEW n \in Nat, \A i \in 1..(n + 1) : list[i].size \in Nat
  PROVE  /\ SumFunction(Sizes(list, 0)) = 0
         /\ SumFunction(Sizes(list, n)) \in Int
         /\ SumFunction(Sizes(list, n + 1)) = SumFunction(Sizes(list, n)) + list[n + 1].size
<1>. DEFINE N == 1..(n + 1)
            f == Sizes(list, n + 1)
            g == Sizes(list, n)
<1>1. 1..n = N \ {n + 1} /\ n + 1 \in N /\ 1..n \subseteq N /\ DOMAIN f = N /\ DOMAIN g = 1..n
  BY DEF Sizes
<1>2. \A i \in N : f[i] = list[i].size /\ f[i] \in Int
  BY DEF Sizes
<1>3. \A i \in 1..n : g[i] = f[i]
  BY <1>1 DEF Sizes
<1>. HIDE DEF f, g
<1>4. ValuesIn(f, N, Int) /\ ValuesIn(f, 1..n, Int) /\ ValuesIn(g, 1..n, Int)
  BY <1>1, <1>2, <1>3 DEF ValuesIn
<1>5. IsFiniteSet(N) /\ IsFiniteSet(1..n)
  BY FS_Interval
<1>6. SumFunctionOnSet(f, N) = f[n + 1] + SumFunctionOnSet(f, N \ {n + 1})
  BY <1>1, <1>4, <1>5, IntegerSums
<1>7. SumFunctionOnSet(g, 1..n) = SumFunctionOnSet(f, 1..n) /\ SumFunctionOnSet(g, 1..n) \in Int
  <2>1. SumFunctionOnSet(g, 1..n) = SumFunctionOnSet(f, 1..n)
    BY <1>3, <1>4, <1>5, IntegerSumEqual
  <2>2. SumFunctionOnSet(g, 1..n) \in Int
    BY <1>4, <1>5, IntegerSums
  <2>3. QED
    BY <2>1, <2>2
<1>8. f[n + 1] = list[n + 1].size /\ list[n + 1].size \in Int
  BY <1>1, <1>2
<1>9. SumFunction(f) = SumFunction(g) + list[n + 1].size /\ SumFunction(g) \in Int
  <2>1. SumFunction(f) = SumFunctionOnSet(f, N) /\ SumFunction(g) = SumFunctionOnSet(g, 1..n)
    BY <1>1 DEF SumFunction
  <2>2. N \ {n + 1} = 1..n
    BY <1>1
  <2>. HIDE DEF N
  <2>3. SumFunctionOnSet(f, N) = list[n + 1].size + SumFunctionOnSet(g, 1..n)
    BY <1>6, <1>7, <1>8, <2>2
  <2>4. QED
    BY <1>7, <1>8, <2>1, <2>3
<1>10. SumFunction(Sizes(list, 0)) = 0
  <2>. DEFINE h == Sizes(list, 0)
  <2>1. DOMAIN h = {} /\ ValuesIn(h, {}, Int) /\ IsFiniteSet({})
    BY FS_EmptySet DEF Sizes, ValuesIn
  <2>. HIDE DEF h
  <2>2. SumFunctionOnSet(h, {}) = 0
    BY <2>1, IntegerSums
  <2>3. SumFunction(h) = 0
    BY <2>1, <2>2 DEF SumFunction
  <2>4. QED
    BY <2>3 DEF h
<1>11. QED
  BY <1>9, <1>10 DEF f, g

ArePartialSums(sums, list, n) ==
  sums[1] = 0 /\ \A k \in 1..n : sums[k + 1] = sums[k] + list[k].size

LEMMA PartialSumsAreSums ==
  ASSUME NEW list, NEW n \in Nat, \A i \in 1..n : list[i].size \in Nat,
         NEW sums, ArePartialSums(sums, list, n)
  PROVE  \A k \in 0..n : sums[k + 1] = SumFunction(Sizes(list, k))
<1>. DEFINE Good == {k \in Nat : k <= n => sums[k + 1] = SumFunction(Sizes(list, k))}
<1>1. 0 \in Good
  <2>1. SumFunction(Sizes(list, 0)) = 0
    <3>. DEFINE h == Sizes(list, 0)
    <3>1. DOMAIN h = {} /\ ValuesIn(h, {}, Int) /\ IsFiniteSet({})
      BY FS_EmptySet DEF Sizes, ValuesIn
    <3>. HIDE DEF h
    <3>2. SumFunctionOnSet(h, {}) = 0
      BY <3>1, IntegerSums
    <3>3. SumFunction(h) = 0
      BY <3>1, <3>2 DEF SumFunction
    <3>4. QED
      BY <3>3 DEF h
  <2>2. sums[0 + 1] = 0
    BY DEF ArePartialSums
  <2>3. QED
    BY <2>1, <2>2
<1>2. ASSUME NEW k \in Good
      PROVE  k + 1 \in Good
  <2>. SUFFICES ASSUME k + 1 <= n
                PROVE  sums[(k + 1) + 1] = SumFunction(Sizes(list, k + 1))
    OBVIOUS
  <2>1. k \in Nat /\ k <= n /\ k + 1 \in 1..n /\ \A i \in 1..(k + 1) : i \in 1..n
    OBVIOUS
  <2>2. sums[k + 1] = SumFunction(Sizes(list, k))
    BY <2>1
  <2>3. sums[(k + 1) + 1] = sums[k + 1] + list[k + 1].size
    BY <2>1 DEF ArePartialSums
  <2>4. SumFunction(Sizes(list, k + 1)) = SumFunction(Sizes(list, k)) + list[k + 1].size
    BY <2>1, SumOfSizes
  <2>5. QED
    BY <2>2, <2>3, <2>4
<1>3. Good \in SUBSET Nat
  OBVIOUS
<1>. HIDE DEF Good
<1>4. Good = Nat
  BY <1>1, <1>2, <1>3, Induction
<1>5. QED
  BY <1>4 DEF Good

\* The ranges are those of the variables of a list, one after the other.
AreRangesOf(ranges, list) ==
  /\ DOMAIN ranges = {list[k].name : k \in 1..Len(list)}
  /\ \A k \in 1..Len(list) :
       /\ ranges[list[k].name].first = SumFunction(Sizes(list, k - 1))
       /\ ranges[list[k].name].size = list[k].size

LEMMA RangesOfSums ==
  ASSUME NEW list \in Seq(ToldVariable), NEW sums, ArePartialSums(sums, list, Len(list)), NEW ranges,
         DOMAIN ranges = {list[k].name : k \in 1..Len(list)},
         \A k \in 1..Len(list) :
           ranges[list[k].name].first = sums[k] /\ ranges[list[k].name].size = list[k].size
  PROVE  AreRangesOf(ranges, list)
<1>. DEFINE n == Len(list)
<1>1. n \in Nat /\ \A i \in 1..n : list[i].size \in Nat
  <2>1. n \in Nat /\ \A i \in 1..n : list[i] \in ToldVariable
    OBVIOUS
  <2>2. QED
    BY <2>1 DEF ToldVariable
<1>2. \A k \in 0..n : sums[k + 1] = SumFunction(Sizes(list, k))
  <2>. HIDE DEF n
  <2>1. QED
    BY <1>1, PartialSumsAreSums DEF n
<1>3. ASSUME NEW k \in 1..n
      PROVE  sums[k] = SumFunction(Sizes(list, k - 1))
  <2>1. k - 1 \in 0..n /\ (k - 1) + 1 = k
    BY <1>1
  <2>2. sums[(k - 1) + 1] = SumFunction(Sizes(list, k - 1))
    BY <1>2, <2>1
  <2>3. QED
    BY <2>1, <2>2
<1>4. QED
  BY <1>3 DEF AreRangesOf

LEMMA TotalOfSums ==
  ASSUME NEW list \in Seq(ToldVariable), NEW sums, ArePartialSums(sums, list, Len(list))
  PROVE  sums[Len(list) + 1] = SumFunction([j \in DOMAIN list |-> list[j].size])
<1>. DEFINE n == Len(list)
<1>1. n \in Nat /\ n \in 0..n /\ DOMAIN list = 1..n /\ \A i \in 1..n : list[i].size \in Nat
  <2>1. n \in Nat /\ DOMAIN list = 1..n /\ \A i \in 1..n : list[i] \in ToldVariable
    OBVIOUS
  <2>. HIDE DEF n
  <2>2. QED
    BY <2>1 DEF ToldVariable
<1>2. sums[n + 1] = SumFunction(Sizes(list, n))
  <2>. HIDE DEF n
  <2>1. QED
    BY <1>1, PartialSumsAreSums DEF n
<1>3. QED
  BY <1>1, <1>2 DEF Sizes

-----------------------------------------------------------------------------
(* The registers of a call, each an instance of RegisterProofs.            *)

ToldLists == {list \in Seq(ToldVariable) : HasDistinctNames(list)}

QR == INSTANCE RegisterProofs
        WITH Names <- STRING, Declarations <- ToldLists, max_register_size <- MAX_QUBIT_NUMBER,
             variables <- OfKind(program.variables, "qubit"),
             next <- qubit_next, register_size <- qubit_size, current_index <- qubit_index,
             variable_name_to_range <- qubit_ranges, index_to_variable_name <- qubit_names,
             dirty_bitset <- [j \in DOMAIN qubit_names |-> j \in dirty],
             phase <- qubit_phase, sums <- qubit_sums

BR == INSTANCE RegisterProofs
        WITH Names <- STRING, Declarations <- ToldLists, max_register_size <- MAX_BIT_NUMBER,
             variables <- OfKind(program.variables, "bit"),
             next <- bit_next, register_size <- bit_size, current_index <- bit_index,
             variable_name_to_range <- bit_ranges, index_to_variable_name <- bit_names,
             dirty_bitset <- [j \in DOMAIN bit_names |-> FALSE],
             phase <- bit_phase, sums <- bit_sums

LEMMA RegistersOfCall ==
  /\ \A d \in ToldLists :
       /\ d \in Seq(QR!Variable) /\ d \in Seq(BR!Variable)
       /\ \A j, k \in 1..Len(d) : d[j].name = d[k].name => j = k
  /\ MAX_QUBIT_NUMBER \in Nat /\ MAX_BIT_NUMBER \in Nat
BY ExecutionAssumption DEF ToldLists, HasDistinctNames, ToldVariable, QR!Variable, BR!Variable

LEMMA QubitRegisterStep ==
  ASSUME QR!Inv, QubitRegister!ConstructorStep, UNCHANGED <<program, dirty>>
  PROVE  QR!Inv'
<1>1. QR!ConstructorStep
  BY DEF QubitRegister!ConstructorStep, QubitRegister!AddSize, QubitRegister!ThrowTooLarge,
         QubitRegister!Resize, QubitRegister!AssignRange, QubitRegister!Built,
         QubitRegister!TooLarge, QubitRegister!Assigned, QubitRegister!NoName,
         QR!ConstructorStep, QR!AddSize, QR!ThrowTooLarge, QR!Resize, QR!AssignRange, QR!Built,
         QR!TooLarge, QR!Assigned, QR!NoName
<1>2. QR!Next
  BY <1>1 DEF QR!Next
<1>3. QED
  BY <1>2, RegistersOfCall, QR!InvStep

LEMMA BitRegisterStep ==
  ASSUME BR!Inv, BitRegister!ConstructorStep, UNCHANGED program
  PROVE  BR!Inv'
<1>1. BR!ConstructorStep
  BY DEF BitRegister!ConstructorStep, BitRegister!AddSize, BitRegister!ThrowTooLarge,
         BitRegister!Resize, BitRegister!AssignRange, BitRegister!Built,
         BitRegister!TooLarge, BitRegister!Assigned, BitRegister!NoName,
         BR!ConstructorStep, BR!AddSize, BR!ThrowTooLarge, BR!Resize, BR!AssignRange, BR!Built,
         BR!TooLarge, BR!Assigned, BR!NoName
<1>2. BR!Next
  BY <1>1 DEF BR!Next
<1>3. QED
  BY <1>2, RegistersOfCall, BR!InvStep

LEMMA QubitRegisterDirty ==
  ASSUME QR!Inv, UNCHANGED <<program, qubit_vars>>
  PROVE  QR!Inv'
<1>1. /\ [j \in DOMAIN qubit_names' |-> j \in dirty'] \in
            [DOMAIN [j \in DOMAIN qubit_names |-> j \in dirty] -> BOOLEAN]
      /\ qubit_names' = qubit_names
  BY DEF qubit_vars
<1>2. UNCHANGED <<OfKind(program.variables, "qubit"), qubit_next, qubit_size, qubit_index,
                  qubit_ranges, qubit_names, qubit_phase, qubit_sums>>
  BY DEF qubit_vars, OfKind
<1>3. QED
  BY <1>1, <1>2, RegistersOfCall, QR!DirtyStep

LEMMA BitRegisterUnchanged ==
  ASSUME BR!Inv, UNCHANGED <<program, bit_vars>>
  PROVE  BR!Inv'
<1>1. /\ [j \in DOMAIN bit_names' |-> FALSE] \in
            [DOMAIN [j \in DOMAIN bit_names |-> FALSE] -> BOOLEAN]
      /\ bit_names' = bit_names
  BY DEF bit_vars
<1>2. UNCHANGED <<OfKind(program.variables, "bit"), bit_next, bit_size, bit_index,
                  bit_ranges, bit_names, bit_phase, bit_sums>>
  BY DEF bit_vars, OfKind
<1>3. QED
  BY <1>1, <1>2, RegistersOfCall, BR!DirtyStep

-----------------------------------------------------------------------------
(* The inductive invariant of a call.                                      *)

\* The parts of a call come one after the other.
InOrder ==
  /\ qubit_phase # "built" => bit_phase = "summing"
  /\ bit_phase # "built" =>
       builder_phase = "building" /\ builder_next = 1 /\ instructions = <<>> /\ dirty = {}
  /\ builder_phase # "built" => phase = "between" /\ accumulator.shots_done = 0

BuilderIsInProgram ==
  /\ IsList(instructions)
  /\ builder_next \in 1..(Len(program.statements) + 1)
  /\ builder_phase \in {"building", "built", "error"}

ShotsAreRequested ==
  /\ shots_requested = program.iterations
  /\ accumulator.shots_done \in 0..shots_requested
  /\ phase \in {"between", "executing", "finished", "aborted"}
  /\ phase = "executing" => accumulator.shots_done < shots_requested

CallInv ==
  /\ program \in AnalyzedPrograms
  /\ QR!Inv /\ BR!Inv
  /\ InOrder /\ BuilderIsInProgram /\ ShotsAreRequested

-----------------------------------------------------------------------------
(* The program, and the ranges of its variables.                           *)

LEMMA ProgramOfCall ==
  ASSUME program \in AnalyzedPrograms
  PROVE  /\ program.iterations \in Nat \ {0}
         /\ program.variables \in Seq(DeclaredVariable)
         /\ HasDistinctNames(program.variables)
         /\ Len(program.statements) \in Nat
         /\ DOMAIN program.statements = 1..Len(program.statements)
         /\ OfKind(program.variables, "qubit") \in ToldLists
         /\ OfKind(program.variables, "bit") \in ToldLists
<1>1. /\ program.iterations \in Nat \ {0}
      /\ program.variables \in Seq(DeclaredVariable)
      /\ \A j, k \in DOMAIN program.variables :
           program.variables[j].name = program.variables[k].name => j = k
  BY ExecutionAssumption
<1>2. DOMAIN program.variables = 1..Len(program.variables)
  BY <1>1
<1>3. HasDistinctNames(program.variables)
  BY <1>1, <1>2 DEF HasDistinctNames
<1>4. program.statements \in Seq(Builder!AnyStatement)
  BY AnalyzerAssumption
<1>5. /\ Len(program.statements) \in Nat
      /\ DOMAIN program.statements = 1..Len(program.statements)
  BY <1>4
<1>6. ASSUME NEW kind
      PROVE  OfKind(program.variables, kind) \in ToldLists
  <2>1. IsFiltered(OfKind(program.variables, kind), program.variables, kind, Len(program.variables))
    BY <1>1, <1>3, OfKindIsFiltered
  <2>2. QED
    BY <2>1 DEF IsFiltered, ToldLists
<1>7. QED
  BY <1>1, <1>3, <1>5, <1>6

LEMMA VariableOfProgram ==
  ASSUME program \in AnalyzedPrograms, NEW v \in DOMAIN Declared(program.variables)
  PROVE  LET d == Declared(program.variables)[v]
         IN  /\ d \in DeclaredVariable /\ d.name = v
             /\ \E k \in 1..Len(OfKind(program.variables, d.kind)) :
                  OfKind(program.variables, d.kind)[k] = Told(d)
             /\ \A kind : \A k \in 1..Len(OfKind(program.variables, kind)) :
                  OfKind(program.variables, kind)[k].name = v => kind = d.kind
<1>. DEFINE vs == program.variables
            d  == Declared(vs)[v]
<1>1. /\ vs \in Seq(DeclaredVariable) /\ HasDistinctNames(vs) /\ DOMAIN vs = 1..Len(vs)
      /\ \A j \in 1..Len(vs) : vs[j] \in DeclaredVariable
  <2>1. vs \in Seq(DeclaredVariable) /\ HasDistinctNames(vs)
    BY ProgramOfCall
  <2>2. QED
    BY <2>1
<1>2. PICK j \in 1..Len(vs) : vs[j].name = v
  BY <1>1 DEF Declared
<1>3. d = vs[CHOOSE k \in DOMAIN vs : vs[k].name = v]
  BY DEF Declared
<1>4. (CHOOSE k \in DOMAIN vs : vs[k].name = v) = j
  BY <1>1, <1>2 DEF HasDistinctNames
<1>5. d = vs[j]
  BY <1>3, <1>4
<1>. HIDE DEF vs, d
<1>6. ASSUME NEW kind
      PROVE  IsFiltered(OfKind(vs, kind), vs, kind, Len(vs))
  BY <1>1, OfKindIsFiltered
<1>7. \E k \in 1..Len(OfKind(vs, d.kind)) : OfKind(vs, d.kind)[k] = Told(d)
  <2>. DEFINE kind == d.kind
  <2>1. vs[j].kind = kind
    BY <1>5
  <2>. HIDE DEF kind
  <2>2. \E k \in 1..Len(OfKind(vs, kind)) : OfKind(vs, kind)[k] = Told(vs[j])
    BY <1>6, <2>1 DEF IsFiltered
  <2>3. QED
    BY <1>5, <2>2 DEF kind
<1>8. ASSUME NEW kind, NEW k \in 1..Len(OfKind(vs, kind)), OfKind(vs, kind)[k].name = v
      PROVE  kind = d.kind
  <2>1. PICK i \in 1..Len(vs) : vs[i].kind = kind /\ OfKind(vs, kind)[k] = Told(vs[i])
    BY <1>6 DEF IsFiltered
  <2>2. vs[i].name = v
    BY <1>8, <2>1 DEF Told
  <2>3. QED
    BY <1>1, <1>2, <1>5, <2>1, <2>2 DEF HasDistinctNames
<1>9. d \in DeclaredVariable /\ d.name = v
  BY <1>1, <1>2, <1>5
<1>10. QED
  BY <1>7, <1>8, <1>9 DEF vs, d

\* The size of a register is that of its variables together.
LEMMA SizeOfQubitRegister ==
  ASSUME CallInv, qubit_phase = "summing" => qubit_next > Len(OfKind(program.variables, "qubit"))
  PROVE  /\ qubit_size = TotalSize(program.variables, "qubit")
         /\ ArePartialSums(qubit_sums, OfKind(program.variables, "qubit"),
                           Len(OfKind(program.variables, "qubit")))
<1>. DEFINE list == OfKind(program.variables, "qubit")
<1>1. list \in Seq(ToldVariable)
  BY ProgramOfCall DEF CallInv, ToldLists
<1>2. /\ qubit_size = qubit_sums[Len(list) + 1] /\ qubit_sums[1] = 0
      /\ \A k \in 1..Len(list) : qubit_sums[k + 1] = qubit_sums[k] + list[k].size
  BY RegistersOfCall, QR!SizeIsLastSum DEF CallInv
<1>. HIDE DEF list
<1>3. ArePartialSums(qubit_sums, list, Len(list))
  BY <1>2 DEF ArePartialSums
<1>4. qubit_sums[Len(list) + 1] = SumFunction([j \in DOMAIN list |-> list[j].size])
  BY <1>1, <1>3, TotalOfSums
<1>5. QED
  BY <1>2, <1>3, <1>4 DEF list, TotalSize

LEMMA SizeOfBitRegister ==
  ASSUME CallInv, bit_phase = "summing" => bit_next > Len(OfKind(program.variables, "bit"))
  PROVE  /\ bit_size = TotalSize(program.variables, "bit")
         /\ ArePartialSums(bit_sums, OfKind(program.variables, "bit"),
                           Len(OfKind(program.variables, "bit")))
<1>. DEFINE list == OfKind(program.variables, "bit")
<1>1. list \in Seq(ToldVariable)
  BY ProgramOfCall DEF CallInv, ToldLists
<1>2. /\ bit_size = bit_sums[Len(list) + 1] /\ bit_sums[1] = 0
      /\ \A k \in 1..Len(list) : bit_sums[k + 1] = bit_sums[k] + list[k].size
  BY RegistersOfCall, BR!SizeIsLastSum DEF CallInv
<1>. HIDE DEF list
<1>3. ArePartialSums(bit_sums, list, Len(list))
  BY <1>2 DEF ArePartialSums
<1>4. bit_sums[Len(list) + 1] = SumFunction([j \in DOMAIN list |-> list[j].size])
  BY <1>1, <1>3, TotalOfSums
<1>5. QED
  BY <1>2, <1>3, <1>4 DEF list, TotalSize

LEMMA RegistersAreLaidOut ==
  ASSUME CallInv, bit_phase = "built"
  PROVE  /\ qubit_phase = "built"
         /\ AreRangesOf(qubit_ranges, OfKind(program.variables, "qubit"))
         /\ AreRangesOf(bit_ranges, OfKind(program.variables, "bit"))
         /\ TotalSize(program.variables, "qubit") = NumberOfQubits
         /\ TotalSize(program.variables, "bit") = NumberOfBits
         /\ TotalSize(program.variables, "qubit") <= MAX_QUBIT_NUMBER
         /\ TotalSize(program.variables, "bit") <= MAX_BIT_NUMBER
<1>. DEFINE qs == OfKind(program.variables, "qubit")
            bs == OfKind(program.variables, "bit")
<1>1. qubit_phase = "built"
  BY DEF CallInv, InOrder
<1>2. qs \in Seq(ToldVariable) /\ bs \in Seq(ToldVariable)
  BY ProgramOfCall DEF CallInv, ToldLists
<1>3. /\ qubit_size = TotalSize(program.variables, "qubit")
      /\ ArePartialSums(qubit_sums, qs, Len(qs))
  BY <1>1, SizeOfQubitRegister
<1>4. /\ bit_size = TotalSize(program.variables, "bit")
      /\ ArePartialSums(bit_sums, bs, Len(bs))
  BY SizeOfBitRegister
<1>5. /\ qubit_size <= MAX_QUBIT_NUMBER
      /\ DOMAIN qubit_ranges = {qs[k].name : k \in 1..Len(qs)}
      /\ \A k \in 1..Len(qs) : /\ qubit_ranges[qs[k].name].first = qubit_sums[k]
                               /\ qubit_ranges[qs[k].name].size = qs[k].size
  BY <1>1, RegistersOfCall, QR!BuiltRanges DEF CallInv
<1>6. /\ bit_size <= MAX_BIT_NUMBER
      /\ DOMAIN bit_ranges = {bs[k].name : k \in 1..Len(bs)}
      /\ \A k \in 1..Len(bs) : /\ bit_ranges[bs[k].name].first = bit_sums[k]
                               /\ bit_ranges[bs[k].name].size = bs[k].size
  BY RegistersOfCall, BR!BuiltRanges DEF CallInv
<1>7. TotalSize(program.variables, "qubit") \in Nat /\ TotalSize(program.variables, "bit") \in Nat
  BY <1>3, <1>4 DEF CallInv, QR!Inv, QR!TypeOK, BR!Inv, BR!TypeOK
<1>. HIDE DEF qs, bs
<1>8. AreRangesOf(qubit_ranges, qs)
  BY <1>2, <1>3, <1>5, RangesOfSums
<1>9. AreRangesOf(bit_ranges, bs)
  BY <1>2, <1>4, <1>6, RangesOfSums
<1>10. /\ TotalSize(program.variables, "qubit") <= MAX_QUBIT_NUMBER
       /\ TotalSize(program.variables, "bit") <= MAX_BIT_NUMBER
  BY <1>3, <1>4, <1>5, <1>6
<1>11. /\ TotalSize(program.variables, "qubit") = NumberOfQubits
       /\ TotalSize(program.variables, "bit") = NumberOfBits
  <2>1. \/ TotalSize(program.variables, "qubit") > MAX_QUBIT_NUMBER
        \/ TotalSize(program.variables, "bit") > MAX_BIT_NUMBER
        \/ /\ TotalSize(program.variables, "qubit") = NumberOfQubits
           /\ TotalSize(program.variables, "bit") = NumberOfBits
    BY ExecutionAssumption DEF CallInv
  <2>2. QED
    BY <1>7, <1>10, <2>1, RegistersOfCall
<1>12. QED
  BY <1>1, <1>8, <1>9, <1>10, <1>11 DEF qs, bs

\* What the builder is told of the range of a variable.
LEMMA RangeOfVariable ==
  ASSUME CallInv, bit_phase = "built", NEW v \in DOMAIN Declared(program.variables)
  PROVE  LET d == Declared(program.variables)[v]
         IN  /\ v \in DOMAIN Ranges
             /\ Ranges[v] = [kind |-> d.kind, first |-> FirstIndex(d), size |-> d.size]
             /\ FirstIndex(d) \in Int
             /\ \A j \in 0..(d.size - 1) :
                  FirstIndex(d) + j \in 0..((IF d.kind = "qubit" THEN NumberOfQubits ELSE NumberOfBits) - 1)
<1>. DEFINE d    == Declared(program.variables)[v]
            list == OfKind(program.variables, d.kind)
            qs   == OfKind(program.variables, "qubit")
            bs   == OfKind(program.variables, "bit")
<1>1. /\ d \in DeclaredVariable /\ d.name = v
      /\ \E k \in 1..Len(list) : list[k] = Told(d)
      /\ \A kind : \A k \in 1..Len(OfKind(program.variables, kind)) :
           OfKind(program.variables, kind)[k].name = v => kind = d.kind
  BY VariableOfProgram DEF CallInv
<1>2. PICK k \in 1..Len(list) : list[k] = Told(d)
  BY <1>1
<1>3. d.kind \in {"qubit", "bit"} /\ d.size \in Nat
  BY <1>1 DEF DeclaredVariable
<1>4. /\ AreRangesOf(qubit_ranges, qs) /\ AreRangesOf(bit_ranges, bs)
      /\ qubit_phase = "built"
      /\ TotalSize(program.variables, "qubit") = NumberOfQubits
      /\ TotalSize(program.variables, "bit") = NumberOfBits
  BY RegistersAreLaidOut
<1>5. list \in Seq(ToldVariable) /\ HasDistinctNames(list)
  BY <1>3, ProgramOfCall DEF CallInv, ToldLists
<1>6. list[k].name = v /\ list[k].size = d.size
  BY <1>1, <1>2 DEF Told
<1>7. qubit_size = NumberOfQubits /\ bit_size = NumberOfBits
  BY <1>4, SizeOfQubitRegister, SizeOfBitRegister
<1>. DEFINE first == SumFunction(Sizes(list, k - 1))
<1>8. FirstIndex(d) = first
  <2>1. DOMAIN list = 1..Len(list) /\ k \in DOMAIN list
    BY <1>5
  <2>2. (CHOOSE i \in DOMAIN list : list[i].name = d.name) = k
    BY <1>1, <1>5, <1>6, <2>1 DEF HasDistinctNames
  <2>3. QED
    BY <2>2 DEF FirstIndex, Sizes
<1>9. CASE d.kind = "qubit"
  <2>1. list = qs
    BY <1>9
  <2>2. /\ v \in DOMAIN qubit_ranges /\ qubit_ranges[v].first = first
        /\ qubit_ranges[v].size = d.size
    <3>. HIDE DEF list, qs, first, d
    <3>1. list[k].name \in DOMAIN qubit_ranges
      BY <1>4, <2>1 DEF AreRangesOf
    <3>2. /\ qubit_ranges[list[k].name].first = SumFunction(Sizes(list, k - 1))
          /\ qubit_ranges[list[k].name].size = list[k].size
      BY <1>4, <2>1 DEF AreRangesOf
    <3>3. QED
      BY <1>6, <3>1, <3>2 DEF first
  <2>3. v \in DOMAIN Ranges /\ Ranges[v] = [kind |-> "qubit", first |-> first, size |-> d.size]
    BY <2>2 DEF Ranges
  <2>4. QR!NamesAndIndicesAgree
    BY RegistersOfCall, QR!InvImpliesAgreement DEF CallInv
  <2>5. first \in Int
    <3>1. qubit_ranges \in [DOMAIN qubit_ranges -> [first : Nat, size : Nat]]
      BY DEF CallInv, QR!Inv, QR!TypeOK
    <3>2. qubit_ranges[v].first \in Nat
      BY <2>2, <3>1
    <3>3. QED
      BY <2>2, <3>2
  <2>6. ASSUME NEW j \in 0..(d.size - 1)
        PROVE  first + j \in 0..(NumberOfQubits - 1)
    <3>1. k \in 1..Len(qs) /\ j \in 0..(qs[k].size - 1) /\ qs[k].name = v
      BY <1>6, <2>1
    <3>. HIDE DEF qs, first
    <3>2. qubit_ranges[qs[k].name].first + j \in 0..(qubit_size - 1)
      BY <1>4, <2>4, <3>1 DEF QR!NamesAndIndicesAgree, QR!at, qs
    <3>3. QED
      BY <1>7, <2>2, <3>1, <3>2
  <2>7. QED
    BY <1>8, <1>9, <2>3, <2>5, <2>6
<1>10. CASE d.kind = "bit"
  <2>1. list = bs
    BY <1>10
  <2>2. /\ v \in DOMAIN bit_ranges /\ bit_ranges[v].first = first
        /\ bit_ranges[v].size = d.size
    <3>. HIDE DEF list, bs, first, d
    <3>1. list[k].name \in DOMAIN bit_ranges
      BY <1>4, <2>1 DEF AreRangesOf
    <3>2. /\ bit_ranges[list[k].name].first = SumFunction(Sizes(list, k - 1))
          /\ bit_ranges[list[k].name].size = list[k].size
      BY <1>4, <2>1 DEF AreRangesOf
    <3>3. QED
      BY <1>6, <3>1, <3>2 DEF first
  <2>3. v \notin DOMAIN qubit_ranges
    <3>1. DOMAIN qubit_ranges = {qs[i].name : i \in 1..Len(qs)}
      BY <1>4 DEF AreRangesOf
    <3>2. QED
      BY <1>1, <1>10, <3>1
  <2>4. v \in DOMAIN Ranges /\ Ranges[v] = [kind |-> "bit", first |-> first, size |-> d.size]
    BY <2>2, <2>3 DEF Ranges
  <2>5. BR!NamesAndIndicesAgree
    BY RegistersOfCall, BR!InvImpliesAgreement DEF CallInv
  <2>6. first \in Int
    <3>1. bit_ranges \in [DOMAIN bit_ranges -> [first : Nat, size : Nat]]
      BY DEF CallInv, BR!Inv, BR!TypeOK
    <3>2. bit_ranges[v].first \in Nat
      BY <2>2, <3>1
    <3>3. QED
      BY <2>2, <3>2
  <2>7. ASSUME NEW j \in 0..(d.size - 1)
        PROVE  first + j \in 0..(NumberOfBits - 1)
    <3>1. k \in 1..Len(bs) /\ j \in 0..(bs[k].size - 1) /\ bs[k].name = v
      BY <1>6, <2>1
    <3>. HIDE DEF bs, first
    <3>2. bit_ranges[bs[k].name].first + j \in 0..(bit_size - 1)
      BY <2>5, <3>1 DEF BR!NamesAndIndicesAgree, BR!at, bs
    <3>3. QED
      BY <1>7, <2>2, <3>1, <3>2
  <2>8. QED
    BY <1>8, <1>10, <2>4, <2>6, <2>7
<1>11. QED
  BY <1>3, <1>9, <1>10

-----------------------------------------------------------------------------
(* The operands of a statement, and the qubits they are about.             *)

LEMMA StatementOfProgram ==
  ASSUME program \in AnalyzedPrograms, NEW n \in 1..Len(program.statements)
  PROVE  LET s == program.statements[n]
         IN  /\ s \in Builder!AnyStatement
             /\ Builder!IsResolved(Declared(program.variables), s)
             /\ s.operands \in Seq(Builder!Operand)
             /\ DOMAIN s.operands = 1..Len(s.operands)
             /\ 1 \in DOMAIN s.operands
             /\ \A o \in DOMAIN s.operands : s.operands[o] \in Builder!Operand
<1>. DEFINE s == program.statements[n]
<1>1. program.statements \in Seq(Builder!AnyStatement) /\ n \in DOMAIN program.statements
  BY ProgramOfCall, AnalyzerAssumption
<1>2. s \in Builder!AnyStatement /\ Builder!IsResolved(Declared(program.variables), s)
  BY <1>1, AnalyzerAssumption
<1>3. s.operands \in Seq(Builder!Operand)
  BY <1>2 DEF Builder!AnyStatement
<1>. HIDE DEF s
<1>4. s.operands # <<>>
  BY <1>2 DEF Builder!IsResolved
<1>5. /\ DOMAIN s.operands = 1..Len(s.operands) /\ 1 \in DOMAIN s.operands
      /\ \A o \in DOMAIN s.operands : s.operands[o] \in Builder!Operand
  BY <1>3, <1>4
<1>6. QED
  BY <1>2, <1>3, <1>5 DEF s

\* The values of a sequence.
AreValuesOf(set, group) ==
  /\ \A j \in 1..Len(group) : group[j] \in set
  /\ \A q \in set : \E j \in 1..Len(group) : group[j] = q

\* The indices that the builder finds for an operand are those of its elements.
LEMMA GroupOfOperand ==
  ASSUME CallInv, bit_phase = "built", NEW n \in 1..Len(program.statements),
         NEW o \in DOMAIN program.statements[n].operands
  PROVE  LET s     == program.statements[n]
             group == Builder!get_sgmq_group_indices(s.operands[o])
         IN  /\ Len(group) \in Nat /\ DOMAIN group = 1..Len(group)
             /\ Len(group) = NumberOfElements(s.operands[1])
             /\ AreValuesOf(IndicesOf(s.operands[o]), group)
             /\ ~(s.name = "measure" /\ o = 1) => IndicesOf(s.operands[o]) \subseteq Qubit
             /\ s.name = "measure" /\ o = 1 => IndicesOf(s.operands[o]) \subseteq Bit
<1>. DEFINE s       == program.statements[n]
            D       == Declared(program.variables)
            operand == s.operands[o]
            d       == D[operand.variable]
            first   == FirstIndex(d)
            group   == Builder!get_sgmq_group_indices(operand)
            elements(x) == IF x.ref = "variable" THEN [j \in 1..D[x.variable].size |-> j - 1]
                           ELSE x.indices
<1>1. /\ Builder!IsResolved(D, s) /\ operand \in Builder!Operand
      /\ s.operands[1] \in Builder!Operand /\ 1 \in DOMAIN s.operands
  BY StatementOfProgram DEF CallInv
<1>. HIDE DEF s, D
<1>2. /\ operand.variable \in DOMAIN D
      /\ d.kind = (IF s.name = "measure" /\ o = 1 THEN "bit" ELSE "qubit")
      /\ s.operands[1].variable \in DOMAIN D
      /\ Len(elements(operand)) = Len(elements(s.operands[1]))
      /\ \A j \in DOMAIN elements(operand) : elements(operand)[j] < d.size
  BY <1>1 DEF Builder!IsResolved, Builder!Elements, s
<1>3. d \in DeclaredVariable /\ D[s.operands[1].variable] \in DeclaredVariable
  BY <1>2, VariableOfProgram DEF CallInv, D
<1>4. d.size \in Nat \ {0} /\ D[s.operands[1].variable].size \in Nat \ {0}
  BY <1>3 DEF DeclaredVariable
<1>5. /\ Ranges[operand.variable] = [kind |-> d.kind, first |-> first, size |-> d.size]
      /\ first \in Int
      /\ \A j \in 0..(d.size - 1) :
           first + j \in 0..((IF d.kind = "qubit" THEN NumberOfQubits ELSE NumberOfBits) - 1)
  BY <1>2, RangeOfVariable DEF D
<1>6. group = IF operand.ref = "variable" THEN [j \in 1..d.size |-> first + j - 1]
              ELSE [j \in DOMAIN operand.indices |-> first + operand.indices[j]]
  <2>1. Builder!Variables = Ranges
    BY DEF Builder!Variables
  <2>2. Ranges[operand.variable].first = first /\ Ranges[operand.variable].size = d.size
    BY <1>5
  <2>3. group = IF operand.ref = "variable"
                THEN [j \in 1..Ranges[operand.variable].size |->
                        Ranges[operand.variable].first + j - 1]
                ELSE [j \in DOMAIN operand.indices |->
                        Ranges[operand.variable].first + operand.indices[j]]
    BY <2>1 DEF Builder!get_sgmq_group_indices
  <2>. HIDE DEF group, first, d, operand
  <2>4. QED
    BY <2>2, <2>3
<1>7. VariableOf(operand) = d /\ VariableOf(s.operands[1]) = D[s.operands[1].variable]
  BY DEF VariableOf, D
<1>8. Len(elements(s.operands[1])) = NumberOfElements(s.operands[1])
  <2>1. CASE s.operands[1].ref = "variable"
    BY <1>4, <1>7, <2>1 DEF NumberOfElements
  <2>2. CASE s.operands[1].ref # "variable"
    BY <1>7, <2>2 DEF NumberOfElements
  <2>3. QED
    BY <2>1, <2>2
<1>9. /\ IndicesOf(operand) \subseteq {first + j : j \in 0..(d.size - 1)}
      /\ Len(group) \in Nat /\ DOMAIN group = 1..Len(group)
      /\ Len(group) = Len(elements(operand))
      /\ AreValuesOf(IndicesOf(operand), group)
  <2>1. CASE operand.ref = "variable"
    <3>1. IndicesOf(operand) = {first + j : j \in 0..(d.size - 1)}
      BY <1>7, <2>1 DEF IndicesOf
    <3>2. group = [j \in 1..d.size |-> first + j - 1] /\ elements(operand) = [j \in 1..d.size |-> j - 1]
      BY <1>6, <2>1
    <3>. HIDE DEF group, elements, first, d
    <3>3. Len(group) = d.size /\ Len(elements(operand)) = d.size /\ DOMAIN group = 1..d.size
      BY <1>4, <3>2
    <3>4. ASSUME NEW j \in 1..d.size
          PROVE  group[j] \in IndicesOf(operand)
      <4>1. j - 1 \in 0..(d.size - 1) /\ first + j - 1 = first + (j - 1)
        BY <1>4, <1>5
      <4>2. QED
        BY <3>1, <3>2, <4>1
    <3>5. ASSUME NEW q \in IndicesOf(operand)
          PROVE  \E j \in 1..d.size : group[j] = q
      <4>1. PICK i \in 0..(d.size - 1) : q = first + i
        BY <3>1
      <4>2. i + 1 \in 1..d.size /\ first + (i + 1) - 1 = first + i
        BY <1>4, <1>5
      <4>3. QED
        BY <3>2, <4>1, <4>2
    <3>6. QED
      BY <1>4, <3>1, <3>3, <3>4, <3>5 DEF AreValuesOf
  <2>2. CASE operand.ref # "variable"
    <3>1. operand.indices \in Seq(Nat)
      BY <1>1, <2>2 DEF Builder!Operand
    <3>2. elements(operand) = operand.indices
      BY <2>2
    <3>3. /\ Len(operand.indices) \in Nat /\ DOMAIN operand.indices = 1..Len(operand.indices)
          /\ \A j \in DOMAIN operand.indices : operand.indices[j] \in 0..(d.size - 1)
      <4>1. \A j \in DOMAIN operand.indices : operand.indices[j] < d.size
        BY <1>2, <3>2
      <4>. HIDE DEF d, operand
      <4>2. QED
        BY <1>4, <3>1, <4>1
    <3>4. IndicesOf(operand) = {first + j : j \in ToSet(operand.indices)}
      BY <1>7, <2>2 DEF IndicesOf
    <3>5. \A i : i \in ToSet(operand.indices) <=> \E j \in DOMAIN operand.indices : operand.indices[j] = i
      BY DEF ToSet
    <3>6. group = [j \in DOMAIN operand.indices |-> first + operand.indices[j]]
      BY <1>6, <2>2
    <3>7. Len(group) = Len(operand.indices)
      BY <3>3, <3>6
    <3>. HIDE DEF group, elements, first, d, operand
    <3>8. ASSUME NEW j \in 1..Len(group)
          PROVE  group[j] \in IndicesOf(operand)
      BY <3>3, <3>4, <3>5, <3>6, <3>7
    <3>9. ASSUME NEW q \in IndicesOf(operand)
          PROVE  \E j \in 1..Len(group) : group[j] = q
      BY <3>3, <3>4, <3>5, <3>6, <3>7
    <3>10. IndicesOf(operand) \subseteq {first + j : j \in 0..(d.size - 1)}
      BY <3>3, <3>4, <3>5
    <3>11. QED
      BY <3>2, <3>3, <3>6, <3>7, <3>8, <3>9, <3>10 DEF AreValuesOf
  <2>3. QED
    BY <2>1, <2>2
<1>10. /\ ~(s.name = "measure" /\ o = 1) => IndicesOf(operand) \subseteq Qubit
       /\ s.name = "measure" /\ o = 1 => IndicesOf(operand) \subseteq Bit
  <2>. HIDE DEF operand, first, d, group, elements
  <2>1. CASE s.name = "measure" /\ o = 1
    <3>1. d.kind = "bit"
      BY <1>2, <2>1
    <3>2. QED
      BY <1>5, <1>9, <2>1, <3>1 DEF Bit
  <2>2. CASE ~(s.name = "measure" /\ o = 1)
    <3>1. d.kind = "qubit"
      BY <1>2, <2>2
    <3>2. QED
      BY <1>5, <1>9, <2>2, <3>1 DEF Qubit
  <2>3. QED
    BY <2>1, <2>2
<1>. HIDE DEF elements
<1>11. QED
  BY <1>2, <1>8, <1>9, <1>10 DEF s

\* The indices that the builder finds for the statement it visits: one list for each
\* element, with one index of each operand.
LEMMA IndicesOfStatement ==
  ASSUME CallInv, bit_phase = "built", builder_next <= Len(program.statements)
  PROVE  LET s        == program.statements[builder_next]
             group(o) == Builder!get_sgmq_group_indices(s.operands[o])
         IN  /\ builder_next \in 1..Len(program.statements)
             /\ Builder!Statement = s
             /\ NumberOfElements(s.operands[1]) \in Nat
             /\ DOMAIN Builder!Indices = 1..NumberOfElements(s.operands[1])
             /\ \A j \in DOMAIN Builder!Indices :
                  /\ DOMAIN Builder!Indices[j] = DOMAIN s.operands
                  /\ \A o \in DOMAIN s.operands : Builder!Indices[j][o] = group(o)[j]
<1>. DEFINE s        == program.statements[builder_next]
            operands == s.operands
            group(o) == Builder!get_sgmq_group_indices(operands[o])
            groups   == [o \in DOMAIN operands |-> group(o)]
            n        == NumberOfElements(operands[1])
<1>1. builder_next \in 1..Len(program.statements)
  BY ProgramOfCall DEF CallInv, BuilderIsInProgram
<1>2. Builder!Statement = s
  BY DEF Builder!Statement
<1>3. 1 \in DOMAIN operands
  BY <1>1, StatementOfProgram DEF CallInv
<1>4. Len(group(1)) \in Nat /\ Len(group(1)) = n
  BY <1>1, <1>3, GroupOfOperand
<1>5. Builder!Indices = Builder!to_instructions_indices(groups)
  BY <1>2 DEF Builder!Indices, Builder!get_instructions_indices
<1>. HIDE DEF s, operands, group, n
<1>6. groups[1] = group(1) /\ DOMAIN groups = DOMAIN operands
  BY <1>3
<1>7. Builder!Indices = [j \in 1..n |-> [o \in DOMAIN groups |-> groups[o][j]]]
  BY <1>4, <1>5, <1>6 DEF Builder!to_instructions_indices
<1>8. /\ DOMAIN Builder!Indices = 1..n
      /\ \A j \in 1..n : /\ DOMAIN Builder!Indices[j] = DOMAIN operands
                         /\ \A o \in DOMAIN operands : Builder!Indices[j][o] = group(o)[j]
  BY <1>6, <1>7
<1>9. QED
  BY <1>1, <1>2, <1>4, <1>8 DEF s, operands, group, n

-----------------------------------------------------------------------------
(* What the builder adds to the circuit.                                   *)

LEMMA ConcatList ==
  ASSUME NEW a, IsList(a), NEW b, IsList(b)
  PROVE  /\ IsList(a \o b) /\ Len(a \o b) = Len(a) + Len(b)
         /\ \A j \in 1..Len(a) : (a \o b)[j] = a[j]
         /\ \A j \in 1..Len(b) : (a \o b)[Len(a) + j] = b[j]
<1>. DEFINE V == {a[j] : j \in 1..Len(a)} \union {b[j] : j \in 1..Len(b)}
<1>1. a \in Seq(V) /\ b \in Seq(V)
  <2>1. (\A j \in 1..Len(a) : a[j] \in V) /\ (\A j \in 1..Len(b) : b[j] \in V)
    OBVIOUS
  <2>. HIDE DEF V
  <2>2. a \in Seq(V)
    BY <2>1, ListType
  <2>3. b \in Seq(V)
    BY <2>1, ListType
  <2>4. QED
    BY <2>2, <2>3
<1>. HIDE DEF V
<1>2. /\ a \o b \in Seq(V) /\ Len(a \o b) = Len(a) + Len(b)
      /\ Len(a) \in Nat /\ Len(b) \in Nat
  BY <1>1
<1>3. IsList(a \o b)
  <2>. DEFINE c == a \o b
  <2>. HIDE DEF c
  <2>1. c \in Seq(V)
    BY <1>2 DEF c
  <2>2. IsList(c)
    BY <2>1 DEF IsList
  <2>3. QED
    BY <2>2 DEF c
<1>4. \A j \in 1..Len(a) : (a \o b)[j] = a[j]
  BY <1>1
<1>5. \A j \in 1..Len(b) : (a \o b)[Len(a) + j] = b[j]
  BY <1>1
<1>6. QED
  BY <1>2, <1>3, <1>4, <1>5

MeasuresIn(list) == {j \in 1..Len(list) : list[j].kind = "Measure"}

LEMMA MeasuresAdded ==
  ASSUME NEW a, IsList(a), NEW b, IsList(b)
  PROVE  /\ IsFiniteSet(MeasuresIn(a)) /\ Cardinality(MeasuresIn(a)) \in Nat
         /\ (\A j \in 1..Len(b) : b[j].kind # "Measure") =>
              Cardinality(MeasuresIn(a \o b)) = Cardinality(MeasuresIn(a))
         /\ (\A j \in 1..Len(b) : b[j].kind = "Measure") =>
              Cardinality(MeasuresIn(a \o b)) = Cardinality(MeasuresIn(a)) + Len(b)
<1>. DEFINE n == Len(a)
            m == Len(b)
            c == a \o b
            M == MeasuresIn(a)
<1>1. n \in Nat /\ m \in Nat
  BY DEF IsList
<1>2. /\ Len(c) = n + m /\ \A j \in 1..n : c[j] = a[j]
      /\ \A j \in 1..m : c[n + j] = b[j]
  BY ConcatList
<1>. HIDE DEF c, n, m
<1>3. M \subseteq 1..n /\ IsFiniteSet(1..n)
  BY <1>1, FS_Interval DEF MeasuresIn, n
<1>4. IsFiniteSet(M) /\ Cardinality(M) \in Nat
  BY <1>3, FS_Subset, FS_CardinalityType
<1>5. \A j \in 1..(n + m) : j \in 1..n \/ (j - n \in 1..m /\ n + (j - n) = j)
  BY <1>1
<1>6. ASSUME \A j \in 1..m : b[j].kind # "Measure"
      PROVE  MeasuresIn(c) = M
  <2>1. ASSUME NEW j \in 1..(n + m)
        PROVE  c[j].kind = "Measure" <=> j \in M
    <3>1. CASE j \in 1..n
      BY <1>2, <3>1 DEF MeasuresIn, n
    <3>2. CASE j - n \in 1..m /\ n + (j - n) = j
      <4>1. c[n + (j - n)] = b[j - n]
        BY <1>2, <3>2
      <4>2. j \notin 1..n
        BY <1>1, <3>2
      <4>3. QED
        BY <1>3, <1>6, <3>2, <4>1, <4>2
    <3>3. QED
      BY <1>5, <3>1, <3>2
  <2>2. M \subseteq 1..(n + m)
    BY <1>1, <1>3
  <2>. HIDE DEF M
  <2>3. QED
    BY <1>2, <2>1, <2>2 DEF MeasuresIn
<1>7. ASSUME \A j \in 1..m : b[j].kind = "Measure"
      PROVE  MeasuresIn(c) = M \union ((n + 1)..(n + m))
  <2>1. ASSUME NEW j \in 1..(n + m)
        PROVE  c[j].kind = "Measure" <=> (j \in M \/ j \in (n + 1)..(n + m))
    <3>1. CASE j \in 1..n
      <4>1. j \notin (n + 1)..(n + m)
        BY <1>1, <3>1
      <4>2. QED
        BY <1>2, <3>1, <4>1 DEF MeasuresIn, n
    <3>2. CASE j - n \in 1..m /\ n + (j - n) = j
      <4>1. c[n + (j - n)] = b[j - n]
        BY <1>2, <3>2
      <4>2. j \in (n + 1)..(n + m)
        BY <1>1, <3>2
      <4>3. QED
        BY <1>7, <3>2, <4>1, <4>2
    <3>3. QED
      BY <1>5, <3>1, <3>2
  <2>2. M \subseteq 1..(n + m) /\ (n + 1)..(n + m) \subseteq 1..(n + m)
    BY <1>1, <1>3
  <2>. HIDE DEF M
  <2>3. QED
    BY <1>2, <2>1, <2>2 DEF MeasuresIn
<1>8. Cardinality(M \union ((n + 1)..(n + m))) = Cardinality(M) + m
  <2>. DEFINE K == (n + 1)..(n + m)
  <2>1. IsFiniteSet(K)
    BY <1>1, FS_Interval
  <2>2. Cardinality(K) = m
    <3>1. n + 1 \in Int /\ n + m \in Int
      BY <1>1
    <3>2. Cardinality(K) = IF n + 1 > n + m THEN 0 ELSE (n + m) - (n + 1) + 1
      BY <3>1, FS_Interval
    <3>3. QED
      BY <1>1, <3>2
  <2>3. M \intersect K = {}
    BY <1>1, <1>3
  <2>. HIDE DEF K, M
  <2>4. Cardinality(M \union K) = Cardinality(M) + Cardinality(K) - Cardinality(M \intersect K)
    BY <1>4, <2>1, FS_Union
  <2>5. Cardinality({}) = 0
    BY FS_EmptySet
  <2>6. Cardinality(M \union K) = Cardinality(M) + m
    <3>1. Cardinality(M \intersect K) = 0
      BY <2>3, <2>5
    <3>2. Cardinality(M \union K) = Cardinality(M) + m - 0
      BY <2>2, <2>4, <3>1
    <3>3. QED
      BY <1>1, <1>4, <3>2
  <2>7. QED
    BY <2>6 DEF K
<1>9. QED
  BY <1>4, <1>6, <1>7, <1>8 DEF c, n, m

LEMMA SetsOfStatement ==
  ASSUME CallInv, bit_phase = "built", builder_next <= Len(program.statements),
         NEW o \in DOMAIN program.statements[builder_next].operands
  PROVE  AreValuesOf(IndicesOf(program.statements[builder_next].operands[o]),
                     [j \in DOMAIN Builder!Indices |-> Builder!Indices[j][o]])
<1>. DEFINE s     == program.statements[builder_next]
            group == Builder!get_sgmq_group_indices(s.operands[o])
            n     == NumberOfElements(s.operands[1])
            chosen == [j \in DOMAIN Builder!Indices |-> Builder!Indices[j][o]]
<1>1. /\ builder_next \in 1..Len(program.statements)
      /\ n \in Nat /\ DOMAIN Builder!Indices = 1..n
      /\ \A j \in 1..n : Builder!Indices[j][o] = group[j]
  BY IndicesOfStatement
<1>2. Len(group) = n /\ AreValuesOf(IndicesOf(s.operands[o]), group)
  BY <1>1, GroupOfOperand
<1>. HIDE DEF s, group, n
<1>3. Len(chosen) = n /\ \A j \in 1..n : chosen[j] = group[j]
  BY <1>1
<1>. HIDE DEF chosen
<1>4. AreValuesOf(IndicesOf(s.operands[o]), chosen)
  BY <1>2, <1>3 DEF AreValuesOf
<1>5. QED
  BY <1>4 DEF s, chosen

\* What the instructions that the builder adds for a statement change: as Simulator
\* says, they mark the qubits of the statement and number its measures.
AreOf(added, s) ==
  /\ IsList(added)
  /\ Builder!Marked(added) = AbstractStatement(s).qubits
  /\ \/ /\ \A j \in 1..Len(added) : added[j].kind # "Measure"
        /\ AbstractStatement(s).measures = 0
     \/ /\ \A j \in 1..Len(added) : added[j].kind = "Measure"
        /\ AbstractStatement(s).measures = Len(added)

LEMMA GateMarks ==
  ASSUME CallInv, bit_phase = "built", Builder!Visiting("gate", Builder!GateNames), NEW added,
         added = [j \in DOMAIN Builder!Indices |->
                    Builder!ApplyGate(Builder!GateOf(Builder!Statement), Builder!Indices[j])]
  PROVE  AreOf(added, program.statements[builder_next])
<1>. DEFINE s == program.statements[builder_next]
            n == NumberOfElements(s.operands[1])
<1>1. builder_next <= Len(program.statements) /\ s.kind = "gate" /\ s.name \in Builder!GateNames
  BY DEF Builder!Visiting, Builder!Statement
<1>2. /\ builder_next \in 1..Len(program.statements) /\ n \in Nat
      /\ DOMAIN Builder!Indices = 1..n
      /\ \A j \in DOMAIN Builder!Indices : DOMAIN Builder!Indices[j] = DOMAIN s.operands
  BY <1>1, IndicesOfStatement
<1>3. /\ DOMAIN added = 1..n /\ Len(added) = n
      /\ \A j \in 1..n : added[j].kind = "Unitary" /\ added[j].operands = Builder!Indices[j]
  BY <1>2 DEF Builder!ApplyGate
<1>4. IsList(added)
  BY <1>2, <1>3 DEF IsList
<1>5. /\ AbstractStatement(s).measures = 0
      /\ AbstractStatement(s).qubits = UNION {IndicesOf(s.operands[o]) : o \in DOMAIN s.operands}
  <2>1. ~IsUnknown(s) /\ ~Is(s, "measure")
    BY <1>1 DEF IsUnknown, Is
  <2>2. QubitOperands(s) = {s.operands[o] : o \in DOMAIN s.operands}
    BY <1>1 DEF QubitOperands, Is
  <2>3. QED
    BY <2>1, <2>2 DEF AbstractStatement
<1>6. \A o \in DOMAIN s.operands :
        AreValuesOf(IndicesOf(s.operands[o]), [j \in 1..n |-> Builder!Indices[j][o]])
  BY <1>1, <1>2, SetsOfStatement
<1>. HIDE DEF s, n
<1>7. ASSUME NEW o \in DOMAIN s.operands
      PROVE  /\ \A j \in 1..n : Builder!Indices[j][o] \in IndicesOf(s.operands[o])
             /\ \A q \in IndicesOf(s.operands[o]) : \E j \in 1..n : Builder!Indices[j][o] = q
  <2>. DEFINE chosen == [j \in 1..n |-> Builder!Indices[j][o]]
  <2>1. AreValuesOf(IndicesOf(s.operands[o]), chosen)
    BY <1>6
  <2>2. Len(chosen) = n /\ \A j \in 1..n : chosen[j] = Builder!Indices[j][o]
    BY <1>2
  <2>. HIDE DEF chosen
  <2>3. QED
    BY <2>1, <2>2 DEF AreValuesOf
<1>8. \A j \in 1..n : Builder!get_qubit_indices(added[j])
                        = {Builder!Indices[j][o] : o \in DOMAIN s.operands}
  BY <1>2, <1>3 DEF Builder!get_qubit_indices, Builder!ToSet
<1>9. Builder!Marked(added) = UNION {{Builder!Indices[j][o] : o \in DOMAIN s.operands} : j \in 1..n}
  BY <1>3, <1>8 DEF Builder!Marked
<1>10. UNION {{Builder!Indices[j][o] : o \in DOMAIN s.operands} : j \in 1..n}
         = UNION {IndicesOf(s.operands[o]) : o \in DOMAIN s.operands}
  BY <1>7
<1>11. Builder!Marked(added) = AbstractStatement(s).qubits
  BY <1>5, <1>9, <1>10
<1>12. \A j \in 1..Len(added) : added[j].kind # "Measure"
  BY <1>3
<1>13. QED
  BY <1>4, <1>5, <1>11, <1>12 DEF AreOf, s

\* Each of the instructions is about one qubit.
ActOn(added, qubits) ==
  /\ DOMAIN added = 1..Len(qubits)
  /\ \A j \in 1..Len(qubits) : Builder!get_qubit_indices(added[j]) = {qubits[j]}

LEMMA SingleMarks ==
  ASSUME NEW added, NEW qubits, NEW set, ActOn(added, qubits), AreValuesOf(set, qubits)
  PROVE  Builder!Marked(added) = set
<1>1. ASSUME NEW q \in Builder!Marked(added)
      PROVE  q \in set
  <2>1. PICK j \in 1..Len(qubits) : q \in Builder!get_qubit_indices(added[j])
    BY DEF Builder!Marked, ActOn
  <2>2. q \in {qubits[j]}
    BY <2>1 DEF ActOn
  <2>3. QED
    BY <2>2 DEF AreValuesOf
<1>2. ASSUME NEW q \in set
      PROVE  q \in Builder!Marked(added)
  <2>1. PICK j \in 1..Len(qubits) : qubits[j] = q
    BY DEF AreValuesOf
  <2>2. q \in Builder!get_qubit_indices(added[j]) /\ j \in DOMAIN added
    BY <2>1 DEF ActOn
  <2>3. QED
    BY <2>2 DEF Builder!Marked
<1>3. QED
  BY <1>1, <1>2

LEMMA MeasureMarks ==
  ASSUME CallInv, bit_phase = "built", Builder!Visiting("nongate", {"measure"}), NEW added,
         added = [j \in DOMAIN Builder!Indices |->
                    Builder!MeasureInto(Builder!Indices[j][2], Builder!Indices[j][1])]
  PROVE  AreOf(added, program.statements[builder_next])
<1>. DEFINE s == program.statements[builder_next]
            n == NumberOfElements(s.operands[1])
<1>1. builder_next <= Len(program.statements) /\ s.kind = "nongate" /\ s.name = "measure"
  BY DEF Builder!Visiting, Builder!Statement
<1>2. /\ builder_next \in 1..Len(program.statements) /\ n \in Nat
      /\ DOMAIN Builder!Indices = 1..n
  BY <1>1, IndicesOfStatement
<1>3. /\ DOMAIN added = 1..n /\ Len(added) = n
      /\ \A j \in 1..n : added[j].kind = "Measure" /\ added[j].qubit = Builder!Indices[j][2]
  BY <1>2 DEF Builder!MeasureInto
<1>4. IsList(added)
  BY <1>2, <1>3 DEF IsList
<1>5. DOMAIN s.operands = 1..2
  <2>1. Len(s.operands) = 2
    <3>1. Builder!IsResolved(Declared(program.variables), s)
      BY <1>2, StatementOfProgram DEF CallInv
    <3>2. QED
      BY <1>1, <3>1 DEF Builder!IsResolved
  <2>2. QED
    BY <1>2, <2>1, StatementOfProgram DEF CallInv
<1>6. AbstractStatement(s).measures = n
  BY <1>1 DEF AbstractStatement, Is
<1>7. AbstractStatement(s).qubits = IndicesOf(s.operands[2])
  <2>1. QubitOperands(s) = {s.operands[2]}
    BY <1>1, <1>5 DEF QubitOperands, Is
  <2>2. ~IsUnknown(s)
    BY <1>1 DEF IsUnknown, Is
  <2>3. QED
    BY <2>1, <2>2 DEF AbstractStatement
<1>8. AreValuesOf(IndicesOf(s.operands[2]), [j \in 1..n |-> Builder!Indices[j][2]])
  <2>1. 2 \in DOMAIN s.operands
    BY <1>5
  <2>2. QED
    BY <1>1, <1>2, <2>1, SetsOfStatement
<1>. HIDE DEF s, n
<1>. DEFINE qubits == [j \in 1..n |-> Builder!Indices[j][2]]
<1>9. Len(qubits) = n /\ \A j \in 1..n : qubits[j] = Builder!Indices[j][2]
  BY <1>2
<1>. HIDE DEF qubits
<1>10. ActOn(added, qubits)
  BY <1>3, <1>9 DEF ActOn, Builder!get_qubit_indices
<1>11. Builder!Marked(added) = IndicesOf(s.operands[2])
  BY <1>8, <1>10, SingleMarks DEF qubits
<1>12. Builder!Marked(added) = AbstractStatement(s).qubits
  BY <1>7, <1>11
<1>13. \A j \in 1..Len(added) : added[j].kind = "Measure"
  BY <1>3
<1>14. QED
  BY <1>3, <1>4, <1>6, <1>12, <1>13 DEF AreOf, s

LEMMA ResetMarks ==
  ASSUME CallInv, bit_phase = "built", Builder!Visiting("nongate", {"reset"}), NEW added,
         added = [j \in DOMAIN Builder!Indices |-> Builder!ResetQubit(Builder!Indices[j][1])]
  PROVE  AreOf(added, program.statements[builder_next])
<1>. DEFINE s == program.statements[builder_next]
            n == NumberOfElements(s.operands[1])
<1>1. builder_next <= Len(program.statements) /\ s.kind = "nongate" /\ s.name = "reset"
  BY DEF Builder!Visiting, Builder!Statement
<1>2. /\ builder_next \in 1..Len(program.statements) /\ n \in Nat
      /\ DOMAIN Builder!Indices = 1..n
  BY <1>1, IndicesOfStatement
<1>3. /\ DOMAIN added = 1..n /\ Len(added) = n
      /\ \A j \in 1..n : added[j].kind = "Reset" /\ added[j].qubit = Builder!Indices[j][1]
  BY <1>2 DEF Builder!ResetQubit
<1>4. IsList(added)
  BY <1>2, <1>3 DEF IsList
<1>5. DOMAIN s.operands = {1}
  <2>1. Len(s.operands) = 1
    <3>1. Builder!IsResolved(Declared(program.variables), s)
      BY <1>2, StatementOfProgram DEF CallInv
    <3>2. QED
      BY <1>1, <3>1 DEF Builder!IsResolved
  <2>2. QED
    BY <1>2, <2>1, StatementOfProgram DEF CallInv
<1>6. AbstractStatement(s).measures = 0
  BY <1>1 DEF AbstractStatement, Is
<1>7. AbstractStatement(s).qubits = IndicesOf(s.operands[1])
  <2>1. QubitOperands(s) = {s.operands[1]}
    BY <1>1, <1>5 DEF QubitOperands, Is
  <2>2. ~IsUnknown(s)
    BY <1>1 DEF IsUnknown, Is
  <2>3. QED
    BY <2>1, <2>2 DEF AbstractStatement
<1>8. AreValuesOf(IndicesOf(s.operands[1]), [j \in 1..n |-> Builder!Indices[j][1]])
  <2>1. 1 \in DOMAIN s.operands
    BY <1>5
  <2>2. QED
    BY <1>1, <1>2, <2>1, SetsOfStatement
<1>. HIDE DEF s, n
<1>. DEFINE qubits == [j \in 1..n |-> Builder!Indices[j][1]]
<1>9. Len(qubits) = n /\ \A j \in 1..n : qubits[j] = Builder!Indices[j][1]
  BY <1>2
<1>. HIDE DEF qubits
<1>10. ActOn(added, qubits)
  BY <1>3, <1>9 DEF ActOn, Builder!get_qubit_indices
<1>11. Builder!Marked(added) = IndicesOf(s.operands[1])
  BY <1>8, <1>10, SingleMarks DEF qubits
<1>12. Builder!Marked(added) = AbstractStatement(s).qubits
  BY <1>7, <1>11
<1>13. \A j \in 1..Len(added) : added[j].kind # "Measure"
  BY <1>3
<1>14. QED
  BY <1>4, <1>6, <1>12, <1>13 DEF AreOf, s

LEMMA NothingMarks ==
  ASSUME CallInv, bit_phase = "built",
         NEW name \in {"barrier", "wait"}, Builder!Visiting("nongate", {name})
  PROVE  AreOf(<<>>, program.statements[builder_next])
<1>. DEFINE s == program.statements[builder_next]
<1>1. s.kind = "nongate" /\ s.name = name
  BY DEF Builder!Visiting, Builder!Statement
<1>2. QubitOperands(s) = {} /\ AbstractStatement(s).measures = 0
  BY <1>1 DEF QubitOperands, AbstractStatement, Is
<1>3. AbstractStatement(s).qubits = {}
  BY <1>2 DEF AbstractStatement
<1>4. Builder!Marked(<<>>) = {} /\ Len(<<>>) = 0
  BY DEF Builder!Marked
<1>5. IsList(<<>>)
  BY DEF IsList
<1>6. QED
  BY <1>2, <1>3, <1>4, <1>5 DEF AreOf

\* A step of the builder, as Simulator has it.
Operates(s) ==
  /\ AbstractStatement(s).kind = "operate"
  /\ IsList(instructions')
  /\ Cardinality(Measures)' = Cardinality(Measures) + AbstractStatement(s).measures
  /\ dirty' = dirty \union AbstractStatement(s).qubits
  /\ builder_next' = builder_next + 1
  /\ builder_phase' = builder_phase

HasDirtyQubit(s) == \E q \in AbstractStatement(s).qubits : q \in dirty

Initializes(s) ==
  /\ AbstractStatement(s).kind = "init"
  /\ ~HasDirtyQubit(s)
  /\ builder_next' = builder_next + 1
  /\ UNCHANGED <<instructions, dirty, builder_phase>>

IsRefused(s) ==
  /\ \/ AbstractStatement(s).kind = "unknown"
     \/ AbstractStatement(s).kind = "init" /\ HasDirtyQubit(s)
  /\ builder_phase' = "error"
  /\ UNCHANGED <<instructions, dirty, builder_next>>

LEMMA AddedOperates ==
  ASSUME CallInv, builder_next <= Len(program.statements), NEW added,
         AreOf(added, program.statements[builder_next]), Builder!AddInstructions(added),
         AbstractStatement(program.statements[builder_next]).kind = "operate"
  PROVE  Operates(program.statements[builder_next])
<1>. DEFINE s == program.statements[builder_next]
<1>1. /\ instructions' = instructions \o added
      /\ dirty' = dirty \union Builder!Marked(added)
      /\ builder_next' = builder_next + 1 /\ builder_phase' = builder_phase
  BY DEF Builder!AddInstructions
<1>2. IsList(instructions) /\ IsList(added)
  BY DEF CallInv, BuilderIsInProgram, AreOf
<1>3. IsList(instructions')
  BY <1>1, <1>2, ConcatList
<1>4. Measures = MeasuresIn(instructions) /\ Measures' = MeasuresIn(instructions')
  <2>1. ASSUME NEW list, IsList(list)
        PROVE  DOMAIN list = 1..Len(list)
    BY <2>1 DEF IsList
  <2>2. DOMAIN instructions = 1..Len(instructions) /\ DOMAIN instructions' = 1..Len(instructions')
    BY <1>2, <1>3, <2>1
  <2>3. QED
    BY <2>2 DEF Measures, MeasuresIn
<1>5. Cardinality(MeasuresIn(instructions \o added))
        = Cardinality(MeasuresIn(instructions)) + AbstractStatement(s).measures
  <2>1. Cardinality(MeasuresIn(instructions)) \in Nat
    BY <1>2, MeasuresAdded
  <2>2. CASE /\ \A j \in 1..Len(added) : added[j].kind # "Measure"
             /\ AbstractStatement(s).measures = 0
    <3>1. Cardinality(MeasuresIn(instructions \o added)) = Cardinality(MeasuresIn(instructions))
      BY <1>2, <2>2, MeasuresAdded
    <3>2. QED
      BY <2>1, <2>2, <3>1
  <2>3. CASE /\ \A j \in 1..Len(added) : added[j].kind = "Measure"
             /\ AbstractStatement(s).measures = Len(added)
    <3>1. Cardinality(MeasuresIn(instructions \o added))
            = Cardinality(MeasuresIn(instructions)) + Len(added)
      BY <1>2, <2>3, MeasuresAdded
    <3>2. QED
      BY <2>3, <3>1
  <2>4. QED
    BY <2>2, <2>3 DEF AreOf
<1>6. Cardinality(Measures)' = Cardinality(Measures) + AbstractStatement(s).measures
  BY <1>1, <1>4, <1>5
<1>7. dirty' = dirty \union AbstractStatement(s).qubits
  BY <1>1 DEF AreOf
<1>8. QED
  BY <1>1, <1>3, <1>6, <1>7 DEF Operates

\* The qubit that an init is about, in the statement and in its indices.
LEMMA InitQubit ==
  ASSUME CallInv, bit_phase = "built", Builder!Visiting("nongate", {"init"})
  PROVE  /\ AbstractStatement(program.statements[builder_next]).kind = "init"
         /\ AbstractStatement(program.statements[builder_next]).qubits \subseteq Qubit
         /\ Builder!SomeAreDirty <=> HasDirtyQubit(program.statements[builder_next])
<1>. DEFINE s == program.statements[builder_next]
            n == NumberOfElements(s.operands[1])
<1>1. builder_next <= Len(program.statements) /\ s.kind = "nongate" /\ s.name = "init"
  BY DEF Builder!Visiting, Builder!Statement
<1>2. /\ builder_next \in 1..Len(program.statements) /\ n \in Nat
      /\ DOMAIN Builder!Indices = 1..n
  BY <1>1, IndicesOfStatement
<1>3. DOMAIN s.operands = {1}
  <2>1. Len(s.operands) = 1
    <3>1. Builder!IsResolved(Declared(program.variables), s)
      BY <1>2, StatementOfProgram DEF CallInv
    <3>2. QED
      BY <1>1, <3>1 DEF Builder!IsResolved
  <2>2. QED
    BY <1>2, <2>1, StatementOfProgram DEF CallInv
<1>4. AbstractStatement(s).qubits = IndicesOf(s.operands[1])
  <2>1. QubitOperands(s) = {s.operands[1]}
    BY <1>1, <1>3 DEF QubitOperands, Is
  <2>2. ~IsUnknown(s)
    BY <1>1 DEF IsUnknown, Is
  <2>3. QED
    BY <2>1, <2>2 DEF AbstractStatement
<1>5. AreValuesOf(IndicesOf(s.operands[1]), [j \in 1..n |-> Builder!Indices[j][1]])
  <2>1. 1 \in DOMAIN s.operands
    BY <1>3
  <2>2. QED
    BY <1>1, <1>2, <2>1, SetsOfStatement
<1>6. AbstractStatement(s).kind = "init" /\ AbstractStatement(s).qubits \subseteq Qubit
  <2>1. AbstractStatement(s).kind = "init"
    BY <1>1 DEF AbstractStatement, IsUnknown, Is
  <2>2. IndicesOf(s.operands[1]) \subseteq Qubit
    BY <1>1, <1>2, <1>3, GroupOfOperand
  <2>3. QED
    BY <1>4, <2>1, <2>2
<1>. HIDE DEF s, n
<1>7. /\ \A j \in 1..n : Builder!Indices[j][1] \in IndicesOf(s.operands[1])
      /\ \A q \in IndicesOf(s.operands[1]) : \E j \in 1..n : Builder!Indices[j][1] = q
  BY <1>2, <1>5 DEF AreValuesOf
<1>8. Builder!SomeAreDirty <=> HasDirtyQubit(s)
  BY <1>2, <1>4, <1>7 DEF Builder!SomeAreDirty, HasDirtyQubit
<1>9. QED
  BY <1>6, <1>8 DEF s

\* Every step of the builder is one of those, or its last.
LEMMA BuilderSteps ==
  ASSUME CallInv, bit_phase = "built", Builder!Next
  PROVE  /\ builder_phase = "building"
         /\ \/ /\ builder_next \in 1..Len(program.statements)
               /\ LET s == program.statements[builder_next]
                  IN  Operates(s) \/ Initializes(s) \/ IsRefused(s)
            \/ /\ builder_next > Len(program.statements)
               /\ builder_phase' = "built"
               /\ UNCHANGED <<instructions, dirty, builder_next>>
<1>. DEFINE s == program.statements[builder_next]
<1>1. Builder!Statement = s
  BY DEF Builder!Statement
<1>2. /\ Len(program.statements) \in Nat
      /\ builder_next <= Len(program.statements) => builder_next \in 1..Len(program.statements)
  BY ProgramOfCall DEF CallInv, BuilderIsInProgram
<1>3. CASE Builder!GateInstruction
  <2>1. /\ Builder!Visiting("gate", Builder!GateNames)
        /\ Builder!AddInstructions(
             [j \in DOMAIN Builder!Indices |->
                Builder!ApplyGate(Builder!GateOf(Builder!Statement), Builder!Indices[j])])
    BY <1>3 DEF Builder!GateInstruction
  <2>2. /\ builder_phase = "building" /\ builder_next <= Len(program.statements)
        /\ s.kind = "gate" /\ s.name \in Builder!GateNames
    BY <2>1 DEF Builder!Visiting, Builder!Statement
  <2>3. AbstractStatement(s).kind = "operate"
    BY <2>2 DEF AbstractStatement, IsUnknown, Is
  <2>. DEFINE added == [j \in DOMAIN Builder!Indices |->
                          Builder!ApplyGate(Builder!GateOf(Builder!Statement), Builder!Indices[j])]
  <2>4. AreOf(added, s)
    BY <2>1, GateMarks
  <2>. HIDE DEF added
  <2>5. Operates(s)
    BY <2>1, <2>2, <2>3, <2>4, AddedOperates DEF added
  <2>6. QED
    BY <1>2, <2>2, <2>5
<1>4. CASE Builder!UnknownGate
  <2>1. /\ builder_phase = "building" /\ builder_next <= Len(program.statements)
        /\ s.kind = "gate" /\ s.name \notin Builder!GateNames
        /\ builder_phase' = "error" /\ UNCHANGED <<instructions, dirty, builder_next>>
    BY <1>4 DEF Builder!UnknownGate, Builder!ThrowCircuitBuilderError, Builder!Statement
  <2>2. AbstractStatement(s).kind = "unknown"
    BY <2>1 DEF AbstractStatement, IsUnknown
  <2>3. IsRefused(s)
    BY <2>1, <2>2 DEF IsRefused
  <2>4. QED
    BY <1>2, <2>1, <2>3
<1>5. CASE Builder!MeasureInstruction
  <2>1. /\ Builder!Visiting("nongate", {"measure"})
        /\ Builder!AddInstructions(
             [j \in DOMAIN Builder!Indices |->
                Builder!MeasureInto(Builder!Indices[j][2], Builder!Indices[j][1])])
    BY <1>5 DEF Builder!MeasureInstruction
  <2>2. /\ builder_phase = "building" /\ builder_next <= Len(program.statements)
        /\ s.kind = "nongate" /\ s.name = "measure"
    BY <2>1 DEF Builder!Visiting, Builder!Statement
  <2>3. AbstractStatement(s).kind = "operate"
    BY <2>2 DEF AbstractStatement, IsUnknown, Is
  <2>. DEFINE added == [j \in DOMAIN Builder!Indices |->
                          Builder!MeasureInto(Builder!Indices[j][2], Builder!Indices[j][1])]
  <2>4. AreOf(added, s)
    BY <2>1, MeasureMarks
  <2>. HIDE DEF added
  <2>5. Operates(s)
    BY <2>1, <2>2, <2>3, <2>4, AddedOperates DEF added
  <2>6. QED
    BY <1>2, <2>2, <2>5
<1>6. CASE Builder!ResetInstruction
  <2>1. /\ Builder!Visiting("nongate", {"reset"})
        /\ Builder!AddInstructions(
             [j \in DOMAIN Builder!Indices |-> Builder!ResetQubit(Builder!Indices[j][1])])
    BY <1>6 DEF Builder!ResetInstruction
  <2>2. /\ builder_phase = "building" /\ builder_next <= Len(program.statements)
        /\ s.kind = "nongate" /\ s.name = "reset"
    BY <2>1 DEF Builder!Visiting, Builder!Statement
  <2>3. AbstractStatement(s).kind = "operate"
    BY <2>2 DEF AbstractStatement, IsUnknown, Is
  <2>. DEFINE added == [j \in DOMAIN Builder!Indices |-> Builder!ResetQubit(Builder!Indices[j][1])]
  <2>4. AreOf(added, s)
    BY <2>1, ResetMarks
  <2>. HIDE DEF added
  <2>5. Operates(s)
    BY <2>1, <2>2, <2>3, <2>4, AddedOperates DEF added
  <2>6. QED
    BY <1>2, <2>2, <2>5
<1>7. CASE Builder!InitInstruction
  <2>1. /\ Builder!Visiting("nongate", {"init"}) /\ ~Builder!SomeAreDirty
        /\ Builder!AddInstructions(<<>>)
    BY <1>7 DEF Builder!InitInstruction
  <2>2. builder_phase = "building" /\ builder_next <= Len(program.statements)
    BY <2>1 DEF Builder!Visiting
  <2>3. AbstractStatement(s).kind = "init" /\ ~HasDirtyQubit(s)
    BY <2>1, InitQubit
  <2>4. /\ builder_next' = builder_next + 1 /\ builder_phase' = builder_phase
        /\ dirty' = dirty \union Builder!Marked(<<>>) /\ instructions' = instructions \o <<>>
    BY <2>1 DEF Builder!AddInstructions
  <2>5. dirty' = dirty
    BY <2>4 DEF Builder!Marked
  <2>6. instructions' = instructions
    <3>1. IsList(instructions) /\ IsList(<<>>) /\ Len(<<>>) = 0
      BY DEF CallInv, BuilderIsInProgram, IsList
    <3>2. instructions \in Seq({instructions[j] : j \in 1..Len(instructions)})
      <4>. DEFINE V == {instructions[j] : j \in 1..Len(instructions)}
      <4>1. \A j \in 1..Len(instructions) : instructions[j] \in V
        OBVIOUS
      <4>. HIDE DEF V
      <4>2. instructions \in Seq(V)
        BY <3>1, <4>1, ListType
      <4>3. QED
        BY <4>2 DEF V
    <3>3. instructions \o <<>> = instructions
      BY <3>2
    <3>4. QED
      BY <2>4, <3>3
  <2>7. Initializes(s)
    BY <2>3, <2>4, <2>5, <2>6 DEF Initializes
  <2>8. QED
    BY <1>2, <2>2, <2>7
<1>8. CASE Builder!InitOfDirtyQubit
  <2>1. /\ Builder!Visiting("nongate", {"init"}) /\ Builder!SomeAreDirty
        /\ builder_phase' = "error" /\ UNCHANGED <<instructions, dirty, builder_next>>
    BY <1>8 DEF Builder!InitOfDirtyQubit, Builder!ThrowCircuitBuilderError
  <2>2. builder_phase = "building" /\ builder_next <= Len(program.statements)
    BY <2>1 DEF Builder!Visiting
  <2>3. AbstractStatement(s).kind = "init" /\ HasDirtyQubit(s)
    BY <2>1, InitQubit
  <2>4. IsRefused(s)
    BY <2>1, <2>3 DEF IsRefused
  <2>5. QED
    BY <1>2, <2>2, <2>4
<1>9. CASE Builder!BarrierInstruction
  <2>1. Builder!Visiting("nongate", {"barrier"}) /\ Builder!AddInstructions(<<>>)
    BY <1>9 DEF Builder!BarrierInstruction
  <2>2. /\ builder_phase = "building" /\ builder_next <= Len(program.statements)
        /\ s.kind = "nongate" /\ s.name = "barrier"
    BY <2>1 DEF Builder!Visiting, Builder!Statement
  <2>3. AbstractStatement(s).kind = "operate"
    BY <2>2 DEF AbstractStatement, IsUnknown, Is
  <2>4. AreOf(<<>>, s)
    BY <2>1, NothingMarks
  <2>5. Operates(s)
    BY <2>1, <2>2, <2>3, <2>4, AddedOperates
  <2>6. QED
    BY <1>2, <2>2, <2>5
<1>10. CASE Builder!WaitInstruction
  <2>1. /\ Builder!Visiting("nongate", {"wait"}) /\ Builder!AddInstructions(<<>>)
        /\ s.parameter >= 0
    BY <1>10 DEF Builder!WaitInstruction, Builder!Statement
  <2>2. /\ builder_phase = "building" /\ builder_next <= Len(program.statements)
        /\ s.kind = "nongate" /\ s.name = "wait"
    BY <2>1 DEF Builder!Visiting, Builder!Statement
  <2>3. ~(s.parameter < 0)
    <3>1. s.parameter \in Int
      BY <1>2, <2>2, StatementOfProgram DEF CallInv, Builder!AnyStatement
    <3>2. QED
      BY <2>1, <3>1
  <2>4. AbstractStatement(s).kind = "operate"
    BY <2>2, <2>3 DEF AbstractStatement, IsUnknown, Is
  <2>5. AreOf(<<>>, s)
    BY <2>1, NothingMarks
  <2>6. Operates(s)
    BY <2>1, <2>2, <2>4, <2>5, AddedOperates
  <2>7. QED
    BY <1>2, <2>2, <2>6
<1>11. CASE Builder!NegativeWait
  <2>1. /\ Builder!Visiting("nongate", {"wait"}) /\ s.parameter < 0
        /\ builder_phase' = "error" /\ UNCHANGED <<instructions, dirty, builder_next>>
    BY <1>11 DEF Builder!NegativeWait, Builder!ThrowCircuitBuilderError, Builder!Statement
  <2>2. /\ builder_phase = "building" /\ builder_next <= Len(program.statements)
        /\ s.kind = "nongate" /\ s.name = "wait"
    BY <2>1 DEF Builder!Visiting, Builder!Statement
  <2>3. AbstractStatement(s).kind = "unknown"
    BY <2>1, <2>2 DEF AbstractStatement, IsUnknown, Is
  <2>4. IsRefused(s)
    BY <2>1, <2>3 DEF IsRefused
  <2>5. QED
    BY <1>2, <2>2, <2>4
<1>12. CASE Builder!UnsupportedInstruction
  <2>1. /\ builder_phase = "building" /\ builder_next <= Len(program.statements)
        /\ s.kind = "nongate" /\ s.name \notin {"measure", "reset", "init", "barrier", "wait"}
        /\ builder_phase' = "error" /\ UNCHANGED <<instructions, dirty, builder_next>>
    BY <1>12 DEF Builder!UnsupportedInstruction, Builder!ThrowCircuitBuilderError, Builder!Statement
  <2>2. AbstractStatement(s).kind = "unknown"
    BY <2>1 DEF AbstractStatement, IsUnknown
  <2>3. IsRefused(s)
    BY <2>1, <2>2 DEF IsRefused
  <2>4. QED
    BY <1>2, <2>1, <2>3
<1>13. CASE Builder!Built
  BY <1>13 DEF Builder!Built
<1>14. QED
  BY <1>3, <1>4, <1>5, <1>6, <1>7, <1>8, <1>9, <1>10, <1>11, <1>12, <1>13 DEF Builder!Next

-----------------------------------------------------------------------------
(* The invariant holds.                                                    *)

LEMMA InitCallInv ==
  ASSUME ExecutionInit
  PROVE  CallInv
<1>1. program \in AnalyzedPrograms
  BY DEF ExecutionInit
<1>2. QR!Init
  <2>1. OfKind(program.variables, "qubit") \in ToldLists
    BY <1>1, ProgramOfCall
  <2>2. /\ qubit_ranges = [n \in {} |-> 0] /\ qubit_names = [j \in {} |-> QR!NoName]
        /\ [j \in DOMAIN qubit_names |-> j \in dirty] = [j \in {} |-> FALSE]
        /\ qubit_sums = [j \in {1} |-> 0]
    BY DEF ExecutionInit
  <2>3. QED
    BY <2>1, <2>2 DEF ExecutionInit, QR!Init
<1>3. BR!Init
  <2>1. OfKind(program.variables, "bit") \in ToldLists
    BY <1>1, ProgramOfCall
  <2>2. /\ bit_ranges = [n \in {} |-> 0] /\ bit_names = [j \in {} |-> BR!NoName]
        /\ [j \in DOMAIN bit_names |-> FALSE] = [j \in {} |-> FALSE]
        /\ bit_sums = [j \in {1} |-> 0]
    BY DEF ExecutionInit
  <2>3. QED
    BY <2>1, <2>2 DEF ExecutionInit, BR!Init
<1>4. QR!Inv /\ BR!Inv
  <2>1. QR!Inv
    BY <1>2, RegistersOfCall, QR!InvInit
  <2>2. BR!Inv
    BY <1>3, RegistersOfCall, BR!InvInit
  <2>3. QED
    BY <2>1, <2>2
<1>5. accumulator.shots_done = 0 /\ phase = "between" /\ shots_requested = program.iterations
  BY DEF ExecutionInit, BeforeFirstIteration, EmptyAccumulator
<1>6. InOrder
  BY <1>5 DEF ExecutionInit, InOrder
<1>7. BuilderIsInProgram
  <2>1. Len(program.statements) \in Nat
    BY <1>1, ProgramOfCall
  <2>2. IsList(<<>>)
    BY DEF IsList
  <2>3. QED
    BY <2>1, <2>2 DEF ExecutionInit, BuilderIsInProgram
<1>8. ShotsAreRequested
  <2>1. program.iterations \in Nat \ {0}
    BY <1>1, ProgramOfCall
  <2>2. QED
    BY <1>5, <2>1 DEF ShotsAreRequested
<1>9. QED
  BY <1>1, <1>4, <1>6, <1>7, <1>8 DEF CallInv

LEMMA QubitRegisterKeepsInv ==
  ASSUME CallInv, ConstructQubitRegister
  PROVE  CallInv'
<1>1. /\ qubit_phase # "built" /\ QubitRegister!ConstructorStep
      /\ UNCHANGED <<program, bit_vars, builder_vars, shot_vars>>
  BY DEF ConstructQubitRegister, Ongoing
<1>2. UNCHANGED <<program, dirty, bit_phase, builder_phase, builder_next, instructions, phase,
                  accumulator, shots_requested>>
  BY <1>1 DEF bit_vars, builder_vars, shot_vars
<1>3. QR!Inv'
  BY <1>1, <1>2, QubitRegisterStep DEF CallInv
<1>4. BR!Inv'
  BY <1>1, BitRegisterUnchanged DEF CallInv
<1>5. InOrder'
  BY <1>1, <1>2 DEF CallInv, InOrder
<1>6. BuilderIsInProgram' /\ ShotsAreRequested'
  BY <1>2 DEF CallInv, BuilderIsInProgram, ShotsAreRequested, IsList
<1>7. QED
  BY <1>2, <1>3, <1>4, <1>5, <1>6 DEF CallInv

LEMMA BitRegisterKeepsInv ==
  ASSUME CallInv, ConstructBitRegister
  PROVE  CallInv'
<1>1. /\ bit_phase # "built" /\ qubit_phase = "built" /\ BitRegister!ConstructorStep
      /\ UNCHANGED <<program, qubit_vars, builder_vars, shot_vars>>
  BY DEF ConstructBitRegister, Ongoing
<1>2. UNCHANGED <<program, dirty, qubit_phase, builder_phase, builder_next, instructions, phase,
                  accumulator, shots_requested>>
  BY <1>1 DEF qubit_vars, builder_vars, shot_vars
<1>3. QR!Inv'
  BY <1>1, QubitRegisterDirty DEF CallInv
<1>4. BR!Inv'
  BY <1>1, <1>2, BitRegisterStep DEF CallInv
<1>5. InOrder'
  BY <1>1, <1>2 DEF CallInv, InOrder
<1>6. BuilderIsInProgram' /\ ShotsAreRequested'
  BY <1>2 DEF CallInv, BuilderIsInProgram, ShotsAreRequested, IsList
<1>7. QED
  BY <1>2, <1>3, <1>4, <1>5, <1>6 DEF CallInv

LEMMA BuilderKeepsInv ==
  ASSUME CallInv, BuildCircuit
  PROVE  CallInv'
<1>1. /\ bit_phase = "built" /\ Builder!Next
      /\ UNCHANGED <<program, qubit_vars, bit_vars, shot_vars>>
  BY DEF BuildCircuit
<1>2. UNCHANGED <<program, qubit_phase, bit_phase, phase, accumulator, shots_requested>>
  BY <1>1 DEF qubit_vars, bit_vars, shot_vars
<1>3. QR!Inv' /\ BR!Inv'
  BY <1>1, QubitRegisterDirty, BitRegisterUnchanged DEF CallInv
<1>4. qubit_phase = "built"
  BY <1>1 DEF CallInv, InOrder
<1>5. builder_phase = "building"
  BY <1>1, BuilderSteps
<1>6. InOrder'
  BY <1>1, <1>2, <1>4, <1>5 DEF CallInv, InOrder
<1>7. BuilderIsInProgram'
  <2>1. Len(program.statements) \in Nat
    BY ProgramOfCall DEF CallInv
  <2>2. CASE /\ builder_next > Len(program.statements) /\ builder_phase' = "built"
             /\ UNCHANGED <<instructions, dirty, builder_next>>
    BY <1>2, <2>2 DEF CallInv, BuilderIsInProgram, IsList
  <2>3. ASSUME builder_next \in 1..Len(program.statements), NEW s, Operates(s)
        PROVE  BuilderIsInProgram'
    BY <1>2, <1>5, <2>1, <2>3 DEF Operates, BuilderIsInProgram
  <2>4. ASSUME builder_next \in 1..Len(program.statements), NEW s, Initializes(s)
        PROVE  BuilderIsInProgram'
    BY <1>2, <1>5, <2>1, <2>4 DEF Initializes, CallInv, BuilderIsInProgram, IsList
  <2>5. ASSUME builder_next \in 1..Len(program.statements), NEW s, IsRefused(s)
        PROVE  BuilderIsInProgram'
    BY <1>2, <2>1, <2>5 DEF IsRefused, CallInv, BuilderIsInProgram, IsList
  <2>6. QED
    BY <1>1, <2>2, <2>3, <2>4, <2>5, BuilderSteps
<1>8. ShotsAreRequested'
  BY <1>2 DEF CallInv, ShotsAreRequested
<1>9. QED
  BY <1>2, <1>3, <1>6, <1>7, <1>8 DEF CallInv

LEMMA IterationsKeepInv ==
  ASSUME CallInv, RunIterations
  PROVE  CallInv'
<1>1. /\ builder_phase = "built"
      /\ UNCHANGED <<program, qubit_vars, bit_vars, builder_vars>>
      /\ BetweenInstructions \/ ExecuteInstruction
  BY DEF RunIterations, Iterating
<1>2. UNCHANGED <<program, qubit_phase, bit_phase, builder_phase, builder_next, instructions, dirty>>
  BY <1>1 DEF qubit_vars, bit_vars, builder_vars
<1>3. QR!Inv' /\ BR!Inv'
  BY <1>1, QubitRegisterDirty, BitRegisterUnchanged DEF CallInv
<1>4. InOrder'
  BY <1>1, <1>2 DEF CallInv, InOrder
<1>5. BuilderIsInProgram'
  BY <1>2 DEF CallInv, BuilderIsInProgram, IsList
<1>6. ShotsAreRequested'
  <2>1. shots_requested \in Nat
    BY ProgramOfCall DEF CallInv, ShotsAreRequested
  <2>2. CASE StartIteration
    BY <1>2, <2>1, <2>2 DEF StartIteration, MoreIterations, CallInv, ShotsAreRequested
  <2>3. CASE Accumulate
    <3>1. /\ accumulator'.shots_done = accumulator.shots_done + 1 /\ phase' = "between"
          /\ phase = "executing" /\ shots_requested' = shots_requested
      BY <2>3 DEF Accumulate, IterationEnds
    <3>2. QED
      BY <1>2, <2>1, <3>1 DEF CallInv, ShotsAreRequested
  <2>4. CASE Abort
    BY <1>2, <2>4 DEF Abort, CallInv, ShotsAreRequested
  <2>5. CASE GetSimulationResult
    <3>1. /\ accumulator'.shots_done = accumulator.shots_done /\ phase' = "finished"
          /\ shots_requested' = shots_requested
      <4>1. accumulator' = [accumulator EXCEPT !.state = clean_up_zeros(accumulator.state)]
        BY <2>5 DEF GetSimulationResult
      <4>2. QED
        BY <2>5, <4>1 DEF GetSimulationResult
    <3>2. QED
      BY <1>2, <3>1 DEF CallInv, ShotsAreRequested
  <2>6. CASE ExecuteInstruction
    BY <1>2, <2>6 DEF ExecuteInstruction, CallInv, ShotsAreRequested
  <2>7. QED
    BY <1>1, <2>2, <2>3, <2>4, <2>5, <2>6 DEF BetweenInstructions
<1>7. QED
  BY <1>2, <1>3, <1>4, <1>5, <1>6 DEF CallInv

LEMMA CallInvStep ==
  ASSUME CallInv, [ExecutionNext]_execution_vars
  PROVE  CallInv'
<1>1. CASE UNCHANGED execution_vars
  <2>1. UNCHANGED <<program, qubit_vars, bit_vars, builder_vars, shot_vars>>
    BY <1>1 DEF execution_vars
  <2>2. QR!Inv' /\ BR!Inv'
    BY <2>1, QubitRegisterDirty, BitRegisterUnchanged DEF CallInv
  <2>3. UNCHANGED <<qubit_phase, bit_phase, builder_phase, builder_next, instructions, dirty, phase,
                    accumulator, shots_requested>>
    BY <2>1 DEF qubit_vars, bit_vars, builder_vars, shot_vars
  <2>4. QED
    BY <2>1, <2>2, <2>3 DEF CallInv, InOrder, BuilderIsInProgram, IsList, ShotsAreRequested
<1>2. QED
  BY <1>1, QubitRegisterKeepsInv, BitRegisterKeepsInv, BuilderKeepsInv, IterationsKeepInv
     DEF ExecutionNext, Stopped

\* The inductive invariant of a call: the registers are the ones that their constructors
\* make of the variables of one program, the builder is inside that program and no more
\* shots are done than it asks for; each part begins when the one before it has finished.
THEOREM CallInvCorrect == ExecutionSpec => []CallInv
BY InitCallInv, CallInvStep, PTL DEF ExecutionSpec

\* Both registers of a call, one after the other and marked by its builder, have ranges that
\* tile them and look-ups that are inverse to each other, once each is built, for any
\* program (RegisterManager::create_instance).
THEOREM RegistersOfCallCorrect ==
  ExecutionSpec => [](QubitRegister!NamesAndIndicesAgree /\ BitRegister!NamesAndIndicesAgree)
<1>1. CallInv => QubitRegister!NamesAndIndicesAgree
  <2>1. CallInv => QR!NamesAndIndicesAgree
    BY RegistersOfCall, QR!InvImpliesAgreement DEF CallInv
  <2>2. QED
    BY <2>1 DEF QubitRegister!NamesAndIndicesAgree, QubitRegister!at, QubitRegister!name_at,
                QubitRegister!variable_index, QR!NamesAndIndicesAgree, QR!at, QR!name_at,
                QR!variable_index
<1>2. CallInv => BitRegister!NamesAndIndicesAgree
  <2>1. CallInv => BR!NamesAndIndicesAgree
    BY RegistersOfCall, BR!InvImpliesAgreement DEF CallInv
  <2>2. QED
    BY <2>1 DEF BitRegister!NamesAndIndicesAgree, BitRegister!at, BitRegister!name_at,
                BitRegister!variable_index, BR!NamesAndIndicesAgree, BR!at, BR!name_at,
                BR!variable_index
<1>3. QED
  BY <1>1, <1>2, CallInvCorrect, PTL

-----------------------------------------------------------------------------
(* A call implements Simulator's: the values of Simulator's variables.     *)

LEMMA SameProgram ==
  ASSUME UNCHANGED program
  PROVE  AbstractProgram' = AbstractProgram /\ AbstractRequest' = AbstractRequest
<1>1. AbstractProgram' = AbstractProgram
  BY DEF AbstractProgram, AbstractStatement, TotalSize, OfKind, IndicesOf, VariableOf, FirstIndex,
         NumberOfElements
<1>2. QED
  BY <1>1 DEF AbstractRequest

LEMMA ProgramOfCaller ==
  ASSUME CallInv
  PROVE  /\ AbstractRequest.program = AbstractProgram
         /\ AbstractRequest.iterations = program.iterations
         /\ Len(AbstractProgram.statements) = Len(program.statements)
         /\ \A k \in 1..Len(program.statements) :
              AbstractProgram.statements[k] = AbstractStatement(program.statements[k])
         /\ AbstractProgram.qubits = TotalSize(program.variables, "qubit")
         /\ AbstractProgram.bits = TotalSize(program.variables, "bit")
<1>1. Len(program.statements) \in Nat /\ DOMAIN program.statements = 1..Len(program.statements)
  BY ProgramOfCall DEF CallInv
<1>2. AbstractProgram.statements
        = [k \in 1..Len(program.statements) |-> AbstractStatement(program.statements[k])]
  BY <1>1 DEF AbstractProgram
<1>3. QED
  BY <1>1, <1>2 DEF AbstractProgram, AbstractRequest

LEMMA NewRegisterIsClean ==
  ASSUME NEW size
  PROVE  AbstractRegister(size, {}) = Caller!NewRegister(AbstractProgram, size)
<1>. DEFINE Qs == 0..(size - 1)
<1>. HIDE DEF Qs
<1>1. [j \in Qs |-> j \in {}] = [j \in Qs |-> FALSE]
  <2>1. \A j \in Qs : (j \in {}) = FALSE
    OBVIOUS
  <2>2. QED
    BY <2>1
<1>2. QED
  BY <1>1 DEF AbstractRegister, Caller!NewRegister, Qs

\* What Simulator does not see.
LEMMA CallerIsUnchanged ==
  ASSUME UNCHANGED <<program, dirty, builder_next, builder_phase, instructions>>,
         accumulator'.shots_done = accumulator.shots_done,
         Ongoing(bit_phase)' <=> Ongoing(bit_phase),
         bit_phase' = "built" <=> bit_phase = "built",
         qubit_phase' = "error" <=> qubit_phase = "error",
         Answered' <=> Answered, Failed' <=> Failed
  PROVE  UNCHANGED Caller!simulator_vars
<1>1. AbstractProgram' = AbstractProgram /\ AbstractRequest' = AbstractRequest
  BY SameProgram
<1>2. Cardinality(Measures)' = Cardinality(Measures)
  BY DEF Measures
<1>3. caller_generator' = caller_generator
  BY <1>2 DEF caller_generator, FirstNumber
<1>4. caller_qubit_register' = caller_qubit_register
  BY <1>1 DEF caller_qubit_register, AbstractRegister, Uninitialized
<1>5. caller_bit_register' = caller_bit_register
  BY <1>1 DEF caller_bit_register, AbstractRegister, Uninitialized
<1>6. caller_program' = caller_program
  BY <1>1 DEF caller_program, Uninitialized
<1>7. caller_phase' = caller_phase
  BY DEF caller_phase
<1>8. caller_calls' = caller_calls
  BY <1>1, <1>3 DEF caller_calls, FirstNumber
<1>9. FirstNumber' = FirstNumber
  BY DEF FirstNumber
<1>10. QED
  BY <1>1, <1>2, <1>3, <1>4, <1>5, <1>6, <1>7, <1>8, <1>9 DEF Caller!simulator_vars, Caller!vars

\* Before the registers are there.
LEMMA CallerBefore ==
  ASSUME CallInv, Ongoing(bit_phase), qubit_phase # "error"
  PROVE  /\ ~Answered /\ ~Failed
         /\ caller_qubit_register = Uninitialized /\ caller_bit_register = Uninitialized
         /\ caller_phase = "registers" /\ caller_calls = <<>>
         /\ caller_generator = FirstNumber
         /\ builder_phase = "building" /\ builder_next = 1 /\ dirty = {} /\ instructions = <<>>
         /\ phase = "between" /\ accumulator.shots_done = 0
         /\ Measures = {}
<1>1. /\ bit_phase \notin {"built", "error"}
      /\ builder_phase = "building" /\ builder_next = 1 /\ dirty = {} /\ instructions = <<>>
      /\ phase = "between" /\ accumulator.shots_done = 0
  BY DEF CallInv, InOrder, Ongoing
<1>2. ~Answered /\ ~Failed
  BY <1>1 DEF Answered, Failed
<1>3. Measures = {}
  BY <1>1 DEF Measures
<1>4. Cardinality(Measures) = 0
  BY <1>3, FS_EmptySet
<1>5. caller_generator = FirstNumber
  BY <1>1, <1>4 DEF caller_generator, FirstNumber
<1>6. /\ caller_qubit_register = Uninitialized /\ caller_bit_register = Uninitialized
      /\ caller_phase = "registers" /\ caller_calls = <<>>
  BY <1>1, <1>2 DEF caller_qubit_register, caller_bit_register, caller_phase, caller_calls
<1>7. QED
  BY <1>1, <1>2, <1>3, <1>5, <1>6

\* The answer of a call that fails.
LEMMA CallerFails ==
  ASSUME CallInv, ~Answered, UNCHANGED <<program, instructions>>,
         accumulator'.shots_done = accumulator.shots_done, Failed', builder_next' = builder_next
  PROVE  /\ caller_phase' = "idle"
         /\ caller_calls' = Append(caller_calls, [request |-> AbstractRequest, outcome |-> "error",
                                                  from |-> FirstNumber, to |-> caller_generator])
         /\ caller_generator' = caller_generator
         /\ AbstractRequest' = AbstractRequest /\ AbstractProgram' = AbstractProgram
         /\ Cardinality(Measures)' = Cardinality(Measures)
         /\ FirstNumber' = FirstNumber
<1>1. AbstractProgram' = AbstractProgram /\ AbstractRequest' = AbstractRequest
  BY SameProgram
<1>2. Cardinality(Measures)' = Cardinality(Measures)
  BY DEF Measures
<1>3. caller_generator' = caller_generator
  BY <1>2 DEF caller_generator, FirstNumber
<1>4. Answered'
  BY DEF Answered
<1>5. caller_phase' = "idle"
  BY <1>4 DEF caller_phase
<1>6. caller_calls = <<>>
  BY DEF caller_calls
<1>7. caller_calls' = << [request |-> AbstractRequest, outcome |-> "error",
                          from |-> FirstNumber, to |-> caller_generator] >>
  BY <1>1, <1>3, <1>4 DEF caller_calls, FirstNumber
<1>8. QED
  BY <1>1, <1>2, <1>3, <1>5, <1>6, <1>7 DEF FirstNumber

-----------------------------------------------------------------------------
(* The construction of the registers.                                      *)

LEMMA QubitRegisterMaps ==
  ASSUME CallInv, ConstructQubitRegister
  PROVE  Caller!SimulatorNext \/ UNCHANGED Caller!simulator_vars
<1>1. /\ qubit_phase \notin {"built", "error"} /\ QubitRegister!ConstructorStep
      /\ UNCHANGED <<program, bit_vars, builder_vars, shot_vars>>
  BY DEF ConstructQubitRegister, Ongoing
<1>2. UNCHANGED <<program, dirty, bit_phase, builder_phase, builder_next, instructions, phase,
                  accumulator>>
  BY <1>1 DEF bit_vars, builder_vars, shot_vars
<1>3. bit_phase = "summing" /\ Ongoing(bit_phase) /\ Ongoing(bit_phase')
  BY <1>1, <1>2 DEF CallInv, InOrder, Ongoing
<1>4. /\ ~Answered /\ ~Failed
      /\ caller_qubit_register = Uninitialized /\ caller_bit_register = Uninitialized
      /\ caller_phase = "registers" /\ builder_phase = "building" /\ dirty = {}
      /\ phase = "between"
  BY <1>1, <1>3, CallerBefore
<1>5. CASE qubit_phase' # "error"
  <2>1. ~Failed' /\ ~Answered'
    BY <1>2, <1>3, <1>4, <1>5 DEF Failed, Answered
  <2>2. QED
    BY <1>1, <1>2, <1>3, <1>4, <1>5, <2>1, CallerIsUnchanged
<1>6. CASE qubit_phase' = "error"
  <2>1. qubit_phase = "summing" /\ qubit_next > Len(OfKind(program.variables, "qubit"))
        /\ qubit_size > MAX_QUBIT_NUMBER
    BY <1>1, <1>6 DEF QubitRegister!ConstructorStep, QubitRegister!AddSize,
         QubitRegister!ThrowTooLarge, QubitRegister!Resize, QubitRegister!AssignRange,
         QubitRegister!Built, QubitRegister!TooLarge
  <2>2. AbstractProgram.qubits > MAX_QUBIT_NUMBER
    BY <2>1, SizeOfQubitRegister, ProgramOfCaller
  <2>3. Failed'
    BY <1>6 DEF Failed
  <2>4. /\ caller_qubit_register' = Uninitialized /\ caller_bit_register' = Uninitialized
        /\ caller_program' = AbstractProgram' /\ ~(bit_phase = "built") /\ ~(bit_phase' = "built")
    BY <1>2, <1>3, <1>6 DEF caller_qubit_register, caller_bit_register, caller_program, Uninitialized
  <2>5. /\ caller_phase' = "idle"
        /\ caller_calls' = Append(caller_calls, [request |-> AbstractRequest, outcome |-> "error",
                                                 from |-> FirstNumber, to |-> caller_generator])
        /\ caller_generator' = caller_generator
        /\ AbstractRequest' = AbstractRequest /\ AbstractProgram' = AbstractProgram
        /\ Cardinality(Measures)' = Cardinality(Measures)
        /\ FirstNumber' = FirstNumber
    BY <1>2, <1>4, <2>3, CallerFails
  <2>6. AbstractRequest.program = AbstractProgram
    BY ProgramOfCaller
  <2>7. Caller!ThrowOnQubits(AbstractRequest.program)
    BY <1>2, <1>4, <2>2, <2>4, <2>5, <2>6 DEF Caller!ThrowOnQubits, Caller!Given
  <2>8. Caller!Return("error")
    BY <1>2, <2>5 DEF Caller!Return
  <2>9. Caller!RegistersTooLarge
    BY <1>4, <2>7, <2>8 DEF Caller!RegistersTooLarge
  <2>10. QED
    BY <2>9 DEF Caller!SimulatorNext
<1>7. QED
  BY <1>5, <1>6

LEMMA BitRegisterMaps ==
  ASSUME CallInv, ConstructBitRegister
  PROVE  Caller!SimulatorNext \/ UNCHANGED Caller!simulator_vars
<1>1. /\ qubit_phase = "built" /\ bit_phase \notin {"built", "error"}
      /\ BitRegister!ConstructorStep
      /\ UNCHANGED <<program, qubit_vars, builder_vars, shot_vars>>
  BY DEF ConstructBitRegister, Ongoing
<1>2. UNCHANGED <<program, dirty, qubit_phase, builder_phase, builder_next, instructions, phase,
                  accumulator>>
  BY <1>1 DEF qubit_vars, builder_vars, shot_vars
<1>3. Ongoing(bit_phase)
  BY <1>1 DEF Ongoing
<1>4. /\ ~Answered /\ ~Failed
      /\ caller_qubit_register = Uninitialized /\ caller_bit_register = Uninitialized
      /\ caller_phase = "registers" /\ builder_phase = "building" /\ dirty = {}
      /\ phase = "between" /\ accumulator.shots_done = 0
  BY <1>1, <1>3, CallerBefore
<1>5. AbstractRequest.program = AbstractProgram /\ AbstractProgram' = AbstractProgram
      /\ AbstractRequest' = AbstractRequest
  BY <1>2, ProgramOfCaller, SameProgram
<1>6. qubit_size <= MAX_QUBIT_NUMBER /\ AbstractProgram.qubits = qubit_size
  <2>1. qubit_size <= MAX_QUBIT_NUMBER
    BY <1>1, RegistersOfCall, QR!BuiltRanges DEF CallInv
  <2>2. qubit_size = TotalSize(program.variables, "qubit")
    BY <1>1, SizeOfQubitRegister
  <2>3. QED
    BY <2>1, <2>2, ProgramOfCaller
<1>7. CASE bit_phase' \notin {"built", "error"}
  <2>1. ~Failed' /\ ~Answered' /\ Ongoing(bit_phase')
    BY <1>1, <1>2, <1>4, <1>7 DEF Failed, Answered, Ongoing
  <2>2. QED
    BY <1>1, <1>2, <1>3, <1>4, <1>7, <2>1, CallerIsUnchanged
<1>8. CASE bit_phase' = "error"
  <2>1. bit_phase = "summing" /\ bit_next > Len(OfKind(program.variables, "bit"))
        /\ bit_size > MAX_BIT_NUMBER
    BY <1>1, <1>8 DEF BitRegister!ConstructorStep, BitRegister!AddSize,
         BitRegister!ThrowTooLarge, BitRegister!Resize, BitRegister!AssignRange,
         BitRegister!Built, BitRegister!TooLarge
  <2>2. AbstractProgram.bits > MAX_BIT_NUMBER
    BY <2>1, SizeOfBitRegister, ProgramOfCaller
  <2>3. Failed' /\ ~Ongoing(bit_phase')
    BY <1>8 DEF Failed, Ongoing
  <2>4. /\ caller_qubit_register' = AbstractRegister(AbstractProgram.qubits, {})
        /\ caller_bit_register' = Uninitialized
        /\ caller_program' = AbstractProgram' /\ ~(bit_phase = "built") /\ ~(bit_phase' = "built")
    <3>1. caller_qubit_register' = AbstractRegister(AbstractProgram.qubits, dirty)'
      BY <2>3 DEF caller_qubit_register
    <3>2. caller_qubit_register' = AbstractRegister(AbstractProgram.qubits, {})
      BY <1>2, <1>4, <1>5, <3>1 DEF AbstractRegister
    <3>3. QED
      BY <1>1, <1>8, <2>3, <3>2 DEF caller_bit_register, caller_program, Uninitialized
  <2>5. /\ caller_phase' = "idle"
        /\ caller_calls' = Append(caller_calls, [request |-> AbstractRequest, outcome |-> "error",
                                                 from |-> FirstNumber, to |-> caller_generator])
        /\ caller_generator' = caller_generator
        /\ AbstractRequest' = AbstractRequest /\ AbstractProgram' = AbstractProgram
        /\ Cardinality(Measures)' = Cardinality(Measures)
        /\ FirstNumber' = FirstNumber
    BY <1>2, <1>4, <2>3, CallerFails
  <2>6. caller_qubit_register' = Caller!NewRegister(AbstractProgram, AbstractProgram.qubits)
    BY <2>4, NewRegisterIsClean
  <2>7. Caller!ThrowOnBits(AbstractRequest.program)
    BY <1>2, <1>4, <1>5, <1>6, <2>2, <2>4, <2>5, <2>6
       DEF Caller!ThrowOnBits, Caller!Given, Caller!Replaced
  <2>8. Caller!Return("error")
    BY <1>2, <2>5 DEF Caller!Return
  <2>9. Caller!RegistersTooLarge
    BY <1>4, <2>7, <2>8 DEF Caller!RegistersTooLarge
  <2>10. QED
    BY <2>9 DEF Caller!SimulatorNext
<1>9. CASE bit_phase' = "built"
  <2>1. CallInv' /\ bit_size' = bit_size
    <3>1. bit_size' = bit_size
      BY <1>1, <1>9 DEF BitRegister!ConstructorStep, BitRegister!AddSize,
           BitRegister!ThrowTooLarge, BitRegister!Resize, BitRegister!AssignRange,
           BitRegister!Built
    <3>2. QED
      BY <3>1, BitRegisterKeepsInv
  <2>2. bit_phase = "assigning"
    BY <1>1, <1>9 DEF BitRegister!ConstructorStep, BitRegister!AddSize,
         BitRegister!ThrowTooLarge, BitRegister!Resize, BitRegister!AssignRange,
         BitRegister!Built
  <2>3. bit_size <= MAX_BIT_NUMBER /\ AbstractProgram.bits = bit_size
    <3>1. bit_size <= MAX_BIT_NUMBER
      BY <2>2 DEF CallInv, BR!Inv, BR!TypeOK
    <3>2. bit_size = TotalSize(program.variables, "bit")
      BY <2>2, SizeOfBitRegister
    <3>3. QED
      BY <3>1, <3>2, ProgramOfCaller
  <2>4. ~Failed' /\ ~Answered' /\ ~Ongoing(bit_phase')
    BY <1>1, <1>2, <1>4, <1>9 DEF Failed, Answered, Ongoing
  <2>5. /\ caller_qubit_register' = AbstractRegister(AbstractProgram.qubits, {})
        /\ caller_bit_register' = AbstractRegister(AbstractProgram.bits, {})
    <3>1. /\ caller_qubit_register' = AbstractRegister(AbstractProgram.qubits, dirty)'
          /\ caller_bit_register' = AbstractRegister(AbstractProgram.bits, {})'
      BY <1>9, <2>4 DEF caller_qubit_register, caller_bit_register
    <3>2. QED
      BY <1>2, <1>4, <1>5, <3>1 DEF AbstractRegister
  <2>6. caller_program' = AbstractProgram /\ caller_phase' = "building" /\ caller_calls' = caller_calls
    BY <1>2, <1>4, <1>5, <2>4 DEF caller_program, caller_phase, caller_calls
  <2>7. Cardinality(Measures)' = Cardinality(Measures)
    BY <1>2 DEF Measures
  <2>8. caller_generator' = caller_generator /\ FirstNumber' = FirstNumber
    BY <1>2, <2>7 DEF caller_generator, FirstNumber
  <2>9. /\ caller_qubit_register' = Caller!NewRegister(AbstractProgram, AbstractProgram.qubits)
        /\ caller_bit_register' = Caller!NewRegister(AbstractProgram, AbstractProgram.bits)
    BY <2>5, NewRegisterIsClean
  <2>10. Caller!CreateInstance(AbstractRequest.program)
    BY <1>2, <1>4, <1>5, <1>6, <1>9, <2>3, <2>6, <2>9
       DEF Caller!CreateInstance, Caller!Given, Caller!Replaced
  <2>11. Caller!CreateRegisters
    BY <1>2, <1>4, <1>5, <2>6, <2>7, <2>8, <2>10 DEF Caller!CreateRegisters
  <2>12. QED
    BY <2>11 DEF Caller!SimulatorNext
<1>10. QED
  BY <1>7, <1>8, <1>9

-----------------------------------------------------------------------------
(* The circuit is built, and run.                                          *)

\* While the circuit is built and run.
LEMMA CallerAfter ==
  ASSUME CallInv, bit_phase = "built"
  PROVE  /\ ~Ongoing(bit_phase)
         /\ qubit_phase = "built"
         /\ caller_qubit_register = AbstractRegister(AbstractProgram.qubits, dirty)
         /\ caller_bit_register = AbstractRegister(AbstractProgram.bits, {})
         /\ caller_program = AbstractProgram
         /\ AbstractProgram.qubits = NumberOfQubits
         /\ FirstNumber = [seed |-> "device", drawn |-> 0]
<1>1. ~Ongoing(bit_phase)
  BY DEF Ongoing
<1>2. qubit_phase = "built" /\ AbstractProgram.qubits = NumberOfQubits
  BY RegistersAreLaidOut, ProgramOfCaller
<1>3. QED
  BY <1>1, <1>2 DEF caller_qubit_register, caller_bit_register, caller_program, FirstNumber

LEMMA RegisterIsMarked ==
  ASSUME NEW size, NEW set, NEW more
  PROVE  Caller!set_dirty(AbstractRegister(size, set), more) = AbstractRegister(size, set \union more)
<1>. DEFINE Qs == 0..(size - 1)
            f == [j \in Qs |-> j \in set]
<1>. HIDE DEF Qs
<1>1. [j \in Qs |-> f[j] \/ j \in more] = [j \in Qs |-> j \in set \union more]
  <2>1. \A j \in Qs : f[j] = (j \in set)
    OBVIOUS
  <2>2. ASSUME NEW j \in Qs
        PROVE  (f[j] \/ j \in more) = (j \in set \union more)
    <3>1. f[j] = (j \in set)
      BY <2>1
    <3>. HIDE DEF f
    <3>2. (f[j] \/ j \in more) <=> (j \in set \/ j \in more)
      BY <3>1, Zenon
    <3>3. (j \in set \/ j \in more) <=> j \in set \union more
      BY Zenon
    <3>4. QED
      BY <3>2, <3>3
  <2>. HIDE DEF f
  <2>3. QED
    BY <2>2
<1>2. DOMAIN f = Qs
  OBVIOUS
<1>3. /\ AbstractRegister(size, set).dirty_bitset = f
      /\ AbstractRegister(size, set).program = AbstractProgram
  BY DEF AbstractRegister, Qs
<1>4. AbstractRegister(size, set \union more)
        = [program |-> AbstractProgram, dirty_bitset |-> [j \in Qs |-> j \in set \union more]]
  BY DEF AbstractRegister, Qs
<1>. HIDE DEF f
<1>5. Caller!set_dirty(AbstractRegister(size, set), more)
        = [program |-> AbstractProgram, dirty_bitset |-> [j \in Qs |-> f[j] \/ j \in more]]
  BY <1>2, <1>3 DEF Caller!set_dirty
<1>6. QED
  BY <1>1, <1>4, <1>5

\* The dirty bits that an init reads.
LEMMA DirtyOfCaller ==
  ASSUME CallInv, bit_phase = "built", Builder!Next, builder_next \in 1..Len(program.statements),
         AbstractStatement(program.statements[builder_next]).kind = "init"
  PROVE  Caller!SomeDirty <=> HasDirtyQubit(program.statements[builder_next])
<1>. DEFINE s == program.statements[builder_next]
<1>1. Is(s, "init")
  BY DEF AbstractStatement
<1>2. AbstractStatement(s).qubits \subseteq Qubit
  <2>1. Builder!Visiting("nongate", {"init"})
    <3>1. builder_phase = "building" /\ builder_next <= Len(program.statements)
      BY BuilderSteps, ProgramOfCall DEF CallInv
    <3>2. QED
      BY <1>1, <3>1 DEF Is, Builder!Visiting, Builder!Statement
  <2>2. QED
    BY <2>1, InitQubit
<1>3. Caller!StatementQubits = AbstractStatement(s).qubits
  BY ProgramOfCaller DEF Caller!StatementQubits
<1>4. /\ caller_qubit_register = AbstractRegister(AbstractProgram.qubits, dirty)
      /\ AbstractProgram.qubits = NumberOfQubits
  BY CallerAfter
<1>5. \A q \in Qubit : caller_qubit_register.dirty_bitset[q] <=> q \in dirty
  BY <1>4 DEF AbstractRegister, Qubit
<1>6. QED
  BY <1>2, <1>3, <1>5 DEF Caller!SomeDirty, HasDirtyQubit

LEMMA BuilderMaps ==
  ASSUME CallInv, BuildCircuit
  PROVE  Caller!SimulatorNext \/ UNCHANGED Caller!simulator_vars
<1>1. /\ bit_phase = "built" /\ Builder!Next
      /\ UNCHANGED <<program, qubit_vars, bit_vars, shot_vars>>
  BY DEF BuildCircuit
<1>2. UNCHANGED <<program, qubit_phase, bit_phase, phase, accumulator>>
  BY <1>1 DEF qubit_vars, bit_vars, shot_vars
<1>3. /\ builder_phase = "building"
      /\ \/ /\ builder_next \in 1..Len(program.statements)
            /\ LET s == program.statements[builder_next]
               IN  Operates(s) \/ Initializes(s) \/ IsRefused(s)
         \/ /\ builder_next > Len(program.statements)
            /\ builder_phase' = "built"
            /\ UNCHANGED <<instructions, dirty, builder_next>>
  BY <1>1, BuilderSteps
<1>4. /\ phase = "between" /\ accumulator.shots_done = 0
      /\ ~Ongoing(bit_phase) /\ qubit_phase = "built"
      /\ caller_qubit_register = AbstractRegister(AbstractProgram.qubits, dirty)
      /\ caller_bit_register = AbstractRegister(AbstractProgram.bits, {})
      /\ caller_program = AbstractProgram
  BY <1>1, <1>3, CallerAfter DEF CallInv, InOrder
<1>5. ~Answered /\ ~Failed
  BY <1>1, <1>3, <1>4 DEF Answered, Failed
<1>6. caller_phase = "building" /\ caller_calls = <<>>
  BY <1>3, <1>4, <1>5 DEF caller_phase, caller_calls
<1>7. /\ AbstractProgram' = AbstractProgram /\ AbstractRequest' = AbstractRequest
      /\ FirstNumber' = FirstNumber
  BY <1>2, SameProgram DEF FirstNumber
<1>8. /\ caller_qubit_register' = AbstractRegister(AbstractProgram.qubits, dirty')
      /\ caller_bit_register' = caller_bit_register
      /\ caller_program' = caller_program
      /\ bit_phase' = "built" /\ ~Ongoing(bit_phase')
  <2>1. bit_phase' = "built" /\ ~Ongoing(bit_phase')
    BY <1>1, <1>2 DEF Ongoing
  <2>2. /\ caller_qubit_register' = AbstractRegister(AbstractProgram.qubits, dirty)'
        /\ caller_bit_register' = AbstractRegister(AbstractProgram.bits, {})'
        /\ caller_program' = AbstractProgram'
    BY <2>1 DEF caller_qubit_register, caller_bit_register, caller_program
  <2>3. QED
    BY <1>4, <1>7, <2>1, <2>2 DEF AbstractRegister
<1>9. caller_generator' = caller_generator
  <2>1. /\ IsFiniteSet(Measures) /\ Cardinality(Measures) \in Nat
    <3>1. Measures = MeasuresIn(instructions)
      BY DEF CallInv, BuilderIsInProgram, IsList, Measures, MeasuresIn
    <3>2. QED
      BY <3>1, MeasuresAdded DEF CallInv, BuilderIsInProgram
  <2>2. IsFiniteSet(Measures') /\ Cardinality(Measures)' \in Nat
    <3>1. IsList(instructions')
      BY <1>3 DEF CallInv, BuilderIsInProgram, Operates, Initializes, IsRefused, IsList
    <3>2. Measures' = MeasuresIn(instructions')
      BY <3>1 DEF IsList, Measures, MeasuresIn
    <3>3. QED
      BY <3>1, <3>2, MeasuresAdded
  <2>3. 0 * Cardinality(Measures) = 0 /\ 0 * Cardinality(Measures)' = 0
    BY <2>1, <2>2
  <2>4. QED
    BY <1>2, <1>4, <2>3 DEF caller_generator, FirstNumber
<1>. DEFINE s == program.statements[builder_next]
<1>10. /\ AbstractRequest.program = AbstractProgram
       /\ Len(AbstractProgram.statements) = Len(program.statements)
       /\ builder_next \in 1..Len(program.statements) =>
            /\ AbstractProgram.statements[builder_next] = AbstractStatement(s)
            /\ builder_next <= Len(AbstractProgram.statements)
  BY ProgramOfCaller
<1>11. builder_phase' = "building" => caller_phase' = "building" /\ caller_calls' = caller_calls
  <2>. SUFFICES ASSUME builder_phase' = "building"
                PROVE  caller_phase' = "building" /\ caller_calls' = caller_calls
    OBVIOUS
  <2>1. ~Answered'
    BY <1>2, <1>4, <1>8 DEF Answered, Failed
  <2>2. QED
    BY <1>5, <1>8, <2>1 DEF caller_phase, caller_calls
<1>12. CASE builder_next \in 1..Len(program.statements) /\ Operates(s)
  <2>1. /\ AbstractStatement(s).kind = "operate"
        /\ Cardinality(Measures)' = Cardinality(Measures) + AbstractStatement(s).measures
        /\ dirty' = dirty \union AbstractStatement(s).qubits
        /\ builder_next' = builder_next + 1
        /\ builder_phase' = "building"
    BY <1>3, <1>12 DEF Operates
  <2>2. caller_qubit_register' = Caller!set_dirty(caller_qubit_register, AbstractStatement(s).qubits)
    BY <1>4, <1>8, <2>1, RegisterIsMarked
  <2>3. Caller!AddInstruction(AbstractStatement(s).qubits)
    BY <1>1, <1>8, <2>1, <2>2 DEF Caller!AddInstruction
  <2>4. Caller!StatementQubits = AbstractStatement(s).qubits
    BY <1>10, <1>12 DEF Caller!StatementQubits
  <2>5. Caller!Visiting("operate")
    BY <1>6, <1>10, <1>12, <2>1 DEF Caller!Visiting
  <2>. HIDE DEF s
  <2>6. Caller!Operate
    BY <1>2, <1>6, <1>7, <1>9, <1>10, <1>11, <1>12, <2>1, <2>3, <2>4, <2>5 DEF Caller!Operate
  <2>7. QED
    BY <2>6 DEF Caller!SimulatorNext
<1>13. CASE builder_next \in 1..Len(program.statements) /\ Initializes(s)
  <2>1. /\ AbstractStatement(s).kind = "init" /\ ~HasDirtyQubit(s)
        /\ builder_next' = builder_next + 1 /\ builder_phase' = "building"
        /\ UNCHANGED <<instructions, dirty>>
    BY <1>3, <1>13 DEF Initializes
  <2>2. ~Caller!SomeDirty
    BY <1>1, <1>3, <1>10, <1>13, <2>1, DirtyOfCaller
  <2>3. UNCHANGED Caller!vars
    BY <1>1, <1>4, <1>8, <2>1 DEF Caller!vars
  <2>4. Cardinality(Measures)' = Cardinality(Measures)
    BY <2>1 DEF Measures
  <2>5. Caller!Visiting("init")
    BY <1>6, <1>10, <1>13, <2>1 DEF Caller!Visiting
  <2>. HIDE DEF s
  <2>6. Caller!InitQubits
    BY <1>2, <1>6, <1>7, <1>9, <1>11, <2>1, <2>2, <2>3, <2>4, <2>5 DEF Caller!InitQubits
  <2>7. QED
    BY <2>6 DEF Caller!SimulatorNext
<1>14. CASE builder_next \in 1..Len(program.statements) /\ IsRefused(s)
  <2>1. /\ \/ AbstractStatement(s).kind = "unknown"
           \/ AbstractStatement(s).kind = "init" /\ HasDirtyQubit(s)
        /\ builder_phase' = "error" /\ UNCHANGED <<instructions, dirty, builder_next>>
    BY <1>14 DEF IsRefused
  <2>2. AbstractStatement(s).kind = "init" => Caller!SomeDirty
    BY <1>1, <1>3, <1>10, <1>14, <2>1, DirtyOfCaller
  <2>3. UNCHANGED Caller!vars
    BY <1>1, <1>4, <1>8, <2>1 DEF Caller!vars
  <2>4. Caller!Visiting("unknown") \/ (Caller!Visiting("init") /\ Caller!SomeDirty)
    BY <1>6, <1>10, <1>14, <2>1, <2>2 DEF Caller!Visiting
  <2>5. Failed'
    BY <2>1 DEF Failed
  <2>. HIDE DEF s
  <2>6. /\ caller_phase' = "idle"
        /\ caller_calls' = Append(caller_calls, [request |-> AbstractRequest, outcome |-> "error",
                                                 from |-> FirstNumber, to |-> caller_generator])
        /\ caller_generator' = caller_generator
        /\ AbstractRequest' = AbstractRequest /\ AbstractProgram' = AbstractProgram
        /\ Cardinality(Measures)' = Cardinality(Measures)
        /\ FirstNumber' = FirstNumber
    BY <1>2, <1>5, <2>1, <2>5, CallerFails
  <2>7. Caller!Return("error")
    BY <1>2, <2>1, <2>6 DEF Caller!Return
  <2>8. Caller!BuildingFails
    BY <2>3, <2>4, <2>7 DEF Caller!BuildingFails
  <2>9. QED
    BY <2>8 DEF Caller!SimulatorNext
<1>15. CASE /\ builder_next > Len(program.statements) /\ builder_phase' = "built"
            /\ UNCHANGED <<instructions, dirty, builder_next>>
  <2>1. ~Answered' /\ caller_phase' = "executing" /\ caller_calls' = caller_calls
    <3>1. ~Answered'
      BY <1>2, <1>4, <1>8, <1>15 DEF Answered, Failed
    <3>2. QED
      BY <1>5, <1>8, <1>15, <3>1 DEF caller_phase, caller_calls
  <2>2. UNCHANGED Caller!vars
    BY <1>1, <1>4, <1>8, <1>15 DEF Caller!vars
  <2>3. Cardinality(Measures)' = Cardinality(Measures)
    BY <1>15 DEF Measures
  <2>4. Caller!CircuitIsBuilt
    BY <1>2, <1>6, <1>7, <1>9, <1>10, <1>15, <2>1, <2>2, <2>3 DEF Caller!CircuitIsBuilt
  <2>5. QED
    BY <2>4 DEF Caller!SimulatorNext
<1>16. QED
  BY <1>3, <1>12, <1>13, <1>14, <1>15

LEMMA IterationsMap ==
  ASSUME CallInv, RunIterations
  PROVE  Caller!SimulatorNext \/ UNCHANGED Caller!simulator_vars
<1>1. /\ builder_phase = "built"
      /\ UNCHANGED <<program, qubit_vars, bit_vars, builder_vars>>
      /\ BetweenInstructions \/ ExecuteInstruction
  BY DEF RunIterations, Iterating
<1>2. UNCHANGED <<program, qubit_phase, bit_phase, builder_phase, builder_next, instructions, dirty>>
  BY <1>1 DEF qubit_vars, bit_vars, builder_vars
<1>3. bit_phase = "built" /\ bit_phase' = "built"
  BY <1>1, <1>2 DEF CallInv, InOrder
<1>4. /\ ~Ongoing(bit_phase) /\ qubit_phase = "built"
      /\ caller_qubit_register = AbstractRegister(AbstractProgram.qubits, dirty)
      /\ AbstractProgram.qubits = NumberOfQubits
  BY <1>3, CallerAfter
<1>5. ~Failed /\ ~Failed' /\ ~Ongoing(bit_phase')
  BY <1>1, <1>2, <1>3, <1>4 DEF Failed, Ongoing
<1>6. /\ AbstractProgram' = AbstractProgram /\ AbstractRequest' = AbstractRequest
      /\ FirstNumber' = FirstNumber /\ Cardinality(Measures)' = Cardinality(Measures)
  BY <1>2, SameProgram DEF FirstNumber, Measures
<1>7. UNCHANGED Caller!vars
  <2>1. caller_qubit_register' = caller_qubit_register
    BY <1>2, <1>6 DEF caller_qubit_register, AbstractRegister, Uninitialized
  <2>2. caller_bit_register' = caller_bit_register
    BY <1>2, <1>6 DEF caller_bit_register, AbstractRegister, Uninitialized
  <2>3. caller_program' = caller_program
    BY <1>2, <1>6 DEF caller_program, Uninitialized
  <2>4. QED
    BY <1>2, <2>1, <2>2, <2>3 DEF Caller!vars
<1>8. phase # "finished" /\ phase' # "finished" =>
        /\ ~Answered /\ ~Answered'
        /\ caller_phase = "executing" /\ caller_phase' = "executing"
        /\ caller_calls = <<>> /\ caller_calls' = <<>>
  <2>. SUFFICES ASSUME phase # "finished", phase' # "finished"
                PROVE  /\ ~Answered /\ ~Answered'
                       /\ caller_phase = "executing" /\ caller_phase' = "executing"
                       /\ caller_calls = <<>> /\ caller_calls' = <<>>
    OBVIOUS
  <2>1. ~Answered /\ ~Answered'
    BY <1>5 DEF Answered
  <2>2. QED
    BY <1>1, <1>2, <1>4, <1>5, <2>1 DEF caller_phase, caller_calls
<1>9. ASSUME accumulator'.shots_done = accumulator.shots_done,
             phase # "finished", phase' # "finished"
      PROVE  UNCHANGED Caller!simulator_vars
  <2>1. ~Answered /\ ~Answered'
    BY <1>8, <1>9
  <2>2. QED
    BY <1>2, <1>5, <1>9, <2>1, CallerIsUnchanged
<1>10. CASE StartIteration \/ Abort \/ ExecuteInstruction
  <2>1. accumulator' = accumulator /\ phase # "finished" /\ phase' # "finished"
    BY <1>10 DEF StartIteration, Abort, IterationEnds, ExecuteInstruction, AdvanceToNext
  <2>2. QED
    BY <1>9, <2>1
<1>11. CASE Accumulate
  <2>1. /\ accumulator'.shots_done = accumulator.shots_done + 1
        /\ phase = "executing" /\ phase' = "between"
    BY <1>11 DEF Accumulate, IterationEnds
  <2>2. /\ accumulator.shots_done \in Nat
        /\ accumulator.shots_done < AbstractRequest.iterations
    <3>1. shots_requested \in Nat /\ shots_requested = AbstractRequest.iterations
      BY ProgramOfCall, ProgramOfCaller DEF CallInv, ShotsAreRequested
    <3>2. QED
      BY <2>1, <3>1 DEF CallInv, ShotsAreRequested
  <2>3. Caller!Cardinality(DOMAIN caller_qubit_register.dirty_bitset) > 0
    <3>1. DOMAIN caller_qubit_register.dirty_bitset = 0..(NumberOfQubits - 1)
      BY <1>4 DEF AbstractRegister
    <3>2. Cardinality(0..(NumberOfQubits - 1)) = NumberOfQubits /\ NumberOfQubits > 0
      BY QubitsAssumption, FS_Interval
    <3>3. QED
      BY <3>1, <3>2 DEF Caller!Cardinality, Cardinality
  <2>4. caller_generator' = Caller!Advanced(Cardinality(Measures))
    <3>. DEFINE n == accumulator.shots_done
                m == Cardinality(Measures)
    <3>1. m \in Nat
      <4>1. Measures = MeasuresIn(instructions)
        BY DEF CallInv, BuilderIsInProgram, IsList, Measures, MeasuresIn
      <4>2. QED
        BY <4>1, MeasuresAdded DEF CallInv, BuilderIsInProgram
    <3>2. /\ caller_generator = [FirstNumber EXCEPT !.drawn = n * m]
          /\ caller_generator' = [FirstNumber EXCEPT !.drawn = (n + 1) * m]
      BY <1>6, <2>1 DEF caller_generator
    <3>. HIDE DEF n, m
    <3>3. (n + 1) * m = n * m + m
      BY <2>2, <3>1 DEF n
    <3>4. Caller!Advanced(m) = [caller_generator EXCEPT !.drawn = @ + m]
      BY DEF Caller!Advanced
    <3>5. QED
      BY <3>2, <3>3, <3>4 DEF FirstNumber, m
  <2>5. Caller!Shot
    BY <1>2, <1>6, <1>7, <1>8, <2>1, <2>2, <2>3, <2>4 DEF Caller!Shot, Caller!MoreShots
  <2>6. QED
    BY <2>5 DEF Caller!SimulatorNext
<1>12. CASE GetSimulationResult
  <2>1. /\ accumulator'.shots_done = accumulator.shots_done
        /\ accumulator.shots_done = shots_requested
        /\ phase = "between" /\ phase' = "finished"
    <3>1. accumulator' = [accumulator EXCEPT !.state = clean_up_zeros(accumulator.state)]
      BY <1>12 DEF GetSimulationResult
    <3>2. QED
      BY <1>12, <3>1 DEF GetSimulationResult
  <2>2. shots_requested = AbstractRequest.iterations
    BY ProgramOfCaller DEF CallInv, ShotsAreRequested
  <2>3. ~Answered /\ Answered'
    BY <1>5, <2>1 DEF Answered
  <2>4. caller_phase = "executing" /\ caller_phase' = "idle" /\ caller_calls = <<>>
    BY <1>1, <1>4, <2>3 DEF caller_phase, caller_calls
  <2>5. caller_generator' = caller_generator
    BY <1>6, <2>1 DEF caller_generator
  <2>6. caller_calls' = << [request |-> AbstractRequest, outcome |-> "result",
                            from |-> FirstNumber, to |-> caller_generator] >>
    BY <1>5, <1>6, <2>3, <2>5 DEF caller_calls
  <2>7. Caller!Return("result")
    BY <1>2, <1>6, <2>1, <2>4, <2>5, <2>6 DEF Caller!Return
  <2>8. Caller!GetSimulationResult
    BY <1>7, <2>1, <2>2, <2>4, <2>7 DEF Caller!GetSimulationResult
  <2>9. QED
    BY <2>8 DEF Caller!SimulatorNext
<1>13. QED
  BY <1>1, <1>10, <1>11, <1>12 DEF BetweenInstructions

\* A call, with the loops of its registers, its builder and its shots, is one call of
\* Simulator, for any program whose registers are of these sizes or too large: the registers
\* become visible together, each statement marks the qubits that it is about, each measure of
\* each shot draws a number, and an error ends it where Simulator says so.
THEOREM ImplementsSimulatorCorrect == ExecutionSpec => ImplementsSimulator
<1>1. CallInv /\ [ExecutionNext]_execution_vars => [Caller!SimulatorNext]_(Caller!simulator_vars)
  <2>. SUFFICES ASSUME CallInv, [ExecutionNext]_execution_vars
                PROVE  Caller!SimulatorNext \/ UNCHANGED Caller!simulator_vars
    OBVIOUS
  <2>1. CASE UNCHANGED execution_vars
    <3>1. UNCHANGED <<program, qubit_vars, bit_vars, builder_vars, shot_vars>>
      BY <2>1 DEF execution_vars
    <3>2. UNCHANGED <<program, qubit_phase, bit_phase, builder_phase, builder_next, instructions,
                      dirty, phase, accumulator>>
      BY <3>1 DEF qubit_vars, bit_vars, builder_vars, shot_vars
    <3>3. Failed' <=> Failed
      BY <3>2 DEF Failed
    <3>4. (Answered' <=> Answered) /\ (Ongoing(bit_phase)' <=> Ongoing(bit_phase))
      BY <3>2, <3>3 DEF Answered, Ongoing
    <3>5. QED
      BY <3>2, <3>3, <3>4, CallerIsUnchanged
  <2>2. QED
    BY <2>1, QubitRegisterMaps, BitRegisterMaps, BuilderMaps, IterationsMap
       DEF ExecutionNext, Stopped
<1>2. QED
  BY <1>1, CallInvCorrect, PTL DEF ExecutionSpec, ImplementsSimulator

-----------------------------------------------------------------------------
(* The request of a call is one that Simulator assumes.                    *)

LEMMA SumsIncrease ==
  ASSUME NEW list, NEW n \in Nat, \A i \in 1..n : list[i].size \in Nat
  PROVE  \A k \in 0..n : /\ SumFunction(Sizes(list, k)) \in Nat
                         /\ SumFunction(Sizes(list, k)) <= SumFunction(Sizes(list, n))
<1>. DEFINE Sum(k) == SumFunction(Sizes(list, k))
            Good == {m \in Nat : m <= n => \A k \in 0..m : Sum(k) \in Nat /\ Sum(k) <= Sum(m)}
<1>1. \A i \in 1..n : Sum(i - 1) \in Int /\ Sum(i) = Sum(i - 1) + list[i].size
  <2>1. SUFFICES ASSUME NEW i \in 1..n
                 PROVE  Sum(i - 1) \in Int /\ Sum(i) = Sum(i - 1) + list[i].size
    OBVIOUS
  <2>. DEFINE k == i - 1
  <2>2. k \in Nat /\ k + 1 = i /\ \A j \in 1..(k + 1) : list[j].size \in Nat
    OBVIOUS
  <2>. HIDE DEF k
  <2>3. /\ SumFunction(Sizes(list, k)) \in Int
        /\ SumFunction(Sizes(list, k + 1)) = SumFunction(Sizes(list, k)) + list[k + 1].size
    BY <2>2, SumOfSizes
  <2>4. QED
    BY <2>2, <2>3 DEF k
<1>2. Sum(0) = 0
  <2>. DEFINE h == Sizes(list, 0)
  <2>1. DOMAIN h = {} /\ ValuesIn(h, {}, Int) /\ IsFiniteSet({})
    BY FS_EmptySet DEF Sizes, ValuesIn
  <2>. HIDE DEF h
  <2>2. SumFunctionOnSet(h, {}) = 0
    BY <2>1, IntegerSums
  <2>3. SumFunction(h) = 0
    BY <2>1, <2>2 DEF SumFunction
  <2>4. QED
    BY <2>3 DEF h
<1>. HIDE DEF Sum
<1>3. 0 \in Good
  BY <1>2
<1>4. ASSUME NEW m \in Good
      PROVE  m + 1 \in Good
  <2>. SUFFICES ASSUME m + 1 <= n, NEW k \in 0..(m + 1)
                PROVE  Sum(k) \in Nat /\ Sum(k) <= Sum(m + 1)
    OBVIOUS
  <2>1. m \in Nat /\ m \in 0..m /\ m + 1 \in 1..n /\ (m + 1) - 1 = m /\ list[m + 1].size \in Nat
    OBVIOUS
  <2>2. \A j \in 0..m : Sum(j) \in Nat /\ Sum(j) <= Sum(m)
    BY <2>1
  <2>3. Sum(m + 1) = Sum(m) + list[m + 1].size
    BY <1>1, <2>1
  <2>4. Sum(m) \in Nat
    BY <2>1, <2>2
  <2>5. CASE k = m + 1
    BY <2>1, <2>3, <2>4, <2>5
  <2>6. CASE k # m + 1
    <3>1. k \in 0..m
      BY <2>1, <2>6
    <3>2. Sum(k) \in Nat /\ Sum(k) <= Sum(m)
      BY <2>2, <3>1
    <3>3. QED
      BY <2>1, <2>3, <2>4, <3>2
  <2>7. QED
    BY <2>5, <2>6
<1>5. Good \in SUBSET Nat
  OBVIOUS
<1>. HIDE DEF Good
<1>6. Good = Nat
  BY <1>3, <1>4, <1>5, Induction
<1>7. n \in Good
  BY <1>6
<1>8. QED
  BY <1>7 DEF Good, Sum

\* The range of a variable, by its position among the variables of its kind.
LEMMA PositionOfVariable ==
  ASSUME program \in AnalyzedPrograms, NEW v \in DOMAIN Declared(program.variables)
  PROVE  LET d    == Declared(program.variables)[v]
             list == OfKind(program.variables, d.kind)
         IN  /\ Len(list) \in Nat
             /\ \A i \in 1..Len(list) : list[i].size \in Nat
             /\ TotalSize(program.variables, d.kind) = SumFunction(Sizes(list, Len(list)))
             /\ \E k \in 1..Len(list) :
                  /\ list[k].name = v
                  /\ FirstIndex(d) = SumFunction(Sizes(list, k - 1))
                  /\ FirstIndex(d) + d.size = SumFunction(Sizes(list, k))
<1>. DEFINE d    == Declared(program.variables)[v]
            list == OfKind(program.variables, d.kind)
            n    == Len(list)
<1>1. /\ d \in DeclaredVariable /\ d.name = v
      /\ \E k \in 1..n : list[k] = Told(d)
  BY VariableOfProgram
<1>2. d.kind \in {"qubit", "bit"} /\ d.size \in Nat
  BY <1>1 DEF DeclaredVariable
<1>3. list \in Seq(ToldVariable) /\ HasDistinctNames(list)
  BY <1>2, ProgramOfCall DEF ToldLists
<1>4. n \in Nat /\ DOMAIN list = 1..n /\ \A i \in 1..n : list[i].size \in Nat
  <2>1. n \in Nat /\ DOMAIN list = 1..n /\ \A i \in 1..n : list[i] \in ToldVariable
    BY <1>3
  <2>. HIDE DEF n, list
  <2>2. QED
    BY <2>1 DEF ToldVariable
<1>5. PICK k \in 1..n : list[k] = Told(d)
  BY <1>1
<1>6. list[k].name = v /\ list[k].size = d.size
  BY <1>1, <1>5 DEF Told
<1>7. FirstIndex(d) = SumFunction(Sizes(list, k - 1))
  <2>1. (CHOOSE i \in DOMAIN list : list[i].name = d.name) = k
    BY <1>1, <1>3, <1>4, <1>6 DEF HasDistinctNames
  <2>2. QED
    BY <2>1 DEF FirstIndex, Sizes
<1>8. TotalSize(program.variables, d.kind) = SumFunction(Sizes(list, n))
  BY <1>4 DEF TotalSize, Sizes
<1>. HIDE DEF list, n, d
<1>9. SumFunction(Sizes(list, k)) = SumFunction(Sizes(list, k - 1)) + list[k].size
  <2>. DEFINE l == k - 1
  <2>1. l \in Nat /\ l + 1 = k /\ \A i \in 1..(l + 1) : list[i].size \in Nat
    BY <1>4
  <2>. HIDE DEF l
  <2>2. SumFunction(Sizes(list, l + 1)) = SumFunction(Sizes(list, l)) + list[l + 1].size
    BY <2>1, SumOfSizes
  <2>3. QED
    BY <2>1, <2>2 DEF l
<1>10. FirstIndex(d) + d.size = SumFunction(Sizes(list, k))
  BY <1>6, <1>7, <1>9
<1>11. QED
  BY <1>4, <1>6, <1>7, <1>8, <1>10 DEF d, list, n

\* A variable lies in the register of its kind, whether that register fits or not.
LEMMA IndicesOfVariable ==
  ASSUME program \in AnalyzedPrograms, NEW v \in DOMAIN Declared(program.variables)
  PROVE  LET d == Declared(program.variables)[v]
         IN  /\ FirstIndex(d) \in Nat
             /\ TotalSize(program.variables, d.kind) \in Nat
             /\ FirstIndex(d) + d.size <= TotalSize(program.variables, d.kind)
<1>. DEFINE d    == Declared(program.variables)[v]
            list == OfKind(program.variables, d.kind)
            n    == Len(list)
<1>1. /\ n \in Nat /\ \A i \in 1..n : list[i].size \in Nat
      /\ TotalSize(program.variables, d.kind) = SumFunction(Sizes(list, n))
      /\ \E k \in 1..n : /\ FirstIndex(d) = SumFunction(Sizes(list, k - 1))
                         /\ FirstIndex(d) + d.size = SumFunction(Sizes(list, k))
  BY PositionOfVariable
<1>. HIDE DEF list, n, d
<1>2. \A i \in 0..n : /\ SumFunction(Sizes(list, i)) \in Nat
                      /\ SumFunction(Sizes(list, i)) <= SumFunction(Sizes(list, n))
  BY <1>1, SumsIncrease
<1>3. PICK k \in 1..n : /\ FirstIndex(d) = SumFunction(Sizes(list, k - 1))
                        /\ FirstIndex(d) + d.size = SumFunction(Sizes(list, k))
  BY <1>1
<1>4. n \in 0..n /\ k \in 0..n /\ k - 1 \in 0..n
  BY <1>1
<1>5. /\ FirstIndex(d) \in Nat
      /\ TotalSize(program.variables, d.kind) \in Nat
      /\ FirstIndex(d) + d.size <= TotalSize(program.variables, d.kind)
  BY <1>1, <1>2, <1>3, <1>4
<1>6. QED
  BY <1>5 DEF d

LEMMA IndicesOfOperand ==
  ASSUME program \in AnalyzedPrograms, NEW n \in 1..Len(program.statements),
         NEW o \in DOMAIN program.statements[n].operands
  PROVE  LET s       == program.statements[n]
             operand == s.operands[o]
             kind    == IF s.name = "measure" /\ o = 1 THEN "bit" ELSE "qubit"
         IN  /\ NumberOfElements(operand) \in Nat
             /\ IndicesOf(operand) \subseteq 0..(TotalSize(program.variables, kind) - 1)
<1>. DEFINE s       == program.statements[n]
            D       == Declared(program.variables)
            operand == s.operands[o]
            d       == D[operand.variable]
            kind    == IF s.name = "measure" /\ o = 1 THEN "bit" ELSE "qubit"
            total   == TotalSize(program.variables, kind)
            elements == IF operand.ref = "variable" THEN [j \in 1..d.size |-> j - 1]
                        ELSE operand.indices
<1>1. Builder!IsResolved(D, s) /\ operand \in Builder!Operand
  BY StatementOfProgram
<1>2. /\ operand.variable \in DOMAIN D /\ d.kind = kind
      /\ \A j \in DOMAIN elements : elements[j] < d.size
  <2>. HIDE DEF s, D
  <2>1. QED
    BY <1>1 DEF Builder!IsResolved, Builder!Elements, s
<1>3. d \in DeclaredVariable
  BY <1>2, VariableOfProgram
<1>4. d.size \in Nat
  BY <1>3 DEF DeclaredVariable
<1>5. FirstIndex(d) \in Nat /\ total \in Nat /\ FirstIndex(d) + d.size <= total
  <2>1. /\ FirstIndex(d) \in Nat
        /\ TotalSize(program.variables, d.kind) \in Nat
        /\ FirstIndex(d) + d.size <= TotalSize(program.variables, d.kind)
    BY <1>2, IndicesOfVariable
  <2>2. QED
    BY <1>2, <2>1
<1>6. VariableOf(operand) = d
  BY DEF VariableOf
<1>7. NumberOfElements(operand) \in Nat /\ IndicesOf(operand) \subseteq 0..(total - 1)
  <2>1. CASE operand.ref = "variable"
    <3>1. /\ IndicesOf(operand) = {FirstIndex(d) + j : j \in 0..(d.size - 1)}
          /\ NumberOfElements(operand) = d.size
      BY <1>6, <2>1 DEF IndicesOf, NumberOfElements
    <3>. HIDE DEF d, total, operand
    <3>2. QED
      BY <1>4, <1>5, <3>1
  <2>2. CASE operand.ref # "variable"
    <3>1. operand.indices \in Seq(Nat)
      BY <1>1, <2>2 DEF Builder!Operand
    <3>2. /\ Len(operand.indices) \in Nat
          /\ \A j \in DOMAIN operand.indices : operand.indices[j] \in 0..(d.size - 1)
      <4>1. \A j \in DOMAIN operand.indices : operand.indices[j] < d.size
        BY <1>2, <2>2
      <4>. HIDE DEF d, operand
      <4>2. QED
        BY <1>4, <3>1, <4>1
    <3>3. /\ IndicesOf(operand) = {FirstIndex(d) + j : j \in ToSet(operand.indices)}
          /\ NumberOfElements(operand) = Len(operand.indices)
      BY <1>6, <2>2 DEF IndicesOf, NumberOfElements
    <3>4. \A i \in ToSet(operand.indices) : i \in 0..(d.size - 1)
      <4>. HIDE DEF d, operand
      <4>1. QED
        BY <3>2 DEF ToSet
    <3>. HIDE DEF d, total, operand
    <3>5. QED
      BY <1>4, <1>5, <3>2, <3>3, <3>4
  <2>3. QED
    BY <2>1, <2>2
<1>8. QED
  BY <1>7

LEMMA RequestOfCall ==
  ASSUME program \in AnalyzedPrograms
  PROVE  Caller!IsRequest(AbstractRequest)
<1>. DEFINE statements == AbstractProgram.statements
            size       == TotalSize(program.variables, "qubit")
<1>1. /\ program.iterations \in Nat
      /\ Len(program.statements) \in Nat
      /\ DOMAIN program.statements = 1..Len(program.statements)
  BY ProgramOfCall
<1>2. statements = [k \in 1..Len(program.statements) |-> AbstractStatement(program.statements[k])]
  BY <1>1 DEF AbstractProgram
<1>3. ASSUME NEW k \in 1..Len(program.statements)
      PROVE  LET a == AbstractStatement(program.statements[k])
             IN  /\ a \in Caller!Statement
                 /\ a.qubits \subseteq 0..(size - 1)
                 /\ a.kind # "operate" => a.measures = 0
  <2>. DEFINE s == program.statements[k]
              a == AbstractStatement(s)
  <2>1. /\ Builder!IsResolved(Declared(program.variables), s)
        /\ DOMAIN s.operands = 1..Len(s.operands) /\ 1 \in DOMAIN s.operands
    BY StatementOfProgram
  <2>2. ASSUME NEW o \in DOMAIN s.operands, ~(s.name = "measure" /\ o = 1)
        PROVE  IndicesOf(s.operands[o]) \subseteq 0..(size - 1)
    BY <2>2, IndicesOfOperand
  <2>3. NumberOfElements(s.operands[1]) \in Nat
    BY <2>1, IndicesOfOperand
  <2>4. a.kind \in {"operate", "init", "unknown"} /\ a.measures \in Nat
    BY <2>3 DEF AbstractStatement
  <2>5. a.kind # "operate" => a.measures = 0
    BY DEF AbstractStatement, IsUnknown, Is
  <2>6. a.qubits \subseteq 0..(size - 1)
    <3>1. CASE IsUnknown(s)
      BY <3>1 DEF AbstractStatement
    <3>2. CASE ~IsUnknown(s)
      <4>1. a.qubits = UNION {IndicesOf(x) : x \in QubitOperands(s)}
        BY <3>2 DEF AbstractStatement
      <4>2. ASSUME NEW x \in QubitOperands(s)
            PROVE  IndicesOf(x) \subseteq 0..(size - 1)
        <5>1. PICK o \in DOMAIN s.operands : x = s.operands[o] /\ (Is(s, "measure") => o = 2)
          BY DEF QubitOperands
        <5>2. CASE s.kind = "nongate"
          BY <2>2, <5>1, <5>2 DEF Is
        <5>3. CASE s.kind # "nongate"
          <6>1. s.kind = "gate" /\ s.name \in Builder!GateNames
            BY <3>2, <5>3, StatementOfProgram DEF Builder!AnyStatement, IsUnknown
          <6>2. s.name # "measure"
            BY <6>1 DEF Builder!GateNames, Builder!fixed_gates
          <6>3. QED
            BY <2>2, <5>1, <6>2
        <5>4. QED
          BY <5>2, <5>3
      <4>. HIDE DEF s, a, size
      <4>3. QED
        BY <4>1, <4>2
    <3>3. QED
      BY <3>1, <3>2
  <2>7. a = [kind |-> a.kind, qubits |-> a.qubits, measures |-> a.measures]
    BY DEF AbstractStatement
  <2>. HIDE DEF a, size
  <2>8. a.qubits \in SUBSET Nat
    BY <2>6
  <2>9. a \in Caller!Statement
    BY <2>4, <2>7, <2>8 DEF Caller!Statement
  <2>10. QED
    BY <2>5, <2>6, <2>9 DEF a
<1>. HIDE DEF statements
<1>4. \A k \in 1..Len(program.statements) : statements[k] = AbstractStatement(program.statements[k])
  BY <1>2
<1>5. statements \in Seq(Caller!Statement) /\ DOMAIN statements = 1..Len(program.statements)
  BY <1>1, <1>2, <1>3
<1>6. AbstractRequest.program.statements = statements /\ AbstractRequest.program.qubits = size
  BY DEF AbstractRequest, AbstractProgram, statements
<1>. HIDE DEF size
<1>7. \A k \in DOMAIN statements :
        /\ statements[k].qubits \subseteq 0..(size - 1)
        /\ statements[k].kind # "operate" => statements[k].measures = 0
  BY <1>3, <1>4, <1>5
<1>8. /\ AbstractRequest.analysis \in Caller!Analyses
      /\ AbstractRequest.iterations \in Nat
      /\ AbstractRequest.seed # Caller!DeviceSeed
  BY <1>1 DEF AbstractRequest, Caller!Analyses, Caller!DeviceSeed
<1>9. QED
  BY <1>5, <1>6, <1>7, <1>8 DEF Caller!IsRequest

\* What Simulator assumes of the requests of a process holds of every program that the
\* analyzer returns: no statement is about a qubit outside of its register.
THEOREM RequestOfCallCorrect == ExecutionSpec => []Caller!IsRequest(AbstractRequest)
BY CallInvCorrect, RequestOfCall, PTL DEF CallInv

-----------------------------------------------------------------------------
(* The builder of a call, an instance of CircuitBuilderProofs.             *)

\* What the builder may be given, whichever registers there are.
LaidOutPrograms ==
  { p \in [variables  : UNION {[N -> Builder!Variable] : N \in SUBSET STRING},
           statements : Seq(Builder!AnyStatement)] :
      /\ Builder!VariablesAreLaidOut(p.variables)
      /\ \A k \in DOMAIN p.statements :
           /\ Builder!IsResolved(p.variables, p.statements[k])
           /\ p.statements[k].name = "CRk" => p.statements[k].parameter <= 3 }

BP == INSTANCE CircuitBuilderProofs
        WITH Programs <- LaidOutPrograms,
             program <- [variables |-> Ranges, statements |-> program.statements],
             next <- builder_next, phase <- builder_phase

LEMMA StatementsOfBuilder ==
  /\ BP!AnyStatement = Builder!AnyStatement
  /\ BP!Operand = Builder!Operand
  /\ BP!GateNames = Builder!GateNames
  /\ BP!Variable = Builder!Variable
BY DEF BP!AnyStatement, BP!Operand, BP!Modifier, BP!GateNames, BP!fixed_gates, BP!Variable,
       Builder!AnyStatement, Builder!Operand, Builder!Modifier, Builder!GateNames,
       Builder!fixed_gates, Builder!Variable

LEMMA ResolvedOfBuilder ==
  ASSUME NEW variables, NEW s
  PROVE  /\ BP!VariablesAreLaidOut(variables) <=> Builder!VariablesAreLaidOut(variables)
         /\ BP!IsResolved(variables, s) <=> Builder!IsResolved(variables, s)
<1>1. BP!VariablesAreLaidOut(variables) <=> Builder!VariablesAreLaidOut(variables)
  BY StatementsOfBuilder
     DEF BP!VariablesAreLaidOut, BP!IndicesOf, Builder!VariablesAreLaidOut, Builder!IndicesOf
<1>2. BP!IsResolved(variables, s) <=> Builder!IsResolved(variables, s)
  BY Zenon
     DEF BP!AnyStatement, Builder!AnyStatement, BP!Operand, Builder!Operand, BP!Modifier,
         Builder!Modifier, BP!GateNames, Builder!GateNames, BP!fixed_gates,
         Builder!fixed_gates, BP!NumberOfOperands, Builder!NumberOfOperands, BP!Controls,
         Builder!Controls, BP!Cardinality, Builder!Cardinality, BP!Elements,
         Builder!Elements, BP!IsResolved, Builder!IsResolved
<1>3. QED
  BY <1>1, <1>2

LEMMA AssumptionsOfBuilder ==
  /\ Scale \in Nat
  /\ \A p \in LaidOutPrograms :
       /\ BP!VariablesAreLaidOut(p.variables)
       /\ p.statements \in Seq(BP!AnyStatement)
       /\ \A k \in DOMAIN p.statements : BP!IsResolved(p.variables, p.statements[k])
  /\ \A p \in LaidOutPrograms : \A k \in DOMAIN p.statements :
       p.statements[k].name = "CRk" => p.statements[k].parameter <= 3
BY ScaleAssumption, StatementsOfBuilder, ResolvedOfBuilder DEF LaidOutPrograms

LEMMA BuilderOfCallInit ==
  ASSUME BP!Init
  PROVE  BP!Inv
BY BP!InvInit, AssumptionsOfBuilder

LEMMA BuilderOfCallStep ==
  ASSUME BP!Inv, BP!Next
  PROVE  BP!Inv'
BY BP!InvStep, AssumptionsOfBuilder

LEMMA BuilderNext == Builder!Next <=> BP!Next
<1>1. \A added : BP!AddInstructions(added) <=> Builder!AddInstructions(added)
  BY Zenon
     DEF BP!AddInstructions, Builder!AddInstructions, BP!Marked, Builder!Marked,
         BP!get_qubit_indices, Builder!get_qubit_indices, BP!ToSet, Builder!ToSet
<1>2. BP!Indices = Builder!Indices /\ BP!Statement = Builder!Statement
  BY Zenon
     DEF BP!Indices, Builder!Indices, BP!get_instructions_indices,
         Builder!get_instructions_indices, BP!to_instructions_indices,
         Builder!to_instructions_indices, BP!get_sgmq_group_indices,
         Builder!get_sgmq_group_indices, BP!Statement, Builder!Statement, BP!Variables,
         Builder!Variables
<1>3. BP!GateNames = Builder!GateNames
  BY StatementsOfBuilder
<1>4. \A kind, names : BP!Visiting(kind, names) <=> Builder!Visiting(kind, names)
  BY <1>2, Zenon DEF BP!Visiting, Builder!Visiting
<1>5. BP!ThrowCircuitBuilderError <=> Builder!ThrowCircuitBuilderError
  BY Zenon DEF BP!ThrowCircuitBuilderError, Builder!ThrowCircuitBuilderError
<1>6. BP!GateInstruction <=> Builder!GateInstruction
  BY <1>1, <1>2, <1>3, <1>4, Zenon
     DEF BP!GateInstruction, Builder!GateInstruction, BP!ApplyGate, Builder!ApplyGate,
         BP!GateOf, Builder!GateOf
<1>7. BP!MeasureInstruction <=> Builder!MeasureInstruction
  BY <1>1, <1>2, <1>4, Zenon
     DEF BP!MeasureInstruction, Builder!MeasureInstruction, BP!MeasureInto,
         Builder!MeasureInto
<1>8. BP!ResetInstruction <=> Builder!ResetInstruction
  BY <1>1, <1>2, <1>4, Zenon
     DEF BP!ResetInstruction, Builder!ResetInstruction, BP!ResetQubit, Builder!ResetQubit
<1>9. /\ BP!InitInstruction <=> Builder!InitInstruction
      /\ BP!InitOfDirtyQubit <=> Builder!InitOfDirtyQubit
  BY <1>1, <1>2, <1>4, <1>5, Zenon
     DEF BP!InitInstruction, Builder!InitInstruction, BP!InitOfDirtyQubit,
         Builder!InitOfDirtyQubit, BP!SomeAreDirty, Builder!SomeAreDirty
<1>10. /\ BP!BarrierInstruction <=> Builder!BarrierInstruction
       /\ BP!WaitInstruction <=> Builder!WaitInstruction
       /\ BP!NegativeWait <=> Builder!NegativeWait
  BY <1>1, <1>2, <1>4, <1>5, Zenon
     DEF BP!BarrierInstruction, Builder!BarrierInstruction, BP!WaitInstruction,
         Builder!WaitInstruction, BP!NegativeWait, Builder!NegativeWait
<1>11. /\ BP!UnknownGate <=> Builder!UnknownGate
       /\ BP!UnsupportedInstruction <=> Builder!UnsupportedInstruction
       /\ BP!Built <=> Builder!Built
  BY <1>2, <1>3, <1>5, Zenon
     DEF BP!UnknownGate, Builder!UnknownGate, BP!UnsupportedInstruction,
         Builder!UnsupportedInstruction, BP!Built, Builder!Built
<1>12. QED
  BY <1>6, <1>7, <1>8, <1>9, <1>10, <1>11, Zenon DEF BP!Next, Builder!Next

LEMMA BuilderTells ==
  /\ BP!InstructionsAreTheProgram <=> Builder!InstructionsAreTheProgram
  /\ BP!InitsComeFirst <=> Builder!InitsComeFirst
<1>1. BP!InstructionsAreTheProgram <=> Builder!InstructionsAreTheProgram
  BY Zenon
     DEF BP!InstructionsAreTheProgram, Builder!InstructionsAreTheProgram, BP!Written,
         Builder!Written, BP!NameOf, Builder!NameOf, BP!IndicesOf, Builder!IndicesOf,
         BP!Unrolled, Builder!Unrolled, BP!Elements, Builder!Elements, BP!Variables,
         Builder!Variables, BP!FlattenSeq, Builder!FlattenSeq
<1>2. BP!InitsComeFirst <=> Builder!InitsComeFirst
  BY Zenon
     DEF BP!InitsComeFirst, Builder!InitsComeFirst, BP!Inits, Builder!Inits, BP!Initialized,
         Builder!Initialized, BP!Acting, Builder!Acting, BP!get_qubit_indices,
         Builder!get_qubit_indices, BP!ToSet, Builder!ToSet, BP!Indices, Builder!Indices,
         BP!get_instructions_indices, Builder!get_instructions_indices,
         BP!to_instructions_indices, Builder!to_instructions_indices,
         BP!get_sgmq_group_indices, Builder!get_sgmq_group_indices, BP!Variables,
         Builder!Variables
<1>3. QED
  BY <1>1, <1>2

-----------------------------------------------------------------------------
(* What the registers tell the builder is what it may be given.            *)

\* Two variables of a kind are apart.
LEMMA VariablesAreApart ==
  ASSUME program \in AnalyzedPrograms,
         NEW v \in DOMAIN Declared(program.variables), NEW w \in DOMAIN Declared(program.variables),
         v # w, Declared(program.variables)[v].kind = Declared(program.variables)[w].kind
  PROVE  LET d == Declared(program.variables)[v]
             e == Declared(program.variables)[w]
         IN  \/ FirstIndex(d) + d.size <= FirstIndex(e)
             \/ FirstIndex(e) + e.size <= FirstIndex(d)
<1>. DEFINE d    == Declared(program.variables)[v]
            e    == Declared(program.variables)[w]
            list == OfKind(program.variables, d.kind)
            n    == Len(list)
            Sum(k) == SumFunction(Sizes(list, k))
<1>1. /\ n \in Nat /\ \A i \in 1..n : list[i].size \in Nat
      /\ \E k \in 1..n : /\ list[k].name = v /\ FirstIndex(d) = Sum(k - 1)
                         /\ FirstIndex(d) + d.size = Sum(k)
  BY PositionOfVariable
<1>2. \E l \in 1..n : /\ list[l].name = w /\ FirstIndex(e) = Sum(l - 1)
                      /\ FirstIndex(e) + e.size = Sum(l)
  BY PositionOfVariable
<1>. HIDE DEF list, n, d, e
<1>3. ASSUME NEW m \in 0..n, NEW i \in 0..m
      PROVE  Sum(i) <= Sum(m)
  <2>1. m \in Nat /\ \A j \in 1..m : list[j].size \in Nat
    BY <1>1
  <2>2. \A k \in 0..m : Sum(k) \in Nat /\ Sum(k) <= Sum(m)
    BY <2>1, SumsIncrease
  <2>3. QED
    BY <2>2
<1>. HIDE DEF Sum
<1>4. PICK k \in 1..n : list[k].name = v /\ FirstIndex(d) = Sum(k - 1) /\ FirstIndex(d) + d.size = Sum(k)
  BY <1>1
<1>5. PICK l \in 1..n : list[l].name = w /\ FirstIndex(e) = Sum(l - 1) /\ FirstIndex(e) + e.size = Sum(l)
  BY <1>2
<1>6. CASE k < l
  <2>1. l - 1 \in 0..n /\ k \in 0..(l - 1)
    BY <1>1, <1>6
  <2>2. Sum(k) <= Sum(l - 1)
    BY <1>3, <2>1
  <2>3. QED
    BY <1>4, <1>5, <2>2 DEF d, e
<1>7. CASE l < k
  <2>1. k - 1 \in 0..n /\ l \in 0..(k - 1)
    BY <1>1, <1>7
  <2>2. Sum(l) <= Sum(k - 1)
    BY <1>3, <2>1
  <2>3. QED
    BY <1>4, <1>5, <2>2 DEF d, e
<1>8. k # l
  BY <1>4, <1>5
<1>9. QED
  BY <1>1, <1>6, <1>7, <1>8

\* The ranges are those of the variables of the program.
LEMMA NamesOfRanges ==
  ASSUME CallInv, bit_phase = "built"
  PROVE  DOMAIN Ranges = DOMAIN Declared(program.variables)
<1>. DEFINE vs == program.variables
<1>1. \A v \in DOMAIN Declared(vs) : v \in DOMAIN Ranges
  BY RangeOfVariable
<1>2. vs \in Seq(DeclaredVariable) /\ HasDistinctNames(vs) /\ DOMAIN vs = 1..Len(vs)
  <2>1. vs \in Seq(DeclaredVariable) /\ HasDistinctNames(vs)
    BY ProgramOfCall DEF CallInv
  <2>2. QED
    BY <2>1
<1>3. ASSUME NEW kind, NEW k \in 1..Len(OfKind(vs, kind))
      PROVE  OfKind(vs, kind)[k].name \in DOMAIN Declared(vs)
  <2>1. IsFiltered(OfKind(vs, kind), vs, kind, Len(vs))
    BY <1>2, OfKindIsFiltered
  <2>2. PICK j \in 1..Len(vs) : OfKind(vs, kind)[k] = Told(vs[j])
    BY <2>1 DEF IsFiltered
  <2>3. OfKind(vs, kind)[k].name = vs[j].name
    BY <2>2 DEF Told
  <2>4. QED
    BY <1>2, <2>3 DEF Declared
<1>4. /\ DOMAIN qubit_ranges = {OfKind(vs, "qubit")[k].name : k \in 1..Len(OfKind(vs, "qubit"))}
      /\ DOMAIN bit_ranges = {OfKind(vs, "bit")[k].name : k \in 1..Len(OfKind(vs, "bit"))}
  BY RegistersAreLaidOut DEF AreRangesOf
<1>5. DOMAIN Ranges = DOMAIN qubit_ranges \union DOMAIN bit_ranges
  BY DEF Ranges
<1>. DEFINE qs == OfKind(vs, "qubit")
            bs == OfKind(vs, "bit")
<1>6. /\ \A k \in 1..Len(qs) : qs[k].name \in DOMAIN Declared(vs)
      /\ \A k \in 1..Len(bs) : bs[k].name \in DOMAIN Declared(vs)
  BY <1>3
<1>7. /\ DOMAIN qubit_ranges = {qs[k].name : k \in 1..Len(qs)}
      /\ DOMAIN bit_ranges = {bs[k].name : k \in 1..Len(bs)}
  BY <1>4
<1>. HIDE DEF qs, bs
<1>8. DOMAIN qubit_ranges \subseteq DOMAIN Declared(vs) /\ DOMAIN bit_ranges \subseteq DOMAIN Declared(vs)
  BY <1>6, <1>7
<1>9. QED
  BY <1>1, <1>5, <1>8

LEMMA FieldsOfRange ==
  ASSUME CallInv, bit_phase = "built", NEW v \in DOMAIN Declared(program.variables)
  PROVE  LET d == Declared(program.variables)[v]
         IN  /\ Ranges[v].kind = d.kind /\ Ranges[v].first = FirstIndex(d) /\ Ranges[v].size = d.size
             /\ Ranges[v] \in Builder!Variable /\ v \in STRING
             /\ FirstIndex(d) \in Nat /\ d.size \in Nat
<1>. DEFINE d == Declared(program.variables)[v]
            f == FirstIndex(d)
<1>1. d \in DeclaredVariable /\ d.name = v
  BY VariableOfProgram DEF CallInv
<1>2. f \in Nat
  BY IndicesOfVariable DEF CallInv
<1>3. Ranges[v] = [kind |-> d.kind, first |-> f, size |-> d.size]
  BY RangeOfVariable
<1>. HIDE DEF d, f
<1>4. d.kind \in {"qubit", "bit"} /\ d.size \in Nat \ {0} /\ v \in STRING
  BY <1>1 DEF DeclaredVariable
<1>5. /\ Ranges[v].kind = d.kind /\ Ranges[v].first = f /\ Ranges[v].size = d.size
      /\ Ranges[v] \in Builder!Variable
  BY <1>2, <1>3, <1>4 DEF Builder!Variable
<1>6. QED
  BY <1>2, <1>4, <1>5 DEF d, f

LEMMA RangesAreLaidOut ==
  ASSUME CallInv, bit_phase = "built"
  PROVE  /\ Ranges \in [DOMAIN Ranges -> Builder!Variable] /\ DOMAIN Ranges \in SUBSET STRING
         /\ Builder!VariablesAreLaidOut(Ranges)
<1>. DEFINE D == Declared(program.variables)
<1>1. program \in AnalyzedPrograms /\ DOMAIN Ranges = DOMAIN D
  BY NamesOfRanges DEF CallInv
<1>3. \A v \in DOMAIN D : v \in STRING /\ Ranges[v] \in Builder!Variable
  BY FieldsOfRange
<1>4. ASSUME NEW v \in DOMAIN D, NEW w \in DOMAIN D, v # w, Ranges[v].kind = Ranges[w].kind
      PROVE  Builder!IndicesOf(Ranges[v]) \intersect Builder!IndicesOf(Ranges[w]) = {}
  <2>. DEFINE d == D[v]
              e == D[w]
  <2>1. /\ Ranges[v].kind = d.kind /\ Ranges[v].first = FirstIndex(d) /\ Ranges[v].size = d.size
        /\ Ranges[w].kind = e.kind /\ Ranges[w].first = FirstIndex(e) /\ Ranges[w].size = e.size
    BY FieldsOfRange
  <2>2. /\ FirstIndex(d) \in Nat /\ FirstIndex(e) \in Nat /\ d.size \in Nat /\ e.size \in Nat
    BY FieldsOfRange
  <2>3. \/ FirstIndex(d) + d.size <= FirstIndex(e)
        \/ FirstIndex(e) + e.size <= FirstIndex(d)
    BY <1>1, <1>4, <2>1, VariablesAreApart
  <2>. HIDE DEF d, e
  <2>4. QED
    BY <2>1, <2>2, <2>3 DEF Builder!IndicesOf
<1>5. Builder!VariablesAreLaidOut(Ranges)
  BY <1>1, <1>3, <1>4 DEF Builder!VariablesAreLaidOut
<1>6. Ranges = [v \in DOMAIN Ranges |-> Ranges[v]]
  BY DEF Ranges
<1>7. QED
  BY <1>1, <1>3, <1>5, <1>6

LEMMA ProgramOfBuilder ==
  ASSUME CallInv, bit_phase = "built"
  PROVE  [variables |-> Ranges, statements |-> program.statements] \in LaidOutPrograms
<1>. DEFINE D == Declared(program.variables)
<1>1. /\ program \in AnalyzedPrograms /\ DOMAIN Ranges = DOMAIN D
      /\ DOMAIN program.statements = 1..Len(program.statements)
  BY NamesOfRanges, ProgramOfCall DEF CallInv
<1>2. \A v \in DOMAIN D : Ranges[v].kind = D[v].kind /\ Ranges[v].size = D[v].size
  BY FieldsOfRange
<1>3. ASSUME NEW k \in DOMAIN program.statements
      PROVE  Builder!IsResolved(Ranges, program.statements[k])
  <2>. DEFINE s == program.statements[k]
  <2>1. Builder!IsResolved(D, s) /\ 1 \in DOMAIN s.operands
    BY <1>1, StatementOfProgram
  <2>. HIDE DEF s, D
  <2>2. \A o \in DOMAIN s.operands : s.operands[o].variable \in DOMAIN D
    BY <2>1 DEF Builder!IsResolved
  <2>3. \A o \in DOMAIN s.operands :
          Builder!Elements(Ranges, s.operands[o]) = Builder!Elements(D, s.operands[o])
    BY <1>2, <2>2 DEF Builder!Elements
  <2>4. Builder!IsResolved(Ranges, s)
    BY <1>1, <1>2, <2>1, <2>2, <2>3 DEF Builder!IsResolved
  <2>5. QED
    BY <2>4 DEF s
<1>4. /\ program.statements \in Seq(Builder!AnyStatement)
      /\ \A k \in DOMAIN program.statements :
           program.statements[k].name = "CRk" => program.statements[k].parameter <= 3
  BY <1>1, AnalyzerAssumption
<1>5. Ranges \in UNION {[N -> Builder!Variable] : N \in SUBSET STRING}
  BY RangesAreLaidOut
<1>6. QED
  BY <1>3, <1>4, <1>5, RangesAreLaidOut DEF LaidOutPrograms

-----------------------------------------------------------------------------
(* The builder of a call keeps the invariant of a builder.                 *)

BuilderInv == IF bit_phase = "built" THEN BP!Inv ELSE origins = <<>>

builder_program == [variables |-> Ranges, statements |-> program.statements]

LEMMA ProgramOfBuilderNext ==
  (CallInv /\ bit_phase = "built" => builder_program \in LaidOutPrograms)'
<1>1. CallInv /\ bit_phase = "built" => builder_program \in LaidOutPrograms
  BY ProgramOfBuilder DEF builder_program
<1>2. QED
  BY <1>1, PTL

LEMMA BuilderOfCallInitNext == BP!Init' => BP!Inv'
<1>1. BP!Init => BP!Inv
  BY BuilderOfCallInit
<1>2. QED
  BY <1>1, PTL

LEMMA BuilderBegins ==
  ASSUME CallInv, CallInv', BuilderInv, bit_phase # "built", bit_phase' = "built",
         UNCHANGED builder_vars
  PROVE  BP!Inv'
<1>1. /\ builder_next' = 1 /\ builder_phase' = "building" /\ dirty' = {} /\ instructions' = <<>>
      /\ origins' = <<>>
  BY DEF CallInv, InOrder, BuilderInv, builder_vars
<1>2. builder_program' \in LaidOutPrograms
  BY ProgramOfBuilderNext
<1>3. BP!Init'
  BY <1>1, <1>2 DEF BP!Init, builder_program
<1>4. QED
  BY <1>3, BuilderOfCallInitNext

LEMMA BuilderUnchanged ==
  ASSUME BP!Inv, UNCHANGED <<program, qubit_vars, bit_vars, builder_vars>>
  PROVE  BP!Inv'
<1>1. UNCHANGED <<builder_program, builder_next, builder_phase, dirty, instructions, origins>>
  BY DEF builder_program, Ranges, qubit_vars, bit_vars, builder_vars
<1>2. UNCHANGED BP!vars
  BY <1>1 DEF BP!vars, builder_program
<1>3. QED
  BY <1>2, BP!InvStep, AssumptionsOfBuilder

LEMMA BuilderInvStep ==
  ASSUME CallInv, CallInv', BuilderInv, [ExecutionNext]_execution_vars
  PROVE  BuilderInv'
<1>1. CASE UNCHANGED <<bit_phase, origins>> /\ bit_phase # "built"
  BY <1>1 DEF BuilderInv
<1>2. CASE bit_phase = "built" /\ UNCHANGED <<program, qubit_vars, bit_vars, builder_vars>>
  <2>1. bit_phase' = "built"
    BY <1>2 DEF bit_vars
  <2>2. QED
    BY <1>2, <2>1, BuilderUnchanged DEF BuilderInv
<1>3. CASE ConstructQubitRegister
  <2>1. bit_phase # "built" /\ UNCHANGED <<bit_phase, origins>>
    BY <1>3 DEF ConstructQubitRegister, Ongoing, CallInv, InOrder, bit_vars, builder_vars
  <2>2. QED
    BY <1>1, <2>1
<1>4. CASE ConstructBitRegister
  <2>1. bit_phase # "built" /\ UNCHANGED builder_vars /\ UNCHANGED origins
    BY <1>4 DEF ConstructBitRegister, Ongoing, builder_vars
  <2>2. CASE bit_phase' = "built"
    BY <2>1, <2>2, BuilderBegins DEF BuilderInv
  <2>3. CASE bit_phase' # "built"
    BY <2>1, <2>3 DEF BuilderInv
  <2>4. QED
    BY <2>2, <2>3
<1>5. CASE BuildCircuit
  <2>1. bit_phase = "built" /\ bit_phase' = "built" /\ Builder!Next
    BY <1>5 DEF BuildCircuit, bit_vars
  <2>2. BP!Inv'
    BY <2>1, BuilderNext, BuilderOfCallStep DEF BuilderInv
  <2>3. QED
    BY <2>1, <2>2 DEF BuilderInv
<1>6. CASE RunIterations
  <2>1. UNCHANGED <<program, qubit_vars, bit_vars, builder_vars>>
    BY <1>6 DEF RunIterations, Iterating
  <2>2. UNCHANGED <<bit_phase, origins>>
    BY <2>1 DEF bit_vars, builder_vars
  <2>3. QED
    BY <1>1, <1>2, <2>1, <2>2
<1>7. CASE UNCHANGED execution_vars
  <2>1. UNCHANGED <<program, qubit_vars, bit_vars, builder_vars>>
    BY <1>7 DEF execution_vars
  <2>2. UNCHANGED <<bit_phase, origins>>
    BY <2>1 DEF bit_vars, builder_vars
  <2>3. QED
    BY <1>1, <1>2, <2>1, <2>2
<1>8. QED
  BY <1>3, <1>4, <1>5, <1>6, <1>7 DEF ExecutionNext, Stopped

\* Once the registers are built, the circuit that is built with their ranges is the
\* program's, statement by statement, and an accepted init comes before every instruction
\* on its qubits (CircuitBuilder::build, on the registers that execute constructed).
THEOREM BuilderOfCallCorrect ==
  ExecutionSpec =>
    [](bit_phase = "built" => Builder!InstructionsAreTheProgram /\ Builder!InitsComeFirst)
<1>1. ExecutionInit => BuilderInv
  BY DEF ExecutionInit, BuilderInv
<1>2. CallInv /\ CallInv' /\ BuilderInv /\ [ExecutionNext]_execution_vars => BuilderInv'
  BY BuilderInvStep
<1>3. BuilderInv => (bit_phase = "built"
                     => Builder!InstructionsAreTheProgram /\ Builder!InitsComeFirst)
  BY BuilderTells DEF BuilderInv, BP!Inv
<1>4. QED
  BY <1>1, <1>2, <1>3, CallInvCorrect, PTL DEF ExecutionSpec

-----------------------------------------------------------------------------
(* The shots of a call.                                                    *)

\* What the builder resolves lies in the registers of the simulation.
LEMMA BuilderStaysInRegisters ==
  ASSUME CallInv, builder_phase = "built"
  PROVE  BP!Qubits \subseteq Qubit /\ BP!Bits \subseteq Bit
<1>1. bit_phase = "built" /\ shots_requested \in Nat \ {0}
  BY ProgramOfCall DEF CallInv, InOrder, ShotsAreRequested
<1>2. ASSUME NEW v \in DOMAIN Ranges, NEW index \in BP!IndicesOf(Ranges[v])
      PROVE  index \in (IF Ranges[v].kind = "qubit" THEN Qubit ELSE Bit)
  <2>. DEFINE d == Declared(program.variables)[v]
              f == FirstIndex(d)
              n == IF d.kind = "qubit" THEN NumberOfQubits ELSE NumberOfBits
  <2>1. v \in DOMAIN Declared(program.variables)
    BY <1>1, NamesOfRanges
  <2>2. /\ Ranges[v].kind = d.kind /\ Ranges[v].first = f /\ Ranges[v].size = d.size
        /\ f \in Nat /\ d.size \in Nat
    BY <1>1, <2>1, FieldsOfRange
  <2>3. \A j \in 0..(d.size - 1) : f + j \in 0..(n - 1)
    BY <1>1, <2>1, RangeOfVariable
  <2>. HIDE DEF d, f, n
  <2>4. index \in f..(f + d.size - 1)
    BY <1>2, <2>2 DEF BP!IndicesOf
  <2>5. index - f \in 0..(d.size - 1) /\ f + (index - f) = index
    BY <2>2, <2>4
  <2>6. index \in 0..(n - 1)
    BY <2>3, <2>5
  <2>7. QED
    BY <2>2, <2>6 DEF n, Qubit, Bit
<1>3. ASSUME NEW index \in BP!Qubits
      PROVE  index \in Qubit
  <2>1. PICK v \in DOMAIN Ranges : Ranges[v].kind = "qubit" /\ index \in BP!IndicesOf(Ranges[v])
    BY DEF BP!Qubits, BP!Variables
  <2>2. QED
    BY <1>2, <2>1
<1>4. ASSUME NEW index \in BP!Bits
      PROVE  index \in Bit
  <2>1. PICK v \in DOMAIN Ranges : Ranges[v].kind = "bit" /\ index \in BP!IndicesOf(Ranges[v])
    BY DEF BP!Bits, BP!Variables
  <2>2. QED
    BY <1>2, <2>1
<1>5. QED
  BY <1>3, <1>4

\* What is built lies in the registers of the simulation.
LEMMA BuiltIsPlaced ==
  ASSUME CallInv, BuilderInv, builder_phase = "built"
  PROVE  CircuitIsPlaced
<1>1. bit_phase = "built" /\ shots_requested \in Nat \ {0}
  BY ProgramOfCall DEF CallInv, InOrder, ShotsAreRequested
<1>2. instructions \in Seq(BP!Instruction)
  BY <1>1 DEF BuilderInv, BP!Inv, BP!TypeOK
<1>3. /\ Len(instructions) \in Nat /\ DOMAIN instructions = 1..Len(instructions)
      /\ \A j \in 1..Len(instructions) : instructions[j] \in BP!Instruction
  BY <1>2
<1>4. ASSUME NEW i \in BP!Instruction
      PROVE  IsPlaced(i)
  BY BuilderStaysInRegisters DEF BP!Instruction, IsPlaced
<1>5. QED
  BY <1>1, <1>3, <1>4 DEF CircuitIsPlaced

\* The shots begin once the circuit is built.
ShotsInv ==
  IF builder_phase = "built" THEN SInv /\ TInv /\ IterationsAreRuns ELSE BeforeFirstIteration

LEMMA ShotsBegin ==
  ASSUME CallInv, BuilderInv, builder_phase = "built", BeforeFirstIteration
  PROVE  ShotsInv
BY BuiltIsPlaced, InitSInv, InitTotals, InitRuns DEF ShotsInv

LEMMA ShotsBeginNext ==
  (CallInv /\ BuilderInv /\ builder_phase = "built" /\ BeforeFirstIteration => ShotsInv)'
<1>1. CallInv /\ BuilderInv /\ builder_phase = "built" /\ BeforeFirstIteration => ShotsInv
  BY ShotsBegin
<1>2. QED
  BY <1>1, PTL

LEMMA ShotsStep ==
  ASSUME ShotsInv, builder_phase = "built", UNCHANGED builder_phase,
         [SimulationNext]_simulation_vars
  PROVE  ShotsInv'
<1>1. SInv /\ TInv /\ IterationsAreRuns
  BY DEF ShotsInv
<1>2. SInv'
  BY <1>1, SInvStep
<1>3. TInv'
  BY <1>1, TotalsStep
<1>4. IterationsAreRuns'
  BY <1>1, RunsStep
<1>5. QED
  BY <1>2, <1>3, <1>4 DEF ShotsInv

LEMMA NoShotYet ==
  ASSUME BeforeFirstIteration, UNCHANGED shot_vars
  PROVE  BeforeFirstIteration'
BY DEF BeforeFirstIteration, Init, shot_vars, vars

LEMMA ShotsInvStep ==
  ASSUME CallInv, BuilderInv, CallInv', BuilderInv', ShotsInv, [ExecutionNext]_execution_vars
  PROVE  ShotsInv'
<1>1. CASE UNCHANGED <<builder_vars, shot_vars>>
  <2>1. CASE builder_phase = "built"
    <3>1. UNCHANGED simulation_vars /\ UNCHANGED builder_phase
      BY <1>1 DEF simulation_vars, builder_vars, shot_vars, vars
    <3>2. QED
      BY <2>1, <3>1, ShotsStep
  <2>2. CASE builder_phase # "built"
    <3>1. builder_phase' # "built" /\ BeforeFirstIteration'
      BY <1>1, <2>2, NoShotYet DEF ShotsInv, builder_vars
    <3>2. QED
      BY <3>1 DEF ShotsInv
  <2>3. QED
    BY <2>1, <2>2
<1>2. CASE BuildCircuit
  <2>1. bit_phase = "built" /\ Builder!Next /\ UNCHANGED shot_vars
    BY <1>2 DEF BuildCircuit
  <2>2. builder_phase = "building"
    BY <2>1, BuilderSteps
  <2>3. BeforeFirstIteration'
    BY <2>1, <2>2, NoShotYet DEF ShotsInv
  <2>4. CASE builder_phase' = "built"
    BY <2>3, <2>4, ShotsBeginNext
  <2>5. CASE builder_phase' # "built"
    BY <2>3, <2>5 DEF ShotsInv
  <2>6. QED
    BY <2>4, <2>5
<1>3. CASE RunIterations
  <2>1. builder_phase = "built" /\ UNCHANGED builder_phase /\ SimulationNext
    BY <1>3 DEF RunIterations, Iterating, SimulationNext, builder_vars
  <2>2. QED
    BY <2>1, ShotsStep
<1>4. CASE ConstructQubitRegister \/ ConstructBitRegister \/ UNCHANGED execution_vars
  BY <1>1, <1>4 DEF ConstructQubitRegister, ConstructBitRegister, execution_vars
<1>5. QED
  BY <1>2, <1>3, <1>4 DEF ExecutionNext, Stopped

LEMMA ShotsInvCorrect == ExecutionSpec => [](CallInv /\ ShotsInv)
<1>1. ExecutionInit => CallInv /\ BuilderInv /\ ShotsInv
  <2>1. ExecutionInit => BuilderInv
    BY DEF ExecutionInit, BuilderInv
  <2>2. ExecutionInit => ShotsInv
    BY DEF ExecutionInit, ShotsInv
  <2>3. QED
    BY <2>1, <2>2, InitCallInv
<1>2. CallInv /\ CallInv' /\ BuilderInv /\ ShotsInv /\ [ExecutionNext]_execution_vars
        => BuilderInv' /\ ShotsInv'
  BY BuilderInvStep, ShotsInvStep
<1>3. QED
  BY <1>1, <1>2, CallInvCorrect, PTL DEF ExecutionSpec

\* The shots of a call are those of its own circuit, for any program: every count is the
\* number of iterations that ended with its register, at the end of an iteration the
\* registers tell the last measure into each bit and of each qubit, a result accounts for
\* every shot, and iterations with the same outcomes end in the same state.
THEOREM ShotsOfCallCorrect ==
  ExecutionSpec =>
    [](builder_phase = "built" =>
         CountsMatchShots /\ RegistersTellLastMeasure /\ ResultIsComplete /\ IterationsAreIndependent)
<1>1. ShotsInv /\ builder_phase = "built"
        => CountsMatchShots /\ RegistersTellLastMeasure /\ ResultIsComplete /\ IterationsAreIndependent
  BY CountsOfInvariant, RegistersOfInvariant, IndependenceOfInvariant DEF ShotsInv, TInv
<1>2. QED
  BY <1>1, ShotsInvCorrect, PTL

-----------------------------------------------------------------------------
(* The states of a call.                                                   *)

\* No gate of the circuit has a qubit twice among its operands: the simulator does not
\* check it, and a matrix applied to a qubit and itself need not keep the norm.
OperandsAreDistinct ==
  \A j \in DOMAIN instructions :
    instructions[j].kind = "Unitary" => IsInjective(instructions[j].operands)

\* The builder and the simulation have one table of gates.
LEMMA NamesOfBuilder == BP!GateNames = DefaultNames
BY Zenon DEF BP!GateNames, DefaultNames, BP!fixed_gates, fixed_gates

LEMMA CardinalityOfBuilder == \A s : BP!Cardinality(s) = Cardinality(s)
BY Zenon DEF BP!Cardinality, Cardinality

\* The matrix of a gate that the builder took is unitary and as large as its operands require.
LEMMA BuiltGate ==
  ASSUME NEW gate, NEW n, BP!TakesOperands(gate, n)
  PROVE  /\ n \in Nat /\ IsSquare(MatrixOf(gate), 2^n)
         /\ SizeOf(MatrixOf(gate)) = 2^n /\ IsUnitary(MatrixOf(gate))
<1>. DEFINE modifiers == gate.modifiers
            k         == BP!NumberOfOperands(gate.name)
            length    == Len(modifiers)
<1>1. BP!IsKnown(gate) /\ n = k + Cardinality(BP!Controls(modifiers))
  BY CardinalityOfBuilder DEF BP!TakesOperands
<1>2. /\ gate.name \in DefaultNames /\ gate.parameter \in Int
      /\ gate.name = "CRk" => gate.parameter <= 3
  BY <1>1, NamesOfBuilder DEF BP!IsKnown
<1>3. IsGate(default_gates(gate.name, gate.parameter), 2^k) /\ k \in Nat
  <2>1. 2^1 = 2 /\ 2^2 = 4 /\ 2^3 = 8
    BY SmallPowers
  <2>2. /\ gate.name \in OfThreeQubits => k = 3
        /\ gate.name \notin OfThreeQubits /\ gate.name \in OfTwoQubits => k = 2
        /\ gate.name \notin OfThreeQubits /\ gate.name \notin OfTwoQubits => k = 1
    BY DEF BP!NumberOfOperands, OfThreeQubits, OfTwoQubits
  <2>. DEFINE size == IF gate.name \in OfThreeQubits THEN 8
                      ELSE IF gate.name \in OfTwoQubits THEN 4 ELSE 2
  <2>. HIDE DEF k
  <2>3. size = 2^k
    BY <2>1, <2>2
  <2>4. IsGate(default_gates(gate.name, gate.parameter), size)
    BY <1>2, DefaultGateIsGate
  <2>. HIDE DEF size
  <2>5. k \in Nat
    BY <2>2
  <2>6. QED
    BY <2>3, <2>4, <2>5
<1>4. /\ length \in Nat /\ DOMAIN modifiers = 1..length
      /\ \A i \in 1..length : modifiers[i] \in BP!Modifier
  BY <1>1 DEF BP!IsKnown
<1>5. \A d \in BP!Modifier : IsModifier(d)
  BY DEF BP!Modifier, IsModifier
<1>6. AreModifiers(modifiers, length) /\ BP!Controls(modifiers) = ControlsIn(modifiers, 1..length)
  BY <1>4, <1>5 DEF AreModifiers, BP!Controls, ControlsIn
<1>. HIDE DEF length, k
<1>7. QED
  BY <1>1, <1>3, <1>4, <1>6, ModifiedGateFits

\* Every gate of the call's circuit has a unitary matrix, as large as its operands require.
CircuitGatesFit ==
  \A j \in DOMAIN instructions :
    instructions[j].kind = "Unitary" =>
      /\ SizeOf(MatrixOf(instructions[j].gate)) = 2^Len(instructions[j].operands)
      /\ IsUnitary(MatrixOf(instructions[j].gate))

\* The matrices that Circuit::execute applies are those that the builder's gates passed the
\* check of their constructor with: for any program, modifiers and parameters, each is
\* unitary and as large as the operands that it is applied to require (get_gates,
\* QuantumState::apply).
THEOREM GatesOfCallFitCorrect == ExecutionSpec => [](bit_phase = "built" => CircuitGatesFit)
<1>1. ExecutionInit => BuilderInv
  BY DEF ExecutionInit, BuilderInv
<1>2. CallInv /\ CallInv' /\ BuilderInv /\ [ExecutionNext]_execution_vars => BuilderInv'
  BY BuilderInvStep
<1>3. BuilderInv => (bit_phase = "built" => CircuitGatesFit)
  <2>. SUFFICES ASSUME BP!GatesAreKnown, NEW j \in DOMAIN instructions,
                       instructions[j].kind = "Unitary"
                PROVE  /\ SizeOf(MatrixOf(instructions[j].gate)) = 2^Len(instructions[j].operands)
                       /\ IsUnitary(MatrixOf(instructions[j].gate))
    BY DEF BuilderInv, BP!Inv, CircuitGatesFit
  <2>1. BP!TakesOperands(instructions[j].gate, Len(instructions[j].operands))
    BY DEF BP!GatesAreKnown
  <2>2. QED
    BY <2>1, BuiltGate
<1>4. QED
  BY <1>1, <1>2, <1>3, CallInvCorrect, PTL DEF ExecutionSpec

LEMMA BuiltIsIsometric ==
  ASSUME CallInv, BuilderInv, builder_phase = "built", OperandsAreDistinct
  PROVE  CircuitIsIsometric
<1>1. BP!GatesAreKnown /\ instructions \in Seq(BP!Instruction)
  <2>1. bit_phase = "built"
    BY ProgramOfCall DEF CallInv, InOrder
  <2>2. QED
    BY <2>1 DEF BuilderInv, BP!Inv, BP!TypeOK
<1>2. DOMAIN instructions = 1..Len(instructions)
  BY <1>1
<1>3. BP!Qubits \subseteq Qubit
  BY BuilderStaysInRegisters
<1>4. ASSUME NEW j \in 1..Len(instructions), instructions[j].kind = "Unitary"
      PROVE  \E k \in Nat :
               /\ instructions[j].operands \in [1..k -> Qubit] /\ IsInjective(instructions[j].operands)
               /\ IsMatrixFor(MatrixOf(instructions[j].gate), k)
               /\ IsUnitary(MatrixOf(instructions[j].gate))
  <2>. DEFINE k == Len(instructions[j].operands)
  <2>1. IsInjective(instructions[j].operands)
    BY <1>2, <1>4 DEF OperandsAreDistinct
  <2>2. BP!TakesOperands(instructions[j].gate, k)
    BY <1>1, <1>2, <1>4 DEF BP!GatesAreKnown
  <2>3. instructions[j].operands \in Seq(Qubit)
    <3>1. instructions[j] \in BP!Instruction
      BY <1>1, <1>2, <1>4
    <3>2. instructions[j].operands \in Seq(BP!Qubits)
      BY <1>4, <3>1 DEF BP!Instruction
    <3>3. QED
      BY <1>3, <3>2
  <2>4. instructions[j].operands \in [1..k -> Qubit] /\ k \in Nat
    BY <2>3
  <2>. HIDE DEF k
  <2>5. IsMatrixFor(MatrixOf(instructions[j].gate), k) /\ IsUnitary(MatrixOf(instructions[j].gate))
    BY <2>2, BuiltGate DEF IsMatrixFor
  <2>6. QED
    BY <2>1, <2>4, <2>5
<1>5. QED
  BY <1>4 DEF CircuitIsIsometric, IsIsometry

\* The states of the shots are kept from the first shot of the circuit on.
StatesInv ==
  IF builder_phase = "built" THEN OperandsAreDistinct => ResultInv ELSE BeforeFirstIteration

LEMMA StatesStep ==
  ASSUME DrawRange \notin Draws, CallInv, BuilderInv, ShotsInv, StatesInv,
         builder_phase = "built", UNCHANGED <<builder_phase, instructions>>,
         [SimulationNext]_simulation_vars
  PROVE  StatesInv'
<1>1. SInv
  BY DEF ShotsInv
<1>2. ASSUME OperandsAreDistinct
      PROVE  ResultInv'
  BY <1>1, <1>2, BuiltIsIsometric, ResultInvStep DEF StatesInv
<1>3. OperandsAreDistinct' => OperandsAreDistinct
  BY DEF OperandsAreDistinct
<1>4. QED
  BY <1>2, <1>3 DEF StatesInv

LEMMA InitResultInvNext == (BeforeFirstIteration => ResultInv)'
<1>1. BeforeFirstIteration => ResultInv
  BY InitResultInv
<1>2. QED
  BY <1>1, PTL

LEMMA StatesInvStep ==
  ASSUME DrawRange \notin Draws, CallInv, BuilderInv, ShotsInv, StatesInv,
         [ExecutionNext]_execution_vars
  PROVE  StatesInv'
<1>1. CASE UNCHANGED <<builder_vars, shot_vars>>
  <2>1. CASE builder_phase = "built"
    <3>1. UNCHANGED simulation_vars /\ UNCHANGED <<builder_phase, instructions>>
      BY <1>1 DEF simulation_vars, builder_vars, shot_vars, vars
    <3>2. QED
      BY <2>1, <3>1, StatesStep
  <2>2. CASE builder_phase # "built"
    <3>1. builder_phase' # "built" /\ BeforeFirstIteration'
      BY <1>1, <2>2, NoShotYet DEF StatesInv, builder_vars
    <3>2. QED
      BY <3>1 DEF StatesInv
  <2>3. QED
    BY <2>1, <2>2
<1>2. CASE BuildCircuit
  <2>1. bit_phase = "built" /\ Builder!Next /\ UNCHANGED shot_vars
    BY <1>2 DEF BuildCircuit
  <2>2. builder_phase = "building"
    BY <2>1, BuilderSteps
  <2>3. BeforeFirstIteration'
    BY <2>1, <2>2, NoShotYet DEF StatesInv
  <2>4. QED
    BY <2>3, InitResultInvNext DEF StatesInv
<1>3. CASE RunIterations
  <2>1. /\ builder_phase = "built" /\ UNCHANGED <<builder_phase, instructions>>
        /\ SimulationNext
    BY <1>3 DEF RunIterations, Iterating, SimulationNext, builder_vars
  <2>2. QED
    BY <2>1, StatesStep
<1>4. CASE ConstructQubitRegister \/ ConstructBitRegister \/ UNCHANGED execution_vars
  BY <1>1, <1>4 DEF ConstructQubitRegister, ConstructBitRegister, execution_vars
<1>5. QED
  BY <1>2, <1>3, <1>4 DEF ExecutionNext, Stopped

\* The states of a call are those of its own circuit, for any program whose gates do not
\* have one qubit twice, and if no draw is exactly 1: the state is normalized, and stays so
\* through the gates that the builder made of the program's statements, its non-null
\* entries agree with the qubits that were measured or reset and not acted on since, and
\* the state of a result is the last shot's (Circuit::execute, SimulationIterationContext,
\* on the instructions that CircuitBuilder::build returned).
THEOREM StatesOfCallCorrect ==
  ASSUME DrawRange \notin Draws
  PROVE  ExecutionSpec =>
           [](builder_phase = "built" /\ OperandsAreDistinct =>
                Normalized /\ SettledAgree /\ ResultIsTheLastState)
<1>1. ExecutionInit => BuilderInv /\ StatesInv
  BY DEF ExecutionInit, BuilderInv, StatesInv
<1>2. CallInv /\ CallInv' /\ ShotsInv /\ BuilderInv /\ StatesInv /\ [ExecutionNext]_execution_vars
        => BuilderInv' /\ StatesInv'
  BY BuilderInvStep, StatesInvStep
<1>3. StatesInv => (builder_phase = "built" /\ OperandsAreDistinct =>
                      Normalized /\ SettledAgree /\ ResultIsTheLastState)
  BY DEF StatesInv, ResultInv, NormInv
<1>4. QED
  BY <1>1, <1>2, <1>3, ShotsInvCorrect, PTL DEF ExecutionSpec

===============================================================================

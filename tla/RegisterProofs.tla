--------------------------- MODULE RegisterProofs ---------------------------
(***************************************************************************)
(* The constructor of Register gives out every index exactly once, for any *)
(* number of variables of any size.                                        *)
(***************************************************************************)
EXTENDS Register, TLAPS

-----------------------------------------------------------------------------
(* The inductive invariant.                                                *)

Summed == IF phase = "summing" THEN next ELSE Len(variables) + 1

\* The partial sums are what the first loop left: they start at zero, grow by the
\* size of each variable, and every index below one of them lies between two.
PartialSums ==
  /\ sums \in [1..Summed -> Nat]
  /\ sums[1] = 0
  /\ register_size = sums[Summed]
  /\ \A k \in 1..(Summed - 1) : sums[k + 1] = sums[k] + variables[k].size
  /\ \A j, k \in 1..Summed : j <= k => sums[j] <= sums[k]
  /\ \A m \in 1..Summed : \A j \in 0..(sums[m] - 1) :
       \E k \in 1..(m - 1) : sums[k] <= j /\ j < sums[k + 1]

\* The second loop has assigned the variables before next, each at its partial sum.
RangesAssigned ==
  phase \in {"assigning", "built"} =>
    /\ current_index = sums[next]
    /\ DOMAIN variable_name_to_range = {variables[k].name : k \in 1..(next - 1)}
    /\ \A k \in 1..(next - 1) :
         /\ variable_name_to_range[variables[k].name].first = sums[k]
         /\ variable_name_to_range[variables[k].name].size = variables[k].size
         /\ \A j \in DOMAIN index_to_variable_name :
              sums[k] <= j /\ j < sums[k + 1]
                => index_to_variable_name[j] = variables[k].name

\* A register is built when every variable is assigned; before the second loop the
\* map is empty.
Progress ==
  /\ phase = "summing" =>
       DOMAIN variable_name_to_range = {} /\ current_index = 0
  /\ phase = "built" => next = Len(variables) + 1

Inv == TypeOK /\ PartialSums /\ RangesAssigned /\ Progress

-----------------------------------------------------------------------------

LEMMA VariablesType ==
  ASSUME variables \in Declarations
  PROVE  /\ Len(variables) \in Nat
         /\ \A k \in 1..Len(variables) :
              variables[k].name \in Names /\ variables[k].size \in Nat
         /\ \A j, k \in 1..Len(variables) :
              variables[j].name = variables[k].name => j = k
<1>1. variables \in Seq(Variable)
  BY DeclarationsAssumption
<1>2. Len(variables) \in Nat /\ \A k \in 1..Len(variables) : variables[k] \in Variable
  BY <1>1
<1>3. QED
  BY <1>2, DeclarationsAssumption DEF Variable

LEMMA TypeInit == Init => TypeOK
BY VariablesType DEF Init, TypeOK

LEMMA TypeStep == TypeOK /\ [Next]_vars => TypeOK'
<1> SUFFICES ASSUME TypeOK, [Next]_vars
             PROVE  TypeOK'
  OBVIOUS
<1> USE VariablesType
<1>1. CASE AddSize
  BY <1>1 DEF AddSize, TypeOK
<1>2. CASE ThrowTooLarge
  BY <1>2 DEF ThrowTooLarge, TypeOK
<1>3. CASE Resize
  BY <1>3, MaximumAssumption DEF Resize, TooLarge, TypeOK
<1>4. CASE AssignRange
  <2>1. /\ variable_name_to_range' \in
             [DOMAIN variable_name_to_range' -> [first : Nat, size : Nat]]
        /\ DOMAIN variable_name_to_range' \subseteq Names
    BY <1>4 DEF AssignRange, TypeOK
  <2>2. next' \in 1..(Len(variables) + 1) /\ current_index' \in Nat
    BY <1>4 DEF AssignRange, TypeOK
  <2>3. DOMAIN index_to_variable_name' = DOMAIN index_to_variable_name
    BY <1>4 DEF AssignRange
  <2>4. QED
    BY <1>4, <2>1, <2>2, <2>3 DEF AssignRange, TypeOK
<1>5. CASE Built
  BY <1>5 DEF Built, TypeOK
<1>6. ASSUME NEW j \in DOMAIN dirty_bitset, set_dirty(j)
      PROVE  TypeOK'
  BY <1>6 DEF set_dirty, TypeOK
<1>7. CASE UNCHANGED vars
  BY <1>7 DEF vars, TypeOK
<1>8. QED
  BY <1>1, <1>2, <1>3, <1>4, <1>5, <1>6, <1>7 DEF Next, ConstructorStep

\* Every state of the constructor has the types its members declare.
THEOREM TypeCorrect == Spec => []TypeOK
BY TypeInit, TypeStep, PTL DEF Spec

-----------------------------------------------------------------------------

LEMMA InvInit == Init => Inv
<1> SUFFICES ASSUME Init
             PROVE  Inv
  OBVIOUS
<1>1. TypeOK
  BY TypeInit
<1>2. PartialSums
  BY DEF Init, PartialSums, Summed
<1>3. QED
  BY <1>1, <1>2 DEF Inv, Init, RangesAssigned, Progress

LEMMA PartialSumsStep ==
  TypeOK /\ PartialSums /\ [Next]_vars => PartialSums'
<1> SUFFICES ASSUME TypeOK, PartialSums, [Next]_vars
             PROVE  PartialSums'
  OBVIOUS
<1>1. CASE AddSize
  <2> DEFINE n == next
  <2>1. /\ n \in Nat \ {0} /\ Summed = n /\ Summed' = n + 1 /\ n <= Len(variables)
        /\ variables' = variables
        /\ variables[n].size \in Nat
    BY <1>1, VariablesType DEF AddSize, TypeOK, Summed
  <2>2. /\ sums' = [j \in 1..(n + 1) |-> IF j = n + 1 THEN register_size' ELSE sums[j]]
        /\ register_size' = sums[n] + variables[n].size
    BY <1>1, <2>1 DEF AddSize, PartialSums
  <2>3. /\ sums \in [1..n -> Nat] /\ sums[n] \in Nat
        /\ \A k \in 1..n : sums'[k] = sums[k]
        /\ sums'[n + 1] = sums[n] + variables[n].size
    BY <2>1, <2>2 DEF PartialSums
  <2>4. sums' \in [1..(n + 1) -> Nat]
    BY <2>1, <2>2, <2>3
  <2>5. ASSUME NEW k \in 1..n
        PROVE  sums'[k + 1] = sums'[k] + variables[k].size
    <3>1. CASE k = n
      BY <2>3, <3>1
    <3>2. CASE k < n
      <4>1. k \in 1..(n - 1) /\ k + 1 \in 1..n
        BY <2>1, <3>2
      <4>2. sums[k + 1] = sums[k] + variables[k].size
        BY <2>1, <4>1 DEF PartialSums
      <4>3. QED
        BY <2>3, <4>1, <4>2
    <3>3. QED
      BY <2>1, <3>1, <3>2
  <2>6. \A j, k \in 1..(n + 1) : j <= k => sums'[j] <= sums'[k]
    <3>1. \A j \in 1..n : sums'[j] \in Nat /\ sums[j] <= sums[n]
      BY <2>1, <2>3 DEF PartialSums
    <3>2. QED
      BY <2>1, <2>3, <3>1 DEF PartialSums
  <2>7. ASSUME NEW m \in 1..(n + 1), NEW j \in 0..(sums'[m] - 1)
        PROVE  \E k \in 1..(m - 1) : sums'[k] <= j /\ j < sums'[k + 1]
    <3>1. CASE m <= n
      <4>1. j \in 0..(sums[m] - 1) /\ m \in 1..n
        BY <2>1, <2>3, <3>1
      <4>2. PICK k \in 1..(m - 1) : sums[k] <= j /\ j < sums[k + 1]
        BY <2>1, <4>1 DEF PartialSums
      <4>3. k \in 1..n /\ k + 1 \in 1..n
        BY <2>1, <4>1
      <4>4. QED
        BY <2>3, <4>2, <4>3
    <3>2. CASE m = n + 1 /\ j >= sums[n]
      BY <2>1, <2>3, <3>2
    <3>3. CASE m = n + 1 /\ j < sums[n]
      <4>1. j \in 0..(sums[n] - 1) /\ n \in 1..n
        BY <2>1, <2>3, <2>4, <3>3
      <4>2. PICK k \in 1..(n - 1) : sums[k] <= j /\ j < sums[k + 1]
        BY <2>1, <4>1 DEF PartialSums
      <4>3. k \in 1..n /\ k + 1 \in 1..n /\ k \in 1..(m - 1)
        BY <2>1, <3>3
      <4>4. QED
        BY <2>3, <4>2, <4>3
    <3>4. QED
      BY <2>1, <2>3, <2>4, <3>1, <3>2, <3>3
  <2>8. sums'[1] = 0 /\ register_size' = sums'[n + 1]
    BY <2>1, <2>2, <2>3 DEF PartialSums
  <2>9. QED
    BY <2>1, <2>4, <2>5, <2>6, <2>7, <2>8 DEF PartialSums
<1>2. CASE UNCHANGED <<variables, register_size, sums, Summed>>
  BY <1>2 DEF PartialSums
<1>3. CASE ThrowTooLarge \/ Resize
  <2>1. Summed' = Summed
    BY <1>3, VariablesType DEF ThrowTooLarge, Resize, Summed, TypeOK
  <2>2. QED
    BY <1>2, <1>3, <2>1 DEF ThrowTooLarge, Resize
<1>4. CASE AssignRange \/ Built
  BY <1>2, <1>4 DEF AssignRange, Built, Summed
<1>5. ASSUME NEW j \in DOMAIN dirty_bitset, set_dirty(j)
      PROVE  PartialSums'
  BY <1>2, <1>5 DEF set_dirty, Summed
<1>6. CASE UNCHANGED vars
  BY <1>2, <1>6 DEF vars, Summed
<1>7. QED
  BY <1>1, <1>3, <1>4, <1>5, <1>6 DEF Next, ConstructorStep

LEMMA RangesAssignedStep ==
  Inv /\ [Next]_vars => RangesAssigned' /\ Progress'
<1> SUFFICES ASSUME Inv, [Next]_vars
             PROVE  RangesAssigned' /\ Progress'
  OBVIOUS
<1> USE VariablesType
<1>1. CASE AddSize
  BY <1>1 DEF AddSize, RangesAssigned, Progress, Inv
<1>2. CASE ThrowTooLarge
  BY <1>2 DEF ThrowTooLarge, RangesAssigned, Progress
<1>3. CASE Resize
  <2>1. next' = 1 /\ sums' = sums /\ current_index' = 0 /\ sums[1] = 0
    BY <1>3 DEF Resize, Inv, Progress, PartialSums
  <2>2. DOMAIN variable_name_to_range' = {}
    BY <1>3 DEF Resize, Inv, Progress
  <2>3. QED
    BY <1>3, <2>1, <2>2 DEF Resize, RangesAssigned, Progress
<1>4. CASE AssignRange
  <2> DEFINE n        == next
             variable == variables[n]
  <2>1. /\ n \in 1..Len(variables) /\ Summed = Len(variables) + 1
        /\ variables' = variables /\ sums' = sums /\ next' = n + 1
        /\ phase = "assigning" /\ phase' = "assigning"
    BY <1>4 DEF AssignRange, Inv, TypeOK, Summed
  <2>2. /\ current_index = sums[n] /\ sums[n] \in Nat
        /\ sums[n + 1] = sums[n] + variable.size
    BY <2>1 DEF Inv, RangesAssigned, PartialSums
  <2>3. current_index' = sums'[next']
    BY <1>4, <2>1, <2>2 DEF AssignRange
  <2>4. DOMAIN variable_name_to_range' = {variables'[k].name : k \in 1..(next' - 1)}
    <3>1. DOMAIN variable_name_to_range
            = {variables[k].name : k \in 1..(n - 1)}
      BY <2>1 DEF Inv, RangesAssigned
    <3>2. DOMAIN variable_name_to_range'
            = {variables[k].name : k \in 1..(n - 1)} \union {variable.name}
      BY <1>4, <3>1 DEF AssignRange
    <3>3. 1..(next' - 1) = 1..(n - 1) \union {n}
      BY <2>1
    <3>4. QED
      BY <2>1, <3>2, <3>3
  <2>5. ASSUME NEW k \in 1..(next' - 1)
        PROVE  /\ variable_name_to_range'[variables'[k].name].first = sums'[k]
               /\ variable_name_to_range'[variables'[k].name].size = variables'[k].size
               /\ \A j \in DOMAIN index_to_variable_name' :
                    sums'[k] <= j /\ j < sums'[k + 1]
                      => index_to_variable_name'[j] = variables'[k].name
    <3>1. /\ DOMAIN index_to_variable_name' = DOMAIN index_to_variable_name
          /\ \A j \in DOMAIN index_to_variable_name : j \in Int
          /\ \A j \in DOMAIN index_to_variable_name :
               index_to_variable_name'[j] =
                 IF j >= sums[n] /\ j < sums[n + 1] THEN variable.name
                 ELSE index_to_variable_name[j]
      BY <1>4, <2>1, <2>2 DEF AssignRange, Assigned, Inv, TypeOK
    <3>2. CASE k = n
      <4>1. /\ variable_name_to_range'[variable.name].first = sums[n]
            /\ variable_name_to_range'[variable.name].size = variable.size
        BY <1>4, <2>2 DEF AssignRange
      <4>2. QED
        BY <2>1, <3>1, <3>2, <4>1
    <3>3. CASE k # n
      <4>1. k \in 1..(n - 1) /\ k + 1 \in 1..n /\ n \in 1..Summed
            /\ k \in 1..Summed /\ k + 1 \in 1..Summed
        BY <2>1, <3>3
      <4>2. variables[k].name # variable.name
        <5>1. variables \in Declarations
          BY DEF Inv, TypeOK
        <5>2. k \in 1..Len(variables) /\ k # n
          BY <2>1, <4>1
        <5>3. QED
          BY <2>1, <5>1, <5>2, VariablesType
      <4>3. variables[k].name \in DOMAIN variable_name_to_range
        BY <2>1, <4>1 DEF Inv, RangesAssigned
      <4>4. variable_name_to_range'[variables[k].name] = variable_name_to_range[variables[k].name]
        BY <1>4, <4>2, <4>3 DEF AssignRange
      <4>5. sums[k + 1] <= sums[n] /\ sums[k] \in Nat /\ sums[k + 1] \in Nat
        BY <4>1 DEF Inv, PartialSums
      <4>6. /\ variable_name_to_range'[variables'[k].name].first = sums'[k]
            /\ variable_name_to_range'[variables'[k].name].size = variables'[k].size
        BY <2>1, <4>1, <4>4 DEF Inv, RangesAssigned
      <4>7. ASSUME NEW j \in DOMAIN index_to_variable_name, sums[k] <= j, j < sums[k + 1]
            PROVE  index_to_variable_name'[j] = variables[k].name
        <5>1. j \in Int /\ j < sums[n]
          BY <2>2, <3>1, <4>5, <4>7
        <5>2. index_to_variable_name'[j] = index_to_variable_name[j]
          BY <2>2, <3>1, <5>1
        <5>3. QED
          BY <2>1, <4>1, <4>7, <5>2 DEF Inv, RangesAssigned
      <4>8. QED
        BY <2>1, <3>1, <4>6, <4>7
    <3>4. QED
      BY <3>2, <3>3
  <2>6. QED
    BY <2>1, <2>3, <2>4, <2>5 DEF RangesAssigned, Progress
<1>5. CASE Built
  BY <1>5 DEF Built, RangesAssigned, Progress, Inv, TypeOK
<1>6. ASSUME NEW j \in DOMAIN dirty_bitset, set_dirty(j)
      PROVE  RangesAssigned' /\ Progress'
  BY <1>6 DEF set_dirty, RangesAssigned, Progress, Inv
<1>7. CASE UNCHANGED vars
  BY <1>7 DEF vars, RangesAssigned, Progress, Inv
<1>8. QED
  BY <1>1, <1>2, <1>3, <1>4, <1>5, <1>6, <1>7 DEF Next, ConstructorStep

LEMMA InvImpliesAgreement == Inv => NamesAndIndicesAgree
<1> SUFFICES ASSUME Inv, phase = "built"
             PROVE  NamesAndIndicesAgree
  BY DEF NamesAndIndicesAgree
<1> USE VariablesType
<1> DEFINE n == Len(variables)
<1>1. n \in Nat /\ next = n + 1 /\ Summed = n + 1 /\ register_size = sums[n + 1]
  BY DEF Inv, TypeOK, Progress, Summed, PartialSums
<1>2. DOMAIN index_to_variable_name = 0..(register_size - 1) /\ register_size \in Nat
  BY DEF Inv, TypeOK
<1>3. ASSUME NEW k \in 1..n
      PROVE  /\ k + 1 \in 1..(n + 1)
             /\ variable_name_to_range[variables[k].name].first = sums[k]
             /\ sums[k] \in Nat /\ sums[k + 1] \in Nat
             /\ sums[k + 1] = sums[k] + variables[k].size
             /\ sums[k + 1] <= register_size
             /\ \A j \in 0..(register_size - 1) :
                  sums[k] <= j /\ j < sums[k + 1] => index_to_variable_name[j] = variables[k].name
  <2>1. k \in 1..(next - 1) /\ k + 1 \in 1..(n + 1) /\ k \in 1..(n + 1) /\ n + 1 \in 1..(n + 1)
    BY <1>1
  <2>2. sums[k] \in Nat /\ sums[k + 1] \in Nat /\ sums[k + 1] <= sums[n + 1]
    BY <1>1, <2>1 DEF Inv, PartialSums
  <2>3. sums[k + 1] = sums[k] + variables[k].size
    BY <1>1 DEF Inv, PartialSums
  <2>4. QED
    BY <1>1, <1>2, <2>1, <2>2, <2>3 DEF Inv, RangesAssigned
<1>4. ASSUME NEW k \in 1..n, NEW j \in 0..(variables[k].size - 1)
      PROVE  LET index == at(variables[k].name, j)
             IN  /\ index \in 0..(register_size - 1)
                 /\ name_at(index) = variables[k].name
                 /\ variable_index(index) = j
  <2>1. variables[k].size \in Nat
    <3>1. variables \in Declarations
      BY DEF Inv, TypeOK
    <3>2. QED
      BY <3>1, VariablesType
  <2>2. at(variables[k].name, j) = sums[k] + j
    BY <1>3 DEF at
  <2>3. sums[k] <= sums[k] + j /\ sums[k] + j < sums[k + 1] /\ j \in Nat
    BY <1>3, <2>1
  <2>4. sums[k] + j \in 0..(register_size - 1)
    BY <1>2, <1>3, <2>3
  <2>5. index_to_variable_name[sums[k] + j] = variables[k].name
    BY <1>3, <2>3, <2>4
  <2>6. QED
    BY <1>3, <2>2, <2>3, <2>4, <2>5 DEF name_at, variable_index
<1>5. ASSUME NEW index \in 0..(register_size - 1)
      PROVE  \E k \in 1..n : /\ name_at(index) = variables[k].name
                             /\ variable_index(index) \in 0..(variables[k].size - 1)
  <2>1. n + 1 \in 1..(n + 1) /\ (n + 1) - 1 = n
    BY <1>1
  <2>2. PICK k \in 1..n : sums[k] <= index /\ index < sums[k + 1]
    BY <1>1, <2>1 DEF Inv, PartialSums
  <2>3. index_to_variable_name[index] = variables[k].name
    BY <1>3, <2>2
  <2>4. QED
    <3>1. variables \in Declarations
      BY DEF Inv, TypeOK
    <3>2. variables[k].size \in Nat /\ index \in Nat
      BY <1>2, <3>1, VariablesType
    <3>3. name_at(index) = variables[k].name
      BY <2>3 DEF name_at
    <3>4. variable_index(index) = index - sums[k]
      BY <1>3, <3>3 DEF variable_index
    <3>5. index - sums[k] \in 0..(variables[k].size - 1)
      BY <1>3, <2>2, <3>2
    <3>6. QED
      BY <3>3, <3>4, <3>5
<1>6. QED
  BY <1>4, <1>5 DEF NamesAndIndicesAgree

LEMMA InvStep == Inv /\ [Next]_vars => Inv'
BY TypeStep, PartialSumsStep, RangesAssignedStep DEF Inv

\* What is dirty makes no difference to the construction.
LEMMA DirtyStep ==
  ASSUME Inv, dirty_bitset' \in [DOMAIN dirty_bitset -> BOOLEAN],
         UNCHANGED <<variables, next, register_size, current_index, variable_name_to_range,
                     index_to_variable_name, phase, sums>>
  PROVE  Inv'
<1>1. TypeOK'
  BY DEF Inv, TypeOK
<1>2. PartialSums'
  BY DEF Inv, PartialSums, Summed
<1>3. RangesAssigned' /\ Progress'
  BY DEF Inv, RangesAssigned, Progress
<1>4. QED
  BY <1>1, <1>2, <1>3 DEF Inv

\* The size of a register is the last of the partial sums, also when it is too large.
LEMMA SizeIsLastSum ==
  ASSUME Inv, phase = "summing" => next > Len(variables)
  PROVE  /\ register_size = sums[Len(variables) + 1]
         /\ sums[1] = 0
         /\ \A k \in 1..Len(variables) : sums[k + 1] = sums[k] + variables[k].size
<1>1. Len(variables) \in Nat
  BY VariablesType DEF Inv, TypeOK
<1>2. Summed = Len(variables) + 1
  BY <1>1 DEF Summed, Inv, TypeOK
<1>3. QED
  BY <1>1, <1>2 DEF Inv, PartialSums

\* The ranges of a register that is built.
LEMMA BuiltRanges ==
  ASSUME Inv, phase = "built"
  PROVE  /\ register_size <= max_register_size
         /\ DOMAIN variable_name_to_range = {variables[k].name : k \in 1..Len(variables)}
         /\ \A k \in 1..Len(variables) :
              /\ variable_name_to_range[variables[k].name].first = sums[k]
              /\ variable_name_to_range[variables[k].name].size = variables[k].size
<1>1. Len(variables) \in Nat /\ next = Len(variables) + 1 /\ next - 1 = Len(variables)
  BY VariablesType DEF Inv, TypeOK, Progress
<1>2. register_size <= max_register_size
  BY DEF Inv, TypeOK
<1>3. QED
  BY <1>1, <1>2 DEF Inv, RangesAssigned

\* Once a register is built, names and indices translate into each other: the
\* ranges of the variables are disjoint, consecutive and cover the register.
THEOREM NamesAndIndicesCorrect == Spec => []NamesAndIndicesAgree
BY InvInit, InvStep, InvImpliesAgreement, PTL DEF Spec

=============================================================================

------------------------------ MODULE Register ------------------------------
(***************************************************************************)
(* The constructor of Register: it adds up the sizes of the variables of   *)
(* one kind, checks the sum, and gives every variable the next consecutive *)
(* indices.  A loop of the constructor is one action per variable.  Then   *)
(* the dirty bits may be set.                                              *)
(***************************************************************************)
EXTENDS Integers, Sequences, Functions

CONSTANTS Names,              \* variable names
          Declarations,       \* lists of variables a program may declare
          max_register_size   \* MAX_QUBIT_NUMBER or MAX_BIT_NUMBER

Variable == [name : Names, size : Nat]

\* The analyzer does not let a program declare two variables of one name.
ASSUME DeclarationsAssumption ==
  \A d \in Declarations :
    /\ d \in Seq(Variable)
    /\ \A j, k \in 1..Len(d) : d[j].name = d[k].name => j = k

ASSUME MaximumAssumption == max_register_size \in Nat

VARIABLES
  variables,               \* the variables of the register's kind, as declared
  next,                    \* the variable a loop visits next
  register_size,           \* register_size_
  current_index,           \* first index that is not assigned
  variable_name_to_range,  \* variable_name_to_range_: [first, size] by name
  index_to_variable_name,  \* index_to_variable_name_
  dirty_bitset,            \* dirty_bitset_
  phase,                   \* "summing", "assigning", "built" or "error"
  sums                     \* history: register_size before each variable was added

vars == <<variables, next, register_size, current_index, variable_name_to_range,
          index_to_variable_name, dirty_bitset, phase, sums>>

NoName == "unassigned"

Init ==
  /\ variables \in Declarations
  /\ next = 1
  /\ register_size = 0
  /\ current_index = 0
  /\ variable_name_to_range = [n \in {} |-> 0]
  /\ index_to_variable_name = [j \in {} |-> NoName]
  /\ dirty_bitset = [j \in {} |-> FALSE]
  /\ phase = "summing"
  /\ sums = [j \in {1} |-> 0]

\* One variable of the accumulate over variable_sizes.
AddSize ==
  /\ phase = "summing"
  /\ next <= Len(variables)
  /\ register_size' = register_size + variables[next].size
  /\ next' = next + 1
  /\ sums' = [j \in 1..(next + 1) |-> IF j = next + 1 THEN register_size' ELSE sums[j]]
  /\ UNCHANGED <<variables, current_index, variable_name_to_range,
                 index_to_variable_name, phase>>
  /\ UNCHANGED dirty_bitset

\* Mutants: the limit is one too low, and one too high.
TooLargeEarly == register_size >= max_register_size
TooLargeLate  == register_size > max_register_size + 1

TooLarge == register_size > max_register_size

\* The exception of the size check: the register is never built.
ThrowTooLarge ==
  /\ phase = "summing"
  /\ next > Len(variables)
  /\ TooLarge
  /\ phase' = "error"
  /\ UNCHANGED <<variables, next, register_size, current_index, variable_name_to_range,
                 index_to_variable_name, sums>>
  /\ UNCHANGED dirty_bitset

Resize ==
  /\ phase = "summing"
  /\ next > Len(variables)
  /\ ~TooLarge
  /\ index_to_variable_name' = [j \in 0..(register_size - 1) |-> NoName]
  /\ dirty_bitset' = [j \in 0..(register_size - 1) |-> FALSE]
  /\ next' = 1
  /\ phase' = "assigning"
  /\ UNCHANGED <<variables, register_size, current_index, variable_name_to_range, sums>>

\* Mutant: the first index of a range is left out.
AssignedAfterFirst(j, first, size) == j > first /\ j < first + size

Assigned(j, first, size) == j >= first /\ j < first + size

\* One variable of the loop that assigns the ranges.
AssignRange ==
  /\ phase = "assigning"
  /\ next <= Len(variables)
  /\ LET variable == variables[next]
     IN  /\ variable_name_to_range' =
              [n \in DOMAIN variable_name_to_range \union {variable.name} |->
                 IF n = variable.name
                 THEN [first |-> current_index, size |-> variable.size]
                 ELSE variable_name_to_range[n]]
         /\ index_to_variable_name' =
              [j \in DOMAIN index_to_variable_name |->
                 IF Assigned(j, current_index, variable.size) THEN variable.name
                 ELSE index_to_variable_name[j]]
         /\ current_index' = current_index + variable.size
  /\ next' = next + 1
  /\ UNCHANGED <<variables, register_size, dirty_bitset, phase, sums>>

Built ==
  /\ phase = "assigning"
  /\ next > Len(variables)
  /\ phase' = "built"
  /\ UNCHANGED <<variables, next, register_size, current_index, variable_name_to_range,
                 index_to_variable_name, sums>>
  /\ UNCHANGED dirty_bitset

set_dirty(j) ==
  /\ phase = "built"
  /\ j < register_size
  /\ dirty_bitset' = [dirty_bitset EXCEPT ![j] = TRUE]
  /\ UNCHANGED <<variables, next, register_size, current_index, variable_name_to_range,
                 index_to_variable_name, phase, sums>>

ConstructorStep ==
  \/ AddSize
  \/ ThrowTooLarge
  \/ Resize
  \/ AssignRange
  \/ Built

Next ==
  \/ ConstructorStep
  \/ \E j \in DOMAIN dirty_bitset : set_dirty(j)

Spec == Init /\ [][Next]_vars /\ WF_vars(ConstructorStep)

-----------------------------------------------------------------------------

TypeOK ==
  /\ variables \in Declarations
  /\ next \in 1..(Len(variables) + 1)
  /\ register_size \in Nat
  /\ current_index \in Nat
  /\ variable_name_to_range \in
       [DOMAIN variable_name_to_range -> [first : Nat, size : Nat]]
  /\ DOMAIN variable_name_to_range \subseteq Names
  /\ phase \in {"summing", "assigning", "built", "error"}
  /\ phase \in {"assigning", "built"} =>
       /\ register_size <= max_register_size
       /\ DOMAIN index_to_variable_name = 0..(register_size - 1)
       /\ dirty_bitset \in [0..(register_size - 1) -> BOOLEAN]

at(name, sub_index) == variable_name_to_range[name].first + sub_index

\* at(index) and get_*_variable_index: the variable of an index, and its position in it.
name_at(index)        == index_to_variable_name[index]
variable_index(index) == index - variable_name_to_range[name_at(index)].first

\* Names and indices translate into each other: every element of every variable has
\* an index of the register, and every index is one element of one variable, the one
\* that at() leads back to.  So no two variables share an index and none is unused.
NamesAndIndicesAgree ==
  phase = "built" =>
    /\ \A k \in 1..Len(variables) : \A j \in 0..(variables[k].size - 1) :
         LET index == at(variables[k].name, j)
         IN  /\ index \in 0..(register_size - 1)
             /\ name_at(index) = variables[k].name
             /\ variable_index(index) = j
    /\ \A index \in 0..(register_size - 1) :
         \E k \in 1..Len(variables) :
           /\ name_at(index) = variables[k].name
           /\ variable_index(index) \in 0..(variables[k].size - 1)

\* Construction comes to an end: with a register, or with an error exactly when the
\* variables do not fit.
ConstructionEnds ==
  <>(phase = (IF MapThenFoldSet(LAMBDA a, b : a + b, 0, LAMBDA k : variables[k].size,
                                LAMBDA T : CHOOSE k \in T : TRUE, 1..Len(variables))
                   > max_register_size
              THEN "error" ELSE "built"))

=============================================================================

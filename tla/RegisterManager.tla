-------------------------- MODULE RegisterManager ---------------------------
(***************************************************************************)
(* The process-wide register manager, over the programs that are run one   *)
(* after the other.  Its two registers are replaced one at a time, and the *)
(* constructor of either may throw (see Register for what it builds).      *)
(***************************************************************************)
EXTENDS Integers

CONSTANTS Programs,          \* records [id, qubits, bits]: what a program declares
          MAX_QUBIT_NUMBER,
          MAX_BIT_NUMBER

ASSUME ProgramsAssumption ==
  \A p \in Programs : p.qubits \in Nat /\ p.bits \in Nat

ASSUME LimitsAssumption == MAX_QUBIT_NUMBER \in Nat /\ MAX_BIT_NUMBER \in Nat

VARIABLES
  qubit_register,  \* qubit_register_: [program, dirty_bitset], or NoRegister
  bit_register,    \* bit_register_
  created,         \* create_instance returned, and its program is being run
  program,         \* history: the program of the last create_instance
  operated         \* history: qubits of that program's instructions so far

vars == <<qubit_register, bit_register, created, program, operated>>

NoProgram  == [id |-> 0, qubits |-> 0, bits |-> 0]
NoRegister == [program |-> NoProgram, dirty_bitset |-> <<>>]

NewRegister(p, size) ==
  [program |-> p, dirty_bitset |-> [j \in 0..(size - 1) |-> FALSE]]

Init ==
  /\ qubit_register = NoRegister
  /\ bit_register = NoRegister
  /\ created = FALSE
  /\ program = NoProgram
  /\ operated = {}

Given(p) == program' = p /\ operated' = {}

\* Mutant: a register that is there is used again.
ReplacedOnce(register, p, size) ==
  IF register = NoRegister THEN NewRegister(p, size) ELSE register

\* Mutant: what was dirty in the register before stays dirty.
ReplacedButDirty(register, p, size) ==
  [program |-> p, dirty_bitset |->
     [j \in 0..(size - 1) |->
        j \in DOMAIN register.dirty_bitset /\ register.dirty_bitset[j]]]

\* The assignment of a new register to the shared pointer.
Replaced(register, p, size) == NewRegister(p, size)

CreateInstance(p) ==
  /\ p.qubits <= MAX_QUBIT_NUMBER
  /\ p.bits <= MAX_BIT_NUMBER
  /\ qubit_register' = Replaced(qubit_register, p, p.qubits)
  /\ bit_register' = Replaced(bit_register, p, p.bits)
  /\ created' = TRUE
  /\ Given(p)

\* The constructor of the qubit register throws: neither register is replaced.
ThrowOnQubits(p) ==
  /\ p.qubits > MAX_QUBIT_NUMBER
  /\ created' = FALSE
  /\ Given(p)
  /\ UNCHANGED <<qubit_register, bit_register>>

\* The constructor of the bit register throws: the qubit register is already replaced.
ThrowOnBits(p) ==
  /\ p.qubits <= MAX_QUBIT_NUMBER
  /\ p.bits > MAX_BIT_NUMBER
  /\ qubit_register' = Replaced(qubit_register, p, p.qubits)
  /\ created' = FALSE
  /\ Given(p)
  /\ UNCHANGED bit_register

set_dirty(register, indices) ==
  [program      |-> register.program,
   dirty_bitset |-> [j \in DOMAIN register.dirty_bitset |->
                       register.dirty_bitset[j] \/ j \in indices]]

\* Circuit::add_instruction marks the qubits of an instruction of the program.
AddInstruction(qubits) ==
  /\ created
  /\ qubit_register' = set_dirty(qubit_register, qubits)
  /\ operated' = operated \union qubits
  /\ UNCHANGED <<bit_register, created, program>>

Next ==
  \/ \E p \in Programs : CreateInstance(p) \/ ThrowOnQubits(p) \/ ThrowOnBits(p)
  \/ \E qubits \in SUBSET (DOMAIN qubit_register.dirty_bitset) : AddInstruction(qubits)

Spec == Init /\ [][Next]_vars

-----------------------------------------------------------------------------

\* Each register is as large as its program declares, also after a failure between the
\* two replacements, which leaves registers of two programs; and while a program is run
\* both are its own, whatever ran or failed before it.
RegistersBelongTogether ==
  /\ DOMAIN qubit_register.dirty_bitset = 0..(qubit_register.program.qubits - 1)
  /\ DOMAIN bit_register.dirty_bitset = 0..(bit_register.program.bits - 1)
  /\ created => qubit_register.program = program /\ bit_register.program = program

\* A qubit is dirty exactly when an instruction of this program acts on it: what an
\* earlier program did never makes an init of this one fail.
DirtyTellsInstructions ==
  created => \A q \in DOMAIN qubit_register.dirty_bitset :
               qubit_register.dirty_bitset[q] <=> q \in operated

=============================================================================

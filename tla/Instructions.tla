---------------------------- MODULE Instructions -----------------------------
(***************************************************************************)
(* The instructions of a circuit, as the circuit builder makes them and    *)
(* the iterations execute them.  A unitary holds its gate, a record [name, *)
(* parameter, modifiers], where the code holds the matrix that is the      *)
(* MatrixOf that gate.                                                     *)
(***************************************************************************)
EXTENDS Gates, SequencesExt

ApplyGate(gate, operands) == [kind |-> "Unitary", gate |-> gate, operands |-> operands]
MeasureInto(q, b)         == [kind |-> "Measure", qubit |-> q, bit |-> b]
ResetQubit(q)             == [kind |-> "Reset", qubit |-> q]

get_qubit_indices(instruction) ==
  IF instruction.kind = "Unitary" THEN ToSet(instruction.operands)
  ELSE {instruction.qubit}

Modified(modifier, m) ==
  CASE modifier.name = "inv"  -> dagger(m)
    [] modifier.name = "pow"  -> power(m, modifier.exponent)
    [] modifier.name = "ctrl" -> control(m)

\* Mutant: a modifier below another one is lost.
OutermostOnly(gate) ==
  LET m == default_gates(gate.name, gate.parameter)
  IN  IF gate.modifiers = <<>> THEN m ELSE Modified(Head(gate.modifiers), m)

\* get_gates: the innermost modifier first.
MatrixOf(gate) ==
  FoldRight(Modified, gate.modifiers, default_gates(gate.name, gate.parameter))

\* A gate without modifiers.
Plain(name, k) == [name |-> name, parameter |-> k, modifiers |-> <<>>]
=============================================================================

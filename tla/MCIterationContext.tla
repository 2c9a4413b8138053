------------------------- MODULE MCIterationContext -------------------------
EXTENDS IterationContext

Gate(name) == Plain(name, 0)

CliffordGates == {Gate("H"), Gate("Z"), Gate("CNOT")}

Flip == {Gate("X")}
=============================================================================

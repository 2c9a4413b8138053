--------------------------- MODULE MCNoisyCircuit ---------------------------
EXTENDS NoisyCircuit

Gate(name) == Plain(name, 0)
h(q)       == ApplyGate(Gate("H"), <<q>>)
x(q)       == ApplyGate(Gate("X"), <<q>>)
cnot(p, q) == ApplyGate(Gate("CNOT"), <<p, q>>)

NoisyGates == {Gate(name) : name \in {"H", "X", "Y", "Z", "CNOT"}}

\* Circuits whose outcomes are certain without errors, and the qubits measured as one:
\* flips, phases that a second H turns into flips, and both spread by a CNOT.
Executed(list, ones) == [instructions |-> list, ones |-> ones]
SmallCircuits ==
  { Executed(<<x(0), cnot(0, 1), MeasureInto(1, 0), MeasureInto(0, 0)>>, {0, 1}),
    Executed(<<h(0), cnot(1, 0), h(0), MeasureInto(1, 0)>>, {}),
    Executed(<<h(0), h(0), MeasureInto(0, 0)>>, {}),
    Executed(<<x(1), ResetQubit(1), MeasureInto(1, 0)>>, {}) }

Quarters == {<<0, 1>>, <<1, 4>>, <<1, 1>>}

\* The least word and the two greatest, which random_integer does not use for two
\* qubits, and one more for each qubit; together they give each gate.
MCWords == {0, 4, 15, 30, 31}
=============================================================================

---------------------------- MODULE MCSimulation ----------------------------
EXTENDS Simulation

Gate(name) == Plain(name, 0)
h(q)       == ApplyGate(Gate("H"), <<q>>)
s(q)       == ApplyGate(Gate("S"), <<q>>)
x(q)       == ApplyGate(Gate("X"), <<q>>)
cnot(p, q) == ApplyGate(Gate("CNOT"), <<p, q>>)

SimulationGates == {Gate("H"), Gate("S"), Gate("X"), Gate("CNOT")}

Hadamard == {Gate("H")}

Of(circuits, iterations) == [circuit : circuits, iterations : iterations]

\* Two qubits, two bits; five shots may see every outcome and one of them again.
SmallJobs ==
  Of({ <<>>,
       <<h(0), cnot(0, 1), MeasureInto(0, 0), MeasureInto(1, 1)>>,
       <<h(0), cnot(0, 1), MeasureInto(1, 0), h(0), MeasureInto(0, 0)>>,
       <<h(0), MeasureInto(0, 1), cnot(0, 1), ResetQubit(0), h(1), MeasureInto(1, 0)>>,
       <<h(1), MeasureInto(1, 0), h(1), MeasureInto(1, 1), x(1)>>,
       <<h(0), s(0), h(1), ResetQubit(0)>>,
       <<h(0), h(1), h(1), cnot(1, 0)>> }, 1..3)
  \union Of({ <<h(0), MeasureInto(0, 0), h(1), MeasureInto(1, 1)>> }, {5})

\* One qubit measured into one bit, so that three shots see an outcome again.
OneMeasure == Of({ <<ResetQubit(0), h(0), MeasureInto(0, 0)>> }, {3})

\* Every gate, measure and reset on three qubits, after each of four preparations:
\* entangled with distinct phases, one qubit set, two set, and a product state
\* that leaves null entries behind.
t(q) == ApplyGate(Gate("T"), <<q>>)
EveryGate ==
  { Gate(name) : name \in DOMAIN fixed_gates }
    \union { Plain(name, k) : name \in {"Rx", "Ry", "Rz"}, k \in {1, 2, 7} }
    \union { Plain("CR", 1), Plain("CR", 6) }
    \union { Plain("CRk", k) : k \in 1..3 }

Preparations ==
  { <<h(0), t(0), h(1), s(1), cnot(1, 2), x(2)>>, <<x(0)>>, <<x(1), x(2)>>,
    <<h(2), h(2), h(1), t(1)>> }

EveryInstruction ==
  Of({ Append(p, i) : p \in Preparations,
                   i \in UNION { { ApplyGate(g, l) : l \in OperandLists(g) } : g \in EveryGate }
                          \union { MeasureInto(q, b) : q \in Qubit, b \in Bit }
                          \union { ResetQubit(q) : q \in Qubit } }, {1})
=============================================================================

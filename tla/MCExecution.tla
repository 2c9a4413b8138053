---------------------------- MODULE MCExecution -----------------------------
EXTENDS Execution

variable(name, kind, size) == [name |-> name, kind |-> kind, size |-> size]

all(v)        == [ref |-> "variable", variable |-> v]
some(v, list) == [ref |-> "index", variable |-> v, indices |-> list]

gate(modifiers, name, operands) ==
  [kind |-> "gate", modifiers |-> modifiers, name |-> name, parameter |-> 0,
   operands |-> operands]
nongate(name, operands) ==
  [kind |-> "nongate", name |-> name, parameter |-> 0, operands |-> operands]

ctrl   == [name |-> "ctrl"]
inv    == [name |-> "inv"]
pow(n) == [name |-> "pow", exponent |-> n]

\* Three qubits and two bits, in two orders of declaration.
TwoLayouts ==
  { << variable("q", "qubit", 2), variable("b", "bit", 1),
       variable("p", "qubit", 1), variable("c", "bit", 1) >>,
    << variable("c", "bit", 1), variable("p", "qubit", 1),
       variable("q", "qubit", 2), variable("b", "bit", 1) >> }

Statements ==
  { gate(<<>>, "X", <<all("q")>>), gate(<<>>, "X", <<some("q", <<1>>)>>),
    gate(<<ctrl>>, "X", <<some("q", <<1>>), all("p")>>),
    gate(<<>>, "SWAP", <<all("p"), some("q", <<0>>)>>),
    gate(<<>>, "TOFFOLI", <<all("p"), some("q", <<1>>), some("q", <<0>>)>>),
    nongate("measure", <<all("c"), some("q", <<1>>)>>),
    nongate("measure", <<all("b"), all("p")>>),
    nongate("reset", <<all("q")>>), nongate("init", <<some("q", <<0>>)>>) }

\* Longer programs, and some that fail while the circuit is built.
LongBodies ==
  { << nongate("init", <<all("q")>>),
       gate(<<>>, "X", <<some("q", <<1>>)>>),
       gate(<<>>, "CNOT", <<some("q", <<1>>), all("p")>>),
       nongate("measure", <<all("b"), all("p")>>),
       nongate("reset", <<all("p")>>) >>,
    << gate(<<>>, "X", <<all("p")>>),
       gate(<<>>, "SWAP", <<some("q", <<0>>), all("p")>>),
       gate(<<ctrl>>, "X", <<some("q", <<0>>), some("q", <<1>>)>>),
       nongate("measure", <<all("c"), some("q", <<1>>)>>),
       nongate("barrier", <<all("q")>>),
       nongate("measure", <<all("b"), all("p")>>) >>,
    << gate(<<>>, "X", <<all("q")>>),
       gate(<<>>, "TOFFOLI", <<some("q", <<0>>), some("q", <<1>>), all("p")>>),
       gate(<<pow(2)>>, "X", <<some("q", <<0>>)>>),
       nongate("reset", <<some("q", <<1>>)>>),
       nongate("measure", <<all("c"), all("p")>>) >>,
    << gate(<<inv>>, "X", <<some("q", <<1, 0>>)>>),
       gate(<<ctrl, pow(-1)>>, "X", <<some("q", <<0>>), all("p")>>),
       nongate("measure", <<some("b", <<0, 0>>), some("q", <<0, 0>>)>>),
       gate(<<>>, "X", <<some("q", <<0>>)>>),
       gate(<<>>, "CNOT", <<some("q", <<0, 1>>), some("q", <<1, 0>>)>>) >>,
    << gate(<<>>, "X", <<all("p")>>), nongate("init", <<all("q")>>),
       nongate("wait", <<all("q")>>), nongate("init", <<all("p")>>) >>,
    << gate(<<>>, "Z", <<all("q")>>), gate(<<>>, "unknown", <<all("p")>>) >> }

Wanted(variables, statements, iterations) ==
  [variables |-> variables, statements |-> statements, iterations |-> iterations]

MCPrograms ==
  { Wanted(v, s, n) : v \in TwoLayouts, s \in LongBodies, n \in 1..2 }
  \union { Wanted(v, s, 1) : v \in TwoLayouts, s \in BoundedSeq(Statements, 3) }
  \union { Wanted(<<variable("q", "qubit", 5)>>, <<>>, 1),
           Wanted(<<variable("q", "qubit", 3), variable("b", "bit", 4)>>, <<>>, 1) }

MCGates == {Plain(name, 0) : name \in {"X", "CNOT", "SWAP", "TOFFOLI", "Z"}}
=============================================================================

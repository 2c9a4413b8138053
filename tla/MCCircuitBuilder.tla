-------------------------- MODULE MCCircuitBuilder --------------------------
EXTENDS CircuitBuilder

\* Ranges as Register lays them out, with the kinds mixed.
Layout ==
  [ a |-> [kind |-> "qubit", first |-> 0, size |-> 1],
    b |-> [kind |-> "bit",   first |-> 0, size |-> 2],
    q |-> [kind |-> "qubit", first |-> 1, size |-> 3],
    c |-> [kind |-> "bit",   first |-> 2, size |-> 3] ]

all(v)         == [ref |-> "variable", variable |-> v]
some(v, list)  == [ref |-> "index", variable |-> v, indices |-> list]

gate(modifiers, name, k, operands) ==
  [kind |-> "gate", modifiers |-> modifiers, name |-> name, parameter |-> k,
   operands |-> operands]
nongate(name, k, operands) ==
  [kind |-> "nongate", name |-> name, parameter |-> k, operands |-> operands]

Statements ==
  { gate(<<>>, "H", 0, <<all("q")>>),
    gate(<<>>, "CNOT", 0, <<some("q", <<0, 1>>), some("q", <<2, 0>>)>>),
    gate(<<>>, "SWAP", 0, <<some("q", <<2>>), all("a")>>),
    gate(<<[name |-> "ctrl"]>>, "X", 0, <<all("a"), some("q", <<1>>)>>),
    gate(<<>>, "unknown", 0, <<all("a")>>),
    nongate("measure", 0, <<all("c"), all("q")>>),
    nongate("measure", 0, <<some("b", <<1>>), all("a")>>),
    nongate("reset", 0, <<some("q", <<2, 0>>)>>),
    nongate("init", 0, <<all("q")>>),
    nongate("init", 0, <<all("a")>>),
    nongate("init", 0, <<some("q", <<1, 2>>)>>),
    nongate("barrier", 0, <<all("a")>>),
    nongate("wait", 3, <<all("q")>>),
    nongate("wait", -1, <<all("a")>>),
    nongate("unsupported", 0, <<all("a")>>) }

\* Operands for one, two or three qubits, and every gate that has another name.
Arguments(n) == SubSeq(<<some("q", <<0, 2>>), some("q", <<1, 0>>), some("q", <<2, 1>>)>>, 1, n)
ModifiedGates ==
  { gate(g[1], g[2].name, g[2].parameter,
         Arguments(1 + Cardinality({m \in DOMAIN g[1] : g[1][m].name = "ctrl"})))
    : g \in NamedGates }

SmallPrograms ==
  { [variables |-> Layout, statements |-> l] :
      l \in BoundedSeq(Statements, 3) \union BoundedSeq(ModifiedGates, 1) }
=============================================================================

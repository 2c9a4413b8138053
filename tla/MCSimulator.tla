---------------------------- MODULE MCSimulator -----------------------------
EXTENDS CommandLine, SequencesExt

Does(kind, qubits) == [kind |-> kind, qubits |-> qubits, measures |-> 0]
Measure(qubits, n) == [kind |-> "operate", qubits |-> qubits, measures |-> n]
Program(i, n, bits, statements) ==
  [id |-> i, qubits |-> n, bits |-> bits, statements |-> statements]

Measured    == Program(1, 2, 1, <<Does("init", {0, 1}), Does("operate", {0}), Measure({0, 1}, 2)>>)
LateInit    == Program(2, 2, 0, <<Does("operate", {1}), Does("init", {0, 1})>>)
EarlyInit   == Program(3, 2, 1, <<Does("operate", {0}), Does("init", {1}), Measure({1}, 2)>>)
Unknown     == Program(4, 1, 0, <<Does("operate", {0}), Does("unknown", {0})>>)
ManyQubits  == Program(5, 3, 0, <<>>)
ManyBits    == Program(6, 1, 2, <<Measure({0}, 1)>>)
NoQubits    == Program(7, 0, 1, <<>>)

MCPrograms == {Measured, LateInit, EarlyInit, Unknown, ManyQubits, ManyBits, NoQubits}

Ask(p, n, seed) ==
  [version |-> "3.0", analysis |-> "program", program |-> p,
   iterations |-> n, seed |-> seed]

MCRequests ==
  { Ask(Measured, 1, NoSeed), Ask(Measured, 2, "one"), Ask(EarlyInit, 2, NoSeed),
    Ask(EarlyInit, 1, "two"), Ask(LateInit, 1, "one"), Ask(Unknown, 1, NoSeed),
    Ask(ManyQubits, 1, NoSeed), Ask(ManyBits, 1, "two"), Ask(NoQubits, 1, NoSeed),
    Ask(Measured, 0, "one"),
    [Ask(Measured, 1, "one") EXCEPT !.analysis = "errors"],
    [Ask(Measured, 1, "one") EXCEPT !.version = "1.0"] }

MCArguments == {"-c", "", "3", "-1", "bell.cq", "empty.cq", "missing.cq"}

\* Of all words, "3" and "-1" are numbers; of all paths, two are of files.
MCAtoi == [a \in MCArguments |-> CASE a = "3" -> 3 [] a = "-1" -> -1 [] OTHER -> 0]

MCFiles ==
  [path \in MCArguments |->
     CASE path = "bell.cq"  -> [analysis |-> "program", program |-> Measured]
       [] path = "empty.cq" -> [analysis |-> "program", program |-> NoQubits]
       [] OTHER             -> [analysis |-> "errors", program |-> Measured]]

FileRequests ==
  { [version |-> "3.0", analysis |-> file.analysis, program |-> file.program,
     iterations |-> n, seed |-> NoSeed] : file \in Range(MCFiles), n \in {0, 1, 3, 7} }

AllRequests == MCRequests \union FileRequests

MCCommandLines ==
  BoundedSeq(MCArguments, 3) \union
  { <<"-c", "3", "-c", "-1", "bell.cq">>, <<"-c", "-1", "-c", "3", "missing.cq">>,
    <<"-c", "3", "-c", "bell.cq">>, <<"-c", "3", "bell.cq", "-c", "3">> }
=============================================================================

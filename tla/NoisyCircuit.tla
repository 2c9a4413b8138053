----------------------------- MODULE NoisyCircuit -----------------------------
(***************************************************************************)
(* Circuit::execute with an error model: before each instruction, the      *)
(* depolarizing channel draws a random number and, if it is not above the  *)
(* channel's probability, applies X, Y or Z to a qubit drawn at random.    *)
(* The simulator itself only passes std::monostate (see Simulation).       *)
(***************************************************************************)
EXTENDS IterationContext, RandomNumbers

CONSTANTS NoisyCircuits,  \* records [instructions, ones], see OutcomesTellErrors
          Probabilities,  \* fractions <<n, d>>
          Words           \* the words that are drawn

ASSUME NoisyAssumption ==
  /\ \A c \in NoisyCircuits :
       /\ Len(c.instructions) \in Nat /\ DOMAIN c.instructions = 1..Len(c.instructions)
       /\ \A j \in DOMAIN c.instructions : IsInstruction(c.instructions[j])
       /\ c.ones \subseteq Qubit
  /\ \A p \in Probabilities : p \in Nat \X (Nat \ {0}) /\ p[1] <= p[2]
  /\ Words \subseteq Word /\ NumberOfQubits < UINT_FAST64_MAX
  /\ \A name \in {"X", "Y", "Z"} : Plain(name, 0) \in Gates /\ Arity(Plain(name, 0)) = 1

VARIABLES
  circuit,      \* the circuit that is executed
  probability,  \* of the DepolarizingChannel
  pc,           \* the instruction that is executed next
  step,         \* "error", "operand", "apply" or "instruction", or "finished"
  random,       \* the first number of add_error
  r,            \* the last word of random_integer
  errors        \* history: the error before each instruction, or NoError

noisy_vars == <<vars, circuit, probability, pc, step, random, r, errors>>

NoError == [gate |-> "none", operand |-> 0]

NoisyInit ==
  /\ Init
  /\ circuit \in NoisyCircuits
  /\ probability \in Probabilities
  /\ pc = 1
  /\ step = "error"
  /\ random = <<1, 1>>
  /\ r = 0
  /\ errors = <<>>

More == pc <= Len(circuit.instructions)

\* x < y and x <= y for fractions.
Less(x, y)    == x[1] * y[2] < y[1] * x[2]
NotAbove(x, y) == x[1] * y[2] <= y[1] * x[2]

\* Mutant: the probability itself is excluded.
HappensBelow(number) == Less(number, probability)

Happens(number) == NotAbove(number, probability)

DrawNoError(word) ==
  /\ step = "error"
  /\ More
  /\ ~Happens(random_zero_one_double(word))
  /\ step' = "instruction"
  /\ errors' = Append(errors, NoError)
  /\ UNCHANGED <<vars, circuit, probability, pc, random, r>>

DrawError(word) ==
  /\ step = "error"
  /\ More
  /\ Happens(random_zero_one_double(word))
  /\ random' = random_zero_one_double(word)
  /\ step' = "operand"
  /\ UNCHANGED <<vars, circuit, probability, pc, r, errors>>

\* The loop of random_integer, which draws the operand among the qubits.
RejectWord(word) ==
  /\ step = "operand"
  /\ ~Usable(0, NumberOfQubits - 1, word)
  /\ r' = word
  /\ UNCHANGED <<vars, circuit, probability, pc, step, random, errors>>

AcceptWord(word) ==
  /\ step = "operand"
  /\ Usable(0, NumberOfQubits - 1, word)
  /\ r' = word
  /\ step' = "apply"
  /\ UNCHANGED <<vars, circuit, probability, pc, random, errors>>

Third(p, n) == <<n * p[1], 3 * p[2]>>

\* Mutant: the thirds are not those of the probability.
ThirdsOfOne(number) ==
  IF Less(number, <<1, 3>>) THEN "X" ELSE IF Less(number, <<2, 3>>) THEN "Y" ELSE "Z"

ErrorGate(number) ==
  IF Less(number, Third(probability, 1)) THEN "X"
  ELSE IF Less(number, Third(probability, 2)) THEN "Y" ELSE "Z"

\* Mutant: the error is recorded, but not applied.
ErrorIsLost ==
  /\ step = "apply"
  /\ errors' = Append(errors, [gate    |-> ErrorGate(random),
                              operand |-> random_integer(0, NumberOfQubits - 1, r)])
  /\ step' = "instruction"
  /\ random' = <<1, 1>>
  /\ r' = 0
  /\ UNCHANGED <<vars, circuit, probability, pc>>

ApplyError ==
  /\ step = "apply"
  /\ LET e == [gate    |-> ErrorGate(random),
               operand |-> random_integer(0, NumberOfQubits - 1, r)]
     IN  /\ Unitary(Plain(e.gate, 0), <<e.operand>>)
         /\ errors' = Append(errors, e)
  /\ step' = "instruction"
  /\ random' = <<1, 1>>
  /\ r' = 0
  /\ UNCHANGED <<circuit, probability, pc>>

ExecuteInstruction ==
  /\ step = "instruction"
  /\ Execute(circuit.instructions[pc])
  /\ pc' = pc + 1
  /\ step' = "error"
  /\ UNCHANGED <<circuit, probability, random, r, errors>>

Finish ==
  /\ step = "error"
  /\ ~More
  /\ step' = "finished"
  /\ UNCHANGED <<vars, circuit, probability, pc, random, r, errors>>

Ended == step = "finished" /\ UNCHANGED noisy_vars

NoisyNext ==
  \/ \E word \in Words : DrawNoError(word) \/ DrawError(word) \/ RejectWord(word) \/ AcceptWord(word)
  \/ ApplyError
  \/ ExecuteInstruction
  \/ Finish
  \/ Ended

\* The words of the generator are spread evenly, so that one that can be used is not
\* put off for ever.
NoisySpec ==
  /\ NoisyInit
  /\ [][NoisyNext]_noisy_vars
  /\ WF_noisy_vars(\E word \in Words : AcceptWord(word))

-----------------------------------------------------------------------------

NoisyTypeOK ==
  /\ TypeOK
  /\ circuit \in NoisyCircuits
  /\ probability \in Probabilities
  /\ pc \in 1..(Len(circuit.instructions) + 1)
  /\ step \in {"error", "operand", "apply", "instruction", "finished"}
  /\ step \in {"operand", "apply", "instruction"} => More
  /\ random \in {<<1, 1>>} \union {random_zero_one_double(word) : word \in Words}
  /\ r \in Word
  /\ errors \in Seq([gate : {"none", "X", "Y", "Z"}, operand : Qubit])
  /\ step = "apply" => random_integer(0, NumberOfQubits - 1, r) \in Qubit
  /\ Len(errors) = pc - (IF step = "instruction" THEN 0 ELSE 1)

\* A channel of probability zero never applies an error, also for the least random
\* number, and one of probability one applies an error before every instruction.
ExtremesAreCertain ==
  \A j \in DOMAIN errors :
    /\ probability[1] = 0 => errors[j] = NoError
    /\ probability[1] = probability[2] => errors[j] # NoError

\* Each of X, Y and Z comes from a third of the words that the probability gives an
\* error, up to the words that two roundings take to the other side of a boundary.
ErrorsAreEven ==
  \A gate \in {"X", "Y", "Z"} :
    LET number(w) == random_zero_one_double(w)
        words     == {w \in Word : Happens(number(w)) /\ ErrorGate(number(w)) = gate}
        share     == 3 * probability[2] * Cardinality(words)
        rounded   == 3 * probability[2] * 2 * Spacing(UINT_FAST64_MAX)
    IN  share - probability[1] * (UINT_FAST64_MAX + 1) \in -rounded..rounded

\* random_integer favours no qubit, whatever the size of the register (here this one's
\* and up to one more): as many words that it uses give one as another.
QubitsAreEquallyLikely ==
  \A n \in 1..(NumberOfQubits + 1) : \A q \in 0..(n - 1) :
    Cardinality(WordsFor(0, n - 1, q)) = bucket_size(0, n - 1)

\* The loop of random_integer ends.
OperandIsFound == (step = "operand") ~> (step = "apply")

-----------------------------------------------------------------------------
(* How errors spread (a Pauli frame): the qubits that are flipped, and     *)
(* those whose phase is, after the errors so far.                          *)

Toggled(set, q, condition) == IF condition THEN SymDiff(set, {q}) ELSE set

AfterError(frame, e) ==
  [x |-> Toggled(frame.x, e.operand, e.gate \in {"X", "Y"}),
   z |-> Toggled(frame.z, e.operand, e.gate \in {"Y", "Z"})]

AfterGate(frame, name, operands) ==
  LET q == operands[1]
  IN  CASE name = "H"    -> [x |-> (frame.x \ {q}) \union (frame.z \intersect {q}),
                             z |-> (frame.z \ {q}) \union (frame.x \intersect {q})]
        [] name = "CNOT" -> [x |-> Toggled(frame.x, operands[2], q \in frame.x),
                             z |-> Toggled(frame.z, q, operands[2] \in frame.z)]
        [] OTHER         -> frame

AfterInstruction(frame, i) ==
  CASE i.kind = "Unitary" -> AfterGate(frame, i.gate.name, i.operands)
    [] i.kind = "Measure" -> frame
    [] i.kind = "Reset"   -> [x |-> frame.x \ {i.qubit}, z |-> frame.z \ {i.qubit}]

Frames ==
  LET after[n \in 0..Len(circuit.instructions)] ==
        IF n = 0 THEN [x |-> {}, z |-> {}]
        ELSE AfterInstruction(AfterError(after[n - 1], errors[n]), circuit.instructions[n])
  IN  after

\* An execution measures what the circuit would measure without errors ("ones", the
\* qubits measured as one), but for the qubits that the errors flip: each error acts
\* once, before its instruction and after the ones before that.
OutcomesTellErrors ==
  step = "finished" =>
    \A q \in Qubit :
      LET measures == {j \in DOMAIN circuit.instructions :
                         circuit.instructions[j].kind = "Measure"
                           /\ circuit.instructions[j].qubit = q}
      IN  measures # {} =>
            measurement_register[q] =
              ((q \in circuit.ones) # (q \in Frames[Max(measures)].x))

=============================================================================

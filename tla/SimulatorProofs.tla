--------------------------- MODULE SimulatorProofs ---------------------------
(***************************************************************************)
(* The calls of one process, for any requests, programs and limits: how a  *)
(* call ends and which random numbers it draws are functions of its        *)
(* arguments and of the position of the generator. Every process of        *)
(* CommandLine, whether qx-simulator or a client of the library, calls the *)
(* simulator so, and qx-simulator does what its arguments say.             *)
(***************************************************************************)
EXTENDS CommandLine, FiniteSetTheorems, TLAPS

-----------------------------------------------------------------------------
(* The register manager, whatever drives it.                               *)

\* While a program runs its registers belong together; of what a failed create_instance
\* leaves behind only that each register is whole, because it is never used.
LEMMA TogetherStep ==
  RegistersBelongTogether /\ [Next]_vars => RegistersBelongTogether'
<1> SUFFICES ASSUME RegistersBelongTogether, [Next]_vars
             PROVE  RegistersBelongTogether'
  OBVIOUS
<1> USE DEF RegistersBelongTogether
<1>1. ASSUME NEW p \in Programs, CreateInstance(p)
      PROVE  RegistersBelongTogether'
  BY <1>1 DEF CreateInstance, Given, Replaced, NewRegister
<1>2. ASSUME NEW p \in Programs, ThrowOnQubits(p) \/ ThrowOnBits(p)
      PROVE  RegistersBelongTogether'
  BY <1>2 DEF ThrowOnQubits, ThrowOnBits, Replaced, NewRegister
<1>3. ASSUME NEW qubits, AddInstruction(qubits)
      PROVE  RegistersBelongTogether'
  BY <1>3 DEF AddInstruction, set_dirty
<1>4. CASE UNCHANGED vars
  BY <1>4 DEF vars
<1>5. QED
  BY <1>1, <1>2, <1>3, <1>4 DEF Next

\* Both registers are always those of the program that is being run, and each is whole also
\* after a failure between their constructors.
THEOREM TogetherCorrect == Spec => []RegistersBelongTogether
<1>1. Init => RegistersBelongTogether
  BY DEF Init, RegistersBelongTogether, NoRegister, NoProgram
<1>2. QED
  BY <1>1, TogetherStep, PTL DEF Spec

LEMMA DirtyStep ==
  DirtyTellsInstructions /\ [Next]_vars => DirtyTellsInstructions'
<1> SUFFICES ASSUME DirtyTellsInstructions, [Next]_vars
             PROVE  DirtyTellsInstructions'
  OBVIOUS
<1>1. ASSUME NEW p \in Programs, CreateInstance(p)
      PROVE  DirtyTellsInstructions'
  <2>1. operated' = {} /\ qubit_register'.dirty_bitset = [j \in 0..(p.qubits - 1) |-> FALSE]
    BY <1>1 DEF CreateInstance, Given, Replaced, NewRegister
  <2>2. QED
    BY <2>1 DEF DirtyTellsInstructions
<1>2. ASSUME NEW p \in Programs, ThrowOnQubits(p) \/ ThrowOnBits(p)
      PROVE  DirtyTellsInstructions'
  BY <1>2 DEF ThrowOnQubits, ThrowOnBits, DirtyTellsInstructions
<1>3. ASSUME NEW qubits, AddInstruction(qubits)
      PROVE  DirtyTellsInstructions'
  <2>1. /\ created /\ operated' = operated \union qubits
        /\ qubit_register'.dirty_bitset =
             [j \in DOMAIN qubit_register.dirty_bitset |->
                qubit_register.dirty_bitset[j] \/ j \in qubits]
    BY <1>3 DEF AddInstruction, set_dirty
  <2>2. \A q \in DOMAIN qubit_register.dirty_bitset :
          qubit_register.dirty_bitset[q] <=> q \in operated
    BY <2>1 DEF DirtyTellsInstructions
  <2>3. \A q \in DOMAIN qubit_register'.dirty_bitset :
          qubit_register'.dirty_bitset[q] <=> q \in operated'
    BY <2>1, <2>2, Zenon
  <2>4. QED
    BY <2>3 DEF DirtyTellsInstructions
<1>4. CASE UNCHANGED vars
  BY <1>4 DEF vars, DirtyTellsInstructions
<1>5. QED
  BY <1>1, <1>2, <1>3, <1>4 DEF Next

\* A qubit is dirty exactly when the program that runs has operated on it.
THEOREM DirtyCorrect == Spec => []DirtyTellsInstructions
<1>1. Init => DirtyTellsInstructions
  BY DEF Init, DirtyTellsInstructions
<1>2. QED
  BY <1>1, DirtyStep, PTL DEF Spec

-----------------------------------------------------------------------------
(* What a call is expected to do, from its arguments alone.                *)

StatementOf(r, k) == r.program.statements[k]

OperatedBefore(r, n) ==
  UNION {StatementOf(r, k).qubits :
           k \in {l \in 1..(n - 1) : StatementOf(r, l).kind = "operate"}}

Fails(r, k) ==
  \/ StatementOf(r, k).kind = "unknown"
  \/ /\ StatementOf(r, k).kind = "init"
     /\ \E q \in StatementOf(r, k).qubits : q \in OperatedBefore(r, k)

IsRefused(r) == r.version # "3.0" \/ r.analysis # "program" \/ r.iterations = 0
IsTooLarge(r) == r.program.qubits > MAX_QUBIT_NUMBER \/ r.program.bits > MAX_BIT_NUMBER
IsWrong(r)   == \E k \in 1..Len(r.program.statements) : Fails(r, k)

Outcome(r) ==
  IF IsRefused(r) \/ IsTooLarge(r) \/ IsWrong(r) THEN "error"
  ELSE IF r.program.qubits = 0 THEN "exception" ELSE "result"

MeasuredBefore(r, n) == UNION {{k} \X (1..StatementOf(r, k).measures) : k \in 1..(n - 1)}

Measured(r) == MeasuredBefore(r, Len(r.program.statements) + 1)

NumbersOf(r) == IF Outcome(r) = "result" THEN r.iterations * Cardinality(Measured(r)) ELSE 0

-----------------------------------------------------------------------------
(* The inductive invariant.                                                *)

Seeds     == {DeviceSeed} \union {r.seed : r \in Requests}
Positions == [seed : Seeds, drawn : Nat]
Records   == [request : Requests, outcome : {"result", "error", "exception"},
              from : Positions, to : Positions]

Types ==
  /\ generator \in Positions /\ start \in Positions
  /\ request \in Requests
  /\ phase \in {"idle", "called", "registers", "building", "executing"}
  /\ next \in 0..(Len(request.program.statements) + 1)
  /\ measures \in Nat
  /\ shots_done \in 0..request.iterations
  /\ calls \in Seq(Records)
  /\ Len(calls) <= MaxCalls
  /\ phase # "idle" => Len(calls) < MaxCalls

\* What the steps so far of the call that runs have shown of its arguments, and what
\* they have left in the register and in the circuit.
Progress ==
  /\ phase \in {"registers", "building", "executing"} => ~IsRefused(request)
  /\ phase \in {"building", "executing"} =>
       /\ created /\ program = request.program
       /\ ~IsTooLarge(request)
       /\ next # 0
       /\ \A k \in 1..(next - 1) : ~Fails(request, k)
       /\ operated = OperatedBefore(request, next)
       /\ measures = Cardinality(MeasuredBefore(request, next))
  /\ phase \in {"called", "registers"} => next = 1 /\ measures = 0
  /\ phase \in {"called", "registers", "building"} => shots_done = 0
  /\ phase = "executing" =>
       /\ next = Len(request.program.statements) + 1
       /\ shots_done # 0 => request.program.qubits # 0

\* Where the generator is.
LastPosition == calls[Len(calls)].to

GeneratorMoves ==
  /\ phase \in {"called", "registers", "building"} => generator = start
  /\ phase = "executing" =>
       generator = [seed |-> start.seed, drawn |-> start.drawn + shots_done * measures]
  /\ phase = "idle" /\ calls # <<>> => generator = LastPosition
  /\ phase = "called" /\ calls # <<>> => start = LastPosition
  /\ phase \in {"registers", "building", "executing"} =>
       /\ request.seed = NoSeed /\ calls # <<>> => start = LastPosition
       /\ request.seed # NoSeed => start = [seed |-> request.seed, drawn |-> 0]

\* What the calls that ended have done.
CallDone(j) ==
  LET c == calls[j]
  IN  /\ c.outcome = Outcome(c.request)
      /\ c.to = [seed |-> c.from.seed, drawn |-> c.from.drawn + NumbersOf(c.request)]
      /\ c.outcome = "result" /\ c.request.seed # NoSeed
           => c.from = [seed |-> c.request.seed, drawn |-> 0]
      /\ j > 1 => \/ c.from = calls[j - 1].to
                  \/ c.request.seed # NoSeed /\ c.from.drawn = 0

CallsDone == \A j \in 1..Len(calls) : CallDone(j)

CallsInv == Types /\ Progress /\ GeneratorMoves /\ CallsDone

IInv == CallsInv /\ RegistersBelongTogether /\ DirtyTellsInstructions

-----------------------------------------------------------------------------
(* Facts about requests.                                                   *)

LEMMA RequestType ==
  ASSUME NEW r \in Requests
  PROVE  /\ r.iterations \in Nat
         /\ r.program \in Programs
         /\ r.program.qubits \in Nat
         /\ Len(r.program.statements) \in Nat
         /\ \A k \in 1..Len(r.program.statements) :
              /\ StatementOf(r, k).kind \in {"operate", "init", "unknown"}
              /\ StatementOf(r, k).qubits \subseteq 0..(r.program.qubits - 1)
              /\ StatementOf(r, k).measures \in Nat
              /\ StatementOf(r, k).kind # "operate" => StatementOf(r, k).measures = 0
<1>1. r.program \in Programs /\ r.iterations \in Nat /\ r.program.statements \in Seq(Statement)
  BY RequestsAssumption DEF IsRequest
<1>2. r.program.qubits \in Nat
  BY <1>1, ProgramsAssumption
<1>3. \A k \in 1..Len(r.program.statements) : r.program.statements[k] \in Statement
  BY <1>1
<1>4. \A k \in 1..Len(r.program.statements) :
        /\ r.program.statements[k].qubits \subseteq 0..(r.program.qubits - 1)
        /\ r.program.statements[k].kind # "operate" => r.program.statements[k].measures = 0
  BY <1>1, RequestsAssumption DEF IsRequest
<1>5. QED
  BY <1>1, <1>2, <1>3, <1>4 DEF StatementOf, Statement

LEMMA OperatedGrows ==
  ASSUME NEW r \in Requests, NEW n \in 1..Len(r.program.statements)
  PROVE  OperatedBefore(r, n + 1) =
           OperatedBefore(r, n) \union
             (IF StatementOf(r, n).kind = "operate"
              THEN StatementOf(r, n).qubits ELSE {})
<1>1. n \in Nat /\ 1..(n + 1 - 1) = (1..(n - 1)) \union {n}
  BY RequestType
<1>2. QED
  BY <1>1 DEF OperatedBefore

\* One statement adds the measures that it makes.
LEMMA MeasuredGrows ==
  ASSUME NEW r \in Requests, NEW n \in 1..Len(r.program.statements)
  PROVE  Cardinality(MeasuredBefore(r, n + 1)) =
           Cardinality(MeasuredBefore(r, n)) + StatementOf(r, n).measures
<1>. DEFINE Of(k) == {k} \X (1..StatementOf(r, k).measures)
            Sets  == {Of(k) : k \in 1..(n - 1)}
            Old   == MeasuredBefore(r, n)
<1>1. n \in Nat /\ n # 0 /\ 1..(n + 1 - 1) = (1..(n - 1)) \union {n}
  BY RequestType
<1>2. \A k \in 1..n : StatementOf(r, k).measures \in Nat
  BY <1>1, RequestType
<1>3. ASSUME NEW k \in 1..n
      PROVE  IsFiniteSet(Of(k)) /\ Cardinality(Of(k)) = StatementOf(r, k).measures
  <2>. DEFINE m == StatementOf(r, k).measures
  <2>1. m \in Nat
    BY <1>2
  <2>2. IsFiniteSet(1..m) /\ Cardinality(1..m) = m
    <3>. HIDE DEF m
    <3>1. QED
      BY <2>1, FS_Interval
  <2>3. IsFiniteSet({k}) /\ Cardinality({k}) = 1
    BY FS_Singleton
  <2>. HIDE DEF m
  <2>4. IsFiniteSet({k} \X (1..m)) /\ Cardinality({k} \X (1..m)) = Cardinality({k}) * Cardinality(1..m)
    BY <2>2, <2>3, FS_Product
  <2>5. QED
    BY <2>1, <2>2, <2>3, <2>4 DEF m
<1>4. MeasuredBefore(r, n + 1) = Old \union Of(n) /\ Old \intersect Of(n) = {}
  BY <1>1 DEF MeasuredBefore
<1>5. IsFiniteSet(Old)
  <2>1. 1..(n - 1) \subseteq 1..n
    BY <1>1
  <2>2. IsFiniteSet(1..(n - 1))
    BY <1>1, FS_Interval
  <2>3. \A x \in Sets : IsFiniteSet(x)
    BY <1>3, <2>1
  <2>4. IsFiniteSet(Sets)
    <3>. DEFINE f == [k \in 1..(n - 1) |-> Of(k)]
    <3>1. f \in Surjection(1..(n - 1), Sets)
      BY DEF Surjection
    <3>. HIDE DEF f, Sets
    <3>2. QED
      BY <2>2, <3>1, FS_Surjection
  <2>5. Old = UNION Sets
    BY DEF MeasuredBefore
  <2>. HIDE DEF Sets, Old
  <2>6. QED
    BY <2>3, <2>4, <2>5, FS_UNION
<1>6. n \in 1..n
  BY <1>1
<1>7. IsFiniteSet(Of(n)) /\ Cardinality(Of(n)) = StatementOf(r, n).measures
  BY <1>3, <1>6
<1>. HIDE DEF Old, Of
<1>8. Cardinality(Old \union Of(n)) = Cardinality(Old) + Cardinality(Of(n)) - Cardinality({})
  BY <1>4, <1>5, <1>7, FS_Union
<1>9. Cardinality({}) = 0 /\ Cardinality(Old) \in Nat
  BY <1>5, FS_EmptySet, FS_CardinalityType
<1>10. Cardinality(Old \union Of(n)) = Cardinality(Old) + StatementOf(r, n).measures
  BY <1>2, <1>6, <1>7, <1>8, <1>9
<1>11. QED
  BY <1>4, <1>10 DEF Old

LEMMA NothingBeforeTheFirst ==
  ASSUME NEW r \in Requests
  PROVE  OperatedBefore(r, 1) = {} /\ Cardinality(MeasuredBefore(r, 1)) = 0
<1>1. 1..(1 - 1) = {}
  OBVIOUS
<1>2. OperatedBefore(r, 1) = {}
  BY <1>1 DEF OperatedBefore
<1>3. MeasuredBefore(r, 1) = {}
  BY <1>1 DEF MeasuredBefore
<1>4. QED
  BY <1>2, <1>3, FS_EmptySet

-----------------------------------------------------------------------------
(* The register manager's view of a step.                                  *)

\* Each step is one of the register manager, or does not touch it.
LEMMA RegisterStep ==
  ASSUME Types, Progress, RegistersBelongTogether, [SimulatorNext]_simulator_vars
  PROVE  [Next]_vars
<1>1. CASE UNCHANGED simulator_vars
  BY <1>1 DEF simulator_vars
<1>2. ASSUME CreateRegisters \/ RegistersTooLarge
      PROVE  Next
  <2>1. request.program \in Programs
    BY RequestType DEF Types
  <2>2. QED
    BY <1>2, <2>1 DEF CreateRegisters, RegistersTooLarge, Next
<1>3. ASSUME Operate
      PROVE  Next
  <2>1. /\ next \in 1..Len(request.program.statements)
        /\ created /\ program = request.program
        /\ AddInstruction(StatementQubits)
    BY <1>3, RequestType DEF Operate, Visiting, Types, Progress
  <2>2. StatementQubits \subseteq 0..(request.program.qubits - 1)
    BY <2>1, RequestType DEF Types, StatementQubits, StatementOf
  <2>3. StatementQubits \in SUBSET DOMAIN qubit_register.dirty_bitset
    BY <2>1, <2>2 DEF RegistersBelongTogether
  <2>4. QED
    BY <2>1, <2>3 DEF Next
<1>4. CASE \/ \E r \in Requests : Call(r)
           \/ Refuse \/ Seed \/ InitQubits \/ BuildingFails \/ CircuitIsBuilt
           \/ ContextFails \/ Shot \/ GetSimulationResult
  BY <1>4 DEF Call, Refuse, Seed, InitQubits, BuildingFails, CircuitIsBuilt,
              ContextFails, Shot, GetSimulationResult
<1>5. QED
  BY <1>1, <1>2, <1>3, <1>4 DEF SimulatorNext

-----------------------------------------------------------------------------
(* The end of a call.                                                      *)

\* What has to be known of a call when it ends, for its record to be right.
MayReturn(outcome) ==
  /\ phase # "idle"
  /\ outcome = Outcome(request)
  /\ generator = [seed |-> start.seed, drawn |-> start.drawn + NumbersOf(request)]
  /\ outcome = "result" /\ request.seed # NoSeed
       => start = [seed |-> request.seed, drawn |-> 0]
  /\ calls # <<>> => \/ start = LastPosition
                     \/ request.seed # NoSeed /\ start.drawn = 0

LEMMA ReturnStep ==
  ASSUME Types, CallsDone, NEW outcome, MayReturn(outcome), Return(outcome)
  PROVE  Types' /\ Progress' /\ GeneratorMoves' /\ CallsDone'
<1>. DEFINE record == [request |-> request, outcome |-> outcome,
                       from |-> start, to |-> generator]
<1>1. /\ phase' = "idle"
      /\ calls' = Append(calls, record)
      /\ UNCHANGED <<generator, request, next, measures, shots_done, start>>
  BY DEF Return
<1>2. record \in Records
  BY DEF Types, MayReturn, Outcome, Records
<1>. HIDE DEF record
<1>3. /\ calls \in Seq(Records) /\ Len(calls) \in Nat
      /\ calls' \in Seq(Records)
      /\ Len(calls') = Len(calls) + 1
      /\ calls'[Len(calls) + 1] = record
      /\ \A j \in 1..Len(calls) : calls'[j] = calls[j]
  BY <1>1, <1>2 DEF Types
<1>4. Types'
  <2>1. Len(calls) < MaxCalls /\ MaxCalls \in Nat
    BY BoundsAssumption DEF Types, MayReturn
  <2>2. Len(calls') <= MaxCalls
    BY <1>3, <2>1
  <2>3. QED
    BY <1>1, <1>3, <2>2 DEF Types
<1>5. Progress'
  BY <1>1 DEF Progress
<1>6. GeneratorMoves'
  <2>1. LastPosition' = generator
    BY <1>1, <1>3 DEF LastPosition, record
  <2>2. QED
    BY <1>1, <2>1 DEF GeneratorMoves
<1>7. CallsDone'
  <2>. SUFFICES ASSUME NEW j \in 1..(Len(calls) + 1)
                PROVE  CallDone(j)'
    BY <1>3 DEF CallsDone
  <2>1. CASE j \in 1..Len(calls)
    <3>1. CallDone(j)
      BY <2>1 DEF CallsDone
    <3>2. calls'[j] = calls[j] /\ (j > 1 => calls'[j - 1] = calls[j - 1])
      BY <1>3, <2>1
    <3>3. QED
      BY <3>1, <3>2 DEF CallDone
  <2>2. CASE j = Len(calls) + 1
    <3>1. calls'[j] = record
      BY <1>3, <2>2
    <3>2. j > 1 => calls # <<>> /\ calls'[j - 1] = calls[Len(calls)]
      BY <1>3, <2>2
    <3>3. j > 1 => \/ record.from = calls'[j - 1].to
                   \/ record.request.seed # NoSeed /\ record.from.drawn = 0
      BY <3>2 DEF MayReturn, LastPosition, record
    <3>4. /\ record.outcome = Outcome(record.request)
          /\ record.to = [seed |-> record.from.seed,
                          drawn |-> record.from.drawn + NumbersOf(record.request)]
          /\ record.outcome = "result" /\ record.request.seed # NoSeed
               => record.from = [seed |-> record.request.seed, drawn |-> 0]
      BY DEF MayReturn, record
    <3>5. QED
      BY <3>1, <3>3, <3>4 DEF CallDone
  <2>3. QED
    BY <1>3, <2>1, <2>2
<1>8. QED
  BY <1>4, <1>5, <1>6, <1>7

-----------------------------------------------------------------------------
(* One lemma for each action.                                              *)

LEMMA CallsStay ==
  ASSUME CallsDone, UNCHANGED calls
  PROVE  CallsDone' /\ LastPosition' = LastPosition
BY DEF CallsDone, CallDone, LastPosition

LEMMA CallStep ==
  ASSUME CallsInv, NEW r \in Requests, Call(r)
  PROVE  CallsInv'
<1>1. r.iterations \in Nat /\ Len(r.program.statements) \in Nat
  BY RequestType
<1>2. Types'
  BY <1>1 DEF CallsInv, Types, Call
<1>3. Progress'
  BY DEF Progress, Call
<1>4. GeneratorMoves'
  BY CallsStay DEF CallsInv, GeneratorMoves, Call
<1>5. QED
  BY <1>2, <1>3, <1>4, CallsStay DEF CallsInv, Call

\* A call that fails before it draws a number.
LEMMA ErrorStep ==
  ASSUME CallsInv, phase \in {"called", "registers", "building"},
         IsRefused(request) \/ IsTooLarge(request) \/ IsWrong(request),
         Return("error")
  PROVE  CallsInv'
<1>1. Outcome(request) = "error" /\ NumbersOf(request) = 0
  BY DEF Outcome, NumbersOf
<1>2. generator = start /\ start \in Positions
  BY DEF CallsInv, GeneratorMoves, Types
<1>3. start = [seed |-> start.seed, drawn |-> start.drawn + 0]
  BY <1>2 DEF Positions
<1>4. MayReturn("error")
  <2>1. generator = [seed |-> start.seed, drawn |-> start.drawn + NumbersOf(request)]
    BY <1>1, <1>2, <1>3, Zenon
  <2>2. calls # <<>> => \/ start = LastPosition
                        \/ request.seed # NoSeed /\ start.drawn = 0
    BY DEF CallsInv, GeneratorMoves
  <2>3. QED
    BY <1>1, <2>1, <2>2 DEF MayReturn
<1>5. QED
  BY <1>4, ReturnStep DEF CallsInv

LEMMA RefuseStep ==
  ASSUME CallsInv, Refuse
  PROVE  CallsInv'
BY ErrorStep DEF Refuse, Refused, IsRefused

LEMMA SeedStep ==
  ASSUME CallsInv, Seed
  PROVE  CallsInv'
<1>1. Seeded(request.seed) \in Positions
  BY DEF CallsInv, Types, Seeded, Positions, Seeds
<1>2. Types'
  BY <1>1 DEF CallsInv, Types, Seed
<1>3. Progress'
  BY DEF CallsInv, Progress, Seed, Refused, IsRefused
<1>4. GeneratorMoves'
  BY CallsStay DEF CallsInv, GeneratorMoves, Seed, Seeded
<1>5. QED
  BY <1>2, <1>3, <1>4, CallsStay DEF CallsInv, Seed

LEMMA CreateRegistersStep ==
  ASSUME CallsInv, CreateRegisters
  PROVE  CallsInv'
<1>1. Types'
  BY DEF CallsInv, Types, CreateRegisters
<1>2. ~IsTooLarge(request)
  <2>1. request.program.qubits \in Nat /\ request.program.bits \in Nat
    BY RequestType, ProgramsAssumption DEF CallsInv, Types
  <2>2. /\ request.program.qubits <= MAX_QUBIT_NUMBER
        /\ request.program.bits <= MAX_BIT_NUMBER
    BY DEF CreateRegisters, CreateInstance
  <2>3. QED
    BY <2>1, <2>2, LimitsAssumption DEF IsTooLarge
<1>3. OperatedBefore(request, 1) = {} /\ Cardinality(MeasuredBefore(request, 1)) = 0
  BY NothingBeforeTheFirst DEF CallsInv, Types
<1>4. Progress'
  BY <1>2, <1>3 DEF CallsInv, Progress, CreateRegisters, CreateInstance, Given
<1>5. GeneratorMoves'
  BY CallsStay DEF CallsInv, GeneratorMoves, CreateRegisters
<1>6. QED
  BY <1>1, <1>4, <1>5, CallsStay DEF CallsInv, CreateRegisters

LEMMA RegistersTooLargeStep ==
  ASSUME CallsInv, RegistersTooLarge
  PROVE  CallsInv'
<1>1. request.program.qubits \in Nat /\ request.program.bits \in Nat
  BY RequestType, ProgramsAssumption DEF CallsInv, Types
<1>2. IsTooLarge(request)
  BY <1>1, LimitsAssumption
     DEF RegistersTooLarge, ThrowOnQubits, ThrowOnBits, IsTooLarge
<1>3. QED
  BY <1>2, ErrorStep DEF RegistersTooLarge

\* A statement that is visited, and what the register says of its qubits.
LEMMA VisitedStatement ==
  ASSUME CallsInv, RegistersBelongTogether, DirtyTellsInstructions,
         phase = "building", next <= Len(request.program.statements)
  PROVE  /\ request \in Requests
         /\ next \in 1..Len(request.program.statements)
         /\ StatementQubits = StatementOf(request, next).qubits
         /\ SomeDirty <=> \E q \in StatementQubits : q \in OperatedBefore(request, next)
<1>1. /\ request \in Requests
      /\ next \in 1..Len(request.program.statements)
  BY RequestType DEF CallsInv, Types, Progress
<1>2. StatementQubits = StatementOf(request, next).qubits
  BY DEF StatementQubits, StatementOf
<1>3. StatementQubits \subseteq DOMAIN qubit_register.dirty_bitset
  <2>1. StatementQubits \subseteq 0..(request.program.qubits - 1)
    BY <1>1, <1>2, RequestType
  <2>2. created /\ program = request.program
    BY DEF CallsInv, Progress
  <2>3. QED
    BY <2>1, <2>2 DEF RegistersBelongTogether
<1>4. \A q \in StatementQubits :
        qubit_register.dirty_bitset[q] <=> q \in OperatedBefore(request, next)
  BY <1>3 DEF CallsInv, Progress, DirtyTellsInstructions
<1>5. QED
  BY <1>1, <1>2, <1>4 DEF SomeDirty

LEMMA VisitStep ==
  ASSUME CallsInv, phase = "building", NEW n \in 1..Len(request.program.statements),
         n = next, ~Fails(request, n),
         next' = next + 1,
         operated' = OperatedBefore(request, n + 1),
         measures' = Cardinality(MeasuredBefore(request, n + 1)), measures' \in Nat,
         UNCHANGED <<generator, request, phase, shots_done, start, calls, created, program>>
  PROVE  CallsInv'
<1>1. n \in Nat /\ n # 0 /\ Len(request.program.statements) \in Nat
  BY RequestType DEF CallsInv, Types
<1>2. Types'
  <2>1. next' \in 0..(Len(request.program.statements) + 1)
    BY <1>1
  <2>2. QED
    BY <2>1 DEF CallsInv, Types
<1>3. Progress'
  <2>1. next' # 0 /\ next' = n + 1 /\ next' - 1 = n
    BY <1>1
  <2>2. \A k \in 1..n : ~Fails(request, k)
    <3>1. 1..n = 1..(n - 1) \union {n}
      BY <1>1
    <3>2. \A k \in 1..(n - 1) : ~Fails(request, k)
      BY DEF CallsInv, Progress
    <3>3. QED
      BY <3>1, <3>2
  <2>3. \A k \in 1..(next' - 1) : ~Fails(request', k)
    BY <2>1, <2>2
  <2>4. /\ ~IsRefused(request') /\ ~IsTooLarge(request')
        /\ created' /\ program' = request'.program /\ shots_done' = 0
    BY DEF CallsInv, Progress, IsRefused, IsTooLarge
  <2>5. operated' = OperatedBefore(request', next')
    BY <2>1
  <2>6. measures' = Cardinality(MeasuredBefore(request', next'))
    BY <2>1
  <2>7. phase' = "building"
    OBVIOUS
  <2>8. QED
    BY <2>1, <2>3, <2>4, <2>5, <2>6, <2>7 DEF Progress
<1>4. GeneratorMoves'
  BY CallsStay DEF CallsInv, GeneratorMoves
<1>5. QED
  BY <1>2, <1>3, <1>4, CallsStay DEF CallsInv

LEMMA OperateStep ==
  ASSUME CallsInv, RegistersBelongTogether, DirtyTellsInstructions, Operate
  PROVE  CallsInv'
<1>1. /\ request \in Requests /\ phase = "building"
      /\ next \in 1..Len(request.program.statements)
      /\ StatementQubits = StatementOf(request, next).qubits
      /\ StatementOf(request, next).kind = "operate"
  BY VisitedStatement DEF Operate, Visiting, StatementOf
<1>2. operated = OperatedBefore(request, next)
  BY <1>1 DEF CallsInv, Progress
<1>3. operated' = OperatedBefore(request, next + 1)
  BY <1>1, <1>2, OperatedGrows DEF Operate, AddInstruction
<1>4. measures' = Cardinality(MeasuredBefore(request, next + 1)) /\ measures' \in Nat
  <2>1. measures = Cardinality(MeasuredBefore(request, next)) /\ measures \in Nat
    BY <1>1 DEF CallsInv, Progress, Types
  <2>2. measures' = measures + StatementOf(request, next).measures
    BY <1>1 DEF Operate, StatementOf
  <2>3. StatementOf(request, next).measures \in Nat
    BY <1>1, RequestType
  <2>4. Cardinality(MeasuredBefore(request, next + 1)) = measures'
    BY <1>1, <2>1, <2>2, MeasuredGrows
  <2>5. QED
    BY <2>1, <2>2, <2>3, <2>4
<1>5. ~Fails(request, next)
  BY <1>1 DEF Fails
<1>6. QED
  BY <1>1, <1>3, <1>4, <1>5, VisitStep DEF Operate, AddInstruction

LEMMA InitQubitsStep ==
  ASSUME CallsInv, RegistersBelongTogether, DirtyTellsInstructions, InitQubits
  PROVE  CallsInv'
<1>1. /\ request \in Requests /\ phase = "building"
      /\ next \in 1..Len(request.program.statements)
      /\ StatementQubits = StatementOf(request, next).qubits
      /\ StatementOf(request, next).kind = "init"
      /\ ~\E q \in StatementQubits : q \in OperatedBefore(request, next)
  BY VisitedStatement DEF InitQubits, Visiting, StatementOf
<1>2. operated' = OperatedBefore(request, next + 1)
  <2>1. operated = OperatedBefore(request, next)
    BY <1>1 DEF CallsInv, Progress
  <2>2. OperatedBefore(request, next + 1) = OperatedBefore(request, next)
    <3>1. ~(StatementOf(request, next).kind = "operate")
      BY <1>1
    <3>2. OperatedBefore(request, next + 1) = OperatedBefore(request, next) \union {}
      BY <1>1, <3>1, OperatedGrows, Zenon
    <3>3. QED
      BY <3>2
  <2>3. QED
    BY <2>1, <2>2 DEF InitQubits, vars
<1>3. measures' = Cardinality(MeasuredBefore(request, next + 1)) /\ measures' \in Nat
  <2>1. measures = Cardinality(MeasuredBefore(request, next)) /\ measures \in Nat
    BY <1>1 DEF CallsInv, Progress, Types
  <2>2. StatementOf(request, next).measures = 0
    BY <1>1, RequestType
  <2>3. Cardinality(MeasuredBefore(request, next + 1)) = measures
    BY <1>1, <2>1, <2>2, MeasuredGrows
  <2>4. QED
    BY <2>1, <2>3 DEF InitQubits
<1>4. ~Fails(request, next)
  BY <1>1 DEF Fails
<1>5. QED
  BY <1>1, <1>2, <1>3, <1>4, VisitStep DEF InitQubits, vars

LEMMA BuildingFailsStep ==
  ASSUME CallsInv, RegistersBelongTogether, DirtyTellsInstructions, BuildingFails
  PROVE  CallsInv'
<1>1. phase = "building" /\ next <= Len(request.program.statements)
  BY DEF BuildingFails, Visiting
<1>2. next \in 1..Len(request.program.statements) /\ Fails(request, next)
  BY <1>1, VisitedStatement DEF BuildingFails, Visiting, Fails, StatementOf
<1>3. IsWrong(request)
  BY <1>2 DEF IsWrong
<1>4. QED
  BY <1>1, <1>3, ErrorStep DEF BuildingFails

LEMMA CircuitIsBuiltStep ==
  ASSUME CallsInv, CircuitIsBuilt
  PROVE  CallsInv'
<1>1. next = Len(request.program.statements) + 1
  BY RequestType DEF CallsInv, Types, CircuitIsBuilt
<1>2. Types'
  BY DEF CallsInv, Types, CircuitIsBuilt
<1>3. Progress'
  BY <1>1 DEF CallsInv, Progress, CircuitIsBuilt, vars
<1>4. GeneratorMoves'
  <2>1. phase = "building" /\ generator = start /\ start \in Positions /\ shots_done = 0
        /\ measures \in Nat
    BY DEF CircuitIsBuilt, CallsInv, GeneratorMoves, Progress, Types
  <2>2. generator = [seed |-> start.seed, drawn |-> start.drawn + shots_done * measures]
    BY <2>1 DEF Positions
  <2>3. QED
    BY <2>1, <2>2, CallsStay DEF CircuitIsBuilt, CallsInv, GeneratorMoves
<1>5. QED
  BY <1>2, <1>3, <1>4, CallsStay DEF CallsInv, CircuitIsBuilt

\* A circuit that was built belongs to a program without fault.
LEMMA BuiltWithoutFault ==
  ASSUME CallsInv, phase = "executing"
  PROVE  /\ request \in Requests
         /\ ~IsRefused(request) /\ ~IsTooLarge(request) /\ ~IsWrong(request)
         /\ measures = Cardinality(Measured(request))
         /\ calls # <<>> => \/ start = LastPosition
                            \/ request.seed # NoSeed /\ start.drawn = 0
         /\ request.seed # NoSeed => start = [seed |-> request.seed, drawn |-> 0]
         /\ generator = [seed |-> start.seed, drawn |-> start.drawn + shots_done * measures]
<1>1. /\ request \in Requests
      /\ next = Len(request.program.statements) + 1
      /\ ~IsRefused(request) /\ ~IsTooLarge(request)
      /\ measures = Cardinality(MeasuredBefore(request, next))
      /\ \A k \in 1..(next - 1) : ~Fails(request, k)
  BY DEF CallsInv, Types, Progress
<1>2. Len(request.program.statements) \in Nat
  BY <1>1, RequestType
<1>3. next - 1 = Len(request.program.statements)
  BY <1>1, <1>2
<1>4. ~IsWrong(request)
  BY <1>1, <1>3 DEF IsWrong
<1>5. measures = Cardinality(Measured(request))
  BY <1>1 DEF Measured
<1>6. /\ request.seed # NoSeed => start = [seed |-> request.seed, drawn |-> 0]
      /\ request.seed = NoSeed /\ calls # <<>> => start = LastPosition
      /\ generator = [seed |-> start.seed, drawn |-> start.drawn + shots_done * measures]
  BY DEF CallsInv, GeneratorMoves
<1>7. calls # <<>> => \/ start = LastPosition
                      \/ request.seed # NoSeed /\ start.drawn = 0
  BY <1>6
<1>8. QED
  BY <1>1, <1>4, <1>5, <1>6, <1>7

LEMMA SizeOfRegister ==
  ASSUME CallsInv, RegistersBelongTogether, phase = "executing"
  PROVE  /\ request.program.qubits \in Nat
         /\ Cardinality(DOMAIN qubit_register.dirty_bitset) = request.program.qubits
<1>1. request.program.qubits \in Nat
  BY RequestType DEF CallsInv, Types
<1>2. DOMAIN qubit_register.dirty_bitset = 0..(request.program.qubits - 1)
  BY DEF CallsInv, Progress, RegistersBelongTogether
<1>3. \A a, b \in Int : Cardinality(a..b) = IF a > b THEN 0 ELSE b - a + 1
  BY FS_Interval
<1>4. 0 \in Int /\ request.program.qubits - 1 \in Int
  BY <1>1
<1>5. QED
  BY <1>1, <1>2, <1>3, <1>4

LEMMA ContextFailsStep ==
  ASSUME CallsInv, RegistersBelongTogether, ContextFails
  PROVE  CallsInv'
<1>1. phase = "executing" /\ request.program.qubits = 0
  BY SizeOfRegister DEF ContextFails
<1>2. shots_done = 0 /\ measures \in Nat /\ start \in Positions
  BY <1>1 DEF CallsInv, Progress, Types
<1>3. Outcome(request) = "exception" /\ NumbersOf(request) = 0
  BY <1>1, BuiltWithoutFault DEF Outcome, NumbersOf
<1>4. shots_done * measures = 0
  BY <1>2
<1>5. generator = [seed |-> start.seed, drawn |-> start.drawn + 0]
  BY <1>1, <1>4, BuiltWithoutFault
<1>6. MayReturn("exception")
  <2>1. generator = [seed |-> start.seed, drawn |-> start.drawn + NumbersOf(request)]
    BY <1>3, <1>5, Zenon
  <2>2. QED
    BY <1>1, <1>3, <2>1, BuiltWithoutFault DEF MayReturn
<1>7. QED
  BY <1>6, ReturnStep DEF ContextFails, CallsInv

\* The numbers of one shot more.
LEMMA OneShotMore ==
  ASSUME NEW d \in Nat, NEW s \in Nat, NEW m \in Nat
  PROVE  d + s * m + m = d + (s + 1) * m
OBVIOUS

LEMMA ShotStep ==
  ASSUME CallsInv, RegistersBelongTogether, Shot
  PROVE  CallsInv'
<1>1. /\ phase = "executing" /\ phase' = "executing"
      /\ shots_done < request.iterations
      /\ Cardinality(DOMAIN qubit_register.dirty_bitset) > 0
      /\ generator' = [generator EXCEPT !.drawn = @ + measures]
      /\ shots_done' = shots_done + 1
      /\ UNCHANGED <<vars, request, next, measures, start, calls>>
  BY DEF Shot, MoreShots, Advanced
<1>2. /\ request \in Requests /\ shots_done \in Nat /\ measures \in Nat
      /\ start \in Positions /\ start.drawn \in Nat /\ generator \in Positions
  BY RequestType DEF CallsInv, Types, Positions
<1>3. request.iterations \in Nat
  BY <1>2, RequestType
<1>4. generator' = [seed |-> start.seed, drawn |-> start.drawn + shots_done' * measures']
  <2>1. generator = [seed |-> start.seed, drawn |-> start.drawn + shots_done * measures]
    BY <1>1, BuiltWithoutFault
  <2>2. generator' = [seed |-> start.seed,
                      drawn |-> start.drawn + shots_done * measures + measures]
    BY <1>1, <2>1
  <2>3. start.drawn + shots_done * measures + measures
          = start.drawn + (shots_done + 1) * measures
    BY <1>2, OneShotMore
  <2>4. QED
    BY <1>1, <2>2, <2>3, Zenon
<1>5. Types'
  <2>1. shots_done' \in 0..request'.iterations
    BY <1>1, <1>2, <1>3
  <2>2. generator' \in Positions
    BY <1>1, <1>2 DEF Positions
  <2>3. QED
    BY <1>1, <2>1, <2>2 DEF CallsInv, Types
<1>6. Progress'
  <2>1. request.program.qubits # 0
    BY <1>1, SizeOfRegister
  <2>2. QED
    BY <1>1, <2>1 DEF CallsInv, Progress, vars
<1>7. GeneratorMoves'
  BY <1>1, <1>4, CallsStay DEF CallsInv, GeneratorMoves
<1>8. QED
  BY <1>1, <1>5, <1>6, <1>7, CallsStay DEF CallsInv

LEMMA ResultStep ==
  ASSUME CallsInv, GetSimulationResult
  PROVE  CallsInv'
<1>1. phase = "executing" /\ shots_done = request.iterations
  BY DEF GetSimulationResult
<1>2. request.iterations # 0
  BY <1>1, BuiltWithoutFault DEF IsRefused
<1>3. request.program.qubits # 0
  BY <1>1, <1>2 DEF CallsInv, Progress
<1>4. Outcome(request) = "result"
  BY <1>1, <1>3, BuiltWithoutFault DEF Outcome
<1>5. NumbersOf(request) = shots_done * measures
  BY <1>1, <1>4, BuiltWithoutFault DEF NumbersOf
<1>6. MayReturn("result")
  <2>1. generator = [seed |-> start.seed, drawn |-> start.drawn + NumbersOf(request)]
    BY <1>1, <1>5, BuiltWithoutFault, Zenon
  <2>2. QED
    BY <1>1, <1>4, <2>1, BuiltWithoutFault DEF MayReturn
<1>7. QED
  BY <1>6, ReturnStep DEF GetSimulationResult, CallsInv

-----------------------------------------------------------------------------
(* The invariant, and what follows from it.                                *)

LEMMA InitIInv == SimulatorInit => IInv
<1>. SUFFICES ASSUME SimulatorInit PROVE IInv
  OBVIOUS
<1>1. request \in Requests
  BY BoundsAssumption DEF SimulatorInit
<1>2. request.iterations \in Nat /\ Len(request.program.statements) \in Nat
  BY <1>1, RequestType
<1>3. calls = <<>> /\ Len(calls) = 0 /\ calls \in Seq(Records)
  BY DEF SimulatorInit
<1>4. Types
  <2>1. generator \in Positions /\ start \in Positions
    BY DEF SimulatorInit, Positions, Seeds
  <2>2. Len(calls) <= MaxCalls
    BY <1>3, BoundsAssumption
  <2>3. QED
    BY <1>1, <1>2, <1>3, <2>1, <2>2 DEF SimulatorInit, Types
<1>5. Progress
  BY DEF SimulatorInit, Progress
<1>6. GeneratorMoves
  BY <1>3 DEF SimulatorInit, GeneratorMoves
<1>7. CallsDone
  BY <1>3 DEF CallsDone
<1>8. RegistersBelongTogether /\ DirtyTellsInstructions
  BY DEF SimulatorInit, Init, RegistersBelongTogether, DirtyTellsInstructions, NoRegister, NoProgram
<1>9. QED
  BY <1>4, <1>5, <1>6, <1>7, <1>8 DEF IInv, CallsInv

LEMMA IInvStep == IInv /\ [SimulatorNext]_simulator_vars => IInv'
<1>. SUFFICES ASSUME IInv, [SimulatorNext]_simulator_vars PROVE IInv'
  OBVIOUS
<1>. USE DEF IInv
<1>1. RegistersBelongTogether' /\ DirtyTellsInstructions'
  <2>1. [Next]_vars
    BY RegisterStep DEF CallsInv
  <2>2. QED
    BY <2>1, TogetherStep, DirtyStep
<1>2. CallsInv'
  <2>1. ASSUME NEW r \in Requests, Call(r) PROVE CallsInv'
    BY <2>1, CallStep
  <2>2. CASE Refuse
    BY <2>2, RefuseStep
  <2>3. CASE Seed
    BY <2>3, SeedStep
  <2>4. CASE CreateRegisters
    BY <2>4, CreateRegistersStep
  <2>5. CASE RegistersTooLarge
    BY <2>5, RegistersTooLargeStep
  <2>6. CASE Operate
    BY <2>6, OperateStep
  <2>7. CASE InitQubits
    BY <2>7, InitQubitsStep
  <2>8. CASE BuildingFails
    BY <2>8, BuildingFailsStep
  <2>9. CASE CircuitIsBuilt
    BY <2>9, CircuitIsBuiltStep
  <2>10. CASE ContextFails
    BY <2>10, ContextFailsStep
  <2>11. CASE Shot
    BY <2>11, ShotStep
  <2>12. CASE GetSimulationResult
    BY <2>12, ResultStep
  <2>13. CASE UNCHANGED simulator_vars
    BY <2>13 DEF simulator_vars, vars, CallsInv, Types, Progress, GeneratorMoves,
                 LastPosition, CallsDone, CallDone
  <2>14. QED
    BY <2>1, <2>2, <2>3, <2>4, <2>5, <2>6, <2>7, <2>8, <2>9, <2>10, <2>11, <2>12, <2>13
       DEF SimulatorNext
<1>3. QED
  BY <1>1, <1>2

\* The inductive invariant: what the calls that ended left, how far the call that runs
\* has come, and what it has done to the generator and the registers.
THEOREM IInvCorrect == SimulatorSpec => []IInv
BY InitIInv, IInvStep, PTL DEF SimulatorSpec

\* The simulator drives the register manager as its own specification allows: what is
\* proved of that one (TogetherCorrect, DirtyCorrect) holds of every process.
THEOREM SimulatorDrivesRegisterManager == SimulatorSpec => Spec
<1>1. SimulatorInit => Init
  BY DEF SimulatorInit
<1>2. IInv /\ [SimulatorNext]_simulator_vars => [Next]_vars
  BY RegisterStep DEF IInv, CallsInv
<1>3. QED
  BY <1>1, <1>2, IInvCorrect, PTL DEF SimulatorSpec, Spec

\* The variables of the simulator have the values that the code gives them.
THEOREM SimulatorTypeCorrect == SimulatorSpec => []SimulatorTypeOK
<1>1. IInv => SimulatorTypeOK
  BY DEF IInv, CallsInv, Types, Progress, SimulatorTypeOK, Generator, Positions, Seeds
<1>2. QED
  BY <1>1, IInvCorrect, PTL

\* How a call ends is a function of its arguments (Outcome): whatever program ran or
\* failed before it, with whatever seed.
THEOREM ArgumentsDecideOutcomeCorrect == SimulatorSpec => []ArgumentsDecideOutcome
<1>1. IInv => ArgumentsDecideOutcome
  <2>. SUFFICES ASSUME IInv, NEW j \in DOMAIN calls, NEW k \in DOMAIN calls,
                       calls[j].request = calls[k].request
                PROVE  calls[j].outcome = calls[k].outcome
    BY DEF ArgumentsDecideOutcome
  <2>1. DOMAIN calls = 1..Len(calls)
    BY DEF IInv, CallsInv, Types
  <2>2. CallDone(j) /\ CallDone(k)
    BY <2>1 DEF IInv, CallsInv, CallsDone
  <2>3. QED
    BY <2>2 DEF CallDone
<1>2. QED
  BY <1>1, IInvCorrect, PTL

\* Two calls with the same arguments and a seed draw the same numbers.
THEOREM SeedDecidesNumbersCorrect == SimulatorSpec => []SeedDecidesNumbers
<1>1. IInv => SeedDecidesNumbers
  <2>. SUFFICES ASSUME IInv, NEW j \in DOMAIN calls, NEW k \in DOMAIN calls,
                       calls[j].request = calls[k].request,
                       calls[j].request.seed # NoSeed, calls[j].outcome = "result"
                PROVE  calls[j].from = calls[k].from /\ calls[j].to = calls[k].to
    BY DEF SeedDecidesNumbers
  <2>1. DOMAIN calls = 1..Len(calls)
    BY DEF IInv, CallsInv, Types
  <2>2. CallDone(j) /\ CallDone(k)
    BY <2>1 DEF IInv, CallsInv, CallsDone
  <2>3. calls[k].outcome = "result"
    BY <2>2 DEF CallDone
  <2>4. /\ calls[j].from = [seed |-> calls[j].request.seed, drawn |-> 0]
        /\ calls[k].from = [seed |-> calls[k].request.seed, drawn |-> 0]
    BY <2>2, <2>3 DEF CallDone
  <2>5. calls[j].from = calls[k].from
    BY <2>4
  <2>6. QED
    BY <2>2, <2>5 DEF CallDone
<1>2. QED
  BY <1>1, IInvCorrect, PTL

LEMMA MeasuredIsMeasuresOf ==
  ASSUME NEW r \in Requests
  PROVE  Measured(r) = MeasuresOf(r.program)
<1>1. r.program.statements \in Seq(Statement)
  BY RequestsAssumption DEF IsRequest
<1>2. Len(r.program.statements) \in Nat
  BY <1>1
<1>3. DOMAIN r.program.statements = 1..(Len(r.program.statements) + 1 - 1)
  BY <1>1, <1>2
<1>4. QED
  BY <1>3 DEF Measured, MeasuredBefore, MeasuresOf, StatementOf

\* The numbers that a call draws follow those of the calls before, one for each
\* measure of each shot.
THEOREM NumbersAreUsedOnceCorrect == SimulatorSpec => []NumbersAreUsedOnce
<1>1. IInv => NumbersAreUsedOnce
  <2>. SUFFICES ASSUME IInv, NEW j \in DOMAIN calls
                PROVE  /\ calls[j].to.seed = calls[j].from.seed
                       /\ calls[j].to.drawn = calls[j].from.drawn +
                            (IF calls[j].outcome = "result"
                             THEN calls[j].request.iterations *
                                    Cardinality(MeasuresOf(calls[j].request.program))
                             ELSE 0)
                       /\ j > 1 /\ (calls[j].request.seed = NoSeed \/ calls[j].from.drawn # 0)
                            => calls[j].from = calls[j - 1].to
    BY DEF NumbersAreUsedOnce
  <2>1. DOMAIN calls = 1..Len(calls) /\ calls[j].request \in Requests
    <3>1. calls \in Seq(Records)
      BY DEF IInv, CallsInv, Types
    <3>2. DOMAIN calls = 1..Len(calls) /\ calls[j] \in Records
      BY <3>1
    <3>3. QED
      BY <3>2 DEF Records
  <2>2. CallDone(j)
    BY <2>1 DEF IInv, CallsInv, CallsDone
  <2>3. calls[j].outcome = Outcome(calls[j].request)
    BY <2>2 DEF CallDone
  <2>4. Measured(calls[j].request) = MeasuresOf(calls[j].request.program)
    BY <2>1, MeasuredIsMeasuresOf
  <2>5. QED
    BY <2>2, <2>3, <2>4 DEF CallDone, NumbersOf
<1>2. QED
  BY <1>1, IInvCorrect, PTL

-----------------------------------------------------------------------------
(* The processes that call it.                                           *)

Arguments == (DOMAIN Atoi) \intersect (DOMAIN Files)

Counts == {1} \union {Atoi[a] % (SIZE_MAX + 1) : a \in DOMAIN Atoi}

\* The arguments before an index are options: every other one is a "-c".
OptionsBefore(index) ==
  \E m \in Nat :
    /\ index = 2 * m + 1
    /\ \A k \in 1..m : arguments[2 * k - 1] = "-c"

OptionsParsed ==
  /\ arg_index \in 1..(Len(arguments) + 1)
  /\ OptionsBefore(arg_index)
  /\ iterations = IterationsBefore(arguments, arg_index)
  /\ file_path = NoPath

PathParsed ==
  LET n == Len(arguments)
  IN  /\ n > 0
      /\ arg_index = n + 1
      /\ OptionsBefore(n)
      /\ arguments[n] # "-c"
      /\ file_path = arguments[n]
      /\ iterations = IterationsBefore(arguments, n)

Asked == FileRequest(arguments[Len(arguments)], IterationsBefore(arguments, Len(arguments)))

ParsingInv == main_phase = "parsing" =>
  /\ phase = "idle"
  /\ calls = <<>>
  /\ OptionsParsed \/ PathParsed

FailedInv == main_phase = "failed" => calls = <<>> /\ ~IsUsable(arguments)

CallingInv == main_phase = "calling" =>
  /\ IsUsable(arguments)
  /\ IF phase = "idle" THEN Len(calls) = 1 /\ calls[1].request = Asked
                       ELSE calls = <<>> /\ request = Asked

MainInv ==
  /\ arguments \in Seq(Arguments)
  /\ main_phase \in {"parsing", "failed", "calling", "exited", "library"}
  /\ ParsingInv
  /\ FailedInv
  /\ CallingInv
  /\ MainAnswersItsArguments

-----------------------------------------------------------------------------

LEMMA UsableIsPathParsed ==
  ASSUME arguments \in Seq(Arguments), PathParsed, file_path # NoPath
  PROVE  IsUsable(arguments)
<1>1. Len(arguments) \in Nat
  OBVIOUS
<1>2. PICK m \in Nat : Len(arguments) = 2 * m + 1 /\ \A k \in 1..m : arguments[2 * k - 1] = "-c"
  BY DEF PathParsed, OptionsBefore
<1>3. Len(arguments) % 2 = 1 /\ Len(arguments) \div 2 = m
  BY <1>2
<1>4. QED
  BY <1>2, <1>3 DEF IsUsable, PathParsed

\* Once the options are parsed, the rest is unusable if it is nothing, a "-c" without a
\* number, or a path before the end.
LEMMA UnusableRest ==
  ASSUME arguments \in Seq(Arguments), OptionsParsed,
         \/ arg_index > Len(arguments)
         \/ arg_index = Len(arguments) /\ arguments[arg_index] = "-c"
         \/ arg_index < Len(arguments) /\ arguments[arg_index] # "-c"
  PROVE  ~IsUsable(arguments)
<1>. SUFFICES ASSUME IsUsable(arguments) PROVE FALSE
  OBVIOUS
<1>1. Len(arguments) \in Nat /\ arg_index \in 1..(Len(arguments) + 1)
  BY DEF OptionsParsed
<1>2. PICK m \in Nat : arg_index = 2 * m + 1
  BY DEF OptionsParsed, OptionsBefore
<1>3. Len(arguments) % 2 = 1 /\ arguments[Len(arguments)] # "-c"
  BY DEF IsUsable
<1>4. arg_index < Len(arguments) /\ arguments[arg_index] # "-c"
  BY <1>1, <1>2, <1>3
<1>5. m + 1 \in 1..(Len(arguments) \div 2) /\ 2 * (m + 1) - 1 = arg_index
  BY <1>1, <1>2, <1>3, <1>4
<1>6. arguments[2 * (m + 1) - 1] = "-c"
  BY <1>5 DEF IsUsable
<1>7. QED
  BY <1>4, <1>5, <1>6

LEMMA CountOfOptions ==
  ASSUME arguments \in Seq(Arguments), NEW n \in 1..(Len(arguments) + 1)
  PROVE  IterationsBefore(arguments, n) \in Counts
<1>1. CASE n = 1
  BY <1>1 DEF IterationsBefore, Counts
<1>2. CASE n # 1
  <2>1. arguments \in Seq(Arguments) /\ n - 1 \in 1..Len(arguments)
    BY <1>2
  <2>2. arguments[n - 1] \in DOMAIN Atoi
    BY <2>1 DEF Arguments
  <2>3. QED
    BY <1>2, <2>2 DEF IterationsBefore, Counts
<1>3. QED
  BY <1>1, <1>2

LEMMA AskedIsARequest ==
  ASSUME arguments \in Seq(Arguments), PathParsed
  PROVE  FileRequest(file_path, iterations) \in Requests /\ FileRequest(file_path, iterations) = Asked
<1>1. Len(arguments) \in 1..(Len(arguments) + 1) /\ arguments[Len(arguments)] \in DOMAIN Files
  BY DEF PathParsed, Arguments
<1>2. iterations \in Counts
  BY <1>1, CountOfOptions DEF PathParsed
<1>3. file_path \in DOMAIN Files
  BY <1>1 DEF PathParsed
<1>4. FileRequest(file_path, iterations) \in Requests
  BY <1>2, <1>3, CommandLineAssumption DEF Counts
<1>5. QED
  BY <1>4 DEF PathParsed, Asked

-----------------------------------------------------------------------------

LEMMA InitMainInv ==
  ASSUME ProcessInit
  PROVE  MainInv
<1>. USE DEF ProcessInit
<1>1. arguments \in Seq(Arguments)
  <2>1. CommandLines \subseteq Seq(Arguments)
    BY CommandLineAssumption DEF Arguments
  <2>2. CASE arguments \in CommandLines
    BY <2>1, <2>2
  <2>3. CASE arguments = <<>>
    BY <2>3
  <2>4. QED
    BY <2>2, <2>3
<1>2. main_phase \in {"parsing", "library"} /\ phase = "idle" /\ calls = <<>>
  BY DEF SimulatorInit
<1>3. OptionsBefore(1)
  <2>1. \A k \in 1..0 : arguments[2 * k - 1] = "-c"
    OBVIOUS
  <2>2. QED
    BY <2>1 DEF OptionsBefore
<1>4. OptionsParsed
  BY <1>1, <1>3 DEF OptionsParsed, IterationsBefore
<1>5. QED
  BY <1>1, <1>2, <1>4
     DEF MainInv, ParsingInv, FailedInv, CallingInv, MainAnswersItsArguments

LEMMA ParseIterationsStep ==
  ASSUME MainInv, ParseIterations
  PROVE  MainInv'
<1>. USE DEF ParseIterations
<1>1. main_phase = "parsing" /\ arguments \in Seq(Arguments) /\ Len(arguments) \in Nat
  BY DEF Parsing, MainInv
<1>2. arg_index <= Len(arguments) /\ arguments[arg_index] = "-c"
  BY DEF Parsing
<1>3. OptionsParsed
  BY <1>1, <1>2 DEF MainInv, ParsingInv, PathParsed
<1>4. /\ arg_index + 2 \in 1..(Len(arguments) + 1)
      /\ arg_index \in Nat
      /\ arg_index + 2 # 1 /\ (arg_index + 2) - 1 = arg_index + 1
  BY <1>1, <1>2, <1>3 DEF OptionsParsed, IsLast
<1>5. OptionsBefore(arg_index + 2)
  <2>1. PICK m \in Nat : /\ arg_index = 2 * m + 1
                         /\ \A k \in 1..m : arguments[2 * k - 1] = "-c"
    BY <1>3 DEF OptionsParsed, OptionsBefore
  <2>2. arg_index + 2 = 2 * (m + 1) + 1 /\ 2 * (m + 1) - 1 = arg_index
    BY <2>1
  <2>3. \A k \in 1..(m + 1) : arguments[2 * k - 1] = "-c"
    <3>. SUFFICES ASSUME NEW k \in 1..(m + 1) PROVE arguments[2 * k - 1] = "-c"
      OBVIOUS
    <3>1. CASE k = m + 1
      BY <3>1, <2>2, <1>2
    <3>2. CASE k # m + 1
      BY <3>2, <2>1
    <3>3. QED
      BY <3>1, <3>2
  <2>4. m + 1 \in Nat
    OBVIOUS
  <2>5. QED
    BY <2>2, <2>3, <2>4 DEF OptionsBefore
<1>6. iterations' = IterationsBefore(arguments, arg_index + 2)
  BY <1>4 DEF IterationsBefore
<1>7. OptionsParsed'
  <2>1. arg_index' = arg_index + 2 /\ arguments' = arguments /\ file_path' = NoPath
    BY <1>3 DEF OptionsParsed
  <2>2. OptionsBefore(arg_index)'
    BY <1>5, <2>1 DEF OptionsBefore
  <2>3. iterations' = IterationsBefore(arguments', arg_index')
    BY <1>6, <2>1
  <2>4. QED
    BY <1>4, <2>1, <2>2, <2>3 DEF OptionsParsed, IterationsBefore
<1>8. /\ arguments' = arguments /\ main_phase' = "parsing"
      /\ phase' = "idle" /\ calls' = <<>>
  BY <1>1 DEF simulator_vars, MainInv, ParsingInv
<1>9. QED
  BY <1>1, <1>7, <1>8 DEF MainInv, ParsingInv, FailedInv, CallingInv, MainAnswersItsArguments

LEMMA ParseFilePathStep ==
  ASSUME MainInv, ParseFilePath
  PROVE  MainInv'
<1>. USE DEF ParseFilePath
<1>1. main_phase = "parsing" /\ arguments \in Seq(Arguments) /\ Len(arguments) \in Nat
  BY DEF Parsing, MainInv
<1>2. arg_index <= Len(arguments) /\ arguments[arg_index] # "-c"
  BY DEF Parsing
<1>3. OptionsParsed
  BY <1>1, <1>2 DEF MainInv, ParsingInv, PathParsed
<1>4. arg_index = Len(arguments) /\ Len(arguments) > 0
  BY <1>1, <1>2, <1>3 DEF OptionsParsed, IsLast
<1>5. PathParsed'
  <2>1. OptionsBefore(Len(arguments))' /\ iterations' = IterationsBefore(arguments, Len(arguments))
    BY <1>3, <1>4 DEF OptionsParsed, OptionsBefore
  <2>2. QED
    BY <1>2, <1>4, <2>1 DEF PathParsed, IterationsBefore
<1>6. /\ arguments' = arguments /\ main_phase' = "parsing"
      /\ phase' = "idle" /\ calls' = <<>>
  BY <1>1 DEF simulator_vars, MainInv, ParsingInv
<1>7. QED
  BY <1>1, <1>5, <1>6 DEF MainInv, ParsingInv, FailedInv, CallingInv, MainAnswersItsArguments

LEMMA ParsingFailsStep ==
  ASSUME MainInv, ParsingFails
  PROVE  MainInv'
<1>. USE DEF ParsingFails
<1>1. main_phase = "parsing" /\ arguments \in Seq(Arguments) /\ Len(arguments) \in Nat
  BY DEF Parsing, MainInv
<1>2. arg_index <= Len(arguments)
  BY DEF Parsing
<1>3. OptionsParsed
  BY <1>1, <1>2 DEF MainInv, ParsingInv, PathParsed
<1>4. arg_index \in 1..(Len(arguments) + 1)
  BY <1>3 DEF OptionsParsed
<1>5. \/ arg_index = Len(arguments) /\ arguments[arg_index] = "-c"
      \/ arg_index < Len(arguments) /\ arguments[arg_index] # "-c"
  BY <1>1, <1>2, <1>4 DEF Parsing, IsLast
<1>6. ~IsUsable(arguments)
  BY <1>1, <1>3, <1>5, UnusableRest
<1>7. arguments' = arguments /\ main_phase' = "failed" /\ calls' = <<>>
  BY <1>1 DEF simulator_vars, MainInv, ParsingInv
<1>8. QED
  BY <1>1, <1>6, <1>7
     DEF MainInv, ParsingInv, FailedInv, CallingInv, MainAnswersItsArguments, IsUsable

LEMMA UsageStep ==
  ASSUME MainInv, Usage
  PROVE  MainInv'
<1>. USE DEF Usage, Exit
<1>1. arguments \in Seq(Arguments) /\ Len(arguments) \in Nat
  BY DEF MainInv
<1>2. calls = <<>> /\ ~IsUsable(arguments)
  <2>1. CASE main_phase = "failed"
    BY <2>1 DEF MainInv, FailedInv
  <2>2. CASE main_phase = "parsing" /\ arg_index > Len(arguments) /\ file_path = NoPath
    <3>1. CASE OptionsParsed
      BY <2>2, <3>1, <1>1, UnusableRest DEF MainInv, ParsingInv
    <3>2. CASE PathParsed
      BY <2>2, <3>2 DEF MainInv, ParsingInv, PathParsed, IsUsable
    <3>3. QED
      BY <2>2, <3>1, <3>2 DEF MainInv, ParsingInv
  <2>3. QED
    BY <2>1, <2>2
<1>3. /\ arguments' = arguments /\ main_phase' = "exited"
      /\ calls' = <<>> /\ exit_status' = -1
  BY <1>2 DEF simulator_vars
<1>4. MainAnswersItsArguments'
  BY <1>2, <1>3 DEF MainAnswersItsArguments, IsUsable
<1>5. QED
  BY <1>1, <1>3, <1>4 DEF MainInv, ParsingInv, FailedInv, CallingInv

LEMMA ExecuteFileStep ==
  ASSUME MainInv, ExecuteFile
  PROVE  MainInv' /\ \E r \in Requests : Call(r)
<1>. USE DEF ExecuteFile
<1>1. arguments \in Seq(Arguments) /\ calls = <<>>
  BY DEF MainInv, ParsingInv
<1>2. PathParsed
  BY DEF MainInv, ParsingInv, OptionsParsed
<1>3. IsUsable(arguments)
  BY <1>1, <1>2, UsableIsPathParsed
<1>4. FileRequest(file_path, iterations) \in Requests /\ FileRequest(file_path, iterations) = Asked
  BY <1>1, <1>2, AskedIsARequest
<1>5. /\ arguments' = arguments /\ main_phase' = "calling"
      /\ request' = Asked /\ phase' = "called" /\ calls' = <<>>
  BY <1>1, <1>4 DEF Call
<1>6. CallingInv'
  BY <1>3, <1>5 DEF CallingInv, Asked, IsUsable, IterationsBefore
<1>7. QED
  BY <1>1, <1>4, <1>5, <1>6
     DEF MainInv, ParsingInv, FailedInv, MainAnswersItsArguments

\* A step of a call that runs ends it, or leaves its request and the calls before.
LEMMA CallGoesOn ==
  ASSUME phase # "idle", SimulatorNext
  PROVE  \/ phase' = "idle" /\ \E c : c.request = request /\ calls' = Append(calls, c)
         \/ phase' # "idle" /\ request' = request /\ calls' = calls
<1>1. ASSUME NEW outcome, Return(outcome)
      PROVE  phase' = "idle" /\ \E c : c.request = request /\ calls' = Append(calls, c)
  BY <1>1 DEF Return
<1>2. ~\E r \in Requests : Call(r)
  BY DEF Call
<1>3. CASE Refuse \/ RegistersTooLarge \/ BuildingFails \/ ContextFails \/ GetSimulationResult
  BY <1>3, <1>1 DEF Refuse, RegistersTooLarge, BuildingFails, ContextFails, GetSimulationResult
<1>4. CASE Seed \/ CreateRegisters \/ Operate \/ InitQubits \/ CircuitIsBuilt \/ Shot
  BY <1>4 DEF Seed, CreateRegisters, Operate, InitQubits, CircuitIsBuilt, Shot, Visiting
<1>5. QED
  BY <1>2, <1>3, <1>4 DEF SimulatorNext

LEMMA SimulateStep ==
  ASSUME MainInv, Simulate
  PROVE  MainInv'
<1>. USE DEF Simulate
<1>1. arguments \in Seq(Arguments) /\ arguments' = arguments /\ main_phase' = main_phase
  BY DEF MainInv, main_vars
<1>2. CASE main_phase = "library"
  BY <1>1, <1>2 DEF MainInv, ParsingInv, FailedInv, CallingInv, MainAnswersItsArguments
<1>3. CASE main_phase = "calling" /\ phase # "idle"
  <2>1. IsUsable(arguments) /\ calls = <<>> /\ request = Asked
    BY <1>3 DEF MainInv, CallingInv
  <2>2. IsUsable(arguments)' /\ Asked' = Asked
    BY <1>1, <2>1 DEF IsUsable, Asked, IterationsBefore
  <2>3. CASE phase' = "idle" /\ \E c : c.request = request /\ calls' = Append(calls, c)
    <3>1. PICK c : c.request = request /\ calls' = Append(calls, c)
      BY <2>3
    <3>2. calls' = <<c>>
      BY <3>1, <2>1
    <3>3. Len(calls') = 1 /\ calls'[1].request = Asked
      BY <3>1, <3>2, <2>1
    <3>4. QED
      BY <1>1, <1>3, <2>2, <2>3, <3>3
         DEF MainInv, ParsingInv, FailedInv, CallingInv, MainAnswersItsArguments
  <2>4. CASE phase' # "idle" /\ request' = request /\ calls' = calls
    BY <1>1, <1>3, <2>1, <2>2, <2>4
       DEF MainInv, ParsingInv, FailedInv, CallingInv, MainAnswersItsArguments
  <2>5. QED
    BY <1>3, <2>3, <2>4, CallGoesOn
<1>4. QED
  BY <1>2, <1>3

LEMMA AnswerStep ==
  ASSUME MainInv, Answer
  PROVE  MainInv'
<1>. USE DEF Answer, Exit
<1>1. /\ arguments \in Seq(Arguments) /\ arguments' = arguments
      /\ calls' = calls /\ main_phase' = "exited"
      /\ exit_status' = Status(calls[Len(calls)].outcome)
  BY DEF MainInv, simulator_vars
<1>2. IsUsable(arguments) /\ Len(calls) = 1 /\ calls[1].request = Asked
  BY DEF MainInv, CallingInv
<1>3. MainAnswersItsArguments'
  BY <1>1, <1>2 DEF MainAnswersItsArguments, Asked, Status, IsUsable, IterationsBefore
<1>4. QED
  BY <1>1, <1>3 DEF MainInv, ParsingInv, FailedInv, CallingInv

LEMMA MainStep ==
  ASSUME MainInv, [ProcessNext]_<<simulator_vars, main_vars>>
  PROVE  MainInv' /\ [SimulatorNext]_simulator_vars
<1>1. CASE ParseIterations
  BY <1>1, ParseIterationsStep DEF ParseIterations
<1>2. CASE ParseFilePath
  BY <1>2, ParseFilePathStep DEF ParseFilePath
<1>3. CASE ParsingFails
  BY <1>3, ParsingFailsStep DEF ParsingFails
<1>4. CASE Usage
  BY <1>4, UsageStep DEF Usage, Exit
<1>5. CASE ExecuteFile
  BY <1>5, ExecuteFileStep DEF SimulatorNext
<1>6. CASE Simulate
  BY <1>6, SimulateStep DEF Simulate
<1>7. CASE Answer
  BY <1>7, AnswerStep DEF Answer, Exit
<1>8. CASE UNCHANGED <<simulator_vars, main_vars>>
  BY <1>8 DEF simulator_vars, main_vars, MainInv, ParsingInv, FailedInv, CallingInv,
              MainAnswersItsArguments, OptionsParsed, PathParsed, OptionsBefore, Asked,
              IsUsable, IterationsBefore
<1>9. QED
  BY <1>1, <1>2, <1>3, <1>4, <1>5, <1>6, <1>7, <1>8 DEF ProcessNext

\* The invariant of main: where the parsing is, and the call that it makes.
THEOREM MainInvCorrect == ProcessSpec => []MainInv
BY InitMainInv, MainStep, PTL DEF ProcessSpec

\* Whatever its command line, a process calls the simulator as Simulator specifies:
\* what is proved of Simulator holds of qx-simulator and of every client.
THEOREM ProcessCallsSimulator == ProcessSpec => SimulatorSpec
<1>1. ProcessInit => SimulatorInit
  BY DEF ProcessInit
<1>2. MainInv /\ [ProcessNext]_<<simulator_vars, main_vars>> => [SimulatorNext]_simulator_vars
  BY MainStep
<1>3. QED
  BY <1>1, <1>2, MainInvCorrect, PTL DEF ProcessSpec, SimulatorSpec

\* qx-simulator executes its last argument as often as it was told, or prints how it
\* is used, and its exit status says which, for any arguments and any width of size_t.
THEOREM MainAnswersItsArgumentsCorrect == ProcessSpec => []MainAnswersItsArguments
<1>1. MainInv => MainAnswersItsArguments
  BY DEF MainInv
<1>2. QED
  BY <1>1, MainInvCorrect, PTL

=============================================================================

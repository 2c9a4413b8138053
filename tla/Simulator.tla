------------------------------ MODULE Simulator ------------------------------
(***************************************************************************)
(* The calls of one process to execute_string and execute_file, one after  *)
(* the other.  Two things outlive a call: the register manager and the     *)
(* random number generator.                                                *)
(*                                                                         *)
(* The builder and the shots are abstracted (see CircuitBuilder and        *)
(* Simulation): a statement is the qubits it is about, what it does to     *)
(* them and how many measures it makes, and a shot draws one random number *)
(* for each measure.                                                       *)
(***************************************************************************)
EXTENDS RegisterManager, Sequences, FiniteSets

CONSTANTS Requests,  \* the calls that may be made
          MaxCalls   \* bound: the number of calls of a process

\* What the analyzer says of a request's program, and the seeds that may be given.
Analyses == {"program", "errors", "null"}
NoSeed == "none"
DeviceSeed == "device"

Statement ==
  [kind : {"operate", "init", "unknown"}, qubits : SUBSET Nat, measures : Nat]

IsRequest(r) ==
  /\ r.analysis \in Analyses
  /\ r.iterations \in Nat
  /\ r.seed # DeviceSeed
  /\ r.program.statements \in Seq(Statement)
  /\ \A k \in DOMAIN r.program.statements :
       /\ r.program.statements[k].qubits \subseteq 0..(r.program.qubits - 1)
       /\ r.program.statements[k].kind # "operate" => r.program.statements[k].measures = 0

ASSUME RequestsAssumption == \A r \in Requests : r.program \in Programs /\ IsRequest(r)

ASSUME BoundsAssumption == MaxCalls \in Nat /\ Requests # {}

VARIABLES
  generator,  \* the generator's seed, and how many numbers it has returned since
  request,    \* the arguments of the call that runs
  phase,      \* where it is, or "idle" between two calls
  next,       \* the statement the builder visits next
  measures,   \* the Measure instructions in the circuit
  shots_done, \* accumulator.shots_done
  start,      \* history: the generator before the first shot
  calls       \* history: the calls that ended, with the numbers they drew

simulator_vars ==
  <<vars, generator, request, phase, next, measures, shots_done, start, calls>>

SimulatorInit ==
  /\ Init
  /\ generator = [seed |-> DeviceSeed, drawn |-> 0]
  /\ request = CHOOSE r \in Requests : TRUE  \* nothing reads it before the first call
  /\ phase = "idle"
  /\ next = 0
  /\ measures = 0
  /\ shots_done = 0
  /\ start = generator
  /\ calls = <<>>

\* The call ends, with a result, an error, or an exception that it does not catch.
Return(outcome) ==
  /\ phase' = "idle"
  /\ calls' = Append(calls, [request |-> request, outcome |-> outcome,
                             from |-> start, to |-> generator])
  /\ UNCHANGED <<generator, request, next, measures, shots_done, start>>

Call(r) ==
  /\ phase = "idle"
  /\ Len(calls) < MaxCalls
  /\ request' = r
  /\ phase' = "called"
  /\ start' = generator
  /\ next' = 1
  /\ measures' = 0
  /\ shots_done' = 0
  /\ UNCHANGED <<vars, generator, calls>>

\* The checks before anything is done, in their order.
Refused ==
  \/ request.version # "3.0"
  \/ request.analysis # "program"
  \/ request.iterations = 0

Refuse ==
  /\ phase = "called"
  /\ Refused
  /\ Return("error")
  /\ UNCHANGED vars

\* Mutant: a seed that is in use is not set again.
SeededOnce(seed) ==
  IF seed \in {NoSeed, generator.seed} THEN generator ELSE [seed |-> seed, drawn |-> 0]

Seeded(seed) == IF seed = NoSeed THEN generator ELSE [seed |-> seed, drawn |-> 0]

Seed ==
  /\ phase = "called"
  /\ ~Refused
  /\ generator' = Seeded(request.seed)
  /\ start' = generator'
  /\ phase' = "registers"
  /\ UNCHANGED <<vars, request, next, measures, shots_done, calls>>

CreateRegisters ==
  /\ phase = "registers"
  /\ CreateInstance(request.program)
  /\ phase' = "building"
  /\ UNCHANGED <<generator, request, next, measures, shots_done, start, calls>>

\* A RegisterManagerError is a SimulationError.
RegistersTooLarge ==
  /\ phase = "registers"
  /\ ThrowOnQubits(request.program) \/ ThrowOnBits(request.program)
  /\ Return("error")

Visiting(kind) ==
  /\ phase = "building"
  /\ next <= Len(request.program.statements)
  /\ request.program.statements[next].kind = kind

StatementQubits == request.program.statements[next].qubits

Operate ==
  /\ Visiting("operate")
  /\ AddInstruction(StatementQubits)
  /\ measures' = measures + request.program.statements[next].measures
  /\ next' = next + 1
  /\ UNCHANGED <<generator, request, phase, shots_done, start, calls>>

SomeDirty == \E q \in StatementQubits : qubit_register.dirty_bitset[q]

InitQubits ==
  /\ Visiting("init")
  /\ ~SomeDirty
  /\ next' = next + 1
  /\ UNCHANGED <<vars, generator, request, phase, measures, shots_done, start, calls>>

\* A CircuitBuilderError is a SimulationError.
BuildingFails ==
  /\ Visiting("unknown") \/ (Visiting("init") /\ SomeDirty)
  /\ Return("error")
  /\ UNCHANGED vars

CircuitIsBuilt ==
  /\ phase = "building"
  /\ next > Len(request.program.statements)
  /\ phase' = "executing"
  /\ UNCHANGED <<vars, generator, request, next, measures, shots_done, start, calls>>

\* Mutant: one shot too many.
MoreShotsInclusive == shots_done <= request.iterations

MoreShots == shots_done < request.iterations

\* The context of the first shot is refused by check_quantum_state, with a
\* QuantumStateError: not a SimulationError, so that execute does not catch it.
ContextFails ==
  /\ phase = "executing"
  /\ MoreShots
  /\ Cardinality(DOMAIN qubit_register.dirty_bitset) = 0
  /\ Return("exception")
  /\ UNCHANGED vars

\* Mutant: the numbers are drawn from a copy of the generator.
NotAdvanced(n) == generator

Advanced(n) == [generator EXCEPT !.drawn = @ + n]

Shot ==
  /\ phase = "executing"
  /\ MoreShots
  /\ Cardinality(DOMAIN qubit_register.dirty_bitset) > 0
  /\ generator' = Advanced(measures)
  /\ shots_done' = shots_done + 1
  /\ UNCHANGED <<vars, request, phase, next, measures, start, calls>>

GetSimulationResult ==
  /\ phase = "executing"
  /\ shots_done = request.iterations
  /\ Return("result")
  /\ UNCHANGED vars

SimulatorNext ==
  \/ \E r \in Requests : Call(r)
  \/ Refuse
  \/ Seed
  \/ CreateRegisters
  \/ RegistersTooLarge
  \/ Operate
  \/ InitQubits
  \/ BuildingFails
  \/ CircuitIsBuilt
  \/ ContextFails
  \/ Shot
  \/ GetSimulationResult

SimulatorSpec == SimulatorInit /\ [][SimulatorNext]_simulator_vars

-----------------------------------------------------------------------------

Generator(g) == g.seed \in {DeviceSeed} \union {r.seed : r \in Requests} /\ g.drawn \in Nat

SimulatorTypeOK ==
  /\ Generator(generator) /\ Generator(start)
  /\ request \in Requests
  /\ phase \in {"idle", "called", "registers", "building", "executing"}
  /\ next \in 0..(Len(request.program.statements) + 1)
  /\ measures \in Nat
  /\ shots_done \in 0..request.iterations
  /\ Len(calls) <= MaxCalls
  /\ phase \in {"building", "executing"} => created /\ program = request.program

\* The arguments of a call decide how it ends: neither the registers nor the seed that
\* earlier calls left, nor where they failed, make any difference.
ArgumentsDecideOutcome ==
  \A j, k \in DOMAIN calls :
    calls[j].request = calls[k].request => calls[j].outcome = calls[k].outcome

\* A seed makes the output deterministic: two calls with the same arguments and a seed
\* draw the same random numbers, whatever was drawn before or between them.
SeedDecidesNumbers ==
  \A j, k \in DOMAIN calls :
    /\ calls[j].request = calls[k].request
    /\ calls[j].request.seed # NoSeed
    /\ calls[j].outcome = "result"
    => calls[j].from = calls[k].from /\ calls[j].to = calls[k].to

\* The measures of a program, each with its statement.
MeasuresOf(p) ==
  UNION {{k} \X (1..p.statements[k].measures) : k \in DOMAIN p.statements}

\* A call goes on where the one before stopped, also after a failure, or at the first
\* number of a new seed, and each measure of each shot takes one number, as in the code,
\* whose reset draws none: none is used twice.
NumbersAreUsedOnce ==
  \A j \in DOMAIN calls :
    LET c == calls[j]
    IN  /\ c.to.seed = c.from.seed
        /\ c.to.drawn = c.from.drawn +
             (IF c.outcome = "result"
              THEN c.request.iterations * Cardinality(MeasuresOf(c.request.program)) ELSE 0)
        /\ j > 1 /\ (c.request.seed = NoSeed \/ c.from.drawn # 0) => c.from = calls[j - 1].to

\* README.md: a call produces a simulation result or an error.
EveryCallAnswers == \A j \in DOMAIN calls : calls[j].outcome \in {"result", "error"}

=============================================================================

----------------------------- MODULE CommandLine ------------------------------
(***************************************************************************)
(* A process that simulates: the program qx-simulator, which parses its    *)
(* command line, makes one call and exits with a status, or a client of    *)
(* the library (the Python module, a test), which makes calls as it likes. *)
(***************************************************************************)
EXTENDS Simulator

CONSTANTS CommandLines,  \* lists of arguments, without the name of the program
          Files,         \* by path, what the analyzer makes of it: [analysis, program]
          Atoi,          \* atoi, of the arguments that follow a "-c"
          SIZE_MAX       \* the largest size_t

VARIABLES
  arguments,    \* argv
  arg_index,    \* the argument that is parsed next
  iterations,
  file_path,
  main_phase,   \* "parsing", "parsed", "failed", "calling" or "exited", or "library"
  exit_status

NoPath == ""

main_vars == <<arguments, arg_index, iterations, file_path, main_phase, exit_status>>

\* What execute_file is asked for, without a seed, and of the default version.
FileRequest(path, count) ==
  [version |-> "3.0", analysis |-> Files[path].analysis, program |-> Files[path].program,
   iterations |-> count, seed |-> NoSeed]

ASSUME CommandLineAssumption ==
  /\ SIZE_MAX \in Nat \ {0}
  /\ CommandLines \subseteq Seq((DOMAIN Atoi) \intersect (DOMAIN Files))
  /\ \A argument \in DOMAIN Atoi : Atoi[argument] \in Int
  /\ \A path \in DOMAIN Files :
       \A count \in {1} \union {Atoi[a] % (SIZE_MAX + 1) : a \in DOMAIN Atoi} :
         FileRequest(path, count) \in Requests

ProcessInit ==
  /\ SimulatorInit
  /\ \/ main_phase = "parsing" /\ arguments \in CommandLines
     \/ main_phase = "library" /\ arguments = <<>>
  /\ arg_index = 1
  /\ iterations = 1
  /\ file_path = NoPath
  /\ exit_status = 0

Parsing(option) ==
  /\ main_phase = "parsing"
  /\ arg_index <= Len(arguments)
  /\ (arguments[arg_index] = "-c") = option

\* Mutant: the program waits for something after the last argument.
IsLastOrNextToLast == arg_index + 2 > Len(arguments)

IsLast == arg_index + 1 > Len(arguments)

\* A number that is negative becomes a size_t, a word that is no number is zero.
ParseIterations ==
  /\ Parsing(TRUE)
  /\ ~IsLast
  /\ iterations' = Atoi[arguments[arg_index + 1]] % (SIZE_MAX + 1)
  /\ arg_index' = arg_index + 2
  /\ UNCHANGED <<simulator_vars, arguments, file_path, main_phase, exit_status>>

ParseFilePath ==
  /\ Parsing(FALSE)
  /\ IsLast
  /\ file_path' = arguments[arg_index]
  /\ arg_index' = arg_index + 1
  /\ UNCHANGED <<simulator_vars, arguments, iterations, main_phase, exit_status>>

ParsingFails ==
  /\ (Parsing(TRUE) /\ IsLast) \/ (Parsing(FALSE) /\ ~IsLast)
  /\ main_phase' = "failed"
  /\ UNCHANGED <<simulator_vars, arguments, arg_index, iterations, file_path, exit_status>>

Exit(status) ==
  /\ main_phase' = "exited"
  /\ exit_status' = status
  /\ UNCHANGED <<simulator_vars, arguments, arg_index, iterations, file_path>>

Usage ==
  /\ \/ main_phase = "failed"
     \/ main_phase = "parsing" /\ arg_index > Len(arguments) /\ file_path = NoPath
  /\ Exit(-1)

ExecuteFile ==
  /\ main_phase = "parsing"
  /\ arg_index > Len(arguments)
  /\ file_path # NoPath
  /\ Call(FileRequest(file_path, iterations))
  /\ main_phase' = "calling"
  /\ UNCHANGED <<arguments, arg_index, iterations, file_path, exit_status>>

\* The call that main waits for, and the calls of a client of the library.
Simulate ==
  /\ main_phase = "library" \/ (main_phase = "calling" /\ phase # "idle")
  /\ SimulatorNext
  /\ UNCHANGED main_vars

\* An exception that main does not catch terminates the process (128 + SIGABRT).
Terminated == 134

Status(outcome) ==
  CASE outcome = "error"     -> 1
    [] outcome = "result"    -> 0
    [] outcome = "exception" -> Terminated

Answer ==
  /\ main_phase = "calling"
  /\ phase = "idle"
  /\ Exit(Status(calls[Len(calls)].outcome))

ProcessNext ==
  \/ ParseIterations
  \/ ParseFilePath
  \/ ParsingFails
  \/ Usage
  \/ ExecuteFile
  \/ Simulate
  \/ Answer

ProcessSpec == ProcessInit /\ [][ProcessNext]_<<simulator_vars, main_vars>>

-----------------------------------------------------------------------------

\* Options "-c n", as many as one likes, and a path.
IsUsable(list) ==
  /\ Len(list) % 2 = 1
  /\ list[Len(list)] \notin {"-c", NoPath}
  /\ \A k \in 1..(Len(list) \div 2) : list[2 * k - 1] = "-c"

\* What the options before the argument at an index ask for.
IterationsBefore(list, index) ==
  IF index = 1 THEN 1 ELSE Atoi[list[index - 1]] % (SIZE_MAX + 1)

\* The program executes the last argument, as often as the last "-c" before it says,
\* or it prints how it is used and simulates nothing; its exit status tells how the
\* call ended (main).
MainAnswersItsArguments ==
  main_phase = "exited" =>
    LET n == Len(arguments)
    IN  IF IsUsable(arguments)
        THEN /\ Len(calls) = 1
             /\ calls[1].request = FileRequest(arguments[n], IterationsBefore(arguments, n))
             /\ exit_status = Status(calls[1].outcome)
        ELSE calls = <<>> /\ exit_status = -1

=============================================================================

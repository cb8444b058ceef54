---------------------------- MODULE CommandLine -----------------------------
(***************************************************************************)
(* The command xmojo: its options (src/SessionOptionsCLI.h), what it is    *)
(* asked to do (main of src/xmojo.cpp), the REPL and the execution of one  *)
(* source (src/REPL.cpp), and the start of the kernel (src/Kernel.cpp).    *)
(* The REPL is a client of the session that SessionPromise describes.      *)
(*                                                                         *)
(* What the text of a cell means is any source of the session. The         *)
(* commands of the compiler and the server of the kernel are external.     *)
(***************************************************************************)
EXTENDS SessionPromise, Integers, SequencesExt

CONSTANTS
  CommandLines,  \* the arguments that the command is started with
  Inputs         \* the lines of its standard input

Options == {"--option", "--target-accelerator"}

\* "--other" is any other word that begins with a dash, and "word" any that does
\* not: a file, code, or the value of an option.
Words == Options \union {"-e", "--help", "--version", "--other", "kernel",
                         "build", "word"}

Lines == {"empty", "quit", "text"}

ASSUME CommandAssumption ==
  CommandLines \subseteq Seq(Words) /\ Inputs \subseteq Seq(Lines)

VARIABLES
  argv,        \* the arguments
  readIndex,   \* the argument that extractSessionOptions is at
  kept,        \* the arguments, by position, that are not options
  given,       \* the options that have got a value, by position
  pc,          \* what the process does
  exitStatus,  \* the status it has ended with, or -1
  input,       \* standard input
  line,        \* the next line
  cell,        \* the lines, by number, of the cell that is being read or executed
  executed     \* the cells that were given to the session

optionVars == <<argv, readIndex, kept, given>>
inputVars == <<input, line, cell, executed>>
commandVars == <<promiseVars, optionVars, pc, exitStatus, inputVars>>

CommandInit ==
  /\ PromiseInit
  /\ argv \in CommandLines /\ readIndex = 1 /\ kept = <<>> /\ given = {}
  /\ pc = "options" /\ exitStatus = -1
  /\ input \in Inputs /\ line = 1 /\ cell = <<>> /\ executed = <<>>

Exit(code) == pc' = "exited" /\ exitStatus' = code

Go(next) == pc' = next /\ UNCHANGED exitStatus

-----------------------------------------------------------------------------
(* extractSessionOptions *)

KeepArgument ==
  /\ pc = "options" /\ readIndex <= Len(argv) /\ argv[readIndex] \notin Options
  /\ kept' = Append(kept, readIndex) /\ readIndex' = readIndex + 1
  /\ UNCHANGED <<promiseVars, argv, given, pc, exitStatus, inputVars>>

\* Fault: an option is read again.
SameOption == readIndex

PassValue == readIndex + 2

TakeOption ==
  /\ pc = "options" /\ readIndex < Len(argv) /\ argv[readIndex] \in Options
  /\ given' = given \union {readIndex} /\ readIndex' = PassValue
  /\ UNCHANGED <<promiseVars, argv, kept, pc, exitStatus, inputVars>>

MissingValue ==
  /\ pc = "options" /\ readIndex = Len(argv) /\ argv[readIndex] \in Options
  /\ Exit(2)
  /\ UNCHANGED <<promiseVars, optionVars, inputVars>>

OptionsEnd ==
  /\ pc = "options" /\ readIndex > Len(argv) /\ Go("dispatch")
  /\ UNCHANGED <<promiseVars, optionVars, inputVars>>

-----------------------------------------------------------------------------
(* main, runREPL up to the session, runKernel *)

argc == Len(kept)   \* without the name of the program

Argument(k) == argv[kept[k]]

Command(word) == argc > 0 /\ Argument(1) = word

Interactive == argc = 0

OneSource ==
  \/ argc = 2 /\ Argument(1) = "-e"
  \/ argc = 1 /\ Argument(1) = "word"

Accelerated == \E i \in given : argv[i] = "--target-accelerator"

Dispatch ==
  /\ pc = "dispatch"
  /\ \/ (Command("--help") \/ Command("--version")) /\ Exit(0)
     \/ Command("kernel") /\ Go("kernel")
     \/ Command("build") /\ Accelerated /\ Exit(2)
     \/ Command("build") /\ ~Accelerated /\ (Exit(0) \/ Exit(1))
     \/ Interactive /\ Go("create")
     \/ OneSource /\ Go("create")
     \/ Command("word") /\ OneSource /\ Exit(1)   \* the file cannot be read
     \/ Command("word") /\ ~OneSource /\ Exit(2)
     \/ Command("-e") /\ ~OneSource /\ Exit(2)
     \/ Command("--other") /\ Exit(2)
  /\ UNCHANGED <<promiseVars, optionVars, inputVars>>

\* The version is asked for, the connection file is missing, the session cannot be
\* created, or the server has ended.
Kernel ==
  /\ pc = "kernel"
  /\ \E code \in 0..2 : Exit(code)
  /\ UNCHANGED <<promiseVars, optionVars, inputVars>>

Create ==
  /\ pc = "create"
  /\ \/ Exit(1)
     \/ Interactive /\ Go("read")
     \/ ~Interactive /\ Go("source")
  /\ UNCHANGED <<promiseVars, optionVars, inputVars>>

-----------------------------------------------------------------------------
(* readCell, runInteractive *)

Leave(code) == Exit(code) /\ Destroy

\* Fault: what precedes the end of the input without an empty line is dropped.
EmptyOrEnd == TRUE

NothingRead == cell = <<>>

EndOfInput ==
  /\ pc = "read" /\ line > Len(input)
  /\ \/ NothingRead /\ Leave(0) /\ UNCHANGED cell
     \/ ~NothingRead /\ Go("source") /\ UNCHANGED <<promiseVars, cell>>
  /\ UNCHANGED <<optionVars, input, line, executed>>

ReadLine ==
  /\ pc = "read" /\ line <= Len(input) /\ line' = line + 1
  /\ \/ /\ input[line] # "empty"
        /\ cell' = Append(cell, line) /\ Go("read")
     \/ /\ input[line] = "empty" /\ cell # <<>>
        /\ Go("source") /\ UNCHANGED cell
     \/ /\ input[line] = "empty" /\ cell = <<>>
        /\ Go("read") /\ UNCHANGED cell
  /\ UNCHANGED <<promiseVars, optionVars, input, executed>>

Quits == Len(cell) = 1 /\ input[cell[1]] = "quit"

Quit ==
  /\ pc = "source" /\ Interactive /\ Quits
  /\ Leave(0)
  /\ UNCHANGED <<optionVars, inputVars>>

\* execute, up to the call of the session.
ExecuteCell ==
  /\ pc = "source" /\ ~(Interactive /\ Quits)
  /\ executed' = Append(executed, cell)
  /\ \E s \in Sources : Submit(s)
  /\ Go("execute")
  /\ UNCHANGED <<optionVars, input, line, cell>>

SessionStep ==
  /\ pc = "execute"
  /\ Load \/ Reject \/ Complete \/ Raise \/ FailForGood
  /\ UNCHANGED <<optionVars, pc, exitStatus, inputVars>>

Infrastructure == {"jit failure", "crashed", "uninitialized"}

\* Fault: only a rejected source has failed.
RejectedStatus == IF outcome = "diagnostics" THEN 1 ELSE 0

Status == IF outcome = "succeeded" THEN 0 ELSE 1

SessionReturns ==
  /\ pc = "execute" /\ status \in {"ready", "unusable"} /\ cell' = <<>>
  /\ UNCHANGED <<optionVars, input, line, executed>>

SourceExecuted == SessionReturns /\ ~Interactive /\ Leave(Status)

CellExecuted ==
  /\ SessionReturns /\ Interactive
  /\ \/ outcome \in Infrastructure /\ Leave(1)
     \/ outcome \notin Infrastructure /\ Go("read") /\ UNCHANGED promiseVars

CommandNext ==
  \/ KeepArgument \/ TakeOption \/ MissingValue \/ OptionsEnd
  \/ Dispatch \/ Kernel \/ Create
  \/ EndOfInput \/ ReadLine \/ Quit \/ ExecuteCell \/ SessionStep
  \/ SourceExecuted \/ CellExecuted

CommandSpec == CommandInit /\ [][CommandNext]_commandVars

\* The process goes on: the compiler and the cells end, and so does the input.
LiveCommandSpec == CommandSpec /\ WF_commandVars(CommandNext)

-----------------------------------------------------------------------------
(* Properties. *)

\* The members of a set of numbers, each once, in their order.
InOrder(numbers, set) ==
  /\ Range(numbers) = set
  /\ \A i, j \in DOMAIN numbers : i < j => numbers[i] < numbers[j]

Written == {i \in 1..(line - 1) : input[i] # "empty"}

\* No empty line between two lines.
Together(i, j) == \A k \in i..j : input[k] # "empty"

\* What was read and not executed: a cell that is being read, or :quit.
Pending ==
  IF pc \in {"read", "source"} \/ (pc = "exited" /\ Quits) THEN <<cell>> ELSE <<>>

\* The REPL gives the session the text it has read, all of it, line by line in its
\* order, with the empty lines between cells and nowhere else.
InputIsExecuted ==
  pc \in {"read", "source", "execute", "exited"} /\ Interactive =>
    LET cells == executed \o Pending
    IN  /\ InOrder(FlattenSeq(cells), Written)
        /\ \A i, j \in Written : i < j =>
             (Together(i, j) <=> \E c \in Range(cells) : {i, j} \subseteq Range(c))

\* The option words right before a position, and at it.
OptionsUpTo(i) ==
  Cardinality({j \in 1..i : \A k \in j..i : argv[k] \in Options})

\* A word is the value of an option if the one before it is an option that is no
\* value itself.
IsValue(i) == i > 1 /\ OptionsUpTo(i - 1) % 2 = 1

\* What is left is what was written for the command, whatever the values are.
CommandIsKept ==
  pc \notin {"options", "exited"} =>
    InOrder(kept, {i \in DOMAIN argv : argv[i] \notin Options /\ ~IsValue(i)})

HadSession == pc = "exited" /\ status = "closed"

\* Nothing is executed when the status is 2; one source is executed once, and has
\* completed if the status is 0; the REPL ends with 1 only when its session cannot
\* go on, and with 0 when it has come to the end of its input or to :quit.
StatusTells ==
  /\ exitStatus = 2 => executed = <<>>
  /\ HadSession /\ ~Interactive =>
       Len(executed) = 1 /\ (exitStatus = 0 <=> outcome = "succeeded")
  /\ HadSession /\ Interactive =>
       /\ exitStatus = 1 <=> outcome \in Infrastructure
       /\ exitStatus = 0 => line > Len(input) \/ Quits

\* The command does what its arguments say, and its status tells how that went.
CommandIsDone == CommandIsKept /\ StatusTells

\* The command ends.
CommandEnds == <>(pc = "exited")
=============================================================================

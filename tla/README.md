# xmojo in TLA+

xmojo is an interactive Mojo environment: a session that compiles cells with
the source-built Mojo compiler into one ORC execution engine, a terminal REPL
and a Jupyter kernel on top of it, and a path that compiles kernels for Apple
GPUs with the official compiler. These modules model the parts of it where
several actors, several calls or several failures meet.

## The system

| Part | State | Operations | What is hard |
| --- | --- | --- | --- |
| Session, `src/compiler/InteractiveSession.cpp` | ORC engine, session variables with their storage, cell counter, `usable`, source for the GPU compiler | `create`, `execute`, `complete`, `inspect`, `isComplete`, destructor | a cell has a dozen places to fail, and each must leave parser, engine and storage in step |
| Parser, `src/compiler/InteractiveParser.cpp` | committed module, persistent variables with their types, a tooling twin that replays cells | `parse`, `commit`, `activateVariables`, completion, inspection, completeness | the scope of a cell; types remembered now and cast to later; a cell is divided and rewritten as text, after scans of its tokens |
| Runtime callbacks, `InteractiveSession.cpp:56-233`, `mojo/stdlib/std/xmojo.mojo` | thread-local pointers and pending values | `xmojo_emit_*`, `xmojo_display_*`, `xmojo_register_persistent`, `xmojo_compile_gpu`, `RuntimeCallbackScope` | cells, displays and destructors nest inside each other on one thread |
| GPU runtime loading, `InteractiveSession.cpp:245-301` | one process-wide handle and path under a mutex, one process-wide runtime context | `loadGPURuntime`, `create` | several sessions, several threads, several libraries |
| Official GPU compiler, `src/compiler/OfficialGPUCompiler.cpp` | a directory of cache entries shared by processes | `compile`, fingerprint, read, write and rename | inputs that change while they are read and built; partial entries |
| GPU runtime API, `src/gpu/Runtime.mm` | device, timeline semaphore, mutex, buffers, events | `open`, `createBuffer`, `view`, `load`, `dispatch`, `wait` | threads that dispatch and wait on one timeline |
| SPIR-V target, `src/compiler/XMojoSPIRVTarget.cpp` | the attribute that describes a kernel, the wrapper being written | `prepareModule`, `lower`, `finalizeModule`, `emit` | pointers and scalars are numbered apart, and the host numbers them too |
| Jupyter kernel, `src/kernel/MojoInterpreter.cpp`, `src/Kernel.cpp` | `outputEnabled`, the counter of the current execution, the session | the requests of the protocol | silent requests, the order of messages, offsets of characters and of bytes, a history that inspection extends for a while |
| Command and REPL, `src/xmojo.cpp`, `src/SessionOptionsCLI.h`, `src/REPL.cpp` | arguments, the lines of a cell, the session | options, dispatch, `readCell`, `execute`, exit status | input that ends within a cell; what the status says |
| Authentication, `src/transport/BoringSSLAuthentication.cpp` | one HMAC context under a mutex | sign, verify | threads that share the context, calls that fail in between |
| Launchers and build, `python/`, `setup.py`, `tools/`, `bazel*`, `cmake/` | files | install, locate the native program | — |

A frontend calls `InteractiveSession::execute` with the text of a cell. The
session asks its parser for a wrapped module, lowers and compiles it, adds the
archive to ORC, commits the module as history and calls the entry point in a
crash recovery. The running cell calls back through C symbols: output and
displays go to the frontend's callbacks, persistent variables register their
destructors, a kernel launch asks for GPU code. When the entry point returns,
the session takes over the new variables. The kernel and the REPL each own one
session and run it on one thread; the kernel's messages are signed by threads of
its server.

### What makes it correct

* Session and parser: a cell that is rejected leaves no trace; a cell that is
  loaded stays loaded even if it raises; the two lists of variables name the
  same storage with the same types; storage is owned once and destroyed once, in
  reverse order, before the engine goes.
* Callbacks: what a cell emits reaches the callbacks of the session that runs
  it, and an interrupted computation finds its own pending values again.
* GPU runtime loading: a process holds at most one MAX runtime, and it is
  loaded before the process-wide context is created.
* GPU compiler: an artifact that is served belongs to the inputs of the request.
* GPU runtime API: the timeline is signalled in order; an event that is reached
  covers all that was submitted before it; every dispatch returns and every wait
  ends; no kernel is given a range outside its buffer.
* Cell text: no line of a cell is lost or moved, suites stay with their heads,
  every place in the wrapper leads back to the cell, and what is displayed is
  the trailing expression.
* Token scans: three scans that each pass over the tokens once, with a stack of
  brackets, agree with what the whole cell says.
* Kernel: each request is answered once, by its last message; a reply of "ok"
  means that the cell's variables are there; offsets are of characters.
* Command: no line that was typed is dropped or put into another cell, no
  argument is taken for an option's value or the reverse, and the exit status is
  that of what was executed.
* SPIR-V target: a wrapper passes each argument from the place where the host
  puts it, and nothing is emitted that was not checked.
* Authentication: a signature covers one message, whoever else signs or fails.

## Modules

### `InteractiveSession` — one session and its parser

| Variables | Code |
| --- | --- |
| `committed`, `persistentVars`, `tooling` | `InteractiveParser::Impl` `committedModule`, `persistentVars`, `tooling` |
| `usable`, `nextCellID`, `runtimeSymbolsDefined`, `gpuDeclarationSource` | members of `InteractiveSession::Impl` |
| `resident` | the archives in the JITDylib `mojo-interactive-session` |
| `sessionVars`, `heap` | `sessionVars` and the `OwnedPointer` storage its entries point to |
| `pc`, `cell`, `cellID`, `module`, `newVars`, `slots`, `destroyers`, `pendingRuntimeError` | the locals of `execute()` and the progress of its calls |
| `persisted` | how far the epilogue, or the destructor loop, has come |

`execute()` is cut at every call that can fail: `Begin`, `ParseAccepts` /
`ParseRejects`, `RunKGENPipeline`, `EmitArchive` / `CompilationFails`,
`AddArchive`, `DefineRuntimeSymbols`, `LookupEntryPoint` / `JITFails`,
`Commit`, then the cell itself (`BodyCompletes`, `BodyRaises`, `BodyReturns`,
and per variable `PersistVariable` and `RegisterPersistent`, with `CellCrashes`
at any point), then `ReportRuntimeError`, `Succeed` or `MissingStorage`. The
destructor is `Close`, `DestroyVariable` per variable, `ClearVariables`, and
`TearDownEngine` for the members that die after its body.

A cell is abstracted to its variables (name, type of the value that is moved
out, type of the first variable of that name in the function), its top-level
declarations (name and signature) and whether its body may return early. The
compiler, ORC and the running cell are the environment: any call may fail where
the code checks for failure.

The type a parser records for a variable (`first`) is that of the first
`VarDeclOp` of its name that `collectDeclaredVarTypes` meets, so a cell carries
both types, and `Faithful` is the assumption that they are the same.

### `SessionPromise` — what a client relies on

Six variables: status, number of submitted cells, current cell, scope,
variables, last outcome. A cell is rejected without a trace, or loaded; a loaded
cell completes, raises or fails for good. `InteractiveSession` implements it
(`KeepsPromise`) under the mapping at the end of that module: the phases before
`Commit` are "compiling", those after it "running".

### `InteractiveSessionMC`

The cells of the small instances: no, one and two variables, a name with two
types, an overload, a struct that takes a function's name, a borrowed value; a
cell that may return before its epilogue; a redefined function; a nested
variable that shadows.

### `CellText` — the text of a cell and its wrapper

| Variables | Code |
| --- | --- |
| `lines`, `line`, `topLevel`, `body` | the locals of `partitionCell` |
| `declaration`, `openings`, `requiresColon` | the locals of `takeTopLevelStatement` |
| `trailing` | `TrailingExpression` |
| `output`, `mappings` | `WrappedCell::source` and `WrappedCell::map` |
| `emitted`, `pc` | the progress of the loops of `wrapCell` |

`Split` removes the common indentation; `TakeTopLevelStatement`,
`TakeHeaderLine`, `TakeSuiteLine` and `EndSuite` are `takeTopLevelStatement`,
`PlaceLine` is the rest of the loop of `partitionCell`; `BeginWrapper`,
`EmitMappedLine`, `EmitEpilogue`, `EmitTopLevelLine` and `EndWrapper` write the
wrapper. It is sequential, and the cell is chosen in `Init`. A line is its
indentation, what it begins with, and its brackets, colons and comment signs in
order. Each text that the wrapper adds is one character. The trailing expression,
which the parser finds, is any range of places in lines with text: it begins and
ends in the body (`InBody`), in the module, or in one of each.
`openings` is a `size_t` in the code and an integer here: it is only compared
with zero, and for fewer than 2^64 brackets the two are zero together. A line may
close more brackets than are open; the count is then below zero, and the header
goes on (`InBrackets`).

### `TokenScans` — what a cell's tokens say

| Variables | Code |
| --- | --- |
| `tokens` | what the lexer returns; the indentation of a token is that of its line |
| `open` | the `SmallVector` of open brackets of each scan |
| `lineIndent`, `invalid`, `verdict` | `checkCompleteness` |
| `baseIndent`, `statementAtBase`, `afterSemicolon`, `expectName`, `variables` | `findTopLevelVariables` |
| `statement` | `findTrailingStatement` and the first test of `findTrailingExpression` |

A behaviour is one scan of one cell; `CheckToken`, `MeasureIndent`,
`ScanVariables` and `ScanTrailing` each take a token, `ReturnVerdict`,
`ReturnVariables` and `ReturnTrailing` return. What the scans should find is
defined apart from them, by the positions of the tokens: a pairing of brackets
(`Nests`), the lines that begin outside of brackets (`LineHeads`), and the
statements (`StartsStatement`). Two conditions of `LastStatementIsDisplayed` and
two of `VariablesAreDeclared` say for which cells the scans agree with these
definitions; what happens to other cells is under "What the checks found".

### `RuntimeCallbacks` and `ScopedCallbacks` — nested activations

| Variables | Code |
| --- | --- |
| `threadLocals` | `activeOutput`, `activeDisplay`, `activeGPUCompiler`, `activeDestroyers`, `pendingDisplay`, `pendingRuntimeError` |
| `scopes` | the `RuntimeCallbackScope` objects on the stack with what they saved, and the calls that nest in each |
| `alive`, `usable` | the sessions and their `usable` |
| `entered`, `renders`, `nested`, `lost`, `observed` | what has happened, for bounds and properties |

Client code runs outside all cells and inside a callback, where it may execute
a cell of another session (`Execute`) or destroy one (`Destroy`); Mojo code runs
in the innermost scope and calls the C functions (`EmitPrint`, `DisplayBegin`,
`DisplayAdd`, `DisplayEnd`, `EmitError`, `RegisterPersistent`, `CompileGPU`); a
`Crash` ends at the innermost `RunSafely`. What a display contains is the set of
renders that contributed to it. `ScopedCallbacks` is the promise: a stack of
activations, each with callback state of its own that only the innermost one
changes. `RuntimeCallbacks` implements it (`ActivationsAreIsolated`): the state
of activation *k* is what scope *k+1* saved, and that of the innermost is the
thread-local variables. The GPU compiler is not part of the promise, since the
constructor of the scope leaves it: a destructor called in a callback of
another session's cell inherits the compiler of that cell.

### `GPUArtifactCache` — compilations that share a directory

| Variables | Code |
| --- | --- |
| `content` | the official compiler and the packages on the import paths |
| `disk` | the cache directory: an entry per key, and temporary files |
| `job` | the locals of each running `compile()`: request, digests, what the official compiler read |
| `answer` | what the last step returned |

`Request`, then the fingerprint (`HashFile`, `ListPackages`,
`FingerprintFails`), `Lookup`, `ReadInput` per input of the official compiler,
`BuildFails` / `BuildSucceeds`, the fingerprint again, `Recheck`, and
`writeCacheEntry` as `CreateTemporary`, `WriteTemporary`, `Rename` and
`WriteFails`. `Edit`, `Kill` and `LosePower` are the environment. A digest is
what was digested.

### `SessionCreation` — `create()` by several threads

| Variables | Code |
| --- | --- |
| `mutex`, `handle`, `loadedPath` | the static variables of `loadGPURuntime` |
| `loads` | what `dlopen` has returned |
| `context` | the process-wide context, with what was loaded when it was made |
| `session`, `answer` | how far each `create()` is, and the last answer |
| `link` | what a path resolves to |

`CreateCPU` and `CreateGPU` begin (with `real_path`), `Lock`, `CheckHandle`,
`Open` / `OpenFails`, `Record`, `GetContext` / `ContextFails`, `Initialize` /
`InitializeFails` go on, `Destroy` ends; `MoveLink` is the environment. The
assignments of `handle` and `loadedPath` are two steps.

### `GPUTimeline` and `SerialDevice` — threads that dispatch and wait

| Variables | Code |
| --- | --- |
| `nextTimelineValue`, `dispatchMutex` | `Device::Impl` |
| `call` | where each thread is in `dispatch()` or `wait()` |
| `events` | the values of the `Event` objects that were returned |
| `rejected` | the values that were taken for a dispatch that the queue refused |
| `queue`, `executed`, `payload`, `failed`, `contents` | the device (external) |

`Dispatch` (the requirements), `Lock`, `Allocate`, `Submit` / `SubmitFails`,
`Unlock`, `ReturnEvent`; `Wait`, `WaitEnds`; `Execute`, `Signal`, `Fail` are the
device. Assumed of IREE: a queue executes and signals in the order of
submission, a dispatch is signalled after its effects, a failed semaphore keeps
its value and ends every wait. Buffers and executables outlive their use, which
the shared pointers of the API see to. A `size_t` is below `Word`, so that sums
of offsets and lengths can wrap around. Arguments that are refused before the
lock change nothing and are left out.

`SerialDevice` is what `Runtime.h` promises a caller, without mutex, semaphore or
queue: a timeline of dispatches that are refused, done or lost one after the
other; an event names one that was not refused; a wait ends when all work up to
its own is settled, or with the failure of the device. `GPUTimeline` implements it
(`DispatchesAreSerial`): a value is on the timeline of the promise once it is
submitted or refused (`Issued`), and what became of it is read off `rejected`,
`contents` and `queue` (`Status`). A signal of the semaphore is a stutter.

### `JupyterKernel` — requests, on top of `SessionPromise`

| Variables | Code |
| --- | --- |
| `received`, `answering` | the requests with their replies; the control of `execute_request_impl` and its siblings |
| `outputEnabled`, `currentExecutionCounter` | members of `MojoInterpreter` |
| `counter` | the execution counter of xeus (external) |
| `published` | the messages about the last request, with its reply |
| `completion` | the text, the cursor and the span of the last `complete_request` |
| `history` | the cells that `ToolingState` has recorded |

The module EXTENDS `SessionPromise` and takes the session's steps from it, so it
is a composition: whatever implements the promise can be put below it, and
`InteractiveSession` does. `ExecuteRequest` begins a request, `LoadCell` and
`EndCell` are the session's steps (with what `commit` records for tooling), `EmitOutput` and
`EmitDisplay` the callbacks of the running cell, `Answer` the rest of
`execute_request_impl`. `CompleteRequest` computes the two offsets on the bytes
of a text as the kernel and the session do; `InspectRequest` and `InspectAnswer`
put the inspected text on the history and take it off. Exceptions of xeus and of
the session's methods are not modelled.

### `CommandLine` — the command, on top of `SessionPromise`

`argv`, `readIndex`, `kept` and `given` are the variables of
`extractSessionOptions`; `input`, `line` and `cell` those of `readCell`;
`executed` records what the session was given; `pc` and `exitStatus` the process.
`Dispatch` is `main`, with `Kernel` for `runKernel`; `Create`, `ReadLine`,
`EndOfInput`, `Quit`, `ExecuteCell`, `SourceExecuted` and `CellExecuted` are
`runREPL` and `runInteractive`. It is composed with `SessionPromise` in the same way.

### `SPIRVKernel` — exported functions become compute shaders

| Variables | Code |
| --- | --- |
| `functions` | the functions that the module defines, with their signatures |
| `abi`, `abiError` | the attributes that `prepareModule` and `addKernelWrapper` set |
| `parameters` | the parameters of a function after lowering (external) |
| `kernel`, `binding`, `scalar`, `calls`, `wrapped` | the loops of `addKernelWrapper` and the call that it writes |
| `result` | what `emit` and `createArchive` return |

`PrepareModule` encodes each valid signature, `LowerModule` is the compiler,
`BeginWrapper`, `BindBuffer`, `LoadScalar` and `EndWrapper` decode the attribute
and write a wrapper, `EndFinalize` and `Emit` end the compilation. The numbers
of a wrapper are compared with the signature it was encoded from.

### `Authentication` — threads that share an HMAC context

`mutex` and `context` are the members of `HmacSha256Authentication`; `call` is
where each thread is in `signBuffers`; `answer` is what was returned last. `Lock`,
`HMACInit`, `HMACUpdate` per buffer, `HMACFinal`, and `Throw` for a call of
BoringSSL that fails. A digest is the sequence of buffers that the context was
given since it was initialised.

## Runs

Each run has a configuration of the same name as its module, but for
`NestedShadow.cfg`. State counts are those of distinct states.

| Run | Bounds | States | Shows |
| --- | --- | --- | --- |
| `session` | 6 cells, `MaxCells = 3` | 47 806 | `VariablesAgree`, `TypedAccess`, `StorageOwnedOnce`, `VisibleIsResident`, `NamesStayUnique`, `DestroyedInReverse`; the refinement `KeepsPromise` |
| `callbacks` | 2 sessions, 3 scopes, 2 nested calls, 3 renders | 29 881 | `DeliveredToOwnSession`, `ActivationsFindTheirOwn`, `EventsAreOwn`; the refinement `ActivationsAreIsolated` |
| `gpu_cache` | 2 compilations, the official compiler and 1 package in 3 states, 2 requests, 2 edits, 2 calls, losses of power | 154 950 | `EntriesMatchKeys`, `AnswersAreCurrent`, `EntriesAppearWhole` |
| `gpu_timeline` | 2 threads, 2 buffers (one foreign), 3 dispatches, `size_t` of 2 bits | 35 441 | `WorkIsInOrder` (with `EarlierWorkIsDone`), `BindingsInBounds`; the refinement `DispatchesAreSerial`; `CallsEnd` (live) |
| `session_creation` | 3 sessions of both kinds, 2 paths, 2 libraries, 1 move of a link | 224 895 | `OneRuntime`, `SessionsHaveTheirRuntime`, `RefusalsAreSound`; no deadlock |
| `cell_text` | all cells of 1 to 3 lines out of 14, every trailing expression | 278 989 | `LinesArePlaced`, `SuitesStayTogether`, `MapsBack`, `ExpressionIsDisplayed`; `WrappingEnds` (live) |
| `token_scans` | all cells of up to 3 phrases out of 17, and all of up to 5 brackets | 163 542 | `VerdictIsRight`, `VariablesAreDeclared`, `LastStatementIsDisplayed` |
| `kernel` | 3 requests, 2 cells, 2 messages and 1 diagnostic each, 6 texts of up to 4 characters with every cursor | 571 701 | `RequestsAreAnswered`, `RepliesTell`, `CompletesTheWord`; `RequestsEnd` (live) |
| `command_line` | all command lines of up to 3 words out of 9, all inputs of up to 4 lines out of 3 | 690 000, about | `InputIsExecuted`, `CommandIsDone`; `CommandEnds` (live) |
| `spirv_kernel` | 2 functions of up to 3 parameters out of 6 | 1 220 000, about | `WrappersPassArguments`, `ObjectsAreChecked` |
| `authentication` | 3 threads, 3 messages of 1 or 2 buffers | 65 598 | `SignaturesAreOwn`; `SigningEnds` (live) |
| `nested_shadow` | 2 cells, 2 numbers | | `RecordedTypeIsStored` is violated: a nested variable decides the recorded type |

*Why the bounds are enough.* Three cells are what the session properties relate:
one that established something, one that failed or raised in between, and one
that depends on both; two variables make the first and the second of an
epilogue distinct and let it fail between them. Three scopes are a cell, a cell
or destructor in its callback, and one in the callback of that; with two a
restored value could not differ from the initial one. Two calls of the
compiler are one that publishes and one that races it or finds its entry, for the
same request or for another; what a later call would find is on disk, of which the
invariants speak, and three calls (1 439 974 states) have been checked too. Two
edits are one before and one after a fingerprint. Three dispatches on two
threads are one that is refused, one that overtakes and one that is waited for;
a fourth value adds no new order between the two threads. Three threads let one
load, one be refused and one wait for the mutex. Three lines are a head, a line
of its header or suite, and a line after it; cells of four lines, with
the expressions of the body, have been checked with the same configuration
(1 340 266 states) and are left out for time.
Three phrases are a line, what stands between, and what it is mistaken for; five
brackets of two kinds are two pairs that cross and one more. Three requests are
one that leaves a trace, one that is silent or fails, and one that shows the
trace; two messages let one precede another. Three words let an option take a
value that looks like an option, with one more word; four lines are two cells
with an empty line between them. Two functions are wrapped one after the other,
and three parameters can put a scalar between pointers, or the reverse. Three
threads sign, wait and verify, and one message is the beginning of another.

*Fairness.* `session`, `callbacks`, `gpu_cache`, `session_creation`,
`token_scans` and `spirv_kernel` assume none: their properties are safety
properties, and whether a cell ends is the cell's business. `GPUTimeline` assumes
that a thread inside `dispatch()` or `wait()` that can go on does, and that the
device completes what it has begun; no order is assumed in which the mutex is
granted (dispatches are bounded by `MaxDispatches`, so it cannot be taken from a
waiting thread for ever, and with an unfair mutex and endless dispatches it
could). `CellText` and `CommandLine` are sequential and assume that the program
goes on; for the command this includes that cells end. `JupyterKernel` assumes
weak fairness of the steps that end a request (`LoadCell`, `EndCell`, `Answer`,
`InspectAnswer`), and none of what arrives or is printed: an interrupt stops
nothing, so a cell that never ends would keep its request for ever, and fairness
of `EndCell` is the assumption that there is none. `Authentication` assumes that
a thread inside a signature goes on and that `std::mutex` does not pass over a
waiting thread for ever (strong fairness of `Lock`), for the threads of a server
that sign again and again. `session_creation` checks for deadlock, which is how a
mutex that stays locked would show besides its invariant.

## What the checks found

The run `nested_shadow` is a disagreement with a text of the repository:
`DEV.md:195` says that the parser retains the type of each variable, but
`collectDeclaredVarTypes` takes the first `VarDeclOp` of a name in the function.
A `var a` in a loop body before the top-level `var a` decides the type that later
cells cast the storage to. The run shows the effect for any walk that meets the
nested declaration first. `Faithful`, in the properties and theorems about types,
is that no cell does this.

Seen while modelling; the properties are stated so that they say what is true
beside it:

* *Early return.* A cell such as `var a = 1` followed by a conditional `return`
  leaves its wrapper before the epilogue, and `execute()` then gives the session
  up because the variable has no storage. `DEV.md:380-382` names native crashes and
  JIT failures only. It is the outcome "uninitialized" of `SessionPromise`.
* *GPU redefinition.* Redefining a function works in the session, but the text
  collected for the official compiler then defines it twice
  (`InteractiveSession.cpp:400`).
* *Nested display.* A representation method that displays a value takes the
  pending event of its own value, which is then never delivered
  (`InteractiveSession.cpp:143`). `EventsAreOwn` allows exactly this loss.
* *Truncated entry.* A cache entry stores neither the length nor a digest of its
  object, so one that lost its end is not a miss (`OfficialGPUCompiler.cpp:87`).
  `EntriesAppearWhole` shows that the program itself never publishes one: it takes
  a loss of power, or damage. Without one, `OnlyWholeIsServed` holds.
* *CPU first.* `DEV.md` says that a GPU process must load its runtime before the
  process-wide context; a session without an accelerator that is created first
  makes the context, and a GPU session is accepted after it. `GPUSessionsAlone` is
  what holds.
* *Restored files.* A file that is edited during a build and restored before its
  end is not noticed (`~Reverts`).
* *Hidden variables.* If the lexer reports the indentation of lines in brackets,
  as `TokenScans` assumes, such a line also decides whether what follows the
  bracket is at the base indentation: of `f(1,` / ` 2); var x = 3`, `x` is not
  found (`InteractiveParser.cpp:499-505`, against `DEV.md:195`).
  `VariablesAreDeclared` states equality for cells in which no line begins in
  brackets, and inclusion for all.
* *Two `var`s.* After a `var` without a name the scan takes the next `var` for its
  name and passes it over: of `var` / `var x`, `x` is not found. Such a cell does
  not compile. An earlier `VariablesAreDeclared` did not except it (`VarsAreApart`);
  the attempt to prove it showed the case, which the small instance did not have.
* *A bracket too many.* `@dec)` / `fn f(): (` leaves the count of brackets below
  zero, so that `f` is part of the header of the decorator and an indented line
  below it goes to the body. Such a cell does not compile. An earlier `InBrackets`
  looked for open brackets only; the attempt to prove `SuitesStayTogether` showed
  the case, and a line that TLC now has confirmed it.
* *Trailing expression in the module.* `findTrailingExpression` does not know how
  the cell is divided, and only lines of the body are rewritten
  (`InteractiveParser.cpp:566-569`, against "wraps that expression" of
  `DEV.md:211-217`). The last `x` of `alias x = 3; x`, or of a last line
  `comptime_limit`, which `starts_with("comptime")` takes for a statement, is copied
  to the module as it is; an expression that begins in one part and ends in the other
  gets one of the two brackets of its display only. `ExpressionIsDisplayed` is about
  expressions in the body.
* *Trailing expression of a suite.* A semicolon begins a candidate wherever it is,
  so that the `i` of `for i in range(3):` / `  foo(); i` is taken for the last
  statement of the cell (`InteractiveParser.cpp:308-313`, against "control flow
  are left alone" of `DEV.md:211-217`).
* *Interrupts* are answered and stop nothing (`MojoInterpreter.cpp`).
* `xmojo ""` reads the first character of an empty argument (`xmojo.cpp`).
* A `comptime if` with a suite is split (its head goes to the module, its suite to
  the body); unindented lines of a triple-quoted string end a declaration; empty
  lines of such a string in the body are dropped.
* A destructor called inside another session's cell inherits its GPU compiler.

## Proofs

Each proof module proves for all constants that satisfy the named assumption of
its module, so for any number of cells, sessions, threads, files, dispatches,
lines or parameters. TLC has checked the same formulas on the instances above.

| Theorem | States | Also assumes |
| --- | --- | --- |
| `InteractiveSessionProofs` `TypeCorrectness`, `ListsAgree`, `VisibleIsLoaded`, `StorageHasOneOwner`, `DestructionIsReversed` | `TypeOK`, `VariablesAgree`, `VisibleIsResident`, `StorageOwnedOnce`, `DestroyedInReverse` | |
| `SlotsAreTyped` | `TypedAccess` | `Faithful` |
| `NamesAreUnique` | `NamesStayUnique` | `Faithful`, `CellsAreConsistent` |
| `PromiseIsKept` | `InteractiveSession` implements `SessionPromise` | `Faithful` |
| `RuntimeCallbacksProofs` `TypeCorrectness`, `EmissionsReachTheirSession`, `ActivationsStayHome`, `EventsStayOwn` | `TypeOK`, `DeliveredToOwnSession`, `ActivationsFindTheirOwn`, `EventsAreOwn` | |
| `ScopesImplementIsolation` | `RuntimeCallbacks` implements `ScopedCallbacks` | |
| `GPUArtifactCacheProofs` `TypeCorrectness`, `PublicationIsAtomic` | `TypeOK`, `EntriesAppearWhole` | |
| `EntriesAreRight`, `AnswersAreFresh` | `EntriesMatchKeys`, `AnswersAreCurrent` | `~Reverts` |
| `OnlyWholeIsServed` | `CorruptEntriesAreMisses` | `~PowerLoss` |
| `SessionCreationProofs` `TypeCorrectness`, `OneRuntimeOnly`, `RuntimesMatch`, `RuntimeIsRetained`, `RefusalsAreRight` | `TypeOK`, `OneRuntime`, `SessionsHaveTheirRuntime`, `RuntimeStays`, `RefusalsAreSound` | |
| `GPUSessionsAlone` | `RuntimeBeforeContext` | `"cpu" \notin Kinds` |
| `GPUTimelineProofs` `TypeCorrectness`, `WorkIsOrdered` (from `SignalsGrow`, `EffectsAreOrdered` and `WaitsCoverEarlierWork`), `BindingsAreInBounds` | `TypeOK`, `WorkIsInOrder`, `BindingsInBounds` | |
| `RuntimeIsSerial` | `GPUTimeline` implements `SerialDevice` | |
| `CellTextProofs` `NoLineIsLost`, `SuitesAreKept`, `MapLeadsBack`, `DisplayIsExact` | `LinesArePlaced`, `SuitesStayTogether`, `MapsBack`, `ExpressionIsDisplayed` | |
| `CellTextProofs` `CompletenessIsRight`, `TrailingIsLast`, `VariablesAreFound` (of `TokenScans`) | `VerdictIsRight`, `LastStatementIsDisplayed`, `VariablesAreDeclared` | |
| `SPIRVKernelProofs` `ArgumentsAreDeclared`, `ObjectsHaveBeenChecked` | `WrappersPassArguments`, `ObjectsAreChecked` | |
| `FrontEndProofs` `EveryRequestIsAnswered`, `RepliesAreTrue`, `CompletionIsExact` (of `JupyterKernel`) | `RequestsAreAnswered`, `RepliesTell`, `CompletesTheWord` | |
| `FrontEndProofs` `InputReachesTheSession`, `CommandsAreDone` (of `CommandLine`) | `InputIsExecuted`, `CommandIsDone` | |
| `FrontEndProofs` `SignaturesCoverTheirMessage` (of `Authentication`) | `SignaturesAreOwn` | |

The conditions are what the states under "What the checks found" violate;
`CellsAreConsistent` is that the compiler accepts no cell that defines a name
twice other than as overloads.

*Session.* `VariablesAgree` alone is not inductive: that `Succeed` appends the
same variables to both lists needs to know that `newVars` is what the parser
resolved (`ControlInv`), and that the slot array has one slot per session
variable and one per new variable (`SlotsInv`). `Inv` is the conjunction, and the
other invariants are proved relative to it. For `TypedAccess`, every recorded type
is the stored one, published new slots have the type the parser recorded
(`NewSlotsTyped`), and destructors run only after the last cell
(`LiveUntilClosed`). `ResidencyInv` says which archives are in the engine at each
phase and that no cell number is used twice. `NamesInv` says what the parser has
checked between `Parse` and `Commit`, when the scope does not contain it yet.
`OwnershipInv` numbers the heap: storage is made in the order of the variables,
so that variable *i* owns the *i*-th, live until the destructor loop has come to
it. `PromiseInv` says which number, module and scope are meant at each phase;
`PromiseIsKept` then has one case per step of `execute()`, most of them stutters.

*Callbacks.* `Inv` adds to `TypeOK` that for every scope the state that belongs
to it, wherever it is saved, is its own (`EachHasItsOwn`): a scope that is left
then restores its caller's. The refinement is proved per kind of step: entering
appends a fresh activation, leaving removes the last, and every other step
changes the last only. For `EventsAreOwn`, the pending event of a scope belongs to
its innermost render, or that render has displayed another value
(`EachOwnsItsEvent`).

*Cache.* `Controlled` says which digests a compilation has at which step. If no
file gets contents back that it had before, contents are a clock: what was
digested before the build is no newer than what was built, and that no newer
than what was digested after it (`InOrder`). The comparison of the two digests
then leaves no room between them, which is why the key is right.
`PublicationIsAtomic` needs that only a whole temporary file is renamed.

*Session creation.* `Consistent` says that exactly the holder of the mutex is
inside `loadGPURuntime`, and what it may rely on at each step; `Loaded` that the
two static variables agree but between their assignments.

*Timeline.* `Exclusive` and `Allocated` say that the thread that has taken a
value and not submitted it is the holder of the mutex, and that its value is
above all that is queued; order follows. `Coverage` accounts for every value
that was taken (refused, done, queued or in hand), so that what the semaphore
has passed was done or refused. `Recorded` relates the contents of the buffers
to what is still queued. For the refinement, `Decided` keeps apart the values that
were refused, those that are queued and those of events; the head of the queue is
then the oldest that is pending (`HeadIsOldest`), and each step has a lemma of its
own (`SubmitRefines`, `ExecuteRefines`, `FailRefines`, `WaitEndRefines`, ...).

*Cell text.* `InOrder` says that both lists hold numbers of lines below `line`,
so that appending `line` keeps them growing and disjoint. For the source map,
`Followed` says that every copied character is in a mapping and that mappings
neither overlap nor touch: `mapLocation` takes the first one that contains an
offset, its end included, so touching ones would give the wrong place. `WithinText`,
that something added follows the last mapping, is what keeps them apart when the
next line begins. For the display, `Upto` says of the text written so far that no
character of the body is past a place of the cell and that a marker is in it only
if the expression begins, or ends, before that place; each piece that
`emitMappedLine` writes moves the place on. For `SuitesStayTogether`, `SuiteInv`
adds what holds while lines are placed: when the loop of `partitionCell` is
reached, no suite of a declaration goes on (`SuiteIsOver`); in a header, all lines
since its first are in the module, and if it is not that of a declaration its
brackets have not been balanced before any later line (`HeaderFrom`). That the
scan of a line changes `openings` by the line's balance, unless it ends the
header, is `LineIsScanned`.

*Token scans.* A stack and one pass against a pairing of brackets that is said to
exist: `IsStack` and `PairsUpTo` say of each prefix that what is paired in it and
what is still on the stack are all its brackets, and `NestedPairs` that a whole
cell nests exactly if the stack never failed (`Verified`). On top of it,
`Measures` says that the base indentation is the smallest of the lines that begin
outside of brackets, once one has been seen; `Seen` is the set of statements that
have been passed, of which `statement` is the last (`TrailingInv`) and from which
`variables` are (`VariablesInv`). All of it is said of the tokens alone
(`VerdictOf`, `TellsLast`, `TellsVariables`), which is how it survives a step.

*SPIR-V target.* The invariant says that `binding` and `scalar` are the numbers
of the pointers and scalars among the fields that have been passed, and that an
attribute that is on a function encodes its signature.

*Kernel.* `KernelInv` says how the requests, the session and the messages go
together: the session is busy only inside an execution (`SessionFollows`), every
message and its counter are those of the last request (`OutputIsOwn`), and the
reply is the last message (`AnswersAgree`). `VariablesAreReplied` adds that the
variables of the session are those of the replies, and of the cell that has just
completed. For completion, a text is given with the offsets of its characters
(`Widths`): the offsets grow, the first byte of a character is none that follows
(`LeadsAndTails`), so that `utf8ByteOffset` finds the n-th (`OffsetIsWidth`),
`utf8CharacterOffset` counts back (`CharactersAreCounted`), and a word begins at
the same character in both (`WordBegins`).

*Command.* `OptionsAreRead` says which words have been kept so far, and that the
reader is never at a value; `InputInv` says of the lines read that they are in the
cells and in the order of the cells (`Cells`, `CellFollows`), by lemmas about what
`FlattenSeq` makes of one more cell.

*Authentication.* Exactly the holder of the mutex is between `HMACInit` and
`HMACFinal` (`Exclusive`), and the context holds the buffers it has given so far
(`Filled`).

Every safety property that a run checks is stated by a theorem. Model-checked only
is liveness (`CallsEnd`, `WrappingEnds`, `RequestsEnd`, `CommandEnds`,
`SigningEnds`), which is beyond the provers that are used. The recursive functions
in the definitions (`Scanned`, `LeftOpen`, `utf8ByteOffset`, `FlattenSeq`) are
reasoned about by a smallest counterexample, in lemmas that say what one more
element changes (`RecursionExists` and `RecursionAgrees` first show that such a
function exists and that two of them agree).

## Plan

Done: all components but those under "Not modelled". What would come next:

1. *Launch arguments*: `_validate_arguments` of `mojo/xmojo/gpu.mojo`, which numbers
   buffers and scalars on the side of the host, composed with `SPIRVKernel`.
2. *Opening a device and copying buffers* (`Runtime.mm`): which of several failing
   steps releases what.

## Not modelled

* The Mojo compiler, ORC, MLIR passes, IREE, BoringSSL and xeus are the
  environment: their outcomes are chosen freely where the code checks for them.
* Wording: messages, markdown, the names of generated functions.
* Opening a GPU device, packaging executables and copying buffers
  (`Runtime.mm` apart from `dispatch`, `view` and `wait`): straight lines of calls
  of IREE with one check each.
* The GPU launch API in Mojo (`mojo/xmojo/gpu.mojo`): a layer without state over
  the official `DeviceContext`, whose code is not in the repository.
* The search for the official compiler and the refusals of kernel names and
  targets: no state.
* The candidates of a completion and the references of an inspection: the
  compiler finds them.
* The environment that `xmojo.cpp` prepares for the compiler's commands, the
  Python launcher, build and packaging: sequential, without state that outlives a
  call.
* The plugin of the standard library: declarations only.

------------------------- MODULE InteractiveSession -------------------------
(***************************************************************************)
(* One InteractiveSession (src/compiler/InteractiveSession.cpp) with the   *)
(* interactive parser it owns (src/compiler/InteractiveParser.cpp): what   *)
(* execute() does to a cell from parsing to the moment its result is       *)
(* returned, every way it can fail on the way, and the destructor.         *)
(*                                                                         *)
(* Source text is abstracted to what the session does with it: which       *)
(* top-level variables it declares and with which types, which top-level   *)
(* declarations it contains, and whether its body may execute a `return`.  *)
(* The Mojo compiler, ORC and the running cell are the environment: each   *)
(* may succeed or fail, raise or crash, at every point where the code      *)
(* calls it.                                                               *)
(***************************************************************************)
EXTENDS Naturals, Sequences

CONSTANTS
  Names,       \* identifiers of variables and of top-level declarations
  Types,       \* resolved types of variables
  Borrowed,    \* the types that mention a non-static origin
  Signatures,  \* argument lists that tell overloads apart
  Sources,     \* the cells a client may submit
  MaxCells     \* bound: the session numbers at most this many cells

NonFunction == "non-function"  \* the "signature" of a struct, trait or alias

NoDestroy == "no destructor"   \* an empty entry of the destructor table

Declaration == [name : Names, sig : Signatures \union {NonFunction}]

(***************************************************************************)
(* A declared variable has the type of the value that the epilogue moves   *)
(* out (type) and the type of the first variable of that name that a walk  *)
(* of the cell's function meets (first): they differ when a nested scope   *)
(* declares the same name earlier in the cell.                             *)
(***************************************************************************)
DeclaredVar == [name : Names, type : Types, first : Types]

ASSUME ParametersAssumption ==
  /\ MaxCells \in Nat
  /\ NonFunction \notin Signatures
  /\ NoDestroy \notin Types
  /\ Borrowed \subseteq Types
  /\ Sources \subseteq [vars : Seq(DeclaredVar),
                        decls : SUBSET Declaration,
                        returns : BOOLEAN]
  \* findTopLevelVariables collects each name once.
  /\ \A s \in Sources : \A i, j \in 1..Len(s.vars) :
       s.vars[i].name = s.vars[j].name => i = j

VARIABLES
  \* The parser and its tooling twin.
  committed,              \* declarations the next cell can see
  persistentVars,         \* names and types the next wrapper binds, by index
  tooling,                \* cells replayed for completion and inspection
  \* The session.
  usable, nextCellID, runtimeSymbolsDefined,
  resident,               \* cells whose archive is in the ORC JITDylib
  gpuDeclarationSource,   \* declarations in the text the GPU compiler gets
  sessionVars,            \* names, types, storage and destructor, by index
  heap,                   \* every storage ever allocated by an epilogue
  \* The activation of execute() or of the destructor.
  pc, cell, cellID, module, newVars, slots, destroyers,
  persisted,              \* epilogue calls that have completed
  pendingRuntimeError,
  result                  \* what the last execute() returned

parserVars  == <<committed, persistentVars, tooling>>
engineVars  == <<runtimeSymbolsDefined, resident>>
storageVars == <<sessionVars, heap>>
parseVars   == <<cell, cellID, module, newVars>>
runVars     == <<slots, destroyers, persisted, pendingRuntimeError>>
vars == <<parserVars, engineVars, storageVars, parseVars, runVars,
          usable, nextCellID, gpuDeclarationSource, pc, result>>

NoCell    == [vars |-> <<>>, decls |-> {}, returns |-> FALSE]
Null      == 0  \* the null slot; storage addresses are indices into heap

CompilePhases == {"parse", "lower", "emit", "add", "define", "lookup", "commit"}
RunPhases     == {"body", "epilogue", "register", "returned"}
ClosePhases   == {"destroying", "destroyed", "gone"}

PersistentVar == [name : Names, type : Types]
Allocation    == [type : Types, cell : Nat, destroys : Nat]

Init ==
  /\ committed = {} /\ persistentVars = <<>> /\ tooling = {}
  /\ usable = TRUE /\ nextCellID = 1 /\ runtimeSymbolsDefined = FALSE
  /\ resident = {} /\ gpuDeclarationSource = {}
  /\ sessionVars = <<>> /\ heap = <<>>
  /\ pc = "idle" /\ cell = NoCell /\ cellID = 0 /\ module = {}
  /\ newVars = <<>> /\ slots = <<>> /\ destroyers = <<>> /\ persisted = 0
  /\ pendingRuntimeError = FALSE /\ result = "none"

-----------------------------------------------------------------------------
(* Helpers. *)

Own(decls, id) == {[name |-> d.name, sig |-> d.sig, cell |-> id] : d \in decls}

(***************************************************************************)
(* The scope of a cell's module: its own declarations, and those of the    *)
(* committed module whose name it does not declare. Functions of one name  *)
(* are overloads: an earlier one stays unless the cell repeats its         *)
(* signature.                                                              *)
(***************************************************************************)
BuildModule(previous, decls, id) ==
  Own(decls, id) \union
    {p \in previous : \A d \in decls :
       d.name = p.name => /\ d.sig # NonFunction
                          /\ p.sig # NonFunction
                          /\ d.sig # p.sig}

\* Fault: only the first variable of the cell is looked up.
RedeclaresFirst(s) == s.vars # <<>> /\ \E j \in 1..Len(persistentVars) :
                        s.vars[1].name = persistentVars[j].name

Redeclares(s) == \E i \in 1..Len(s.vars) : \E j \in 1..Len(persistentVars) :
                   s.vars[i].name = persistentVars[j].name

ResolvedVars(s) ==
  [i \in 1..Len(s.vars) |-> [name |-> s.vars[i].name, type |-> s.vars[i].first]]

Borrows(variables) == \E i \in 1..Len(variables) : variables[i].type \in Borrowed

\* Leaving execute() drops its locals and restores the callback state.
Return(outcome) ==
  /\ pc' = "idle" /\ result' = outcome
  /\ cell' = NoCell /\ cellID' = 0 /\ module' = {} /\ newVars' = <<>>
  /\ slots' = <<>> /\ destroyers' = <<>> /\ persisted' = 0
  /\ pendingRuntimeError' = FALSE

\* Fault: the failure is returned and the session stays usable.
Forgive(outcome) == usable' = usable /\ Return(outcome)

Poison(outcome) == usable' = FALSE /\ Return(outcome)

Proceed(from, to) == pc = from /\ pc' = to

-----------------------------------------------------------------------------
(* execute(): from the call to the archive in ORC. *)

Refuse ==
  /\ pc = "idle" /\ ~usable
  /\ result' = "unusable"
  /\ UNCHANGED <<parserVars, engineVars, storageVars, parseVars, runVars,
                 usable, nextCellID, gpuDeclarationSource, pc>>

TakeCellID == cellID' = nextCellID /\ nextCellID' = nextCellID + 1

Begin(s) ==
  /\ usable /\ nextCellID <= MaxCells
  /\ Proceed("idle", "parse")
  /\ cell' = s /\ TakeCellID
  /\ result' = "none"
  /\ UNCHANGED <<parserVars, engineVars, storageVars, runVars, module, newVars,
                 usable, gpuDeclarationSource>>

ParseAccepts ==
  /\ Proceed("parse", "lower")
  /\ ~Redeclares(cell) /\ ~Borrows(ResolvedVars(cell))
  /\ module' = BuildModule(committed, cell.decls, cellID)
  /\ newVars' = ResolvedVars(cell)
  /\ UNCHANGED <<parserVars, engineVars, storageVars, runVars, cell, cellID,
                 usable, nextCellID, gpuDeclarationSource, result>>

\* The parser may reject any cell; it must reject a redeclaration and a
\* borrowed value, which is the guard of ParseAccepts.
ParseRejects ==
  /\ pc = "parse"
  /\ Return("diagnostics")
  /\ UNCHANGED <<parserVars, engineVars, storageVars, usable, nextCellID,
                 gpuDeclarationSource>>

RunKGENPipeline ==
  /\ Proceed("lower", "emit")
  /\ UNCHANGED <<parserVars, engineVars, storageVars, parseVars, runVars,
                 usable, nextCellID, gpuDeclarationSource, result>>

EmitArchive ==
  /\ Proceed("emit", "add")
  /\ UNCHANGED <<parserVars, engineVars, storageVars, parseVars, runVars,
                 usable, nextCellID, gpuDeclarationSource, result>>

\* Fault: the parsed module has become history already.
CompilationFailsLate ==
  /\ pc \in {"lower", "emit"}
  /\ committed' = module
  /\ Return("diagnostics")
  /\ UNCHANGED <<persistentVars, tooling, engineVars, storageVars, usable,
                 nextCellID, gpuDeclarationSource>>

CompilationFails ==
  /\ pc \in {"lower", "emit"}
  /\ Return("diagnostics")
  /\ UNCHANGED <<parserVars, engineVars, storageVars, usable, nextCellID,
                 gpuDeclarationSource>>

AddArchive ==
  /\ Proceed("add", "define")
  /\ resident' = resident \union {cellID}
  /\ UNCHANGED <<parserVars, storageVars, parseVars, runVars, usable,
                 runtimeSymbolsDefined, nextCellID, gpuDeclarationSource, result>>

DefineRuntimeSymbols ==
  /\ Proceed("define", "lookup")
  /\ runtimeSymbolsDefined' = TRUE
  /\ UNCHANGED <<parserVars, storageVars, parseVars, runVars, usable, resident,
                 nextCellID, gpuDeclarationSource, result>>

LookupEntryPoint ==
  /\ Proceed("lookup", "commit")
  /\ UNCHANGED <<parserVars, engineVars, storageVars, parseVars, runVars,
                 usable, nextCellID, gpuDeclarationSource, result>>

JITFails ==
  /\ \/ pc \in {"add", "lookup"}
     \/ pc = "define" /\ ~runtimeSymbolsDefined
  /\ Poison("jit failure")
  /\ UNCHANGED <<parserVars, engineVars, storageVars, nextCellID,
                 gpuDeclarationSource>>

-----------------------------------------------------------------------------
(* execute(): the cell becomes history and runs. *)

ExtendGPUSource ==
  gpuDeclarationSource' = gpuDeclarationSource \union Own(cell.decls, cellID)

EmptyDestroyers == [i \in 1..(Len(sessionVars) + Len(newVars)) |-> NoDestroy]

Commit ==
  /\ Proceed("commit", "body")
  /\ committed' = module
  /\ \/ tooling' = tooling \union {cellID}
     \/ tooling' = tooling  \* replaying the cell failed: record() ignores it
  /\ ExtendGPUSource
  /\ slots' = [i \in 1..(Len(sessionVars) + Len(newVars)) |->
                 IF i <= Len(sessionVars) THEN sessionVars[i].storage ELSE Null]
  /\ destroyers' = EmptyDestroyers
  /\ UNCHANGED <<engineVars, storageVars, parseVars, persistentVars, usable,
                 nextCellID, persisted, pendingRuntimeError, result>>

BodyCompletes ==
  /\ Proceed("body", "epilogue")
  /\ UNCHANGED <<parserVars, engineVars, storageVars, parseVars, runVars,
                 usable, nextCellID, gpuDeclarationSource, result>>

\* The wrapper's except clause reports the error through xmojo_emit_error.
BodyRaises ==
  /\ Proceed("body", "returned")
  /\ pendingRuntimeError' = TRUE
  /\ UNCHANGED <<parserVars, engineVars, storageVars, parseVars, slots,
                 destroyers, persisted, usable, nextCellID,
                 gpuDeclarationSource, result>>

\* The wrapper is a function: a `return` in the cell leaves it at once.
BodyReturns ==
  /\ cell.returns
  /\ Proceed("body", "returned")
  /\ UNCHANGED <<parserVars, engineVars, storageVars, parseVars, runVars,
                 usable, nextCellID, gpuDeclarationSource, result>>

\* Fault: the slots of earlier variables are not skipped.
SlotFromOne == persisted + 1

\* The slot that the wrapper passes for the next variable of the epilogue.
NextSlot == Len(persistentVars) + persisted + 1

\* __xmojo_persist: allocate, move the value in, publish the address.
PersistVariable ==
  /\ persisted < Len(newVars)
  /\ Proceed("epilogue", "register")
  /\ heap' = Append(heap, [type |-> cell.vars[persisted + 1].type,
                           cell |-> cellID, destroys |-> 0])
  /\ slots' = [slots EXCEPT ![NextSlot] = Len(heap) + 1]
  /\ UNCHANGED <<parserVars, engineVars, sessionVars, parseVars, destroyers,
                 persisted, pendingRuntimeError, usable, nextCellID,
                 gpuDeclarationSource, result>>

InTable(slot) == slot <= Len(destroyers)

\* xmojo_register_persistent ignores an index outside the destructor table.
RegisterPersistent ==
  /\ Proceed("register", "epilogue")
  /\ destroyers' = IF InTable(NextSlot)
                     THEN [destroyers EXCEPT ![NextSlot] =
                                               cell.vars[persisted + 1].type]
                     ELSE destroyers
  /\ persisted' = persisted + 1
  /\ UNCHANGED <<parserVars, engineVars, storageVars, parseVars, slots,
                 pendingRuntimeError, usable, nextCellID,
                 gpuDeclarationSource, result>>

EpilogueCompletes ==
  /\ persisted = Len(newVars)
  /\ Proceed("epilogue", "returned")
  /\ UNCHANGED <<parserVars, engineVars, storageVars, parseVars, runVars,
                 usable, nextCellID, gpuDeclarationSource, result>>

\* CrashRecoveryContext::RunSafely returns false.
CellCrashes ==
  /\ pc \in {"body", "epilogue", "register"}
  /\ Poison("crashed")
  /\ UNCHANGED <<parserVars, engineVars, storageVars, nextCellID,
                 gpuDeclarationSource>>

-----------------------------------------------------------------------------
(* execute(): collecting what the cell left behind. *)

Initialised(i) ==
  LET slot == Len(sessionVars) + i
  IN  slots[slot] # Null /\ destroyers[slot] # NoDestroy

\* Fault: every new variable takes the first new slot.
CollectedFromFirst(n) ==
  [i \in 1..n |-> [name |-> newVars[i].name, type |-> newVars[i].type,
                   storage |-> slots[Len(sessionVars) + 1],
                   destroy |-> destroyers[Len(sessionVars) + 1]]]

\* The session variables that the first n new variables become.
Collected(n) ==
  [i \in 1..n |-> [name |-> newVars[i].name, type |-> newVars[i].type,
                   storage |-> slots[Len(sessionVars) + i],
                   destroy |-> destroyers[Len(sessionVars) + i]]]

\* Fault: the parser learns the variables of a cell that raised.
ReportAndActivate ==
  /\ pc = "returned" /\ pendingRuntimeError
  /\ persistentVars' = persistentVars \o newVars
  /\ Return("runtime error")
  /\ UNCHANGED <<committed, tooling, engineVars, storageVars, usable,
                 nextCellID, gpuDeclarationSource>>

ReportRuntimeError ==
  /\ pc = "returned" /\ pendingRuntimeError
  /\ Return("runtime error")
  /\ UNCHANGED <<parserVars, engineVars, storageVars, usable, nextCellID,
                 gpuDeclarationSource>>

Succeed ==
  /\ pc = "returned" /\ ~pendingRuntimeError
  /\ \A i \in 1..Len(newVars) : Initialised(i)
  /\ sessionVars' = sessionVars \o Collected(Len(newVars))
  /\ persistentVars' = persistentVars \o newVars
  /\ Return("succeeded")
  /\ UNCHANGED <<engineVars, committed, tooling, heap, usable, nextCellID,
                 gpuDeclarationSource>>

\* The variables before the first missing one have been taken over already.
MissingStorage ==
  /\ pc = "returned" /\ ~pendingRuntimeError
  /\ \E i \in 1..Len(newVars) :
       /\ ~Initialised(i)
       /\ \A j \in 1..(i - 1) : Initialised(j)
       /\ sessionVars' = sessionVars \o Collected(i - 1)
  /\ Poison("uninitialized")
  /\ UNCHANGED <<parserVars, engineVars, heap, nextCellID, gpuDeclarationSource>>

-----------------------------------------------------------------------------
(* ~Impl(): persisted counts the variables still to be destroyed. *)

Close ==
  /\ Proceed("idle", "destroying")
  /\ persisted' = Len(sessionVars)
  /\ UNCHANGED <<parserVars, engineVars, storageVars, parseVars, slots,
                 destroyers, pendingRuntimeError, usable, nextCellID,
                 gpuDeclarationSource, result>>

\* Fault: in declaration order.
FirstToDestroy == sessionVars[Len(sessionVars) - persisted + 1]

NextToDestroy == sessionVars[persisted]

\* Each destructor runs in a crash recovery of its own: one that crashes has
\* been called, and the loop goes on.
DestroyVariable ==
  /\ pc = "destroying" /\ persisted > 0
  /\ heap' = [heap EXCEPT ![NextToDestroy.storage].destroys = @ + 1]
  /\ persisted' = persisted - 1
  /\ UNCHANGED <<parserVars, engineVars, sessionVars, parseVars, slots,
                 destroyers, pendingRuntimeError, usable, nextCellID,
                 gpuDeclarationSource, pc, result>>

ClearVariables ==
  /\ persisted = 0
  /\ Proceed("destroying", "destroyed")
  /\ sessionVars' = <<>>
  /\ UNCHANGED <<parserVars, engineVars, heap, parseVars, runVars, usable,
                 nextCellID, gpuDeclarationSource, result>>

\* The members, the execution engine among them, die after the destructor body.
TearDownEngine ==
  /\ Proceed("destroyed", "gone")
  /\ resident' = {}
  /\ UNCHANGED <<parserVars, runtimeSymbolsDefined, storageVars, parseVars,
                 runVars, usable, nextCellID, gpuDeclarationSource, result>>

-----------------------------------------------------------------------------
CompileStep ==
  \/ ParseAccepts \/ ParseRejects \/ RunKGENPipeline \/ EmitArchive
  \/ CompilationFails \/ AddArchive \/ DefineRuntimeSymbols
  \/ LookupEntryPoint \/ JITFails \/ Commit

RunStep ==
  \/ BodyCompletes \/ BodyRaises \/ BodyReturns \/ PersistVariable
  \/ RegisterPersistent \/ EpilogueCompletes \/ CellCrashes
  \/ ReportRuntimeError \/ Succeed \/ MissingStorage

CloseStep == DestroyVariable \/ ClearVariables \/ TearDownEngine

Next ==
  \/ Refuse
  \/ \E s \in Sources : Begin(s)
  \/ CompileStep
  \/ RunStep
  \/ Close
  \/ CloseStep

Spec == Init /\ [][Next]_vars

-----------------------------------------------------------------------------
(* Properties. *)

Executing == pc \in CompilePhases \union RunPhases
AtRest    == pc = "idle"

SessionVar == [name : Names, type : Types, storage : 1..Len(heap),
               destroy : Types \union {NoDestroy}]

FlagsOK == /\ usable \in BOOLEAN /\ runtimeSymbolsDefined \in BOOLEAN
           /\ pendingRuntimeError \in BOOLEAN

\* Every variable has its shape; during a run the destructor table has one
\* entry per slot, and slots are null or point into the heap.
TypeOK ==
  /\ committed \subseteq [name : Names, sig : Signatures \union {NonFunction},
                          cell : Nat]
  /\ module \subseteq [name : Names, sig : Signatures \union {NonFunction},
                       cell : Nat]
  /\ gpuDeclarationSource \subseteq [name : Names, cell : Nat,
                                     sig : Signatures \union {NonFunction}]
  /\ persistentVars \in Seq(PersistentVar) /\ newVars \in Seq(PersistentVar)
  /\ tooling \subseteq Nat /\ resident \subseteq Nat
  /\ FlagsOK
  /\ nextCellID \in Nat \ {0} /\ cellID \in Nat /\ persisted \in Nat
  /\ heap \in Seq(Allocation) /\ sessionVars \in Seq(SessionVar)
  /\ cell \in Sources \union {NoCell}
  /\ slots \in Seq(0..Len(heap)) /\ destroyers \in Seq(Types \union {NoDestroy})
  /\ Len(destroyers) = Len(slots)
  /\ pc \in {"idle"} \union CompilePhases \union RunPhases \union ClosePhases
  /\ result \in {"none", "unusable", "diagnostics", "runtime error", "succeeded",
                 "jit failure", "crashed", "uninitialized"}

\* The parser numbers the variables it binds in wrappers, the session numbers
\* the storage it passes to them: while the session is usable the two lists
\* name the same variables with the same types in the same order.
VariablesAgree ==
  usable /\ pc \notin {"destroyed", "gone"} =>
    /\ Len(sessionVars) = Len(persistentVars)
    /\ \A i \in 1..Len(sessionVars) :
         /\ sessionVars[i].name = persistentVars[i].name
         /\ sessionVars[i].type = persistentVars[i].type

\* A running cell reaches an earlier variable through the slot whose index the
\* parser wrote into the wrapper, cast to the type the parser recorded: that
\* slot holds live storage of that type.
TypedAccess ==
  pc \in RunPhases =>
    \A i \in 1..Len(persistentVars) :
      /\ i <= Len(slots) /\ slots[i] \in 1..Len(heap)
      /\ heap[slots[i]].type = persistentVars[i].type
      /\ heap[slots[i]].destroys = 0

\* Between two cells of a usable session, storage belongs to exactly one
\* variable; when the session has closed, all of it has been destroyed.
StorageOwnedOnce ==
  /\ AtRest /\ usable =>
       \A a \in 1..Len(heap) :
         /\ heap[a].destroys = 0
         /\ \E i \in 1..Len(sessionVars) :
              /\ sessionVars[i].storage = a
              /\ \A j \in 1..Len(sessionVars) :
                   sessionVars[j].storage = a => i = j
  /\ pc \in {"destroyed", "gone"} /\ usable =>
       \A a \in 1..Len(heap) : heap[a].destroys = 1

\* Nothing becomes visible before its archive is loaded, and no destructor is
\* called after the engine is gone.
CodeIsResident ==
  /\ pc # "gone" => /\ \A d \in committed : d.cell \in resident
                    /\ tooling \subseteq resident
  /\ \A i \in 1..Len(sessionVars) :
       heap[sessionVars[i].storage].cell \in resident

\* The entry point that the lookup finds is the one of this cell: no earlier
\* cell, not even a failed one, left an archive with the same symbol.
EntryPointIsFresh ==
  /\ pc \in {"parse", "lower", "emit", "add"} => cellID \notin resident
  /\ pc \in {"lookup", "commit"} =>
       /\ cellID \in resident
       /\ \A d \in committed : d.cell # cellID

\* A kernel that a cell can name is in the text that the GPU compiler is given,
\* also when the cell that declared it has raised.
GPUSourceCoversScope == committed \subseteq gpuDeclarationSource

\* What a later cell, a completion request, a kernel compilation or a destructor
\* call can reach is there: its code is in ORC, under a symbol of its own, and its
\* text is in the source of the GPU compiler.
VisibleIsResident == CodeIsResident /\ EntryPointIsFresh /\ GPUSourceCoversScope

\* A name means one thing: two visible declarations of a name are functions
\* with different signatures.
OneVisibleDefinition ==
  \A d, e \in committed :
    d.name = e.name /\ d # e =>
      /\ d.sig # NonFunction /\ e.sig # NonFunction
      /\ d.sig # e.sig

\* Whatever parse() had to refuse stays out of the session, also when it is one of
\* several variables, or comes after rejected and raising cells: a name keeps its
\* first type, and no value that borrows is moved into session storage.
RefusedStaysOut ==
  /\ \A i, j \in 1..Len(sessionVars) :
       sessionVars[i].name = sessionVars[j].name => i = j
  /\ \A a \in 1..Len(heap) : heap[a].type \notin Borrowed

\* A name means one thing, and keeps meaning it, whatever cells were refused or have
\* raised in between.
NamesStayUnique == OneVisibleDefinition /\ RefusedStaysOut

\* The destructor loop never meets a null address or a missing destructor, and
\* a variable's destructor is the one instantiated for the type of its value.
DestructorMatchesValue ==
  \A i \in 1..Len(sessionVars) :
    /\ sessionVars[i].storage \in 1..Len(heap)
    /\ sessionVars[i].destroy = heap[sessionVars[i].storage].type

\* A destructor is called at most once, and only when those of all variables
\* declared later have been called.
DestroyedOnce ==
  /\ \A a \in 1..Len(heap) : heap[a].destroys <= 1
  /\ \A i, j \in 1..Len(sessionVars) :
       i < j /\ heap[sessionVars[i].storage].destroys > 0 =>
         heap[sessionVars[j].storage].destroys > 0

\* Every variable is destroyed once, by the destructor of its type, after those that
\* were declared later.
DestroyedInReverse == DestroyedOnce /\ DestructorMatchesValue

\* The type the session records for a variable is the type of its value.
RecordedTypeIsStored ==
  \A i \in 1..Len(sessionVars) :
    heap[sessionVars[i].storage].type = sessionVars[i].type

(***************************************************************************)
(* The promise to a client is kept: parsing up to the commit is one call   *)
(* that has no effect yet, the run is one that has already loaded.         *)
(***************************************************************************)
PromiseStatus ==
  CASE pc = "idle"          -> IF usable THEN "ready" ELSE "unusable"
    [] pc \in CompilePhases -> "compiling"
    [] pc \in RunPhases     -> "running"
    [] OTHER                -> "closed"

Promise == INSTANCE SessionPromise
             WITH Shadow <- BuildModule, status <- PromiseStatus,
                  submitted <- nextCellID - 1, current <- cell,
                  scope <- committed, variables <- persistentVars,
                  outcome <- result

KeepsPromise == Promise!PromiseSpec
=============================================================================

---------------------- MODULE InteractiveSessionProofs ----------------------
(***************************************************************************)
(* Theorems about InteractiveSession for every set of cells, names and     *)
(* types and every number of cells.                                        *)
(***************************************************************************)
EXTENDS InteractiveSession, SequenceTheorems, TLAPS

\* No cell declares a variable of a nested scope before a top-level variable of
\* the same name: the type the parser records is the type of the value.
Faithful == \A s \in Sources : \A i \in 1..Len(s.vars) :
              s.vars[i].first = s.vars[i].type

ParsedPhases == {"lower", "emit", "add", "define", "lookup", "commit"}

\* Which part of the activation record is meaningful in which phase.
ControlInv ==
  /\ Executing => usable
  /\ pc \in ParsedPhases \union RunPhases => newVars = ResolvedVars(cell)
  /\ pc \in {"idle", "body"} \union CompilePhases => persisted = 0
  /\ pc = "register" => persisted < Len(newVars)
  /\ pc = "destroying" => persisted <= Len(sessionVars)

\* The slot array of a run: the storage of the session variables, then one
\* slot per new variable.
SlotsInv ==
  pc \in RunPhases =>
    /\ Len(slots) = Len(sessionVars) + Len(newVars)
    /\ persisted <= Len(newVars)
    /\ \A i \in 1..Len(sessionVars) : slots[i] = sessionVars[i].storage

Inv == TypeOK /\ ControlInv /\ SlotsInv /\ VariablesAgree

\* While a faithful cell runs, each published new slot holds a value of the type
\* the parser recorded for it.
NewSlotsTyped ==
  pc \in RunPhases =>
    \A i \in 1..Len(newVars) :
      slots[Len(sessionVars) + i] # Null =>
        heap[slots[Len(sessionVars) + i]].type = newVars[i].type

\* Destructors are called by the destructor of the session only.
LiveUntilClosed ==
  pc \notin ClosePhases => \A a \in 1..Len(heap) : heap[a].destroys = 0

TypedInv == RecordedTypeIsStored /\ NewSlotsTyped /\ LiveUntilClosed

-----------------------------------------------------------------------------
(* Lemmas about the helpers. *)

\* What a parsed cell contributes to the parser's list of variables.
LEMMA ResolvedVarsType ==
  ASSUME NEW s \in Sources \union {NoCell}
  PROVE  /\ s.vars \in Seq(DeclaredVar)
         /\ ResolvedVars(s) \in Seq(PersistentVar)
         /\ Len(ResolvedVars(s)) = Len(s.vars)
         /\ \A i \in 1..Len(s.vars) : ResolvedVars(s)[i].type = s.vars[i].first
<1>1. s.vars \in Seq(DeclaredVar)
  <2>1. CASE s \in Sources
    BY <2>1, ParametersAssumption
  <2>2. CASE s = NoCell
    <3>1. s.vars = <<>>
      BY <2>2 DEF NoCell
    <3> QED BY <3>1, EmptySeq
  <2> QED BY <2>1, <2>2
<1>2. \A i \in 1..Len(s.vars) : s.vars[i] \in DeclaredVar
  BY <1>1, ElementOfSeq
<1>3. \A i \in 1..Len(s.vars) :
        [name |-> s.vars[i].name, type |-> s.vars[i].first] \in PersistentVar
  BY <1>2 DEF DeclaredVar, PersistentVar
<1>4. Len(s.vars) \in Nat
  BY <1>1, LenProperties
<1> QED
  BY <1>1, <1>3, <1>4 DEF ResolvedVars

\* The declarations of a module are declarations, tagged with a cell.
TaggedDeclaration == [name : Names, sig : Signatures \union {NonFunction},
                      cell : Nat]

LEMMA BuildModuleType ==
  ASSUME NEW s \in Sources \union {NoCell}, NEW id \in Nat,
         NEW previous, previous \subseteq TaggedDeclaration
  PROVE  /\ Own(s.decls, id) \subseteq TaggedDeclaration
         /\ BuildModule(previous, s.decls, id) \subseteq TaggedDeclaration
<1>1. s.decls \subseteq Declaration
  BY ParametersAssumption DEF NoCell
<1> QED
  BY <1>1 DEF Own, BuildModule, Declaration, TaggedDeclaration

-----------------------------------------------------------------------------
(* Type correctness and the agreement of the two lists of variables. *)

LEMMA Lengths ==
  ASSUME TypeOK
  PROVE  /\ Len(sessionVars) \in Nat /\ Len(newVars) \in Nat
         /\ Len(heap) \in Nat /\ Len(slots) \in Nat
         /\ Len(persistentVars) \in Nat
<1>1. /\ sessionVars \in Seq(SessionVar) /\ newVars \in Seq(PersistentVar)
      /\ heap \in Seq(Allocation) /\ slots \in Seq(0..Len(heap))
      /\ persistentVars \in Seq(PersistentVar)
  BY DEF TypeOK
<1> QED BY <1>1, LenProperties

LEMMA InitInv == Init => Inv
<1> SUFFICES ASSUME Init PROVE Inv
  OBVIOUS
<1>1. TypeOK
  <2>1. <<>> \in Seq(PersistentVar) /\ <<>> \in Seq(Allocation)
        /\ <<>> \in Seq(SessionVar) /\ <<>> \in Seq(0..Len(heap))
        /\ <<>> \in Seq(Types \union {NoDestroy})
    BY EmptySeq
  <2>2. FlagsOK
    BY DEF Init, FlagsOK
  <2> QED BY <2>1, <2>2 DEF Init, TypeOK
<1>2. ControlInv /\ SlotsInv /\ VariablesAgree
  BY DEF Init, ControlInv, SlotsInv, VariablesAgree, Executing,
         ParsedPhases, CompilePhases, RunPhases
<1> QED
  BY <1>1, <1>2 DEF Inv

\* Returning from execute() without touching the lists of variables.
LEMMA ReturnInv ==
  ASSUME Inv, Executing, NEW outcome, Return(outcome), usable' \in BOOLEAN,
         usable' => usable,
         outcome \in {"diagnostics", "runtime error", "jit failure", "crashed"},
         UNCHANGED <<parserVars, engineVars, storageVars, nextCellID,
                     gpuDeclarationSource>>
  PROVE  Inv'
<1>1. TypeOK'
  <2>1. <<>> \in Seq(PersistentVar) /\ <<>> \in Seq(0..Len(heap))
        /\ <<>> \in Seq(Types \union {NoDestroy})
    BY EmptySeq
  <2> QED
    BY <2>1 DEF Inv, TypeOK, FlagsOK, Return, parserVars, engineVars, storageVars,
                SessionVar
<1>2. ControlInv' /\ SlotsInv' 
  BY DEF Inv, ControlInv, SlotsInv, Executing, ParsedPhases, CompilePhases,
         RunPhases, ClosePhases, Return
<1>3. VariablesAgree'
  BY DEF Inv, TypeOK, CompilePhases, RunPhases, ClosePhases, VariablesAgree,
         Return, parserVars, storageVars, ControlInv, Executing, Close
<1> QED
  BY <1>1, <1>2, <1>3 DEF Inv
\* The steps that leave slots, storage and both lists of variables alone.
LEMMA CompileStepInv ==
  ASSUME Inv,
         \/ \E s \in Sources : Begin(s)
         \/ Refuse \/ ParseAccepts \/ RunKGENPipeline \/ EmitArchive
         \/ AddArchive \/ DefineRuntimeSymbols \/ LookupEntryPoint
  PROVE  Inv'
<1> USE DEF Inv
<1>1. ASSUME NEW s \in Sources, Begin(s) PROVE Inv'
  <2>1. TypeOK'
    <3>1. FlagsOK'
      BY <1>1 DEF TypeOK, FlagsOK, Begin, engineVars, runVars
    <3>2. nextCellID' \in Nat \ {0} /\ cellID' \in Nat
      <4>1. nextCellID \in Nat \ {0}
        BY DEF TypeOK
      <4>2. TakeCellID
        BY <1>1 DEF Begin
      <4> QED BY <4>1, <4>2 DEF TakeCellID
    <3> QED
      BY <1>1, <3>1, <3>2
      DEF TypeOK, Begin, Proceed, parserVars, engineVars, storageVars, runVars,
          SessionVar, CompilePhases
  <2>2. ControlInv' /\ SlotsInv' /\ VariablesAgree'
    BY <1>1 DEF ControlInv, SlotsInv, VariablesAgree, Executing, ParsedPhases,
                CompilePhases, RunPhases, Begin, Proceed, parserVars,
                storageVars, runVars
  <2> QED BY <2>1, <2>2
<1>2. CASE ParseAccepts
  <2>1. newVars' \in Seq(PersistentVar)
    BY <1>2, ResolvedVarsType DEF ParseAccepts, TypeOK
  <2>2. module' \subseteq TaggedDeclaration
    BY <1>2, BuildModuleType DEF ParseAccepts, TypeOK, TaggedDeclaration
  <2>3. TypeOK'
    BY <1>2, <2>1, <2>2
    DEF TypeOK, FlagsOK, ParseAccepts, Proceed, parserVars, engineVars, storageVars,
        runVars, SessionVar, CompilePhases, TaggedDeclaration
  <2>4. newVars' = ResolvedVars(cell)'
    BY <1>2 DEF ParseAccepts, ResolvedVars
  <2>5. ControlInv' /\ SlotsInv' /\ VariablesAgree'
    BY <1>2, <2>4 DEF ControlInv, SlotsInv, VariablesAgree, Executing,
        ParsedPhases, CompilePhases, RunPhases, ParseAccepts, Proceed,
        parserVars, storageVars, runVars
  <2> QED BY <2>3, <2>5
<1>3. CASE Refuse
  <2>1. TypeOK'
    BY <1>3 DEF TypeOK, FlagsOK, Refuse, parserVars, engineVars, storageVars, parseVars,
                runVars, SessionVar
  <2>2. ControlInv' /\ SlotsInv' /\ VariablesAgree'
    BY <1>3 DEF ControlInv, SlotsInv, VariablesAgree, Executing, ParsedPhases,
                CompilePhases, RunPhases, Refuse, parserVars, storageVars,
                runVars, parseVars, ResolvedVars
  <2> QED BY <2>1, <2>2
<1>4. CASE RunKGENPipeline \/ EmitArchive \/ LookupEntryPoint
  <2>1. TypeOK'
    BY <1>4 DEF TypeOK, FlagsOK, RunKGENPipeline, EmitArchive, LookupEntryPoint, Proceed,
                parserVars, engineVars, storageVars, parseVars, runVars,
                SessionVar, CompilePhases
  <2>2. ControlInv' /\ SlotsInv' /\ VariablesAgree'
    BY <1>4 DEF ControlInv, SlotsInv, VariablesAgree, Executing, ParsedPhases,
                CompilePhases, RunPhases, RunKGENPipeline, EmitArchive,
                LookupEntryPoint, Proceed, parserVars, storageVars, runVars,
                parseVars, ResolvedVars
  <2> QED BY <2>1, <2>2
<1>5. CASE AddArchive \/ DefineRuntimeSymbols
  <2>1. TypeOK'
    BY <1>5 DEF TypeOK, FlagsOK, AddArchive, DefineRuntimeSymbols, Proceed, parserVars,
                storageVars, parseVars, runVars, SessionVar, CompilePhases
  <2>2. ControlInv' /\ SlotsInv' /\ VariablesAgree'
    BY <1>5 DEF ControlInv, SlotsInv, VariablesAgree, Executing, ParsedPhases,
                CompilePhases, RunPhases, AddArchive, DefineRuntimeSymbols,
                Proceed, parserVars, storageVars, runVars, parseVars,
                ResolvedVars
  <2> QED BY <2>1, <2>2
<1> QED BY <1>1, <1>2, <1>3, <1>4, <1>5

\* The calls of execute() that return without a successful run.
LEMMA FailureInv ==
  ASSUME Inv,
         ParseRejects \/ CompilationFails \/ JITFails \/ CellCrashes
           \/ ReportRuntimeError
  PROVE  Inv'
<1>1. Executing
  BY DEF ParseRejects, CompilationFails, JITFails, CellCrashes,
         ReportRuntimeError, Executing, CompilePhases, RunPhases
<1>2. usable \in BOOLEAN
  BY DEF Inv, TypeOK, FlagsOK
<1>3. CASE ParseRejects \/ CompilationFails
  <2>1. /\ Return("diagnostics") /\ usable' = usable
        /\ UNCHANGED <<parserVars, engineVars, storageVars, nextCellID,
                       gpuDeclarationSource>>
    BY <1>3 DEF ParseRejects, CompilationFails
  <2> QED BY <1>1, <1>2, <2>1, ReturnInv
<1>4. CASE JITFails
  BY <1>1, <1>4, ReturnInv DEF JITFails, Poison
<1>5. CASE CellCrashes
  BY <1>1, <1>5, ReturnInv DEF CellCrashes, Poison
<1>6. CASE ReportRuntimeError
  BY <1>1, <1>2, <1>6, ReturnInv DEF ReportRuntimeError
<1> QED BY <1>3, <1>4, <1>5, <1>6

\* The cell becomes history: the tables for its run are laid out.
LEMMA CommitInv ==
  ASSUME Inv, Commit
  PROVE  Inv'
<1> USE DEF Inv
<1> DEFINE n == Len(sessionVars) + Len(newVars)
<1>1. /\ Len(sessionVars) \in Nat /\ Len(newVars) \in Nat /\ n \in Nat
      /\ Len(heap) \in Nat
  BY Lengths
<1>2. \A i \in 1..Len(sessionVars) : sessionVars[i].storage \in 1..Len(heap)
  <2>1. \A i \in 1..Len(sessionVars) : sessionVars[i] \in SessionVar
    BY ElementOfSeq DEF TypeOK
  <2> QED BY <2>1 DEF SessionVar
<1>3. slots' \in Seq(0..Len(heap)) /\ Len(slots') = n
  <2>1. \A i \in 1..n : (IF i <= Len(sessionVars) THEN sessionVars[i].storage
                                                  ELSE Null) \in 0..Len(heap)
    BY <1>1, <1>2 DEF Null
  <2> QED BY <1>1, <2>1 DEF Commit
<1>4. destroyers' \in Seq(Types \union {NoDestroy}) /\ Len(destroyers') = n
  BY <1>1 DEF Commit, EmptyDestroyers
<1>5. Own(cell.decls, cellID) \subseteq TaggedDeclaration
  BY BuildModuleType DEF TypeOK, TaggedDeclaration
<1>6. TypeOK'
  BY <1>3, <1>4, <1>5
  DEF TypeOK, FlagsOK, Commit, ExtendGPUSource, Proceed, engineVars, storageVars,
      parseVars, SessionVar, RunPhases, TaggedDeclaration
<1>7. SlotsInv'
  BY <1>1, <1>3 DEF SlotsInv, Commit, Proceed, ControlInv, CompilePhases,
                    storageVars, parseVars
<1>8. ControlInv' /\ VariablesAgree'
  BY DEF ControlInv, VariablesAgree, Executing, ParsedPhases, CompilePhases,
         RunPhases, ClosePhases, Commit, Proceed, storageVars, parseVars,
         ResolvedVars
<1> QED BY <1>6, <1>7, <1>8

\* The steps of a run that only move on.
LEMMA BodyInv ==
  ASSUME Inv,
         BodyCompletes \/ BodyRaises \/ BodyReturns \/ EpilogueCompletes
  PROVE  Inv'
<1> USE DEF Inv
<1>1. TypeOK'
  BY DEF TypeOK, FlagsOK, BodyCompletes, BodyRaises, BodyReturns, EpilogueCompletes,
         Proceed, parserVars, engineVars, storageVars, parseVars, runVars,
         SessionVar, RunPhases
<1>2. ControlInv' /\ SlotsInv' /\ VariablesAgree'
  BY DEF ControlInv, SlotsInv, VariablesAgree, Executing, ParsedPhases,
         CompilePhases, RunPhases, BodyCompletes, BodyRaises, BodyReturns,
         EpilogueCompletes, Proceed, parserVars, storageVars, parseVars,
         runVars, ResolvedVars
<1> QED BY <1>1, <1>2

\* In a run the wrapper's slot index is the index of the variable's new slot.
LEMMA NextSlotIndex ==
  ASSUME Inv, pc \in RunPhases
  PROVE  /\ NextSlot = Len(sessionVars) + persisted + 1
         /\ Len(sessionVars) \in Nat /\ Len(newVars) \in Nat
         /\ Len(cell.vars) = Len(newVars)
         /\ persisted \in Nat /\ Len(slots) \in Nat
         /\ persisted < Len(newVars) =>
              /\ NextSlot \in 1..Len(slots)
              /\ cell.vars[persisted + 1] \in DeclaredVar
<1>1. /\ Len(sessionVars) \in Nat /\ Len(newVars) \in Nat /\ persisted \in Nat
      /\ Len(slots) \in Nat
  BY LenProperties DEF Inv, TypeOK
<1>2. Len(sessionVars) = Len(persistentVars)
  BY DEF Inv, ControlInv, VariablesAgree, Executing, RunPhases
<1>3. Len(slots) = Len(sessionVars) + Len(newVars) /\ persisted <= Len(newVars)
  BY DEF Inv, SlotsInv
<1>4. Len(cell.vars) = Len(newVars) /\ cell.vars \in Seq(DeclaredVar)
  BY ResolvedVarsType DEF Inv, TypeOK, ControlInv
<1>5. persisted < Len(newVars) => cell.vars[persisted + 1] \in DeclaredVar
  BY <1>1, <1>4, ElementOfSeq
<1> QED
  BY <1>1, <1>2, <1>3, <1>4, <1>5 DEF NextSlot

\* Publishing a value in its slot and entering its destructor in the table.
LEMMA EpilogueStepInv ==
  ASSUME Inv, PersistVariable \/ RegisterPersistent
  PROVE  Inv'
<1> USE DEF Inv
<1>0. pc \in {"epilogue", "register"} /\ pc \in RunPhases
  BY DEF PersistVariable, RegisterPersistent, Proceed, RunPhases
<1>1. persisted < Len(newVars)
  BY DEF PersistVariable, RegisterPersistent, Proceed, ControlInv
<1>2. NextSlot \in 1..Len(slots) /\ cell.vars[persisted + 1].type \in Types
  BY <1>0, <1>1, NextSlotIndex DEF DeclaredVar
<1>3. CASE PersistVariable
  <2> DEFINE new == [type |-> cell.vars[persisted + 1].type,
                     cell |-> cellID, destroys |-> 0]
  <2>1. new \in Allocation
    BY <1>2 DEF TypeOK, Allocation
  <2>2. heap' \in Seq(Allocation) /\ Len(heap') = Len(heap) + 1
    BY <1>3, <2>1, AppendProperties DEF PersistVariable, TypeOK
  <2>3. Len(heap) \in Nat
    BY Lengths
  <2>4. slots \in Seq(0..Len(heap)')
    <3>1. 0..Len(heap) \subseteq 0..Len(heap)'
      BY <2>2, <2>3
    <3> QED BY <3>1, SeqMonotonic DEF TypeOK
  <2>5. /\ slots' \in Seq(0..Len(heap)') /\ Len(slots') = Len(slots)
        /\ \A j \in 1..Len(slots) : j # NextSlot => slots'[j] = slots[j]
    BY <1>2, <1>3, <2>2, <2>3, <2>4, ExceptSeq DEF PersistVariable
  <2>6. sessionVars' \in Seq(SessionVar')
    <3>1. SessionVar \subseteq SessionVar'
      BY <2>2, <2>3 DEF SessionVar
    <3> QED
      BY <1>3, <3>1, SeqMonotonic DEF PersistVariable, TypeOK
  <2>7. TypeOK'
    BY <1>3, <2>2, <2>5, <2>6
    DEF TypeOK, FlagsOK, PersistVariable, Proceed, parserVars, engineVars, parseVars,
        RunPhases
  <2>8. SlotsInv'
    BY <1>0, <1>3, <2>5, NextSlotIndex
    DEF SlotsInv, PersistVariable, Proceed, parseVars
  <2>9. ControlInv' /\ VariablesAgree'
    BY <1>0, <1>1, <1>3
    DEF ControlInv, VariablesAgree, Executing, ParsedPhases, CompilePhases,
        RunPhases, PersistVariable, Proceed, parserVars, parseVars, ResolvedVars
  <2> QED BY <2>7, <2>8, <2>9
<1>4. CASE RegisterPersistent
  <2>1. destroyers' \in Seq(Types \union {NoDestroy})
        /\ Len(destroyers') = Len(destroyers)
    <3>1. destroyers \in Seq(Types \union {NoDestroy})
          /\ NextSlot \in 1..Len(destroyers)
      BY <1>2 DEF TypeOK
    <3>2. destroyers' = [destroyers EXCEPT ![NextSlot] =
                                              cell.vars[persisted + 1].type]
      BY <1>4, <3>1 DEF RegisterPersistent, InTable
    <3> QED BY <1>2, <3>1, <3>2, ExceptSeq
  <2>2. persisted' \in Nat
    <3>1. persisted \in Nat
      BY DEF TypeOK
    <3> QED BY <1>4, <3>1 DEF RegisterPersistent
  <2>3. FlagsOK'
    BY <1>4 DEF TypeOK, FlagsOK, RegisterPersistent, engineVars
  <2>4. TypeOK'
    BY <1>4, <2>1, <2>2, <2>3
    DEF TypeOK, RegisterPersistent, Proceed, parserVars, engineVars,
        storageVars, parseVars, SessionVar, RunPhases
  <2>5. SlotsInv'
    BY <1>0, <1>1, <1>4, NextSlotIndex
    DEF SlotsInv, RegisterPersistent, Proceed, parseVars, storageVars
  <2>6. ControlInv' /\ VariablesAgree'
    BY <1>0, <1>4
    DEF ControlInv, VariablesAgree, Executing, ParsedPhases, CompilePhases,
        RunPhases, RegisterPersistent, Proceed, parserVars, parseVars,
        storageVars, ResolvedVars
  <2> QED BY <2>4, <2>5, <2>6
<1> QED BY <1>3, <1>4
\* What is collected from the slots of a run are session variables, provided
\* their slots have been filled.
LEMMA CollectedType ==
  ASSUME Inv, pc \in RunPhases, NEW n \in 0..Len(newVars),
         \A i \in 1..n : Initialised(i)
  PROVE  /\ Collected(n) \in Seq(SessionVar)
         /\ Len(Collected(n)) = n
         /\ \A i \in 1..n : /\ Collected(n)[i].name = newVars[i].name
                            /\ Collected(n)[i].type = newVars[i].type
                            /\ Collected(n)[i].storage
                                 = slots[Len(sessionVars) + i]
                            /\ Collected(n)[i].destroy
                                 = destroyers[Len(sessionVars) + i]
<1>1. /\ Len(sessionVars) \in Nat /\ Len(newVars) \in Nat /\ n \in Nat
      /\ Len(slots) = Len(sessionVars) + Len(newVars) /\ Len(heap) \in Nat
      /\ Len(destroyers) = Len(slots)
  <2>1. TypeOK /\ SlotsInv
    BY DEF Inv
  <2>2. Len(destroyers) = Len(slots)
    BY <2>1 DEF TypeOK
  <2> QED BY <2>1, <2>2, Lengths DEF SlotsInv
<1>2. /\ newVars \in Seq(PersistentVar) /\ slots \in Seq(0..Len(heap))
      /\ destroyers \in Seq(Types \union {NoDestroy})
  BY DEF Inv, TypeOK
<1>3. \A i \in 1..n :
        [name |-> newVars[i].name, type |-> newVars[i].type,
         storage |-> slots[Len(sessionVars) + i],
         destroy |-> destroyers[Len(sessionVars) + i]] \in SessionVar
  <2> TAKE i \in 1..n
  <2>1. newVars[i] \in PersistentVar
    BY <1>1, <1>2, ElementOfSeq
  <2>2. Len(sessionVars) + i \in 1..Len(slots)
    BY <1>1
  <2>3. slots[Len(sessionVars) + i] \in 0..Len(heap)
    BY <1>2, <2>2, ElementOfSeq
  <2>4. destroyers[Len(sessionVars) + i] \in Types \union {NoDestroy}
    BY <1>1, <1>2, <2>2, ElementOfSeq
  <2>5. slots[Len(sessionVars) + i] \in 1..Len(heap)
    BY <1>1, <2>3 DEF Initialised, Null
  <2> QED
    BY <2>1, <2>4, <2>5 DEF PersistentVar, SessionVar
<1> QED
  BY <1>1, <1>3 DEF Collected

\* A run that ends well: both lists grow by the same variables.
LEMMA SucceedInv ==
  ASSUME Inv, Succeed
  PROVE  Inv'
<1> USE DEF Inv
<1> DEFINE n == Len(newVars)
<1>1. pc \in RunPhases /\ n \in Nat /\ Len(sessionVars) \in Nat
      /\ Len(persistentVars) \in Nat
  BY Lengths DEF Succeed, RunPhases
<1>2. Len(sessionVars) = Len(persistentVars) /\ usable
  BY <1>1 DEF ControlInv, VariablesAgree, Executing, RunPhases
<1>3. /\ Collected(n) \in Seq(SessionVar) /\ Len(Collected(n)) = n
      /\ \A i \in 1..n : /\ Collected(n)[i].name = newVars[i].name
                         /\ Collected(n)[i].type = newVars[i].type
  <2>1. n \in 0..n /\ \A i \in 1..n : Initialised(i)
    BY <1>1 DEF Succeed
  <2> QED BY <1>1, <2>1, CollectedType
<1>4. /\ sessionVars' = sessionVars \o Collected(n)
      /\ persistentVars' = persistentVars \o newVars
  BY DEF Succeed
<1>5. /\ sessionVars \in Seq(SessionVar)
      /\ persistentVars \in Seq(PersistentVar) /\ newVars \in Seq(PersistentVar)
  BY DEF TypeOK
<1>6. /\ sessionVars' \in Seq(SessionVar)
      /\ Len(sessionVars') = Len(sessionVars) + n
      /\ \A i \in 1..(Len(sessionVars) + n) :
           sessionVars'[i] = IF i <= Len(sessionVars) THEN sessionVars[i]
                             ELSE Collected(n)[i - Len(sessionVars)]
  <2> HIDE DEF n
  <2>1. Collected(n) \in Seq(SessionVar) /\ Len(Collected(n)) = n
    BY <1>3
  <2> QED BY <1>4, <1>5, <2>1, ConcatProperties
<1>7. /\ persistentVars' \in Seq(PersistentVar)
      /\ Len(persistentVars') = Len(persistentVars) + n
      /\ \A i \in 1..(Len(persistentVars) + n) :
           persistentVars'[i] = IF i <= Len(persistentVars) THEN persistentVars[i]
                                ELSE newVars[i - Len(persistentVars)]
  BY <1>4, <1>5, ConcatProperties
<1>8. TypeOK'
  <2>1. <<>> \in Seq(PersistentVar) /\ <<>> \in Seq(0..Len(heap))
        /\ <<>> \in Seq(Types \union {NoDestroy})
    BY EmptySeq
  <2>2. sessionVars' \in Seq(SessionVar')
    BY <1>6 DEF Succeed, SessionVar
  <2> QED
    BY <1>7, <2>1, <2>2 DEF TypeOK, FlagsOK, Succeed, Return, engineVars
<1>9. VariablesAgree'
  <2>1. \A i \in 1..Len(sessionVars) :
          /\ sessionVars[i].name = persistentVars[i].name
          /\ sessionVars[i].type = persistentVars[i].type
    BY <1>1, <1>2 DEF VariablesAgree, RunPhases
  <2>2. Len(sessionVars') = Len(persistentVars')
    BY <1>1, <1>2, <1>6, <1>7
  <2>3. ASSUME NEW i \in 1..Len(sessionVars')
        PROVE  /\ sessionVars'[i].name = persistentVars'[i].name
               /\ sessionVars'[i].type = persistentVars'[i].type
    <3>1. CASE i <= Len(sessionVars)
      BY <1>1, <1>2, <1>6, <1>7, <2>1, <2>3, <3>1
    <3>2. CASE ~(i <= Len(sessionVars))
      <4>1. i - Len(sessionVars) \in 1..n
        BY <1>1, <1>6, <2>3, <3>2
      <4>2. /\ sessionVars'[i] = Collected(n)[i - Len(sessionVars)]
            /\ persistentVars'[i] = newVars[i - Len(sessionVars)]
        BY <1>1, <1>2, <1>6, <1>7, <2>3, <3>2
      <4> QED BY <1>3, <4>1, <4>2
    <3> QED BY <3>1, <3>2
  <2> QED BY <2>2, <2>3 DEF VariablesAgree
<1>10. ControlInv' /\ SlotsInv'
  BY DEF ControlInv, SlotsInv, Executing, ParsedPhases, CompilePhases,
         RunPhases, Succeed, Return
<1> QED BY <1>8, <1>9, <1>10

\* A missing slot: the session has taken over the variables before it and is
\* unusable from then on.
LEMMA MissingStorageInv ==
  ASSUME Inv, MissingStorage
  PROVE  Inv'
<1> USE DEF Inv
<1>1. PICK i \in 1..Len(newVars) :
        /\ \A j \in 1..(i - 1) : Initialised(j)
        /\ sessionVars' = sessionVars \o Collected(i - 1)
  BY DEF MissingStorage
<1>2. pc \in RunPhases /\ Len(newVars) \in Nat
  BY Lengths DEF MissingStorage, RunPhases
<1>3. sessionVars' \in Seq(SessionVar')
  <2>1. i - 1 \in 0..Len(newVars)
    BY <1>2
  <2>2. Collected(i - 1) \in Seq(SessionVar)
    BY <1>1, <1>2, <2>1, CollectedType
  <2>3. sessionVars' \in Seq(SessionVar)
    BY <1>1, <2>2, ConcatProperties DEF TypeOK
  <2> QED
    BY <2>3 DEF MissingStorage, SessionVar
<1>4. TypeOK'
  <2>1. <<>> \in Seq(PersistentVar) /\ <<>> \in Seq(0..Len(heap))
        /\ <<>> \in Seq(Types \union {NoDestroy})
    BY EmptySeq
  <2> QED
    BY <1>3, <2>1 DEF TypeOK, FlagsOK, MissingStorage, Poison, Return,
                      engineVars, parserVars
<1>5. ControlInv' /\ SlotsInv' /\ VariablesAgree'
  BY DEF ControlInv, SlotsInv, VariablesAgree, Executing, ParsedPhases,
         CompilePhases, RunPhases, MissingStorage, Poison, Return
<1> QED BY <1>4, <1>5

\* The destructor of the session.
LEMMA CloseInv ==
  ASSUME Inv, Close \/ DestroyVariable \/ ClearVariables \/ TearDownEngine
  PROVE  Inv'
<1> USE DEF Inv
<1>1. Len(sessionVars) \in Nat /\ Len(heap) \in Nat /\ persisted \in Nat
  BY Lengths DEF TypeOK
<1>2. CASE Close
  <2>1. TypeOK'
    BY <1>1, <1>2 DEF TypeOK, FlagsOK, Close, Proceed, parserVars, engineVars,
                      storageVars, parseVars, SessionVar, ClosePhases
  <2>2. ControlInv' /\ SlotsInv' /\ VariablesAgree'
    BY <1>1, <1>2 DEF ControlInv, SlotsInv, VariablesAgree, Executing,
         ParsedPhases, CompilePhases, RunPhases, Close, Proceed, parserVars,
         storageVars, parseVars
  <2> QED BY <2>1, <2>2
<1>3. CASE DestroyVariable
  <2> DEFINE a == sessionVars[persisted].storage
  <2>1. persisted \in 1..Len(sessionVars)
    BY <1>1, <1>3 DEF DestroyVariable, ControlInv
  <2>2. a \in 1..Len(heap)
    <3>1. sessionVars[persisted] \in SessionVar
      BY <2>1, ElementOfSeq DEF TypeOK
    <3> QED BY <3>1 DEF SessionVar
  <2>3. heap[a] \in Allocation
    BY <2>2, ElementOfSeq DEF TypeOK
  <2>4. [heap[a] EXCEPT !.destroys = @ + 1] \in Allocation
    BY <2>3 DEF Allocation
  <2>5. heap' = [heap EXCEPT ![a] = [heap[a] EXCEPT !.destroys = @ + 1]]
    BY <1>3, <2>2 DEF DestroyVariable, NextToDestroy
  <2>6. heap' \in Seq(Allocation) /\ Len(heap') = Len(heap)
    <3>1. heap \in Seq(Allocation)
      BY DEF TypeOK
    <3> QED BY <2>2, <2>4, <2>5, <3>1, ExceptSeq
  <2>7. persisted' \in Nat /\ persisted' <= Len(sessionVars)
    BY <1>1, <1>3, <2>1 DEF DestroyVariable
  <2>8. FlagsOK'
    BY <1>3 DEF TypeOK, FlagsOK, DestroyVariable, engineVars
  <2>9. SessionVar' = SessionVar
    BY <2>6 DEF SessionVar
  <2>10. TypeOK'
    BY <1>3, <2>6, <2>7, <2>8, <2>9
    DEF TypeOK, DestroyVariable, parserVars, engineVars, parseVars
  <2>11. ControlInv' /\ SlotsInv' /\ VariablesAgree'
    BY <1>3, <2>7 DEF ControlInv, SlotsInv, VariablesAgree, Executing,
         ParsedPhases, CompilePhases, RunPhases, DestroyVariable, parserVars,
         parseVars
  <2> QED BY <2>10, <2>11
<1>4. CASE ClearVariables
  <2>1. <<>> \in Seq(SessionVar)
    BY EmptySeq
  <2>2. TypeOK'
    BY <1>4, <2>1 DEF TypeOK, FlagsOK, ClearVariables, Proceed, parserVars,
                      engineVars, parseVars, runVars, SessionVar, ClosePhases
  <2>3. ControlInv' /\ SlotsInv' /\ VariablesAgree'
    BY <1>4 DEF ControlInv, SlotsInv, VariablesAgree, Executing, ParsedPhases,
         CompilePhases, RunPhases, ClearVariables, Proceed
  <2> QED BY <2>2, <2>3
<1>5. CASE TearDownEngine
  <2>1. TypeOK'
    BY <1>5 DEF TypeOK, FlagsOK, TearDownEngine, Proceed, parserVars,
                storageVars, parseVars, runVars, SessionVar, ClosePhases
  <2>2. ControlInv' /\ SlotsInv' /\ VariablesAgree'
    BY <1>5 DEF ControlInv, SlotsInv, VariablesAgree, Executing, ParsedPhases,
         CompilePhases, RunPhases, TearDownEngine, Proceed
  <2> QED BY <2>1, <2>2
<1> QED BY <1>2, <1>3, <1>4, <1>5

LEMMA StutterInv ==
  ASSUME Inv, UNCHANGED vars
  PROVE  Inv'
<1>1. TypeOK'
  BY DEF Inv, TypeOK, FlagsOK, vars, parserVars, engineVars, storageVars,
         parseVars, runVars, SessionVar
<1>2. ControlInv' /\ SlotsInv' /\ VariablesAgree'
  BY DEF Inv, ControlInv, SlotsInv, VariablesAgree, Executing, vars, parserVars,
         storageVars, parseVars, runVars, ResolvedVars
<1> QED BY <1>1, <1>2 DEF Inv

LEMMA NextInv == Inv /\ [Next]_vars => Inv'
<1> SUFFICES ASSUME Inv, [Next]_vars PROVE Inv'
  OBVIOUS
<1>1. CASE Next
  BY <1>1, CompileStepInv, FailureInv, CommitInv, BodyInv, EpilogueStepInv,
     SucceedInv, MissingStorageInv, CloseInv
  DEF Next, CompileStep, RunStep, CloseStep
<1>2. CASE UNCHANGED vars
  BY <1>2, StutterInv
<1> QED BY <1>1, <1>2

-----------------------------------------------------------------------------
(* The theorems. *)

LEMMA Invariance == Spec => []Inv
<1> QED BY InitInv, NextInv, PTL DEF Spec

\* Every variable has its type in every reachable state.
THEOREM TypeCorrectness == Spec => []TypeOK
<1>1. Inv => TypeOK
  BY DEF Inv
<1> QED BY <1>1, Invariance, PTL

\* While the session is usable, the parser and the session agree on the
\* variables, whichever cells were submitted and whichever failed.
THEOREM ListsAgree == Spec => []VariablesAgree
<1>1. Inv => VariablesAgree
  BY DEF Inv
<1> QED BY <1>1, Invariance, PTL
-----------------------------------------------------------------------------
(* What a running cell reads through its slots has the recorded type. *)

\* Steps that neither allocate, collect nor destroy keep TypedInv.
LEMMA TypedFrame ==
  ASSUME TypedInv, UNCHANGED <<heap, sessionVars>>,
         pc' \in RunPhases => pc \in RunPhases /\ UNCHANGED <<slots, newVars>>,
         pc \in ClosePhases => pc' \in ClosePhases
  PROVE  TypedInv'
BY DEF TypedInv, RecordedTypeIsStored, NewSlotsTyped, LiveUntilClosed

LEMMA CommitTyped ==
  ASSUME Inv, TypedInv, Commit
  PROVE  TypedInv'
<1>1. Len(sessionVars) \in Nat /\ Len(newVars) \in Nat
  BY Lengths DEF Inv
<1>2. \A i \in 1..Len(newVars) : slots'[Len(sessionVars) + i] = Null
  BY <1>1 DEF Commit
<1>3. UNCHANGED <<heap, sessionVars, newVars>> /\ pc \notin ClosePhases
  BY DEF Commit, storageVars, parseVars, Proceed, ClosePhases
<1> QED
  BY <1>2, <1>3 DEF TypedInv, RecordedTypeIsStored, NewSlotsTyped,
                    LiveUntilClosed

\* The new value has the declared type, which is the recorded one.
LEMMA PersistTyped ==
  ASSUME Faithful, Inv, TypedInv, PersistVariable
  PROVE  TypedInv'
<1> DEFINE new == [type |-> cell.vars[persisted + 1].type,
                   cell |-> cellID, destroys |-> 0]
           at == Len(sessionVars) + persisted + 1
<1>1. pc = "epilogue" /\ pc \in RunPhases /\ pc \notin ClosePhases
      /\ persisted < Len(newVars)
  BY DEF PersistVariable, Proceed, RunPhases, ClosePhases
<1>2. /\ NextSlot = at /\ persisted \in Nat
      /\ Len(sessionVars) \in Nat /\ Len(newVars) \in Nat
      /\ Len(cell.vars) = Len(newVars)
      /\ at \in 1..Len(slots) /\ cell.vars[persisted + 1] \in DeclaredVar
      /\ Len(slots) = Len(sessionVars) + Len(newVars)
  BY <1>1, NextSlotIndex DEF Inv, SlotsInv
<1>3. newVars = ResolvedVars(cell)
  BY <1>1 DEF Inv, ControlInv
<1>4. newVars[persisted + 1].type = new.type
  <2>1. persisted + 1 \in 1..Len(cell.vars)
    BY <1>1, <1>2
  <2>2. newVars[persisted + 1].type = cell.vars[persisted + 1].first
    BY <1>3, <2>1, ResolvedVarsType DEF Inv, TypeOK
  <2>3. cell \in Sources
    <3>1. cell \in Sources \union {NoCell}
      BY DEF Inv, TypeOK
    <3>2. cell # NoCell
      BY <2>1, EmptySeq DEF NoCell
    <3> QED BY <3>1, <3>2
  <2> QED BY <2>1, <2>2, <2>3 DEF Faithful
<1>5. /\ heap \in Seq(Allocation) /\ Len(heap) \in Nat
      /\ slots \in Seq(0..Len(heap)) /\ sessionVars \in Seq(SessionVar)
  BY Lengths DEF Inv, TypeOK
<1>6. new \in Allocation
  BY <1>2 DEF Inv, TypeOK, Allocation, DeclaredVar
<1>7. /\ Len(heap') = Len(heap) + 1 /\ heap'[Len(heap) + 1] = new
      /\ \A a \in 1..Len(heap) : heap'[a] = heap[a]
  BY <1>5, <1>6, AppendProperties DEF PersistVariable
<1>8. /\ slots'[at] = Len(heap) + 1
      /\ \A j \in 1..Len(slots) : j # at => slots'[j] = slots[j]
  BY <1>2, <1>5 DEF PersistVariable
<1>9. UNCHANGED <<sessionVars, newVars>> /\ pc' = "register"
  BY DEF PersistVariable, Proceed, parseVars
<1>10. RecordedTypeIsStored'
  <2>1. \A i \in 1..Len(sessionVars) : sessionVars[i].storage \in 1..Len(heap)
    <3>1. \A i \in 1..Len(sessionVars) : sessionVars[i] \in SessionVar
      BY <1>5, ElementOfSeq
    <3> QED BY <3>1 DEF SessionVar
  <2> QED BY <1>7, <1>9, <2>1 DEF TypedInv, RecordedTypeIsStored
<1>11. NewSlotsTyped'
  <2>1. ASSUME NEW i \in 1..Len(newVars),
               slots'[Len(sessionVars) + i] # Null
        PROVE  heap'[slots'[Len(sessionVars) + i]].type = newVars[i].type
    <3>1. CASE i = persisted + 1
      BY <1>2, <1>4, <1>7, <1>8, <3>1
    <3>2. CASE i # persisted + 1
      <4>1. /\ Len(sessionVars) + i \in 1..Len(slots)
            /\ Len(sessionVars) + i # at
        BY <1>2, <3>2
      <4>2. slots'[Len(sessionVars) + i] = slots[Len(sessionVars) + i]
        BY <1>8, <4>1
      <4>3. slots[Len(sessionVars) + i] \in 0..Len(heap)
        BY <1>5, <4>1, ElementOfSeq
      <4>4. slots[Len(sessionVars) + i] \in 1..Len(heap)
        BY <1>5, <2>1, <4>2, <4>3 DEF Null
      <4>5. heap[slots[Len(sessionVars) + i]].type = newVars[i].type
        BY <1>1, <2>1, <4>2 DEF TypedInv, NewSlotsTyped
      <4> QED BY <1>7, <4>2, <4>4, <4>5
    <3> QED BY <3>1, <3>2
  <2> QED BY <1>9, <2>1 DEF NewSlotsTyped
<1>12. LiveUntilClosed'
  <2>1. \A a \in 1..Len(heap) : heap[a].destroys = 0
    BY <1>1 DEF TypedInv, LiveUntilClosed
  <2>2. ASSUME NEW a \in 1..Len(heap') PROVE heap'[a].destroys = 0
    <3>1. CASE a = Len(heap) + 1
      BY <1>7, <3>1
    <3>2. CASE a # Len(heap) + 1
      <4>1. a \in 1..Len(heap)
        BY <1>5, <1>7, <3>2
      <4> QED BY <1>7, <2>1, <4>1
    <3> QED BY <3>1, <3>2
  <2> QED BY <2>2 DEF LiveUntilClosed
<1> QED BY <1>10, <1>11, <1>12 DEF TypedInv

\* The first n new variables, once collected, have the types of their values.
LEMMA CollectTyped ==
  ASSUME Inv, TypedInv, pc \in RunPhases, NEW n \in 0..Len(newVars),
         \A i \in 1..n : Initialised(i),
         sessionVars' = sessionVars \o Collected(n), heap' = heap,
         pc' = "idle"
  PROVE  TypedInv'
<1>1. /\ Len(sessionVars) \in Nat /\ Len(newVars) \in Nat
      /\ sessionVars \in Seq(SessionVar)
  BY Lengths DEF Inv, TypeOK
<1>2. /\ Collected(n) \in Seq(SessionVar) /\ Len(Collected(n)) = n
      /\ \A i \in 1..n : /\ Collected(n)[i].type = newVars[i].type
                         /\ Collected(n)[i].storage
                              = slots[Len(sessionVars) + i]
  BY CollectedType
<1>3. /\ Len(sessionVars') = Len(sessionVars) + n
      /\ \A i \in 1..(Len(sessionVars) + n) :
           sessionVars'[i] = IF i <= Len(sessionVars) THEN sessionVars[i]
                             ELSE Collected(n)[i - Len(sessionVars)]
  BY <1>1, <1>2, ConcatProperties
<1>4. ASSUME NEW i \in 1..n
      PROVE  heap[slots[Len(sessionVars) + i]].type = newVars[i].type
  <2>1. i \in 1..Len(newVars) /\ slots[Len(sessionVars) + i] # Null
    BY <1>1 DEF Initialised
  <2> QED BY <2>1 DEF TypedInv, NewSlotsTyped
<1>5. ASSUME NEW i \in 1..Len(sessionVars')
      PROVE  heap[sessionVars'[i].storage].type = sessionVars'[i].type
  <2>1. CASE i <= Len(sessionVars)
    <3>1. i \in 1..Len(sessionVars) /\ sessionVars'[i] = sessionVars[i]
      BY <1>1, <1>3, <2>1
    <3> QED BY <3>1 DEF TypedInv, RecordedTypeIsStored
  <2>2. CASE ~(i <= Len(sessionVars))
    <3>1. /\ i - Len(sessionVars) \in 1..n
          /\ sessionVars'[i] = Collected(n)[i - Len(sessionVars)]
          /\ Len(sessionVars) + (i - Len(sessionVars)) = i
      BY <1>1, <1>3, <2>2
    <3> QED BY <1>2, <1>4, <3>1
  <2> QED BY <2>1, <2>2
<1>6. RecordedTypeIsStored'
  BY <1>5 DEF RecordedTypeIsStored
<1>7. NewSlotsTyped' /\ LiveUntilClosed'
  BY DEF TypedInv, NewSlotsTyped, LiveUntilClosed, RunPhases, ClosePhases
<1> QED BY <1>6, <1>7 DEF TypedInv

\* Calling a destructor leaves the type of the value alone.
LEMMA DestroyTyped ==
  ASSUME Inv, TypedInv, DestroyVariable
  PROVE  TypedInv'
<1> DEFINE a == sessionVars[persisted].storage
<1>1. heap \in Seq(Allocation) /\ sessionVars \in Seq(SessionVar)
  BY DEF Inv, TypeOK
<1>2. heap' = [heap EXCEPT ![a].destroys = @ + 1] /\ pc' = pc
      /\ pc = "destroying" /\ sessionVars' = sessionVars
  BY DEF DestroyVariable, NextToDestroy
<1>3. \A i \in 1..Len(sessionVars) : sessionVars[i].storage \in 1..Len(heap)
  <2>1. \A i \in 1..Len(sessionVars) : sessionVars[i] \in SessionVar
    BY <1>1, ElementOfSeq
  <2> QED BY <2>1 DEF SessionVar
<1>4. \A b \in 1..Len(heap) : heap[b] \in Allocation
  BY <1>1, ElementOfSeq
<1>5. \A b \in 1..Len(heap) : heap'[b].type = heap[b].type
  BY <1>1, <1>2, <1>4, LenProperties DEF Allocation
<1> QED
  BY <1>2, <1>3, <1>5 DEF TypedInv, RecordedTypeIsStored, NewSlotsTyped,
                          LiveUntilClosed, RunPhases, ClosePhases

LEMMA NextTyped == Faithful /\ Inv /\ TypedInv /\ [Next]_vars => TypedInv'
<1> SUFFICES ASSUME Faithful, Inv, TypedInv, [Next]_vars PROVE TypedInv'
  OBVIOUS
<1>1. CASE Refuse \/ (\E s \in Sources : Begin(s))
  BY <1>1, TypedFrame DEF Refuse, Begin, Proceed, storageVars, RunPhases,
                          ClosePhases
<1>2. CASE ParseAccepts \/ ParseRejects \/ RunKGENPipeline \/ EmitArchive
             \/ CompilationFails
  BY <1>2, TypedFrame
  DEF ParseAccepts, ParseRejects, RunKGENPipeline, EmitArchive,
      CompilationFails, Return, Proceed, storageVars, RunPhases, ClosePhases
<1>3. CASE AddArchive \/ DefineRuntimeSymbols \/ LookupEntryPoint \/ JITFails
  BY <1>3, TypedFrame
  DEF AddArchive, DefineRuntimeSymbols, LookupEntryPoint, JITFails, Poison,
      Return, Proceed, storageVars, RunPhases, ClosePhases
<1>4. CASE Commit
  BY <1>4, CommitTyped
<1>5. CASE BodyCompletes \/ BodyRaises \/ BodyReturns \/ EpilogueCompletes
             \/ RegisterPersistent
  BY <1>5, TypedFrame
  DEF BodyCompletes, BodyRaises, BodyReturns, EpilogueCompletes,
      RegisterPersistent, Proceed, storageVars, parseVars, runVars, RunPhases,
      ClosePhases
<1>6. CASE PersistVariable
  BY <1>6, PersistTyped
<1>7. CASE CellCrashes \/ ReportRuntimeError
  BY <1>7, TypedFrame
  DEF CellCrashes, ReportRuntimeError, Poison, Return, storageVars, RunPhases,
      ClosePhases
<1>8. CASE Succeed
  <2>1. Len(newVars) \in 0..Len(newVars) /\ pc \in RunPhases
    BY <1>8, Lengths DEF Inv, Succeed, RunPhases
  <2> QED
    BY <1>8, <2>1, CollectTyped DEF Succeed, Return
<1>9. CASE MissingStorage
  <2>1. PICK i \in 1..Len(newVars) :
          /\ \A j \in 1..(i - 1) : Initialised(j)
          /\ sessionVars' = sessionVars \o Collected(i - 1)
    BY <1>9 DEF MissingStorage
  <2>2. i - 1 \in 0..Len(newVars) /\ pc \in RunPhases
    BY <1>9, <2>1, Lengths DEF Inv, MissingStorage, RunPhases
  <2> QED
    BY <1>9, <2>1, <2>2, CollectTyped DEF MissingStorage, Poison, Return
<1>10. CASE Close \/ TearDownEngine
  BY <1>10, TypedFrame DEF Close, TearDownEngine, Proceed, storageVars,
                           RunPhases, ClosePhases
<1>11. CASE DestroyVariable
  BY <1>11, DestroyTyped
<1>12. CASE ClearVariables
  BY <1>12 DEF ClearVariables, Proceed, TypedInv, RecordedTypeIsStored,
               NewSlotsTyped, LiveUntilClosed, RunPhases, ClosePhases
<1>13. CASE UNCHANGED vars
  BY <1>13, TypedFrame DEF vars, storageVars, runVars, parseVars
<1> QED
  BY <1>1, <1>2, <1>3, <1>4, <1>5, <1>6, <1>7, <1>8, <1>9, <1>10, <1>11, <1>12,
     <1>13
  DEF Next, CompileStep, RunStep, CloseStep

LEMMA InitTyped == Init => TypedInv
BY DEF Init, TypedInv, RecordedTypeIsStored, NewSlotsTyped, LiveUntilClosed,
       RunPhases

LEMMA TypedInvariance ==
  ASSUME Faithful
  PROVE  Spec => []TypedInv
<1>1. Inv /\ TypedInv /\ [Next]_vars => TypedInv'
  BY NextTyped, Faithful
<1> QED BY <1>1, InitTyped, Invariance, PTL DEF Spec

\* As long as no cell hides a variable of a nested scope behind a top-level one
\* of the same name, every slot a running cell reads holds live storage of the
\* type its wrapper casts it to.
THEOREM SlotsAreTyped == Faithful => (Spec => []TypedAccess)
<1> SUFFICES ASSUME Faithful PROVE Spec => []TypedAccess
  OBVIOUS
<1>1. Inv /\ TypedInv => TypedAccess
  <2> SUFFICES ASSUME Inv, TypedInv, pc \in RunPhases,
                      NEW i \in 1..Len(persistentVars)
               PROVE  /\ i <= Len(slots) /\ slots[i] \in 1..Len(heap)
                      /\ heap[slots[i]].type = persistentVars[i].type
                      /\ heap[slots[i]].destroys = 0
    BY DEF TypedAccess
  <2>1. pc \notin ClosePhases /\ pc \notin {"destroyed", "gone"} /\ usable
    BY DEF Inv, ControlInv, Executing, RunPhases, ClosePhases
  <2>2. /\ Len(sessionVars) = Len(persistentVars) /\ i \in 1..Len(sessionVars)
        /\ sessionVars[i].type = persistentVars[i].type
    BY <2>1 DEF Inv, VariablesAgree
  <2>3. /\ Len(slots) = Len(sessionVars) + Len(newVars)
        /\ slots[i] = sessionVars[i].storage
    BY <2>2 DEF Inv, SlotsInv
  <2>4. i <= Len(slots)
    BY <2>2, <2>3, Lengths DEF Inv
  <2>5. sessionVars[i] \in SessionVar
    BY <2>2, ElementOfSeq DEF Inv, TypeOK
  <2>6. slots[i] \in 1..Len(heap)
    BY <2>3, <2>5 DEF SessionVar
  <2> QED
    BY <2>1, <2>2, <2>3, <2>4, <2>6
    DEF TypedInv, RecordedTypeIsStored, LiveUntilClosed
<1> QED BY <1>1, Invariance, TypedInvariance, PTL

-----------------------------------------------------------------------------
(* What is visible has been loaded. *)

LoadedPhases == {"define", "lookup", "commit"}

\* What the session has numbered, loaded and collected, by phase.
ResidencyInv ==
  /\ cellID < nextCellID /\ \A r \in resident : r < nextCellID
  /\ pc # "gone" =>
       /\ \A d \in committed : d.cell \in resident
       /\ tooling \subseteq resident
       /\ \A a \in 1..Len(heap) : heap[a].cell \in resident
  /\ pc \in {"destroyed", "gone"} => sessionVars = <<>>
  /\ pc \in {"parse", "lower", "emit", "add"} => cellID \notin resident
  /\ pc \in LoadedPhases \union RunPhases => cellID \in resident
  /\ pc \in LoadedPhases => \A d \in committed : d.cell # cellID
  /\ pc \in ParsedPhases => module \subseteq committed \union Own(cell.decls, cellID)
  /\ committed \subseteq gpuDeclarationSource

LEMMA InitResident == Init => ResidencyInv
BY DEF Init, ResidencyInv, LoadedPhases, RunPhases, ParsedPhases

\* Returning from execute() changes nothing of what is loaded.
LEMMA ReturnResident ==
  ASSUME Inv, ResidencyInv, Executing, NEW outcome, Return(outcome),
         UNCHANGED <<parserVars, engineVars, storageVars, nextCellID,
                     gpuDeclarationSource>>
  PROVE  ResidencyInv'
<1>1. nextCellID \in Nat \ {0}
  BY DEF Inv, TypeOK
<1> QED
  BY <1>1 DEF ResidencyInv, Executing, Return, LoadedPhases, RunPhases, ParsedPhases,
     CompilePhases, parserVars, engineVars, storageVars

LEMMA BeginResident ==
  ASSUME Inv, ResidencyInv, NEW s \in Sources, Begin(s)
  PROVE  ResidencyInv'
<1>1. /\ nextCellID \in Nat \ {0} /\ resident \subseteq Nat
      /\ cellID' = nextCellID /\ nextCellID' = nextCellID + 1
  BY DEF Inv, TypeOK, Begin, TakeCellID
<1>2. /\ UNCHANGED <<committed, tooling, resident, heap, sessionVars,
                     gpuDeclarationSource>>
      /\ pc = "idle" /\ pc' = "parse"
  BY DEF Begin, Proceed, parserVars, engineVars, storageVars
<1> QED
  BY <1>1, <1>2 DEF ResidencyInv, LoadedPhases, RunPhases, ParsedPhases

LEMMA CompileResident ==
  ASSUME Inv, ResidencyInv,
         \/ ParseAccepts \/ RunKGENPipeline \/ EmitArchive
         \/ DefineRuntimeSymbols \/ LookupEntryPoint
  PROVE  ResidencyInv'
<1>1. CASE ParseAccepts
  <2>1. module' \subseteq committed \union Own(cell.decls, cellID)
    BY <1>1 DEF ParseAccepts, BuildModule
  <2> QED
    BY <1>1, <2>1 DEF ParseAccepts, Proceed, ResidencyInv, LoadedPhases, RunPhases,
       parserVars, engineVars, storageVars, Own
<1>2. CASE RunKGENPipeline \/ EmitArchive
  BY <1>2 DEF RunKGENPipeline, EmitArchive, Proceed, ResidencyInv, LoadedPhases,
     RunPhases, ParsedPhases, parserVars, engineVars, storageVars, parseVars, Own
<1>3. CASE DefineRuntimeSymbols \/ LookupEntryPoint
  BY <1>3 DEF DefineRuntimeSymbols, LookupEntryPoint, Proceed, ResidencyInv,
     LoadedPhases, RunPhases, ParsedPhases, parserVars, engineVars, storageVars,
     parseVars, Own
<1> QED BY <1>1, <1>2, <1>3

LEMMA AddArchiveResident ==
  ASSUME Inv, ResidencyInv, AddArchive PROVE ResidencyInv'
<1>1. /\ pc = "add" /\ pc' = "define" /\ resident' = resident \union {cellID}
      /\ UNCHANGED <<committed, tooling, heap, sessionVars, cell, cellID, module,
                     nextCellID, gpuDeclarationSource>>
  BY DEF AddArchive, Proceed, parserVars, storageVars, parseVars
<1>2. \A d \in committed : d.cell \in resident /\ d.cell # cellID
  BY <1>1 DEF ResidencyInv
<1>3. module \subseteq committed \union Own(cell.decls, cellID)
  BY <1>1 DEF ResidencyInv, ParsedPhases
<1> QED
  BY <1>1, <1>2, <1>3 DEF ResidencyInv, LoadedPhases, RunPhases, ParsedPhases, Own

LEMMA CommitResident ==
  ASSUME Inv, ResidencyInv, Commit PROVE ResidencyInv'
<1>1. /\ pc = "commit" /\ pc' = "body" /\ committed' = module
      /\ gpuDeclarationSource' = gpuDeclarationSource \union Own(cell.decls, cellID)
      /\ tooling' \subseteq tooling \union {cellID}
      /\ UNCHANGED <<heap, sessionVars, cell, cellID, nextCellID, resident>>
  BY DEF Commit, ExtendGPUSource, Proceed, engineVars, storageVars, parseVars
<1>2. module \subseteq committed \union Own(cell.decls, cellID) /\ cellID \in resident
  BY <1>1 DEF ResidencyInv, ParsedPhases, LoadedPhases
<1>3. \A d \in Own(cell.decls, cellID) : d.cell = cellID
  BY DEF Own
<1>4. \A d \in committed' : d.cell \in resident
  BY <1>1, <1>2, <1>3 DEF ResidencyInv
<1> QED
  BY <1>1, <1>2, <1>4 DEF ResidencyInv, LoadedPhases, RunPhases, ParsedPhases

LEMMA RunResident ==
  ASSUME Inv, ResidencyInv,
         \/ BodyCompletes \/ BodyRaises \/ BodyReturns \/ RegisterPersistent
         \/ EpilogueCompletes
  PROVE  ResidencyInv'
<1>1. /\ pc \in RunPhases /\ pc' \in RunPhases
      /\ UNCHANGED <<committed, tooling, resident, heap, sessionVars, cell, cellID,
                     module, nextCellID, gpuDeclarationSource>>
  BY DEF BodyCompletes, BodyRaises, BodyReturns, RegisterPersistent,
     EpilogueCompletes, Proceed, RunPhases, parserVars, engineVars, storageVars,
     parseVars
<1> QED
  BY <1>1 DEF ResidencyInv, LoadedPhases, RunPhases, ParsedPhases

LEMMA PersistResident ==
  ASSUME Inv, ResidencyInv, PersistVariable PROVE ResidencyInv'
<1> DEFINE new == [type |-> cell.vars[persisted + 1].type,
                   cell |-> cellID, destroys |-> 0]
<1>1. /\ pc = "epilogue" /\ pc' = "register" /\ heap' = Append(heap, new)
      /\ persisted < Len(newVars)
      /\ UNCHANGED <<committed, tooling, resident, sessionVars, cell, cellID, module,
                     nextCellID, gpuDeclarationSource>>
  BY DEF PersistVariable, Proceed, parserVars, engineVars, parseVars
<1>2. heap \in Seq(Allocation) /\ new \in Allocation
  <2>1. cell.vars[persisted + 1] \in DeclaredVar
    BY <1>1, NextSlotIndex DEF RunPhases
  <2> QED BY <2>1 DEF Inv, TypeOK, Allocation, DeclaredVar
<1>3. /\ Len(heap) \in Nat /\ Len(heap') = Len(heap) + 1 /\ heap'[Len(heap) + 1] = new
      /\ \A a \in 1..Len(heap) : heap'[a] = heap[a]
  BY <1>1, <1>2, AppendProperties, LenProperties
<1>4. cellID \in resident
  BY <1>1 DEF ResidencyInv, RunPhases
<1>5. \A a \in 1..Len(heap') : heap'[a].cell \in resident
  <2>1. \A a \in 1..Len(heap) : heap[a].cell \in resident
    BY <1>1 DEF ResidencyInv
  <2>2. \A a \in 1..Len(heap') : a \in 1..Len(heap) \/ a = Len(heap) + 1
    BY <1>3
  <2>3. new.cell = cellID
    OBVIOUS
  <2> QED BY <1>3, <1>4, <2>1, <2>2, <2>3
<1> QED
  BY <1>1, <1>4, <1>5 DEF ResidencyInv, LoadedPhases, RunPhases, ParsedPhases

\* Taking variables over changes nothing of what is loaded either.
LEMMA CollectResident ==
  ASSUME Inv, ResidencyInv, Succeed \/ MissingStorage PROVE ResidencyInv'
<1>1. /\ pc = "returned" /\ pc' = "idle" /\ cellID' = 0
      /\ UNCHANGED <<committed, tooling, resident, heap, nextCellID,
                     gpuDeclarationSource>>
  BY DEF Succeed, MissingStorage, Poison, Return, parserVars, engineVars
<1>2. nextCellID \in Nat \ {0}
  BY DEF Inv, TypeOK
<1> QED
  BY <1>1, <1>2 DEF ResidencyInv, LoadedPhases, RunPhases, ParsedPhases

LEMMA CloseResident ==
  ASSUME Inv, ResidencyInv, Close \/ CloseStep PROVE ResidencyInv'
<1>1. CASE Close \/ ClearVariables
  BY <1>1 DEF Close, ClearVariables, Proceed, ResidencyInv, LoadedPhases, RunPhases,
     ParsedPhases, parserVars, engineVars, storageVars, parseVars
<1>2. CASE TearDownEngine
  BY <1>2 DEF TearDownEngine, Proceed, ResidencyInv, LoadedPhases, RunPhases,
     ParsedPhases, parserVars, storageVars, parseVars
<1>3. CASE DestroyVariable
  <2> DEFINE a == sessionVars[persisted].storage
  <2>1. /\ heap' = [heap EXCEPT ![a].destroys = @ + 1] /\ pc = "destroying" /\ pc' = pc
        /\ UNCHANGED <<committed, tooling, resident, sessionVars, cellID, nextCellID,
                       gpuDeclarationSource>>
    BY <1>3 DEF DestroyVariable, NextToDestroy, parserVars, engineVars, parseVars
  <2>2. heap \in Seq(Allocation) /\ \A b \in 1..Len(heap) : heap[b] \in Allocation
    BY ElementOfSeq DEF Inv, TypeOK
  <2>3. Len(heap') = Len(heap) /\ \A b \in 1..Len(heap) : heap'[b].cell = heap[b].cell
    BY <2>1, <2>2, LenProperties DEF Allocation
  <2> QED
    BY <2>1, <2>3 DEF ResidencyInv, LoadedPhases, RunPhases, ParsedPhases
<1> QED BY <1>1, <1>2, <1>3 DEF CloseStep

LEMMA NextResident == Inv /\ ResidencyInv /\ [Next]_vars => ResidencyInv'
<1> SUFFICES ASSUME Inv, ResidencyInv, [Next]_vars PROVE ResidencyInv'
  OBVIOUS
<1>1. CASE ParseRejects \/ CompilationFails \/ JITFails
  BY <1>1, ReturnResident
  DEF ParseRejects, CompilationFails, JITFails, Poison, Executing, CompilePhases
<1>2. CASE CellCrashes \/ ReportRuntimeError
  BY <1>2, ReturnResident
  DEF CellCrashes, ReportRuntimeError, Poison, Executing, RunPhases
<1>3. CASE Refuse \/ UNCHANGED vars
  BY <1>3 DEF Refuse, vars, parserVars, engineVars, storageVars, parseVars,
     ResidencyInv, Own
<1>4. CASE CompileStep
  BY <1>1, <1>4, CompileResident, AddArchiveResident, CommitResident DEF CompileStep
<1>5. CASE RunStep
  BY <1>2, <1>5, RunResident, PersistResident, CollectResident DEF RunStep
<1> QED BY <1>3, <1>4, <1>5, BeginResident, CloseResident DEF Next

LEMMA ResidencyInvariance == Spec => []ResidencyInv
BY InitResident, NextResident, Invariance, PTL DEF Spec

\* Whatever cells are refused, raise or crash: what can be named, completed or destroyed
\* has its archive in the engine, a lookup finds the archive of its own cell, and the
\* GPU compiler is given the text of every visible declaration.
THEOREM VisibleIsLoaded == Spec => []VisibleIsResident
<1>1. Inv /\ ResidencyInv => VisibleIsResident
  <2> SUFFICES ASSUME Inv, ResidencyInv PROVE VisibleIsResident
    OBVIOUS
  <2>1. \A i \in 1..Len(sessionVars) : heap[sessionVars[i].storage].cell \in resident
    <3>1. CASE pc = "gone"
      BY <3>1, EmptySeq DEF ResidencyInv
    <3>2. CASE pc # "gone"
      <4>1. \A i \in 1..Len(sessionVars) : sessionVars[i] \in SessionVar
        BY ElementOfSeq DEF Inv, TypeOK
      <4> QED BY <3>2, <4>1 DEF ResidencyInv, SessionVar
    <3> QED BY <3>1, <3>2
  <2>2. CodeIsResident
    BY <2>1 DEF ResidencyInv, CodeIsResident
  <2>3. EntryPointIsFresh /\ GPUSourceCoversScope
    BY DEF ResidencyInv, EntryPointIsFresh, GPUSourceCoversScope, LoadedPhases
  <2> QED BY <2>2, <2>3 DEF VisibleIsResident
<1> QED BY <1>1, Invariance, ResidencyInvariance, PTL

-----------------------------------------------------------------------------
(* A name keeps its meaning. *)

\* The compiler rejects a cell that defines a name twice, but for overloads.
CellsAreConsistent ==
  \A s \in Sources : \A d, e \in s.decls :
    d.name = e.name /\ d # e => d.sig # NonFunction /\ e.sig # NonFunction

OneDefinitionIn(scope) ==
  \A d, e \in scope :
    d.name = e.name /\ d # e =>
      /\ d.sig # NonFunction /\ e.sig # NonFunction
      /\ d.sig # e.sig

\* Of the variables of a cell that was parsed, none is in the session and none borrows.
NewVariables ==
  pc \in ParsedPhases \union RunPhases =>
    /\ \A i \in 1..Len(newVars), j \in 1..Len(sessionVars) :
         newVars[i].name # sessionVars[j].name
    /\ \A i, j \in 1..Len(newVars) : newVars[i].name = newVars[j].name => i = j
    /\ \A i \in 1..Len(newVars) : newVars[i].type \notin Borrowed

NamesInv ==
  /\ OneDefinitionIn(committed) /\ NewVariables /\ RefusedStaysOut
  /\ pc \in ParsedPhases => OneDefinitionIn(module)

\* The cell that runs has the variables that the parser has resolved.
LEMMA CellVariables ==
  ASSUME Inv, pc \in ParsedPhases \union RunPhases, NEW i \in 1..Len(newVars)
  PROVE  /\ cell \in Sources /\ i \in 1..Len(cell.vars) /\ cell.vars[i] \in DeclaredVar
         /\ newVars[i] = [name |-> cell.vars[i].name, type |-> cell.vars[i].first]
<1>1. cell \in Sources \union {NoCell} /\ newVars = ResolvedVars(cell)
  BY DEF Inv, TypeOK, ControlInv
<1>2. cell.vars \in Seq(DeclaredVar) /\ i \in 1..Len(cell.vars)
  BY <1>1, ResolvedVarsType
<1>3. cell # NoCell
  BY <1>2, EmptySeq DEF NoCell
<1> QED BY <1>1, <1>2, <1>3, ElementOfSeq DEF ResolvedVars

LEMMA ModuleIsConsistent ==
  ASSUME CellsAreConsistent, Inv, OneDefinitionIn(committed), NEW id
  PROVE  OneDefinitionIn(BuildModule(committed, cell.decls, id))
<1>0. cell \in Sources \union {NoCell}
  BY DEF Inv, TypeOK
<1>1. cell.decls \subseteq Declaration
  BY <1>0, ParametersAssumption DEF NoCell
<1>2. \A d, e \in cell.decls : d.name = e.name /\ d # e =>
        d.sig # NonFunction /\ e.sig # NonFunction /\ d.sig # e.sig
  <2> SUFFICES ASSUME NEW d \in cell.decls, NEW e \in cell.decls, d.name = e.name, d # e
               PROVE  d.sig # NonFunction /\ e.sig # NonFunction /\ d.sig # e.sig
    OBVIOUS
  <2>1. cell \in Sources
    <3>1. cell # NoCell
      BY DEF NoCell
    <3> QED BY <1>0, <3>1
  <2>2. d.sig # e.sig
    BY <1>1 DEF Declaration
  <2> QED BY <2>1, <2>2 DEF CellsAreConsistent
<1>3. \A p \in BuildModule(committed, cell.decls, id) :
        \/ \E d \in cell.decls : p = [name |-> d.name, sig |-> d.sig, cell |-> id]
        \/ /\ p \in committed
           /\ \A d \in cell.decls : d.name = p.name =>
                d.sig # NonFunction /\ p.sig # NonFunction /\ d.sig # p.sig
  BY DEF BuildModule, Own
<1> SUFFICES ASSUME NEW p \in BuildModule(committed, cell.decls, id),
                    NEW q \in BuildModule(committed, cell.decls, id),
                    p.name = q.name, p # q
             PROVE  p.sig # NonFunction /\ q.sig # NonFunction /\ p.sig # q.sig
  BY DEF OneDefinitionIn
<1>4. CASE p \in committed /\ q \in committed
  BY <1>4 DEF OneDefinitionIn
<1>5. CASE \E d \in cell.decls : p = [name |-> d.name, sig |-> d.sig, cell |-> id]
  <2>1. PICK d \in cell.decls : p = [name |-> d.name, sig |-> d.sig, cell |-> id]
    BY <1>5
  <2>2. CASE \E e \in cell.decls : q = [name |-> e.name, sig |-> e.sig, cell |-> id]
    <3>1. PICK e \in cell.decls : q = [name |-> e.name, sig |-> e.sig, cell |-> id]
      BY <2>2
    <3>2. d # e /\ d.name = e.name
      BY <2>1, <3>1
    <3> QED BY <1>2, <2>1, <3>1, <3>2
  <2>3. CASE \A e \in cell.decls : e.name = q.name =>
               e.sig # NonFunction /\ q.sig # NonFunction /\ e.sig # q.sig
    BY <2>1, <2>3
  <2> QED BY <1>3, <2>2, <2>3
<1>6. CASE /\ \A d \in cell.decls : d.name = p.name =>
                d.sig # NonFunction /\ p.sig # NonFunction /\ d.sig # p.sig
           /\ \E e \in cell.decls : q = [name |-> e.name, sig |-> e.sig, cell |-> id]
  BY <1>6
<1> QED BY <1>3, <1>4, <1>5, <1>6

\* A cell that is accepted brings variables that are new and do not borrow.
LEMMA AcceptedNames ==
  ASSUME CellsAreConsistent, Inv, NamesInv, ParseAccepts
  PROVE  NamesInv'
<1>1. /\ pc = "parse" /\ pc' = "lower" /\ newVars' = ResolvedVars(cell)
      /\ ~Redeclares(cell) /\ ~Borrows(ResolvedVars(cell))
      /\ module' = BuildModule(committed, cell.decls, cellID)
      /\ UNCHANGED <<committed, persistentVars, sessionVars, heap>>
  BY DEF ParseAccepts, Proceed, parserVars, storageVars
<1>2. /\ Len(sessionVars) = Len(persistentVars)
      /\ \A j \in 1..Len(sessionVars) : sessionVars[j].name = persistentVars[j].name
  BY <1>1 DEF Inv, ControlInv, VariablesAgree, Executing, CompilePhases
<1>3. cell \in Sources \union {NoCell} /\ Len(newVars') = Len(cell.vars)
      /\ Len(cell.vars) \in Nat
  BY <1>1, ResolvedVarsType, LenProperties DEF Inv, TypeOK
<1>4. \A i \in 1..Len(cell.vars) : newVars'[i].name = cell.vars[i].name
  BY <1>1 DEF ResolvedVars
<1>5. \A i \in 1..Len(newVars'), j \in 1..Len(sessionVars) :
        newVars'[i].name # sessionVars[j].name
  BY <1>1, <1>2, <1>3, <1>4 DEF Redeclares
<1>6. \A i, j \in 1..Len(newVars') : newVars'[i].name = newVars'[j].name => i = j
  <2>1. CASE cell = NoCell
    BY <1>3, <2>1, EmptySeq DEF NoCell
  <2>2. CASE cell \in Sources
    BY <1>3, <1>4, <2>2, ParametersAssumption
  <2> QED BY <1>3, <2>1, <2>2
<1>7. \A i \in 1..Len(newVars') : newVars'[i].type \notin Borrowed
  BY <1>1 DEF Borrows
<1>8. NewVariables'
  BY <1>1, <1>5, <1>6, <1>7 DEF NewVariables
<1>9. OneDefinitionIn(module') /\ OneDefinitionIn(committed')
  BY <1>1, ModuleIsConsistent DEF NamesInv, OneDefinitionIn
<1>10. RefusedStaysOut'
  BY <1>1 DEF NamesInv, RefusedStaysOut
<1> QED BY <1>8, <1>9, <1>10 DEF NamesInv, OneDefinitionIn

\* The steps that leave the variables of the session and the storage alone.
LEMMA NamesFrame ==
  ASSUME NamesInv, UNCHANGED <<sessionVars, heap>>,
         \/ UNCHANGED committed
         \/ committed' = module /\ pc \in ParsedPhases,
         pc' \in ParsedPhases => pc \in ParsedPhases /\ UNCHANGED module,
         pc' \in ParsedPhases \union RunPhases =>
           pc \in ParsedPhases \union RunPhases /\ UNCHANGED newVars
  PROVE  NamesInv'
BY DEF NamesInv, NewVariables, RefusedStaysOut, OneDefinitionIn

LEMMA PersistNames ==
  ASSUME Faithful, Inv, NamesInv, PersistVariable PROVE NamesInv'
<1> DEFINE new == [type |-> cell.vars[persisted + 1].type,
                   cell |-> cellID, destroys |-> 0]
<1>1. /\ pc = "epilogue" /\ pc' = "register" /\ heap' = Append(heap, new)
      /\ persisted < Len(newVars)
      /\ UNCHANGED <<committed, sessionVars, newVars>>
  BY DEF PersistVariable, Proceed, parserVars, parseVars
<1>2. persisted + 1 \in 1..Len(newVars)
  BY <1>1, NextSlotIndex DEF RunPhases
<1>3. new.type \notin Borrowed
  <2>1. cell \in Sources /\ persisted + 1 \in 1..Len(cell.vars)
        /\ newVars[persisted + 1].type = cell.vars[persisted + 1].first
    <3>1. pc \in ParsedPhases \union RunPhases
      BY <1>1 DEF RunPhases
    <3>2. /\ cell \in Sources /\ persisted + 1 \in 1..Len(cell.vars)
          /\ newVars[persisted + 1] = [name |-> cell.vars[persisted + 1].name,
                                       type |-> cell.vars[persisted + 1].first]
      BY <1>2, <3>1, CellVariables
    <3> QED BY <3>2
  <2>2. cell.vars[persisted + 1].first = cell.vars[persisted + 1].type
    BY <2>1 DEF Faithful
  <2> QED BY <1>1, <1>2, <2>1, <2>2 DEF NamesInv, NewVariables, RunPhases
<1>4. heap \in Seq(Allocation) /\ new \in Allocation
  <2>1. cell.vars[persisted + 1] \in DeclaredVar
    BY <1>1, NextSlotIndex DEF RunPhases
  <2> QED BY <2>1 DEF Inv, TypeOK, Allocation, DeclaredVar
<1>5. /\ Len(heap) \in Nat /\ Len(heap') = Len(heap) + 1 /\ heap'[Len(heap) + 1] = new
      /\ \A a \in 1..Len(heap) : heap'[a] = heap[a]
  BY <1>1, <1>4, AppendProperties, LenProperties
<1>6. \A a \in 1..Len(heap') : heap'[a].type \notin Borrowed
  <2>1. \A a \in 1..Len(heap') : a \in 1..Len(heap) \/ a = Len(heap) + 1
    BY <1>5
  <2>2. \A a \in 1..Len(heap) : heap[a].type \notin Borrowed
    BY DEF NamesInv, RefusedStaysOut
  <2> QED BY <1>3, <1>5, <2>1, <2>2
<1>7. RefusedStaysOut'
  BY <1>1, <1>6 DEF NamesInv, RefusedStaysOut
<1>8. NewVariables'
  BY <1>1 DEF NamesInv, NewVariables, RunPhases
<1> QED BY <1>1, <1>7, <1>8 DEF NamesInv, OneDefinitionIn, ParsedPhases

\* Taking over the first n new variables gives no name twice.
LEMMA CollectNames ==
  ASSUME Inv, NamesInv, pc \in RunPhases, NEW n \in 0..Len(newVars),
         \A i \in 1..n : Initialised(i),
         sessionVars' = sessionVars \o Collected(n),
         UNCHANGED <<heap, committed>>, pc' = "idle"
  PROVE  NamesInv'
<1>1. /\ Len(sessionVars) \in Nat /\ Len(newVars) \in Nat
      /\ sessionVars \in Seq(SessionVar)
  BY Lengths DEF Inv, TypeOK
<1>2. /\ Collected(n) \in Seq(SessionVar) /\ Len(Collected(n)) = n
      /\ \A i \in 1..n : Collected(n)[i].name = newVars[i].name
  BY CollectedType DEF Collected
<1>3. /\ Len(sessionVars') = Len(sessionVars) + n
      /\ \A i \in 1..(Len(sessionVars) + n) :
           sessionVars'[i] = IF i <= Len(sessionVars) THEN sessionVars[i]
                             ELSE Collected(n)[i - Len(sessionVars)]
  BY <1>1, <1>2, ConcatProperties
<1>4. \A i \in 1..Len(sessionVars') :
        \/ i \in 1..Len(sessionVars) /\ sessionVars'[i].name = sessionVars[i].name
        \/ /\ i - Len(sessionVars) \in 1..Len(newVars)
           /\ sessionVars'[i].name = newVars[i - Len(sessionVars)].name
  BY <1>1, <1>2, <1>3
<1>5. /\ \A i, j \in 1..Len(sessionVars) :
           sessionVars[i].name = sessionVars[j].name => i = j
      /\ \A i \in 1..Len(newVars), j \in 1..Len(sessionVars) :
           newVars[i].name # sessionVars[j].name
      /\ \A i, j \in 1..Len(newVars) : newVars[i].name = newVars[j].name => i = j
  BY DEF NamesInv, NewVariables, RefusedStaysOut
<1>6. \A i, j \in 1..Len(sessionVars') :
        sessionVars'[i].name = sessionVars'[j].name => i = j
  <2> SUFFICES ASSUME NEW i \in 1..Len(sessionVars'), NEW j \in 1..Len(sessionVars'),
                      sessionVars'[i].name = sessionVars'[j].name
               PROVE  i = j
    OBVIOUS
  <2>1. i \in Int /\ j \in Int
    BY <1>1, <1>3
  <2>2. CASE i \in 1..Len(sessionVars) /\ sessionVars'[i].name = sessionVars[i].name
    <3>1. CASE j \in 1..Len(sessionVars) /\ sessionVars'[j].name = sessionVars[j].name
      BY <1>5, <2>2, <3>1
    <3>2. CASE /\ j - Len(sessionVars) \in 1..Len(newVars)
               /\ sessionVars'[j].name = newVars[j - Len(sessionVars)].name
      BY <1>5, <2>2, <3>2
    <3> QED BY <1>4, <3>1, <3>2
  <2>3. CASE /\ i - Len(sessionVars) \in 1..Len(newVars)
             /\ sessionVars'[i].name = newVars[i - Len(sessionVars)].name
    <3>1. CASE j \in 1..Len(sessionVars) /\ sessionVars'[j].name = sessionVars[j].name
      BY <1>5, <2>3, <3>1
    <3>2. CASE /\ j - Len(sessionVars) \in 1..Len(newVars)
               /\ sessionVars'[j].name = newVars[j - Len(sessionVars)].name
      <4>1. i - Len(sessionVars) = j - Len(sessionVars)
        BY <1>5, <2>3, <3>2
      <4> QED BY <1>1, <2>1, <4>1
    <3> QED BY <1>4, <3>1, <3>2
  <2> QED BY <1>4, <2>2, <2>3
<1>7. RefusedStaysOut'
  BY <1>6 DEF NamesInv, RefusedStaysOut
<1> QED
  BY <1>7 DEF NamesInv, NewVariables, OneDefinitionIn, ParsedPhases, RunPhases

LEMMA DestroyNames ==
  ASSUME Inv, NamesInv, DestroyVariable PROVE NamesInv'
<1> DEFINE a == sessionVars[persisted].storage
<1>1. /\ heap' = [heap EXCEPT ![a].destroys = @ + 1] /\ pc = "destroying" /\ pc' = pc
      /\ UNCHANGED <<committed, sessionVars>>
  BY DEF DestroyVariable, NextToDestroy, parserVars
<1>2. heap \in Seq(Allocation) /\ \A b \in 1..Len(heap) : heap[b] \in Allocation
  BY ElementOfSeq DEF Inv, TypeOK
<1>3. Len(heap') = Len(heap) /\ \A b \in 1..Len(heap) : heap'[b].type = heap[b].type
  BY <1>1, <1>2, LenProperties DEF Allocation
<1> QED
  BY <1>1, <1>3 DEF NamesInv, NewVariables, RefusedStaysOut, OneDefinitionIn,
     ParsedPhases, RunPhases

LEMMA NextNames ==
  Faithful /\ CellsAreConsistent /\ Inv /\ NamesInv /\ [Next]_vars => NamesInv'
<1> SUFFICES ASSUME Faithful, CellsAreConsistent, Inv, NamesInv, [Next]_vars
             PROVE  NamesInv'
  OBVIOUS
<1>1. CASE Refuse \/ (\E s \in Sources : Begin(s))
  BY <1>1, NamesFrame DEF Refuse, Begin, Proceed, parserVars, storageVars, parseVars,
     RunPhases, ParsedPhases
<1>2. CASE ParseRejects \/ CompilationFails \/ JITFails
  BY <1>2, NamesFrame DEF ParseRejects, CompilationFails, JITFails, Poison, Return,
     parserVars, storageVars, RunPhases, ParsedPhases
<1>3. CASE RunKGENPipeline \/ EmitArchive
  BY <1>3, NamesFrame DEF RunKGENPipeline, EmitArchive, Proceed, parserVars,
     storageVars, parseVars, RunPhases, ParsedPhases
<1>4. CASE AddArchive \/ DefineRuntimeSymbols \/ LookupEntryPoint
  BY <1>4, NamesFrame DEF AddArchive, DefineRuntimeSymbols, LookupEntryPoint, Proceed,
     parserVars, storageVars, parseVars, RunPhases, ParsedPhases
<1>5. CASE Commit
  BY <1>5, NamesFrame DEF Commit, Proceed, storageVars, parseVars, RunPhases,
     ParsedPhases
<1>6. CASE \/ BodyCompletes \/ BodyRaises \/ BodyReturns \/ EpilogueCompletes
           \/ RegisterPersistent
  BY <1>6, NamesFrame DEF BodyCompletes, BodyRaises, BodyReturns, EpilogueCompletes,
     RegisterPersistent, Proceed, parserVars, storageVars, parseVars, RunPhases,
     ParsedPhases
<1>7. CASE CellCrashes \/ ReportRuntimeError
  BY <1>7, NamesFrame DEF CellCrashes, ReportRuntimeError, Poison, Return, parserVars,
     storageVars, RunPhases, ParsedPhases
<1>8. CASE Succeed
  <2>1. Len(newVars) \in 0..Len(newVars) /\ pc \in RunPhases
    BY <1>8, Lengths DEF Inv, Succeed, RunPhases
  <2> QED BY <1>8, <2>1, CollectNames DEF Succeed, Return
<1>9. CASE MissingStorage
  <2>1. PICK i \in 1..Len(newVars) :
          /\ \A j \in 1..(i - 1) : Initialised(j)
          /\ sessionVars' = sessionVars \o Collected(i - 1)
    BY <1>9 DEF MissingStorage
  <2>2. i - 1 \in 0..Len(newVars) /\ pc \in RunPhases
    BY <1>9, <2>1, Lengths DEF Inv, MissingStorage, RunPhases
  <2>3. UNCHANGED <<heap, committed>> /\ pc' = "idle"
    BY <1>9 DEF MissingStorage, Poison, Return, parserVars
  <2> QED BY <2>1, <2>2, <2>3, CollectNames
<1>10. CASE Close \/ TearDownEngine
  BY <1>10, NamesFrame DEF Close, TearDownEngine, Proceed, parserVars, storageVars,
     RunPhases, ParsedPhases
<1>11. CASE ClearVariables
  <2>1. Len(sessionVars') = 0
    BY <1>11 DEF ClearVariables
  <2> QED BY <1>11, <2>1 DEF ClearVariables, Proceed, parserVars, NamesInv,
        NewVariables, RefusedStaysOut, OneDefinitionIn, ParsedPhases, RunPhases
<1>12. CASE UNCHANGED vars
  BY <1>12, NamesFrame DEF vars, parserVars, storageVars, parseVars
<1> QED
  BY <1>1, <1>2, <1>3, <1>4, <1>5, <1>6, <1>7, <1>8, <1>9, <1>10, <1>11, <1>12,
     AcceptedNames, PersistNames, DestroyNames
  DEF Next, CompileStep, RunStep, CloseStep

LEMMA InitNames == Init => NamesInv
BY DEF Init, NamesInv, NewVariables, RefusedStaysOut, OneDefinitionIn, ParsedPhases,
       RunPhases

\* If no cell defines a name twice and none hides a nested variable, a name has one
\* meaning in the session: visible declarations of a name are overloads, no variable is
\* declared again, and no value that borrows is stored, whatever cells failed between.
THEOREM NamesAreUnique ==
  Faithful /\ CellsAreConsistent => (Spec => []NamesStayUnique)
<1> SUFFICES ASSUME Faithful, CellsAreConsistent PROVE Spec => []NamesStayUnique
  OBVIOUS
<1>1. NamesInv => NamesStayUnique
  BY DEF NamesInv, NamesStayUnique, OneVisibleDefinition, OneDefinitionIn
<1>2. Inv /\ NamesInv /\ [Next]_vars => NamesInv'
  BY NextNames, Faithful, CellsAreConsistent
<1> QED BY <1>1, <1>2, InitNames, Invariance, PTL DEF Spec

-----------------------------------------------------------------------------
(* Storage has one owner, and is destroyed once. *)

NewSlot(i) == slots[Len(sessionVars) + i]

StoredOnce ==
  \A i, j \in 1..Len(sessionVars) :
    sessionVars[i].storage = sessionVars[j].storage => i = j

\* What the epilogue has published is nobody else's.
SlotsFresh ==
  pc \in RunPhases =>
    /\ \A i \in 1..Len(newVars), j \in 1..Len(sessionVars) :
         NewSlot(i) # Null => sessionVars[j].storage # NewSlot(i)
    /\ \A i, j \in 1..Len(newVars) :
         NewSlot(i) # Null /\ NewSlot(i) = NewSlot(j) => i = j

\* A destructor is registered for the type of the value that was just published.
NewDestructorsMatch ==
  /\ pc \in RunPhases =>
       \A i \in 1..Len(newVars) : Initialised(i) =>
         destroyers[Len(sessionVars) + i] = heap[NewSlot(i)].type
  /\ pc = "register" =>
       /\ NewSlot(persisted + 1) # Null
       /\ heap[NewSlot(persisted + 1)].type = cell.vars[persisted + 1].type

\* The slots that the epilogue has not come to are null and have no destructor.
UnfilledSlots ==
  /\ pc # "returned" => ~pendingRuntimeError
  /\ pc \in RunPhases => \A i \in 1..Len(newVars) :
       \/ pc = "body"
       \/ pc = "epilogue" /\ i > persisted
       \/ pc = "register" /\ i > persisted + 1
       \/ pc = "returned" /\ pendingRuntimeError
       => NewSlot(i) = Null
  /\ pc \in {"body", "epilogue", "register"} => \A i \in 1..Len(newVars) :
       i > persisted => destroyers[Len(sessionVars) + i] = NoDestroy

Held(a) ==
  \/ \E i \in 1..Len(sessionVars) : sessionVars[i].storage = a
  \/ pc \in RunPhases /\ \E i \in 1..Len(newVars) : NewSlot(i) = a

NothingLost ==
  usable /\ pc \notin {"destroyed", "gone"} => \A a \in 1..Len(heap) : Held(a)

\* The loop of the destructor has called the destructors of the later variables.
DestroyedSoFar ==
  /\ pc = "destroying" =>
       /\ \A a \in 1..Len(heap) : heap[a].destroys <= 1
       /\ \A i \in 1..Len(sessionVars) :
            heap[sessionVars[i].storage].destroys = IF i <= persisted THEN 0 ELSE 1
  /\ pc \in {"destroyed", "gone"} =>
       /\ sessionVars = <<>>
       /\ \A a \in 1..Len(heap) : heap[a].destroys <= 1
       /\ usable => \A a \in 1..Len(heap) : heap[a].destroys = 1

OwnershipInv ==
  /\ StoredOnce /\ DestructorMatchesValue /\ LiveUntilClosed
  /\ SlotsFresh /\ NewDestructorsMatch /\ UnfilledSlots
  /\ NothingLost /\ DestroyedSoFar

LEMMA InitOwned == Init => OwnershipInv
BY DEF Init, OwnershipInv, StoredOnce, DestructorMatchesValue, LiveUntilClosed,
       SlotsFresh, NewDestructorsMatch, UnfilledSlots, NothingLost, DestroyedSoFar,
       RunPhases

\* Where the slot of a new variable is, and what it may hold.
LEMMA SlotOfNew ==
  ASSUME Inv, pc \in RunPhases
  PROVE  /\ Len(sessionVars) \in Nat /\ Len(newVars) \in Nat /\ Len(heap) \in Nat
         /\ Len(slots) = Len(sessionVars) + Len(newVars)
         /\ Len(destroyers) = Len(slots)
         /\ \A i \in 1..Len(newVars) :
              /\ Len(sessionVars) + i \in 1..Len(slots)
              /\ NewSlot(i) \in 0..Len(heap)
              /\ destroyers[Len(sessionVars) + i] \in Types \union {NoDestroy}
<1>1. /\ Len(sessionVars) \in Nat /\ Len(newVars) \in Nat /\ Len(heap) \in Nat
      /\ Len(slots) = Len(sessionVars) + Len(newVars) /\ Len(destroyers) = Len(slots)
      /\ slots \in Seq(0..Len(heap)) /\ destroyers \in Seq(Types \union {NoDestroy})
  BY Lengths DEF Inv, TypeOK, SlotsInv
<1>2. \A i \in 1..Len(newVars) : Len(sessionVars) + i \in 1..Len(slots)
  BY <1>1
<1>3. \A k \in 1..Len(slots) :
        slots[k] \in 0..Len(heap) /\ destroyers[k] \in Types \union {NoDestroy}
  BY <1>1, ElementOfSeq
<1> QED BY <1>1, <1>2, <1>3 DEF NewSlot

LEMMA StorageInHeap ==
  ASSUME Inv
  PROVE  \A i \in 1..Len(sessionVars) : sessionVars[i].storage \in 1..Len(heap)
<1>1. \A i \in 1..Len(sessionVars) : sessionVars[i] \in SessionVar
  BY ElementOfSeq DEF Inv, TypeOK
<1> QED BY <1>1 DEF SessionVar

\* Steps outside a run and before the end leave the owners alone.
LEMMA OutsideOwned ==
  ASSUME OwnershipInv, UNCHANGED <<heap, sessionVars>>,
         pc \notin RunPhases \union ClosePhases, pc' \notin RunPhases \union ClosePhases,
         usable' => usable, pendingRuntimeError' => pendingRuntimeError
  PROVE  OwnershipInv'
<1>1. StoredOnce' /\ DestructorMatchesValue' /\ LiveUntilClosed'
  BY DEF OwnershipInv, StoredOnce, DestructorMatchesValue, LiveUntilClosed
<1>2. SlotsFresh' /\ NewDestructorsMatch' /\ UnfilledSlots' /\ DestroyedSoFar'
  BY DEF OwnershipInv, SlotsFresh, NewDestructorsMatch, UnfilledSlots, DestroyedSoFar,
     RunPhases, ClosePhases
<1>3. NothingLost'
  BY DEF OwnershipInv, NothingLost, Held, ClosePhases
<1> QED BY <1>1, <1>2, <1>3 DEF OwnershipInv

\* A run that ends without new variables has published nothing, or ends the session.
LEMMA LeaveOwned ==
  ASSUME Inv, OwnershipInv, UNCHANGED <<heap, sessionVars>>,
         pc \in RunPhases, pc' = "idle", pendingRuntimeError' = FALSE,
         \/ usable' = FALSE
         \/ usable' = usable /\ pc = "returned" /\ pendingRuntimeError
  PROVE  OwnershipInv'
<1>0. pc \notin ClosePhases
  BY DEF RunPhases, ClosePhases
<1>1. StoredOnce' /\ DestructorMatchesValue' /\ LiveUntilClosed'
  BY <1>0 DEF OwnershipInv, StoredOnce, DestructorMatchesValue, LiveUntilClosed,
     ClosePhases
<1>2. SlotsFresh' /\ NewDestructorsMatch' /\ UnfilledSlots' /\ DestroyedSoFar'
  BY DEF OwnershipInv, SlotsFresh, NewDestructorsMatch, UnfilledSlots, DestroyedSoFar,
     RunPhases
<1>3. NothingLost'
  <2>1. CASE usable' = FALSE
    BY <2>1 DEF NothingLost
  <2>2. CASE usable' = usable /\ pc = "returned" /\ pendingRuntimeError
    <3>1. \A i \in 1..Len(newVars) : NewSlot(i) = 0
      BY <2>2 DEF OwnershipInv, UnfilledSlots, Null
    <3>2. Len(heap) \in Nat
      BY Lengths DEF Inv
    <3> QED BY <2>2, <3>1, <3>2 DEF OwnershipInv, NothingLost, Held
  <2> QED BY <2>1, <2>2
<1> QED BY <1>1, <1>2, <1>3 DEF OwnershipInv

LEMMA CommitOwned ==
  ASSUME Inv, OwnershipInv, Commit PROVE OwnershipInv'
<1>1. /\ pc = "commit" /\ pc' = "body"
      /\ UNCHANGED <<heap, sessionVars, newVars, persisted, pendingRuntimeError, usable>>
  BY DEF Commit, Proceed, storageVars, parseVars
<1>2. Len(sessionVars) \in Nat /\ Len(newVars) \in Nat
  BY Lengths DEF Inv
<1>3. \A i \in 1..Len(newVars) : NewSlot(i)' = Null
  BY <1>1, <1>2 DEF Commit, NewSlot
<1>4. StoredOnce' /\ DestructorMatchesValue' /\ LiveUntilClosed'
  BY <1>1 DEF OwnershipInv, StoredOnce, DestructorMatchesValue, LiveUntilClosed,
     ClosePhases
<1>5. SlotsFresh' /\ UnfilledSlots' /\ DestroyedSoFar'
  <2>1. \A i \in 1..Len(newVars) : destroyers'[Len(sessionVars) + i] = NoDestroy
    BY <1>2 DEF Commit, EmptyDestroyers
  <2> QED
    BY <1>1, <1>3, <2>1 DEF OwnershipInv, SlotsFresh, UnfilledSlots, DestroyedSoFar
<1>6. NewDestructorsMatch'
  BY <1>1, <1>3 DEF NewDestructorsMatch, Initialised, NewSlot
<1>7. NothingLost'
  BY <1>1 DEF OwnershipInv, NothingLost, Held, RunPhases
<1> QED BY <1>4, <1>5, <1>6, <1>7 DEF OwnershipInv

LEMMA BodyOwned ==
  ASSUME Inv, OwnershipInv,
         BodyCompletes \/ BodyRaises \/ BodyReturns \/ EpilogueCompletes
  PROVE  OwnershipInv'
<1>1. /\ pc \in RunPhases /\ pc' \in {"epilogue", "returned"}
      /\ UNCHANGED <<heap, sessionVars, cell, newVars, slots, destroyers, persisted,
                     usable>>
  BY DEF BodyCompletes, BodyRaises, BodyReturns, EpilogueCompletes, Proceed, RunPhases,
     storageVars, parseVars, runVars
<1>2. StoredOnce' /\ DestructorMatchesValue' /\ LiveUntilClosed'
  BY <1>1 DEF OwnershipInv, StoredOnce, DestructorMatchesValue, LiveUntilClosed,
     ClosePhases, RunPhases
<1>3. SlotsFresh' /\ DestroyedSoFar'
  BY <1>1 DEF OwnershipInv, SlotsFresh, DestroyedSoFar, NewSlot
<1>4. NewDestructorsMatch'
  BY <1>1 DEF OwnershipInv, NewDestructorsMatch, Initialised, NewSlot
<1>5. UnfilledSlots'
  BY <1>1 DEF OwnershipInv, UnfilledSlots, NewSlot, BodyCompletes, BodyRaises,
     BodyReturns, EpilogueCompletes, Proceed, runVars, RunPhases
<1>6. NothingLost'
  BY <1>1 DEF OwnershipInv, NothingLost, Held, NewSlot, RunPhases
<1> QED BY <1>2, <1>3, <1>4, <1>5, <1>6 DEF OwnershipInv

\* The epilogue publishes a new allocation in a slot that was null.
LEMMA PersistOwned ==
  ASSUME Inv, OwnershipInv, PersistVariable PROVE OwnershipInv'
<1> DEFINE new == [type |-> cell.vars[persisted + 1].type,
                   cell |-> cellID, destroys |-> 0]
<1> DEFINE k == persisted + 1
<1> DEFINE address == Len(heap) + 1
<1>1. /\ pc = "epilogue" /\ pc' = "register" /\ heap' = Append(heap, new)
      /\ slots' = [slots EXCEPT ![NextSlot] = address]
      /\ persisted < Len(newVars)
      /\ UNCHANGED <<sessionVars, cell, newVars, destroyers, persisted,
                     pendingRuntimeError, usable>>
  BY DEF PersistVariable, Proceed, parseVars
<1>2. pc \in RunPhases /\ pc' \in RunPhases /\ pc \notin ClosePhases
  BY <1>1 DEF RunPhases, ClosePhases
<1>3. /\ Len(sessionVars) \in Nat /\ Len(newVars) \in Nat /\ Len(heap) \in Nat
      /\ persisted \in Nat /\ k \in 1..Len(newVars)
      /\ NextSlot = Len(sessionVars) + k
  BY <1>1, <1>2, NextSlotIndex, SlotOfNew
<1>4. heap \in Seq(Allocation) /\ new \in Allocation
  <2>1. cell.vars[persisted + 1] \in DeclaredVar
    BY <1>1, <1>2, NextSlotIndex
  <2> QED BY <2>1 DEF Inv, TypeOK, Allocation, DeclaredVar
<1>5. /\ Len(heap') = Len(heap) + 1 /\ heap'[address] = new
      /\ \A a \in 1..Len(heap) : heap'[a] = heap[a]
  BY <1>1, <1>4, AppendProperties
<1>6. /\ NewSlot(k)' = address
      /\ \A i \in 1..Len(newVars) : i # k => NewSlot(i)' = NewSlot(i)
  <2>1. /\ slots \in Seq(0..Len(heap))
        /\ \A i \in 1..Len(newVars) : Len(sessionVars) + i \in 1..Len(slots)
    BY <1>2, SlotOfNew DEF Inv, TypeOK
  <2>2. DOMAIN slots = 1..Len(slots)
    BY <2>1
  <2>3. slots'[Len(sessionVars) + k] = address
    BY <1>1, <1>3, <2>1, <2>2
  <2>4. \A i \in 1..Len(newVars) : i # k =>
          slots'[Len(sessionVars) + i] = slots[Len(sessionVars) + i]
    BY <1>1, <1>3, <2>1, <2>2
  <2> QED BY <1>1, <2>3, <2>4 DEF NewSlot
<1>7. /\ \A i \in 1..Len(newVars) : NewSlot(i) \in 0..Len(heap)
      /\ \A j \in 1..Len(sessionVars) : sessionVars[j].storage \in 1..Len(heap)
      /\ NewSlot(k) = Null
  <2>1. NewSlot(k) = Null
    BY <1>1, <1>3 DEF OwnershipInv, UnfilledSlots, RunPhases
  <2> QED BY <1>2, <2>1, SlotOfNew, StorageInHeap
<1> HIDE DEF new, k, address
<1>8. address = Len(heap) + 1 /\ new.destroys = 0 /\ new.type = cell.vars[k].type
      /\ k = persisted + 1 /\ k' = k
  BY <1>1 DEF new, k, address
<1>9. StoredOnce' /\ DestructorMatchesValue'
  BY <1>1, <1>3, <1>5, <1>7 DEF OwnershipInv, StoredOnce, DestructorMatchesValue
<1>10. LiveUntilClosed'
  BY <1>2, <1>3, <1>5, <1>8 DEF OwnershipInv, LiveUntilClosed
<1>11. SlotsFresh'
  <2>1. \A i \in 1..Len(newVars), j \in 1..Len(sessionVars) :
          NewSlot(i)' # Null => sessionVars[j].storage # NewSlot(i)'
    <3> SUFFICES ASSUME NEW i \in 1..Len(newVars), NEW j \in 1..Len(sessionVars),
                        NewSlot(i)' # Null
                 PROVE  sessionVars[j].storage # NewSlot(i)'
      OBVIOUS
    <3>1. CASE i = k
      BY <1>3, <1>6, <1>7, <1>8, <3>1
    <3>2. CASE i # k
      BY <1>2, <1>6, <3>2 DEF OwnershipInv, SlotsFresh
    <3> QED BY <3>1, <3>2
  <2>2. \A i, j \in 1..Len(newVars) :
          NewSlot(i)' # Null /\ NewSlot(i)' = NewSlot(j)' => i = j
    <3> SUFFICES ASSUME NEW i \in 1..Len(newVars), NEW j \in 1..Len(newVars),
                        NewSlot(i)' # Null, NewSlot(i)' = NewSlot(j)'
                 PROVE  i = j
      OBVIOUS
    <3>1. \A h \in 1..Len(newVars) : h # k => NewSlot(h)' # address
      BY <1>3, <1>6, <1>7, <1>8
    <3>2. CASE i = k \/ j = k
      BY <1>6, <1>8, <3>1, <3>2
    <3>3. CASE i # k /\ j # k
      BY <1>2, <1>6, <3>3 DEF OwnershipInv, SlotsFresh
    <3> QED BY <3>2, <3>3
  <2> QED BY <1>1, <2>1, <2>2 DEF SlotsFresh
<1>12. NewDestructorsMatch'
  <2>1. heap'[NewSlot(k)'].type = cell.vars[k].type /\ NewSlot(k)' # Null
    BY <1>3, <1>5, <1>6, <1>8 DEF Null
  <2>2. destroyers[Len(sessionVars) + k] = NoDestroy
    <3>1. \A i \in 1..Len(newVars) :
            i > persisted => destroyers[Len(sessionVars) + i] = NoDestroy
      BY <1>1 DEF OwnershipInv, UnfilledSlots
    <3>2. k > persisted
      BY <1>3, <1>8
    <3> QED BY <1>3, <3>1, <3>2
  <2>3. ASSUME NEW i \in 1..Len(newVars), Initialised(i)'
        PROVE  destroyers[Len(sessionVars) + i] = heap'[NewSlot(i)'].type
    <3>1. i # k
      BY <1>1, <2>2, <2>3 DEF Initialised
    <3>2. NewSlot(i)' = NewSlot(i) /\ NewSlot(i) # Null
          /\ destroyers[Len(sessionVars) + i] # NoDestroy
      BY <1>1, <1>6, <2>3, <3>1 DEF Initialised, NewSlot
    <3>3. Initialised(i)
      BY <3>2 DEF Initialised, NewSlot
    <3>4. destroyers[Len(sessionVars) + i] = heap[NewSlot(i)].type
      BY <1>2, <3>3 DEF OwnershipInv, NewDestructorsMatch
    <3>5. NewSlot(i) \in 1..Len(heap)
      BY <1>3, <1>7, <3>2 DEF Null
    <3> QED BY <1>5, <3>2, <3>4, <3>5
  <2> QED BY <1>1, <1>8, <2>1, <2>3 DEF NewDestructorsMatch
<1>13. UnfilledSlots'
  BY <1>1, <1>3, <1>6, <1>8 DEF OwnershipInv, UnfilledSlots, RunPhases
<1>14. NothingLost'
  <2>1. ASSUME usable, NEW a \in 1..Len(heap') PROVE Held(a)'
    <3>1. CASE a = address
      BY <1>1, <1>2, <1>3, <1>6, <1>8, <3>1 DEF Held
    <3>2. CASE a # address
      <4>1. a \in 1..Len(heap)
        BY <1>3, <1>5, <1>8, <3>2
      <4>2. Held(a)
        BY <1>1, <2>1, <4>1 DEF OwnershipInv, NothingLost
      <4>3. a # Null
        BY <1>3, <4>1 DEF Null
      <4> QED BY <1>1, <1>2, <1>6, <1>7, <4>2, <4>3 DEF Held
    <3> QED BY <3>1, <3>2
  <2> QED BY <1>1, <2>1 DEF NothingLost
<1>15. DestroyedSoFar'
  BY <1>1 DEF DestroyedSoFar
<1> QED BY <1>9, <1>10, <1>11, <1>12, <1>13, <1>14, <1>15 DEF OwnershipInv

\* The destructor that is registered is that of the value just published.
LEMMA RegisterOwned ==
  ASSUME Inv, OwnershipInv, RegisterPersistent PROVE OwnershipInv'
<1> DEFINE k == persisted + 1
<1>1. /\ pc = "register" /\ pc' = "epilogue" /\ persisted' = persisted + 1
      /\ UNCHANGED <<heap, sessionVars, cell, newVars, slots, pendingRuntimeError,
                     usable>>
  BY DEF RegisterPersistent, Proceed, storageVars, parseVars
<1>2. pc \in RunPhases /\ pc' \in RunPhases /\ pc \notin ClosePhases
  BY <1>1 DEF RunPhases, ClosePhases
<1>3. /\ Len(sessionVars) \in Nat /\ Len(newVars) \in Nat /\ Len(heap) \in Nat
      /\ persisted \in Nat /\ k \in 1..Len(newVars)
      /\ NextSlot = Len(sessionVars) + k /\ NextSlot \in 1..Len(destroyers)
  <2>1. persisted < Len(newVars)
    BY <1>1 DEF Inv, ControlInv
  <2> QED BY <1>2, <2>1, NextSlotIndex, SlotOfNew
<1>4. destroyers' = [destroyers EXCEPT ![NextSlot] = cell.vars[k].type]
  BY <1>3 DEF RegisterPersistent, InTable
<1>5. /\ destroyers'[Len(sessionVars) + k] = cell.vars[k].type
      /\ \A i \in 1..Len(newVars) : i # k =>
           destroyers'[Len(sessionVars) + i] = destroyers[Len(sessionVars) + i]
  <2>1. DOMAIN destroyers = 1..Len(destroyers)
    <3>1. destroyers \in Seq(Types \union {NoDestroy})
      BY DEF Inv, TypeOK
    <3> QED BY <3>1
  <2> QED BY <1>3, <1>4, <2>1
<1>6. /\ NewSlot(k) # Null /\ heap[NewSlot(k)].type = cell.vars[k].type
      /\ \A i \in 1..Len(newVars) : NewSlot(i)' = NewSlot(i)
  BY <1>1 DEF OwnershipInv, NewDestructorsMatch, NewSlot
<1> HIDE DEF k
<1>7. StoredOnce' /\ DestructorMatchesValue' /\ LiveUntilClosed'
  BY <1>1, <1>2 DEF OwnershipInv, StoredOnce, DestructorMatchesValue, LiveUntilClosed
<1>8. SlotsFresh' /\ DestroyedSoFar'
  BY <1>1, <1>2, <1>6 DEF OwnershipInv, SlotsFresh, DestroyedSoFar
<1>9. NewDestructorsMatch'
  <2>1. ASSUME NEW i \in 1..Len(newVars), Initialised(i)'
        PROVE  destroyers'[Len(sessionVars) + i] = heap[NewSlot(i)].type
    <3>1. CASE i = k
      BY <1>5, <1>6, <3>1
    <3>2. CASE i # k
      <4>1. Initialised(i)
        BY <1>1, <1>5, <2>1, <3>2 DEF Initialised
      <4> QED BY <1>2, <1>5, <3>2, <4>1 DEF OwnershipInv, NewDestructorsMatch
    <3> QED BY <3>1, <3>2
  <2> QED BY <1>1, <1>6, <2>1 DEF NewDestructorsMatch
<1>10. UnfilledSlots'
  <2>1. pc' # "returned" => ~pendingRuntimeError'
    BY <1>1 DEF OwnershipInv, UnfilledSlots
  <2>2. \A i \in 1..Len(newVars) : i > persisted + 1 => NewSlot(i)' = Null
    BY <1>1, <1>2, <1>6 DEF OwnershipInv, UnfilledSlots
  <2>3. \A i \in 1..Len(newVars) : i > persisted + 1 =>
          destroyers'[Len(sessionVars) + i] = NoDestroy
    <3>1. \A i \in 1..Len(newVars) :
            i > persisted => destroyers[Len(sessionVars) + i] = NoDestroy
      BY <1>1 DEF OwnershipInv, UnfilledSlots
    <3> QED BY <1>3, <1>5, <3>1 DEF k
  <2> QED BY <1>1, <2>1, <2>2, <2>3 DEF UnfilledSlots
<1>11. NothingLost'
  BY <1>1, <1>2, <1>6 DEF OwnershipInv, NothingLost, Held
<1> QED BY <1>7, <1>8, <1>9, <1>10, <1>11 DEF OwnershipInv

\* The first n new variables become the owners of what their slots hold.
LEMMA CollectOwned ==
  ASSUME Inv, OwnershipInv, pc = "returned", NEW n \in 0..Len(newVars),
         \A i \in 1..n : Initialised(i),
         sessionVars' = sessionVars \o Collected(n), heap' = heap,
         pc' = "idle", pendingRuntimeError' = FALSE,
         usable' = FALSE \/ n = Len(newVars), usable' => usable
  PROVE  OwnershipInv'
<1> DEFINE m == Len(sessionVars)
<1>1. pc \in RunPhases /\ pc \notin ClosePhases /\ pc' \notin RunPhases \union ClosePhases
  BY DEF RunPhases, ClosePhases
<1>2. /\ m \in Nat /\ Len(newVars) \in Nat /\ Len(heap) \in Nat
      /\ sessionVars \in Seq(SessionVar)
  BY Lengths DEF Inv, TypeOK
<1>3. /\ Collected(n) \in Seq(SessionVar) /\ Len(Collected(n)) = n
      /\ \A i \in 1..n : /\ Collected(n)[i].storage = NewSlot(i)
                         /\ Collected(n)[i].destroy = destroyers[m + i]
  BY <1>1, CollectedType DEF Collected, NewSlot
<1>4. /\ Len(sessionVars') = m + n
      /\ \A i \in 1..m : sessionVars'[i] = sessionVars[i]
      /\ \A i \in 1..n : sessionVars'[m + i] = Collected(n)[i]
  <2>1. /\ Len(sessionVars') = m + n
        /\ \A i \in 1..(m + n) :
             sessionVars'[i] = IF i <= m THEN sessionVars[i] ELSE Collected(n)[i - m]
    <3>1. sessionVars \in Seq(SessionVar) /\ Len(sessionVars) \in Nat
      BY <1>2
    <3>2. Collected(n) \in Seq(SessionVar) /\ Len(Collected(n)) = n
      BY <1>3
    <3>3. /\ Len(sessionVars') = Len(sessionVars) + n
          /\ \A i \in 1..(Len(sessionVars) + n) :
               sessionVars'[i] = IF i <= Len(sessionVars) THEN sessionVars[i]
                                 ELSE Collected(n)[i - Len(sessionVars)]
      BY <3>1, <3>2, ConcatProperties
    <3> QED BY <3>3
  <2>2. ASSUME NEW i \in 1..n PROVE sessionVars'[m + i] = Collected(n)[i]
    <3>1. m + i \in 1..(m + n) /\ ~(m + i <= m) /\ (m + i) - m = i
      BY <1>2
    <3> QED BY <2>1, <3>1
  <2>3. \A i \in 1..m : sessionVars'[i] = sessionVars[i]
    BY <1>2, <2>1
  <2> QED BY <2>1, <2>2, <2>3
<1>5. \A i \in 1..n : /\ i \in 1..Len(newVars) /\ NewSlot(i) # Null
                     /\ NewSlot(i) \in 1..Len(heap)
                     /\ destroyers[m + i] = heap[NewSlot(i)].type
  <2>1. \A i \in 1..n : i \in 1..Len(newVars) /\ NewSlot(i) # Null
    BY <1>2 DEF Initialised, NewSlot
  <2>2. \A i \in 1..n : NewSlot(i) \in 0..Len(heap)
    BY <1>1, <2>1, SlotOfNew
  <2>3. \A i \in 1..n : destroyers[m + i] = heap[NewSlot(i)].type
    BY <1>1, <2>1 DEF OwnershipInv, NewDestructorsMatch
  <2> QED BY <1>2, <2>1, <2>2, <2>3 DEF Null
<1> HIDE DEF m
<1>6. \A i \in 1..Len(sessionVars') :
        \/ i \in 1..m
        \/ \E j \in 1..n : i = m + j
  <2> SUFFICES ASSUME NEW i \in 1..Len(sessionVars'), i \notin 1..m
               PROVE  \E j \in 1..n : i = m + j
    OBVIOUS
  <2>1. i - m \in 1..n /\ i = m + (i - m)
    BY <1>2, <1>4
  <2> QED BY <2>1
<1>7. StoredOnce'
  <2> SUFFICES ASSUME NEW i \in 1..Len(sessionVars'), NEW j \in 1..Len(sessionVars'),
                      sessionVars'[i].storage = sessionVars'[j].storage
               PROVE  i = j
    BY DEF StoredOnce
  <2>1. CASE i \in 1..m /\ j \in 1..m
    BY <1>4, <2>1 DEF OwnershipInv, StoredOnce, m
  <2>2. ASSUME NEW h \in 1..n, i = m + h, j \in 1..m PROVE FALSE
    BY <1>1, <1>3, <1>4, <1>5, <2>2 DEF OwnershipInv, SlotsFresh, m
  <2>3. ASSUME NEW h \in 1..n, j = m + h, i \in 1..m PROVE FALSE
    BY <1>1, <1>3, <1>4, <1>5, <2>3 DEF OwnershipInv, SlotsFresh, m
  <2>4. ASSUME NEW h \in 1..n, NEW g \in 1..n, i = m + h, j = m + g PROVE i = j
    <3>1. NewSlot(h) = NewSlot(g) /\ NewSlot(h) # Null
          /\ h \in 1..Len(newVars) /\ g \in 1..Len(newVars)
      BY <1>3, <1>4, <1>5, <2>4
    <3>2. h = g
      BY <1>1, <3>1 DEF OwnershipInv, SlotsFresh
    <3> QED BY <2>4, <3>2
  <2> QED BY <1>6, <2>1, <2>2, <2>3, <2>4
<1>8. DestructorMatchesValue'
  <2>1. \A i \in 1..m : sessionVars'[i].storage \in 1..Len(heap)
                         /\ sessionVars'[i].destroy = heap[sessionVars'[i].storage].type
    BY <1>4 DEF OwnershipInv, DestructorMatchesValue, m
  <2>2. \A i \in 1..n :
          /\ sessionVars'[m + i].storage \in 1..Len(heap)
          /\ sessionVars'[m + i].destroy = heap[sessionVars'[m + i].storage].type
    <3> SUFFICES ASSUME NEW i \in 1..n
                 PROVE  /\ sessionVars'[m + i].storage \in 1..Len(heap)
                        /\ sessionVars'[m + i].destroy
                             = heap[sessionVars'[m + i].storage].type
      OBVIOUS
    <3>1. /\ sessionVars'[m + i].storage = NewSlot(i)
          /\ sessionVars'[m + i].destroy = destroyers[m + i]
      BY <1>3, <1>4
    <3> QED BY <1>5, <3>1
  <2> QED BY <1>6, <2>1, <2>2 DEF DestructorMatchesValue
<1>9. LiveUntilClosed' /\ SlotsFresh' /\ NewDestructorsMatch' /\ UnfilledSlots'
      /\ DestroyedSoFar'
  BY <1>1 DEF OwnershipInv, LiveUntilClosed, SlotsFresh, NewDestructorsMatch,
     UnfilledSlots, DestroyedSoFar, RunPhases, ClosePhases
<1>10. NothingLost'
  <2> SUFFICES ASSUME usable', NEW a \in 1..Len(heap)
               PROVE  \E i \in 1..Len(sessionVars') : sessionVars'[i].storage = a
    BY DEF NothingLost, Held
  <2>1. Held(a) /\ n = Len(newVars)
    BY <1>1 DEF OwnershipInv, NothingLost, ClosePhases
  <2>2. CASE \E i \in 1..m : sessionVars[i].storage = a
    <3>1. PICK i \in 1..m : sessionVars[i].storage = a
      BY <2>2
    <3>2. i \in 1..Len(sessionVars') /\ sessionVars'[i].storage = a
      BY <1>2, <1>4, <3>1 DEF m
    <3> QED BY <3>2
  <2>3. CASE \E i \in 1..Len(newVars) : NewSlot(i) = a
    <3>1. PICK i \in 1..n : NewSlot(i) = a
      BY <2>1, <2>3
    <3>2. m + i \in 1..Len(sessionVars') /\ sessionVars'[m + i].storage = a
      BY <1>2, <1>3, <1>4, <3>1 DEF m
    <3> QED BY <3>2
  <2> QED BY <2>1, <2>2, <2>3 DEF Held, m
<1> QED BY <1>7, <1>8, <1>9, <1>10 DEF OwnershipInv

LEMMA DestroyOwned ==
  ASSUME Inv, OwnershipInv, DestroyVariable PROVE OwnershipInv'
<1> DEFINE a == sessionVars[persisted].storage
<1>1. /\ heap' = [heap EXCEPT ![a].destroys = @ + 1] /\ pc = "destroying" /\ pc' = pc
      /\ persisted > 0 /\ persisted' = persisted - 1
      /\ UNCHANGED <<sessionVars, usable, pendingRuntimeError>>
  BY DEF DestroyVariable, NextToDestroy
<1>2. /\ persisted \in Nat /\ persisted \in 1..Len(sessionVars)
      /\ Len(sessionVars) \in Nat
  <2>1. persisted \in Nat /\ Len(sessionVars) \in Nat
    BY Lengths DEF Inv, TypeOK
  <2>2. persisted <= Len(sessionVars)
    BY <1>1 DEF Inv, ControlInv
  <2> QED BY <1>1, <2>1, <2>2
<1>3. a \in 1..Len(heap) /\ heap[a].destroys = 0
  BY <1>1, <1>2, StorageInHeap DEF OwnershipInv, DestroyedSoFar
<1>4. heap \in Seq(Allocation) /\ \A b \in 1..Len(heap) : heap[b] \in Allocation
  BY ElementOfSeq DEF Inv, TypeOK
<1>5. /\ Len(heap') = Len(heap)
      /\ \A b \in 1..Len(heap) : heap'[b].type = heap[b].type
      /\ heap'[a].destroys = 1
      /\ \A b \in 1..Len(heap) : b # a => heap'[b].destroys = heap[b].destroys
  BY <1>1, <1>3, <1>4, LenProperties DEF Allocation
<1>6. \A i \in 1..Len(sessionVars) : i # persisted => sessionVars[i].storage # a
  BY <1>2 DEF OwnershipInv, StoredOnce
<1>7. \A i \in 1..Len(sessionVars) : sessionVars[i].storage \in 1..Len(heap)
  BY StorageInHeap
<1>8. DestroyedSoFar'
  <2>1. \A b \in 1..Len(heap') : heap'[b].destroys <= 1
    BY <1>1, <1>5 DEF OwnershipInv, DestroyedSoFar
  <2>2. \A i \in 1..Len(sessionVars) :
          heap'[sessionVars[i].storage].destroys = IF i <= persisted' THEN 0 ELSE 1
    <3> HIDE DEF a
    <3>1. ASSUME NEW i \in 1..Len(sessionVars), i # persisted
          PROVE  heap'[sessionVars[i].storage].destroys
                   = IF i <= persisted' THEN 0 ELSE 1
      <4>1. heap'[sessionVars[i].storage].destroys = heap[sessionVars[i].storage].destroys
        BY <1>5, <1>6, <1>7, <3>1
      <4>2. heap[sessionVars[i].storage].destroys = IF i <= persisted THEN 0 ELSE 1
        BY <1>1 DEF OwnershipInv, DestroyedSoFar
      <4> QED BY <1>1, <1>2, <3>1, <4>1, <4>2
    <3>2. heap'[sessionVars[persisted].storage].destroys = 1 /\ ~(persisted <= persisted')
      BY <1>1, <1>2, <1>5 DEF a
    <3> QED BY <3>1, <3>2
  <2> QED BY <1>1, <2>1, <2>2 DEF DestroyedSoFar
<1>9. StoredOnce' /\ DestructorMatchesValue'
  BY <1>1, <1>5, <1>7 DEF OwnershipInv, StoredOnce, DestructorMatchesValue
<1>10. LiveUntilClosed' /\ SlotsFresh' /\ NewDestructorsMatch' /\ UnfilledSlots'
  BY <1>1 DEF OwnershipInv, LiveUntilClosed, SlotsFresh, NewDestructorsMatch,
     UnfilledSlots, RunPhases, ClosePhases
<1>11. NothingLost'
  BY <1>1, <1>5 DEF OwnershipInv, NothingLost, Held, RunPhases
<1> QED BY <1>8, <1>9, <1>10, <1>11 DEF OwnershipInv

LEMMA CloseOwned ==
  ASSUME Inv, OwnershipInv, Close \/ ClearVariables \/ TearDownEngine
  PROVE  OwnershipInv'
<1>1. CASE Close
  <2>1. /\ pc = "idle" /\ pc' = "destroying" /\ persisted' = Len(sessionVars)
        /\ UNCHANGED <<sessionVars, heap, usable, pendingRuntimeError>>
    BY <1>1 DEF Close, Proceed, storageVars
  <2>2. \A a \in 1..Len(heap) : heap[a].destroys = 0
    BY <2>1 DEF OwnershipInv, LiveUntilClosed, ClosePhases
  <2>3. DestroyedSoFar'
    BY <2>1, <2>2, StorageInHeap DEF DestroyedSoFar
  <2> QED
    BY <2>1, <2>3 DEF OwnershipInv, StoredOnce, DestructorMatchesValue,
       LiveUntilClosed, SlotsFresh, NewDestructorsMatch, UnfilledSlots, NothingLost,
       Held, RunPhases, ClosePhases
<1>2. CASE ClearVariables
  <2>1. /\ pc = "destroying" /\ persisted = 0 /\ pc' = "destroyed" /\ sessionVars' = <<>>
        /\ UNCHANGED <<heap, usable, pendingRuntimeError>>
    BY <1>2 DEF ClearVariables, Proceed, runVars
  <2>2. usable => \A a \in 1..Len(heap) : heap[a].destroys = 1
    <3> SUFFICES ASSUME usable, NEW a \in 1..Len(heap) PROVE heap[a].destroys = 1
      OBVIOUS
    <3>1. Held(a) /\ pc \notin RunPhases
      BY <2>1 DEF OwnershipInv, NothingLost, RunPhases
    <3>2. PICK i \in 1..Len(sessionVars) : sessionVars[i].storage = a
      BY <3>1 DEF Held
    <3>3. heap[a].destroys = IF i <= persisted THEN 0 ELSE 1
      BY <2>1, <3>2 DEF OwnershipInv, DestroyedSoFar
    <3> QED BY <2>1, <3>3
  <2>3. DestroyedSoFar'
    BY <2>1, <2>2 DEF OwnershipInv, DestroyedSoFar
  <2>4. Len(sessionVars') = 0
    BY <2>1
  <2> QED
    BY <2>1, <2>3, <2>4 DEF OwnershipInv, StoredOnce, DestructorMatchesValue,
       LiveUntilClosed, SlotsFresh, NewDestructorsMatch, UnfilledSlots, NothingLost,
       RunPhases, ClosePhases
<1>3. CASE TearDownEngine
  <2>1. /\ pc = "destroyed" /\ pc' = "gone"
        /\ UNCHANGED <<sessionVars, heap, usable, pendingRuntimeError>>
    BY <1>3 DEF TearDownEngine, Proceed, storageVars, runVars
  <2> QED
    BY <2>1 DEF OwnershipInv, StoredOnce, DestructorMatchesValue, LiveUntilClosed,
       SlotsFresh, NewDestructorsMatch, UnfilledSlots, NothingLost, DestroyedSoFar,
       RunPhases, ClosePhases
<1> QED BY <1>1, <1>2, <1>3

LEMMA StutterOwned ==
  ASSUME OwnershipInv, Refuse \/ UNCHANGED vars PROVE OwnershipInv'
<1>1. UNCHANGED <<heap, sessionVars, cell, newVars, slots, destroyers, persisted,
                  pendingRuntimeError, usable, pc>>
  BY DEF Refuse, vars, storageVars, parseVars, runVars
<1> QED
  BY <1>1 DEF OwnershipInv, StoredOnce, DestructorMatchesValue, LiveUntilClosed,
     SlotsFresh, NewDestructorsMatch, UnfilledSlots, NothingLost, DestroyedSoFar,
     Held, NewSlot, Initialised

LEMMA NextOwned == Inv /\ OwnershipInv /\ [Next]_vars => OwnershipInv'
<1> SUFFICES ASSUME Inv, OwnershipInv, [Next]_vars PROVE OwnershipInv'
  OBVIOUS
<1>1. CASE \E s \in Sources : Begin(s)
  BY <1>1, OutsideOwned DEF Begin, Proceed, storageVars, runVars, RunPhases, ClosePhases
<1>2. CASE ParseAccepts \/ RunKGENPipeline \/ EmitArchive
  BY <1>2, OutsideOwned DEF ParseAccepts, RunKGENPipeline, EmitArchive, Proceed,
     storageVars, runVars, RunPhases, ClosePhases
<1>3. CASE AddArchive \/ DefineRuntimeSymbols \/ LookupEntryPoint
  BY <1>3, OutsideOwned DEF AddArchive, DefineRuntimeSymbols, LookupEntryPoint, Proceed,
     storageVars, runVars, RunPhases, ClosePhases
<1>4. CASE ParseRejects \/ CompilationFails \/ JITFails
  <2>1. CASE ParseRejects \/ CompilationFails
    BY <2>1, OutsideOwned DEF ParseRejects, CompilationFails, Return, storageVars,
       RunPhases, ClosePhases
  <2>2. CASE JITFails
    <3>1. /\ UNCHANGED <<heap, sessionVars>> /\ pc \in {"add", "lookup", "define"}
          /\ pc' = "idle" /\ usable' = FALSE /\ pendingRuntimeError' = FALSE
      BY <2>2 DEF JITFails, Poison, Return, storageVars
    <3> QED BY <3>1, OutsideOwned DEF RunPhases, ClosePhases
  <2> QED BY <1>4, <2>1, <2>2
<1>5. CASE CellCrashes \/ ReportRuntimeError
  BY <1>5, LeaveOwned DEF CellCrashes, ReportRuntimeError, Poison, Return, storageVars,
     RunPhases
<1>6. CASE Succeed
  <2>1. Len(newVars) \in 0..Len(newVars)
    BY Lengths DEF Inv
  <2>2. /\ pc = "returned" /\ \A i \in 1..Len(newVars) : Initialised(i)
        /\ sessionVars' = sessionVars \o Collected(Len(newVars)) /\ heap' = heap
        /\ pc' = "idle" /\ pendingRuntimeError' = FALSE /\ usable' = usable
    BY <1>6 DEF Succeed, Return
  <2> QED BY <2>1, <2>2, CollectOwned
<1>7. CASE MissingStorage
  <2>1. PICK i \in 1..Len(newVars) :
          /\ \A j \in 1..(i - 1) : Initialised(j)
          /\ sessionVars' = sessionVars \o Collected(i - 1)
    BY <1>7 DEF MissingStorage
  <2>2. i - 1 \in 0..Len(newVars)
    BY <2>1, Lengths DEF Inv
  <2>3. /\ pc = "returned" /\ heap' = heap
        /\ pc' = "idle" /\ pendingRuntimeError' = FALSE /\ usable' = FALSE
    BY <1>7 DEF MissingStorage, Poison, Return
  <2> QED BY <2>1, <2>2, <2>3, CollectOwned
<1>8. CASE CompileStep
  BY <1>2, <1>3, <1>4, <1>8, CommitOwned DEF CompileStep
<1>9. CASE RunStep
  BY <1>5, <1>6, <1>7, <1>9, BodyOwned, PersistOwned, RegisterOwned DEF RunStep
<1>10. CASE Close \/ CloseStep
  BY <1>10, CloseOwned, DestroyOwned DEF CloseStep
<1> QED BY <1>1, <1>8, <1>9, <1>10, StutterOwned DEF Next

LEMMA OwnershipInvariance == Spec => []OwnershipInv
BY InitOwned, NextOwned, Invariance, PTL DEF Spec

\* Between two cells of a usable session every allocation that an epilogue has made
\* belongs to one variable, and the session that closes destroys all of them once.
THEOREM StorageHasOneOwner == Spec => []StorageOwnedOnce
<1>1. OwnershipInv => StorageOwnedOnce
  <2> SUFFICES ASSUME OwnershipInv PROVE StorageOwnedOnce
    OBVIOUS
  <2>1. ASSUME AtRest, usable, NEW a \in 1..Len(heap)
        PROVE  /\ heap[a].destroys = 0
               /\ \E i \in 1..Len(sessionVars) :
                    /\ sessionVars[i].storage = a
                    /\ \A j \in 1..Len(sessionVars) :
                         sessionVars[j].storage = a => i = j
    <3>1. pc = "idle" /\ pc \notin RunPhases \union ClosePhases
      BY <2>1 DEF AtRest, RunPhases, ClosePhases
    <3>2. Held(a) /\ heap[a].destroys = 0
      BY <2>1, <3>1 DEF OwnershipInv, NothingLost, LiveUntilClosed
    <3>3. PICK i \in 1..Len(sessionVars) : sessionVars[i].storage = a
      BY <3>1, <3>2 DEF Held
    <3> QED BY <3>2, <3>3 DEF OwnershipInv, StoredOnce
  <2>2. pc \in {"destroyed", "gone"} /\ usable =>
          \A a \in 1..Len(heap) : heap[a].destroys = 1
    BY DEF OwnershipInv, DestroyedSoFar
  <2> QED BY <2>1, <2>2 DEF StorageOwnedOnce
<1> QED BY <1>1, OwnershipInvariance, PTL

\* The destructor of the session destroys its variables in reverse order of their
\* declaration, each once and with the destructor of the type of its value.
THEOREM DestructionIsReversed == Spec => []DestroyedInReverse
<1>1. Inv /\ OwnershipInv => DestroyedInReverse
  <2> SUFFICES ASSUME Inv, OwnershipInv PROVE DestroyedInReverse
    OBVIOUS
  <2>1. /\ \A i \in 1..Len(sessionVars) : sessionVars[i].storage \in 1..Len(heap)
        /\ Len(sessionVars) \in Nat /\ persisted \in Nat
    BY StorageInHeap, Lengths DEF Inv, TypeOK
  <2>2. CASE pc \notin ClosePhases
    BY <2>1, <2>2 DEF OwnershipInv, LiveUntilClosed, DestroyedOnce, DestroyedInReverse
  <2>3. CASE pc = "destroying"
    <3>1. ASSUME NEW i \in 1..Len(sessionVars), NEW j \in 1..Len(sessionVars), i < j,
                 heap[sessionVars[i].storage].destroys > 0
          PROVE  heap[sessionVars[j].storage].destroys > 0
      <4>1. ~(i <= persisted)
        BY <2>3, <3>1 DEF OwnershipInv, DestroyedSoFar
      <4>2. ~(j <= persisted)
        BY <2>1, <3>1, <4>1
      <4> QED BY <2>3, <4>2 DEF OwnershipInv, DestroyedSoFar
    <3> QED
      BY <2>3, <3>1 DEF OwnershipInv, DestroyedSoFar, DestroyedOnce, DestroyedInReverse
  <2>4. CASE pc \in {"destroyed", "gone"}
    <3>1. Len(sessionVars) = 0
      BY <2>4 DEF OwnershipInv, DestroyedSoFar
    <3> QED
      BY <2>4, <3>1 DEF OwnershipInv, DestroyedSoFar, DestroyedOnce, DestroyedInReverse
  <2> QED BY <2>2, <2>3, <2>4 DEF ClosePhases
<1> QED BY <1>1, OwnershipInvariance, Invariance, PTL

-----------------------------------------------------------------------------
(* What a client of execute() is promised. *)

\* What the calls of execute() have agreed on between parsing and the commit.
PromiseInv ==
  /\ Executing => cellID = nextCellID - 1
  /\ ~Executing => cell = NoCell
  /\ pc \in ParsedPhases => module = BuildModule(committed, cell.decls, cellID)

LEMMA InitPromise == Init => PromiseInv
BY DEF Init, PromiseInv, Executing, ParsedPhases, CompilePhases, RunPhases

LEMMA NextPromise == Inv /\ PromiseInv /\ [Next]_vars => PromiseInv'
<1> SUFFICES ASSUME Inv, PromiseInv, [Next]_vars PROVE PromiseInv'
  OBVIOUS
<1> USE DEF PromiseInv, Executing, ParsedPhases, CompilePhases, RunPhases
<1>0. nextCellID \in Nat
  BY DEF Inv, TypeOK
<1>1. ASSUME NEW outcome, Return(outcome) PROVE PromiseInv'
  BY <1>1 DEF Return
<1>2. ASSUME NEW s \in Sources, Begin(s) PROVE PromiseInv'
  BY <1>0, <1>2 DEF Begin, Proceed, TakeCellID
<1>3. CASE ParseAccepts
  BY <1>3 DEF ParseAccepts, Proceed, parserVars
<1>4. CASE RunKGENPipeline \/ EmitArchive \/ AddArchive
  BY <1>4
  DEF RunKGENPipeline, EmitArchive, AddArchive, Proceed, parserVars, parseVars
<1>5. CASE DefineRuntimeSymbols \/ LookupEntryPoint
  BY <1>5
  DEF DefineRuntimeSymbols, LookupEntryPoint, Proceed, parserVars, parseVars
<1>6. CASE Commit \/ BodyCompletes \/ BodyRaises \/ BodyReturns
  BY <1>6 DEF Commit, BodyCompletes, BodyRaises, BodyReturns, Proceed, parseVars
<1>7. CASE PersistVariable \/ RegisterPersistent \/ EpilogueCompletes
  BY <1>7
  DEF PersistVariable, RegisterPersistent, EpilogueCompletes, Proceed, parseVars
<1>8. CASE ParseRejects \/ CompilationFails \/ JITFails \/ CellCrashes
  BY <1>1, <1>8
  DEF ParseRejects, CompilationFails, JITFails, CellCrashes, Poison
<1>9. CASE ReportRuntimeError \/ Succeed \/ MissingStorage
  BY <1>1, <1>9 DEF ReportRuntimeError, Succeed, MissingStorage, Poison
<1>10. CASE Close \/ CloseStep
  BY <1>10
  DEF Close, CloseStep, DestroyVariable, ClearVariables, TearDownEngine, Proceed,
      parseVars
<1>11. CASE Refuse \/ UNCHANGED vars
  BY <1>11 DEF Refuse, vars, parserVars, parseVars
<1> QED
  BY <1>2, <1>3, <1>4, <1>5, <1>6, <1>7, <1>8, <1>9, <1>10, <1>11
  DEF Next, CompileStep, RunStep

\* The status that a client sees.
StatusIs ==
  /\ pc = "idle" => PromiseStatus = IF usable THEN "ready" ELSE "unusable"
  /\ pc \in CompilePhases => PromiseStatus = "compiling"
  /\ pc \in RunPhases => PromiseStatus = "running"
  /\ pc \in ClosePhases => PromiseStatus = "closed"

LEMMA StatusIsSeen == StatusIs /\ StatusIs'
<1> USE DEF StatusIs, PromiseStatus, CompilePhases, RunPhases, ClosePhases
<1>1. StatusIs
  <2>1. CASE pc = "idle"
    BY <2>1
  <2>2. CASE pc \in CompilePhases
    BY <2>2
  <2>3. CASE pc \in RunPhases
    BY <2>3
  <2>4. CASE pc \in ClosePhases
    BY <2>4
  <2> QED BY <2>1, <2>2, <2>3, <2>4
<1> QED BY <1>1, PTL

\* If cells are faithful, what the parser resolved is what the cell declared.
LEMMA ResolvedIsDeclared ==
  ASSUME Faithful, cell \in Sources \union {NoCell}
  PROVE  ResolvedVars(cell) = Promise!Declared(cell)
<1>1. \A i \in 1..Len(cell.vars) : cell.vars[i].first = cell.vars[i].type
  <2>1. CASE cell \in Sources
    BY <2>1 DEF Faithful
  <2>2. CASE cell = NoCell
    <3>1. cell.vars = <<>> /\ Len(<<>>) = 0
      BY <2>2, EmptySeq DEF NoCell
    <3> QED BY <3>1
  <2> QED BY <2>1, <2>2
<1> QED BY <1>1 DEF ResolvedVars, Promise!Declared

LEMMA StepKeepsPromise ==
  Faithful /\ Inv /\ PromiseInv /\ [Next]_vars =>
    [Promise!PromiseNext]_(Promise!promiseVars)
<1> SUFFICES ASSUME Faithful, Inv, PromiseInv, [Next]_vars
             PROVE  [Promise!PromiseNext]_(Promise!promiseVars)
  OBVIOUS
<1> DEFINE Same == UNCHANGED <<committed, persistentVars>>
<1>0. /\ nextCellID \in Nat \ {0} /\ cell \in Sources \union {NoCell}
      /\ Executing => usable
      /\ StatusIs /\ StatusIs'
      /\ usable \in BOOLEAN
  BY StatusIsSeen DEF Inv, TypeOK, FlagsOK, ControlInv
<1>1. ASSUME NEW s \in Sources, Begin(s) PROVE Promise!Submit(s)
  BY <1>0, <1>1
  DEF StatusIs, Begin, Proceed, TakeCellID, parserVars, CompilePhases,
      Promise!Submit
<1>2. CASE Refuse
  <2>1. Promise!RefuseForGood
    BY <1>0, <1>2
    DEF StatusIs, Refuse, parserVars, parseVars, Promise!RefuseForGood
  <2> QED BY <2>1 DEF Promise!PromiseNext
<1>3. CASE ParseRejects \/ CompilationFails
  <2>1. pc \in CompilePhases /\ usable /\ Same /\ Return("diagnostics")
        /\ usable' = usable /\ nextCellID' = nextCellID
    BY <1>0, <1>3
    DEF ParseRejects, CompilationFails, parserVars, CompilePhases, Executing
  <2>2. Promise!Reject
    BY <1>0, <2>1 DEF StatusIs, Return, Promise!Reject, Promise!End
  <2> QED BY <2>2 DEF Promise!PromiseNext
<1>4. CASE JITFails
  <2>1. /\ pc \in CompilePhases /\ Same /\ Poison("jit failure")
        /\ nextCellID' = nextCellID
    BY <1>4 DEF JITFails, parserVars, CompilePhases
  <2>2. Promise!FailForGood
    BY <1>0, <2>1 DEF StatusIs, Poison, Return, Promise!FailForGood, Promise!End
  <2> QED BY <2>2 DEF Promise!PromiseNext
<1>5. CASE Commit
  <2>1. /\ pc \in CompilePhases /\ pc' \in RunPhases
        /\ committed' = BuildModule(committed, cell.decls, nextCellID - 1)
        /\ UNCHANGED <<cell, nextCellID, persistentVars, result>>
    BY <1>5
    DEF Commit, Proceed, parseVars, PromiseInv, ParsedPhases, Executing,
        CompilePhases, RunPhases
  <2>2. Promise!Load
    BY <1>0, <2>1 DEF StatusIs, Promise!Load
  <2> QED BY <2>2 DEF Promise!PromiseNext
<1>6. CASE CellCrashes
  <2>1. /\ pc \in RunPhases /\ Same /\ Poison("crashed")
        /\ nextCellID' = nextCellID
    BY <1>6 DEF CellCrashes, parserVars, RunPhases
  <2>2. Promise!FailForGood
    BY <1>0, <2>1 DEF StatusIs, Poison, Return, Promise!FailForGood, Promise!End
  <2> QED BY <2>2 DEF Promise!PromiseNext
<1>7. CASE MissingStorage
  <2>1. /\ pc \in RunPhases /\ Same /\ Poison("uninitialized")
        /\ nextCellID' = nextCellID
    BY <1>7 DEF MissingStorage, parserVars, RunPhases
  <2>2. Promise!FailForGood
    BY <1>0, <2>1 DEF StatusIs, Poison, Return, Promise!FailForGood, Promise!End
  <2> QED BY <2>2 DEF Promise!PromiseNext
<1>8. CASE ReportRuntimeError
  <2>1. /\ pc \in RunPhases /\ usable /\ Same /\ Return("runtime error")
        /\ usable' = usable /\ nextCellID' = nextCellID
    BY <1>0, <1>8 DEF ReportRuntimeError, parserVars, RunPhases, Executing
  <2>2. Promise!Raise
    BY <1>0, <2>1 DEF StatusIs, Return, Promise!Raise, Promise!End
  <2> QED BY <2>2 DEF Promise!PromiseNext
<1>9. CASE Succeed
  <2>1. /\ pc \in RunPhases /\ usable /\ Return("succeeded")
        /\ persistentVars' = persistentVars \o newVars
        /\ committed' = committed /\ usable' = usable /\ nextCellID' = nextCellID
    BY <1>0, <1>9 DEF Succeed, RunPhases, Executing
  <2>2. newVars = Promise!Declared(cell)
    BY <1>0, <2>1, ResolvedIsDeclared DEF Inv, ControlInv
  <2>3. Promise!Complete
    BY <1>0, <2>1, <2>2 DEF StatusIs, Return, Promise!Complete, Promise!End
  <2> QED BY <2>3 DEF Promise!PromiseNext
<1>10. CASE Close
  <2>1. /\ pc = "idle" /\ pc' \in ClosePhases
        /\ UNCHANGED <<committed, persistentVars, cell, nextCellID, result>>
    BY <1>10 DEF Close, Proceed, parserVars, parseVars, ClosePhases
  <2>2. Promise!Destroy
    BY <1>0, <2>1 DEF StatusIs, Promise!Destroy
  <2> QED BY <2>2 DEF Promise!PromiseNext
<1>11. ASSUME UNCHANGED <<committed, persistentVars, cell, nextCellID, result>>,
              \/ pc \in CompilePhases /\ pc' \in CompilePhases
              \/ pc \in RunPhases /\ pc' \in RunPhases
              \/ pc \in ClosePhases /\ pc' \in ClosePhases
       PROVE  UNCHANGED Promise!promiseVars
  BY <1>0, <1>11 DEF StatusIs, Promise!promiseVars
<1>12. CASE ParseAccepts \/ RunKGENPipeline \/ EmitArchive
  BY <1>11, <1>12
  DEF ParseAccepts, RunKGENPipeline, EmitArchive, Proceed, parserVars, parseVars,
      CompilePhases
<1>13. CASE AddArchive \/ DefineRuntimeSymbols \/ LookupEntryPoint
  BY <1>11, <1>13
  DEF AddArchive, DefineRuntimeSymbols, LookupEntryPoint, Proceed, parserVars,
      parseVars, CompilePhases
<1>14. CASE BodyCompletes \/ BodyRaises \/ BodyReturns
  BY <1>11, <1>14
  DEF BodyCompletes, BodyRaises, BodyReturns, Proceed, parserVars, parseVars,
      RunPhases
<1>15. CASE PersistVariable \/ RegisterPersistent \/ EpilogueCompletes
  BY <1>11, <1>15
  DEF PersistVariable, RegisterPersistent, EpilogueCompletes, Proceed, parserVars,
      parseVars, RunPhases
<1>16. CASE CloseStep
  BY <1>11, <1>16
  DEF CloseStep, DestroyVariable, ClearVariables, TearDownEngine, Proceed,
      parserVars, parseVars, ClosePhases
<1>17. CASE UNCHANGED vars
  BY <1>17
  DEF vars, parserVars, parseVars, PromiseStatus, Promise!promiseVars
<1> QED
  BY <1>1, <1>2, <1>3, <1>4, <1>5, <1>6, <1>7, <1>8, <1>9, <1>10, <1>12, <1>13,
     <1>14, <1>15, <1>16, <1>17
  DEF Next, CompileStep, RunStep, Promise!PromiseNext

\* Every execution of a session is one that the header promises its clients: a cell
\* is rejected without a trace or loaded as a whole, and a loaded one completes,
\* raises, or ends the session.
THEOREM PromiseIsKept == Faithful => (Spec => KeepsPromise)
<1>1. Init => Promise!PromiseInit
  <2> SUFFICES ASSUME Init PROVE Promise!PromiseInit
    OBVIOUS
  <2>1. PromiseStatus = "ready"
    BY StatusIsSeen DEF StatusIs, Init
  <2>2. nextCellID - 1 = 0
    BY DEF Init
  <2> QED BY <2>1, <2>2 DEF Init, Promise!PromiseInit
<1>2. Spec => []PromiseInv
  BY InitPromise, NextPromise, Invariance, PTL DEF Spec
<1>3. ASSUME Faithful PROVE Spec => KeepsPromise
  <2>1. Inv /\ PromiseInv /\ [Next]_vars =>
          [Promise!PromiseNext]_(Promise!promiseVars)
    BY <1>3, StepKeepsPromise
  <2> QED
    BY <1>1, <1>2, <2>1, Invariance, PTL
    DEF Spec, KeepsPromise, Promise!PromiseSpec
<1> QED BY <1>3
=============================================================================

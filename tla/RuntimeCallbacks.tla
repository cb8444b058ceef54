-------------------------- MODULE RuntimeCallbacks --------------------------
(***************************************************************************)
(* The thread-local callback state of src/compiler/InteractiveSession.cpp: *)
(* the C functions that a running cell calls, RuntimeCallbackScope, which  *)
(* saves and restores that state, and the rendering protocol of            *)
(* mojo/stdlib/std/xmojo.mojo. One thread, several sessions: a callback of *)
(* one session may execute a cell of another session or destroy it.        *)
(*                                                                         *)
(* What a display contains is abstracted to the set of render calls that   *)
(* contributed to it.                                                      *)
(***************************************************************************)
EXTENDS Integers, Sequences

CONSTANTS
  Sessions,   \* the sessions of one thread
  NoSession,  \* a null callback or compiler; also the process's own stdout
  Outputs,    \* the sessions created with an output callback
  Displays,   \* the sessions created with a display callback
  MaxScopes,  \* bound: this many callback scopes are entered
  MaxCalls,   \* bound: calls that nest in one activation
  MaxRenders  \* bound: this many values are rendered

ASSUME SessionsAssumption ==
  /\ NoSession \notin Sessions
  /\ Outputs \subseteq Sessions /\ Displays \subseteq Sessions
  /\ MaxScopes \in Nat /\ MaxCalls \in Nat /\ MaxRenders \in Nat

VARIABLES
  alive,         \* sessions that have not been destroyed
  usable,        \* sessions in which no cell has crashed
  scopes,        \* the RuntimeCallbackScopes on the stack, innermost last
  threadLocals,  \* the thread_local variables
  entered,       \* how many scopes have been entered
  renders,       \* how many renders have begun
  observed,      \* what the last step did that can be seen from outside
  nested,        \* renders during which their own activation began another
  lost           \* renders that ended without an event

sessionState == <<alive, usable>>
displays     == <<renders, nested, lost>>
vars == <<sessionState, scopes, threadLocals, entered, displays, observed>>

Nothing == [what |-> "nothing"]

NoEvent == [owner |-> 0, parts |-> {}]

\* The thread-local variables before the first scope.
Null == [output |-> NoSession, display |-> NoSession, event |-> NoEvent,
         error |-> 0, compiler |-> NoSession, table |-> 0]

Init ==
  /\ alive = Sessions /\ usable = Sessions
  /\ scopes = <<>> /\ threadLocals = Null
  /\ entered = 0 /\ renders = 0 /\ nested = {} /\ lost = {}
  /\ observed = Nothing

-----------------------------------------------------------------------------
(* The innermost scope and the calls that nest in it. *)

Top   == scopes[Len(scopes)]
Calls == Top.calls
Call  == Calls[Len(Calls)]

InCallback == scopes # <<>> /\ Calls # <<>> /\ Call.kind # "render"

\* Client code runs outside all cells and inside a callback.
ClientRuns == scopes = <<>> \/ InCallback

\* Mojo code runs in the innermost scope until its wrapper has returned.
MojoRuns == scopes # <<>> /\ ~InCallback /\ ~Top.returned

InRender == MojoRuns /\ Calls # <<>>

Push(call) == [scopes EXCEPT ![Len(scopes)].calls = Append(@, call)]
Pop        == [scopes EXCEPT ![Len(scopes)].calls = SubSeq(@, 1, Len(@) - 1)]
Replace(call) == [scopes EXCEPT ![Len(scopes)].calls[Len(Calls)] = call]

OutputOf(s)  == IF s \in Outputs THEN s ELSE NoSession
DisplayOf(s) == IF s \in Displays THEN s ELSE NoSession

-----------------------------------------------------------------------------
(* RuntimeCallbackScope. *)

\* The pointers of session s; nothing is pending.
FreshLocals(s, compiler, table) ==
  [output |-> OutputOf(s), display |-> DisplayOf(s), event |-> NoEvent,
   error |-> 0, compiler |-> compiler, table |-> table]

EnterScope(kind, s, compiler, table) ==
  /\ entered < MaxScopes /\ entered' = entered + 1
  /\ scopes' = Append(scopes, [kind |-> kind, session |-> s, id |-> entered + 1,
                               calls |-> <<>>, returned |-> FALSE,
                               saved |-> threadLocals])
  /\ threadLocals' = FreshLocals(s, compiler, table)

\* Faults: one of the members is not restored.
KeepOutput(saved)   == [saved EXCEPT !.output = threadLocals.output]
KeepError(saved)    == [saved EXCEPT !.error = threadLocals.error]
KeepEvent(saved)    == [saved EXCEPT !.event = threadLocals.event]
KeepDisplay(saved)  == [saved EXCEPT !.display = threadLocals.display]

Restored(saved) == saved

LeaveScope ==
  /\ threadLocals' = Restored(Top.saved)
  /\ scopes' = SubSeq(scopes, 1, Len(scopes) - 1)

-----------------------------------------------------------------------------
(* Client code. *)

\* The run of a cell; the scope of a cell has the GPU compiler of its session.
Execute(s) ==
  /\ ClientRuns /\ s \in alive \cap usable
  /\ EnterScope("cell", s, s, entered + 1)
  /\ observed' = Nothing
  /\ UNCHANGED <<sessionState, displays>>

\* The destructor of a session that executes nothing. Its scope sets neither a
\* destructor table nor a GPU compiler, and does not clear the latter.
Destroy(s) ==
  /\ ClientRuns /\ s \in alive
  /\ \A k \in 1..Len(scopes) : scopes[k].session # s
  /\ EnterScope("destructor", s, threadLocals.compiler, 0)
  /\ alive' = alive \ {s}
  /\ observed' = Nothing
  /\ UNCHANGED <<usable, displays>>

\* After the display callback xmojo_display_end resets the pending event.
CallbackReturns ==
  /\ InCallback
  /\ scopes' = Pop
  /\ threadLocals' = IF Call.kind = "output" THEN threadLocals
                     ELSE [threadLocals EXCEPT !.event = NoEvent]
  /\ observed' = Nothing
  /\ UNCHANGED <<sessionState, entered, displays>>

-----------------------------------------------------------------------------
(* Mojo code: the calls that a cell or a destructor makes. *)

Delivery(what, to, event) ==
  [what |-> what, by |-> Top.id, session |-> Top.session, to |-> to,
   owner |-> event.owner, parts |-> event.parts]

\* xmojo_emit_print
EmitPrint ==
  /\ MojoRuns /\ Len(Calls) < MaxCalls
  /\ observed' = Delivery("print", threadLocals.output, NoEvent)
  /\ scopes' = IF threadLocals.output = NoSession THEN scopes
               ELSE Push([kind |-> "output", render |-> 0])
  /\ UNCHANGED <<sessionState, threadLocals, entered, displays>>

Pending(r) == [owner |-> r, parts |-> {}]

\* xmojo_display_begin, called by _render
DisplayBegin ==
  /\ MojoRuns /\ Len(Calls) < MaxCalls /\ renders < MaxRenders
  /\ renders' = renders + 1
  /\ threadLocals' = [threadLocals EXCEPT !.event = Pending(renders + 1)]
  /\ scopes' = Push([kind |-> "render", render |-> renders + 1])
  /\ nested' = nested \union {Calls[i].render : i \in 1..Len(Calls)}
  /\ observed' = Nothing
  /\ UNCHANGED <<sessionState, entered, lost>>

\* xmojo_display_add drops what is added when no event is pending.
WithPart(r) == IF threadLocals.event.owner = 0 THEN threadLocals
               ELSE [threadLocals EXCEPT !.event.parts = @ \union {r}]

DisplayAdd ==
  /\ InRender
  /\ threadLocals' = WithPart(Call.render)
  /\ observed' = Nothing
  /\ UNCHANGED <<sessionState, scopes, entered, displays>>

\* xmojo_display_end
DisplayEnd ==
  /\ InRender
  /\ UNCHANGED <<sessionState, entered, renders, nested>>
  /\ \/ \* no event is pending
        /\ threadLocals.event.owner = 0
        /\ scopes' = Pop
        /\ lost' = lost \union {Call.render}
        /\ observed' = Nothing
        /\ UNCHANGED threadLocals
     \/ \* the display callback gets the event; what is left of it is empty
        /\ threadLocals.event.owner # 0 /\ threadLocals.display # NoSession
        /\ observed' = Delivery("display", threadLocals.display,
                                threadLocals.event)
        /\ threadLocals' = [threadLocals EXCEPT !.event.parts = {}]
        /\ scopes' = Replace([kind |-> "display", render |-> 0])
        /\ UNCHANGED lost
     \/ \* the output callback, or stdout, gets the plain text
        /\ threadLocals.event.owner # 0 /\ threadLocals.display = NoSession
        /\ observed' = Delivery("text", threadLocals.output,
                                threadLocals.event)
        /\ IF threadLocals.output = NoSession
             THEN /\ scopes' = Pop
                  /\ threadLocals' = [threadLocals EXCEPT !.event = NoEvent]
             ELSE /\ scopes' = Replace([kind |-> "text", render |-> 0])
                  /\ UNCHANGED threadLocals
        /\ UNCHANGED lost

\* xmojo_emit_error, the last thing that the wrapper of a raising cell does
EmitError ==
  /\ MojoRuns /\ Calls = <<>> /\ Top.kind = "cell"
  /\ threadLocals' = [threadLocals EXCEPT !.error = Top.id]
  /\ scopes' = [scopes EXCEPT ![Len(scopes)].returned = TRUE]
  /\ observed' = Nothing
  /\ UNCHANGED <<sessionState, entered, displays>>

\* xmojo_register_persistent, called by the epilogue of a cell
RegisterPersistent ==
  /\ MojoRuns /\ Calls = <<>> /\ Top.kind = "cell"
  /\ observed' = [what |-> "registration", id |-> Top.id,
                  table |-> threadLocals.table]
  /\ UNCHANGED <<sessionState, scopes, threadLocals, entered, displays>>

\* xmojo_compile_gpu and the getters that its caller calls next
CompileGPU ==
  /\ MojoRuns /\ threadLocals.compiler # NoSession
  /\ observed' = [what |-> "kernel", kind |-> Top.kind, session |-> Top.session,
                  source |-> threadLocals.compiler]
  /\ UNCHANGED <<sessionState, scopes, threadLocals, entered, displays>>

-----------------------------------------------------------------------------
(* Leaving a scope. *)

CellReturns ==
  /\ scopes # <<>> /\ Calls = <<>> /\ Top.kind = "cell"
  /\ observed' = [what |-> "result", id |-> Top.id, raised |-> Top.returned,
                  error |-> threadLocals.error]
  /\ LeaveScope
  /\ UNCHANGED <<sessionState, entered, displays>>

DestructorReturns ==
  /\ scopes # <<>> /\ Calls = <<>> /\ Top.kind = "destructor"
  /\ LeaveScope
  /\ observed' = Nothing
  /\ UNCHANGED <<sessionState, entered, displays>>

\* A crash, in Mojo code or in a callback, ends at the innermost RunSafely,
\* which the innermost scope encloses: execute() returns, a destructor loop goes
\* on with the next variable.
Crash ==
  /\ scopes # <<>>
  /\ \/ /\ Top.kind = "cell"
        /\ usable' = usable \ {Top.session}
        /\ LeaveScope
     \/ /\ Top.kind = "destructor" /\ Calls # <<>>
        /\ scopes' = [scopes EXCEPT ![Len(scopes)].calls = <<>>]
        /\ UNCHANGED <<usable, threadLocals>>
  /\ observed' = Nothing
  /\ UNCHANGED <<alive, entered, displays>>

-----------------------------------------------------------------------------
ClientStep ==
  \/ \E s \in Sessions : Execute(s) \/ Destroy(s)
  \/ CallbackReturns

MojoStep ==
  \/ EmitPrint \/ DisplayBegin \/ DisplayAdd \/ DisplayEnd \/ EmitError
  \/ RegisterPersistent \/ CompileGPU

ScopeStep == CellReturns \/ DestructorReturns \/ Crash

Next == ClientStep \/ MojoStep \/ ScopeStep

Spec == Init /\ [][Next]_vars

-----------------------------------------------------------------------------
(* Properties. *)

Addressee == Sessions \union {NoSession}

\* Nothing is in an event that is not pending.
Event == {e \in [owner : 0..MaxRenders, parts : SUBSET (1..MaxRenders)] :
            e.owner = 0 => e.parts = {}}

Locals == [output : Addressee, display : Addressee, event : Event,
           error : 0..MaxScopes, compiler : Addressee, table : 0..MaxScopes]

CallRecord == [kind : {"render"}, render : 1..MaxRenders]
              \union [kind : {"output", "display", "text"}, render : {0}]

Scope == [kind : {"cell", "destructor"}, session : Sessions, id : 1..MaxScopes,
          calls : Seq(CallRecord), returned : BOOLEAN, saved : Locals]

Emissions == {"print", "display", "text"}

Observation ==
  {Nothing}
  \union [what : Emissions, by : 1..MaxScopes, session : Sessions,
          to : Addressee, owner : 0..MaxRenders, parts : SUBSET (1..MaxRenders)]
  \union [what : {"registration"}, id : 1..MaxScopes, table : 0..MaxScopes]
  \union [what : {"kernel"}, kind : {"cell", "destructor"}, session : Sessions,
          source : Sessions]
  \union [what : {"result"}, id : 1..MaxScopes, raised : BOOLEAN,
          error : 0..MaxScopes]

\* Every variable has its shape.
TypeOK ==
  /\ alive \subseteq Sessions /\ usable \subseteq Sessions
  /\ scopes \in Seq(Scope) /\ threadLocals \in Locals
  /\ entered \in 0..MaxScopes /\ renders \in 0..MaxRenders
  /\ nested \subseteq 0..MaxRenders /\ lost \subseteq 0..MaxRenders
  /\ observed \in Observation

\* What a cell or a destructor prints or displays reaches the callbacks of its
\* own session, however many sessions its callbacks have run or destroyed.
DeliveredToOwnSession ==
  observed.what \in Emissions =>
    observed.to = IF observed.what = "display" THEN DisplayOf(observed.session)
                                               ELSE OutputOf(observed.session)

\* A cell returns a runtime error exactly if it raised, and then its own.
ErrorIsOwn ==
  observed.what = "result" =>
    observed.error = IF observed.raised THEN observed.id ELSE 0

\* A cell registers destructors in the table of its own execution.
RegistersInOwnTable ==
  observed.what = "registration" => observed.table = observed.id

\* The kernels of a cell are compiled from the declarations of its own session.
KernelsFromOwnSource ==
  observed.what = "kernel" /\ observed.kind = "cell" =>
    observed.source = observed.session

\* Whatever ran in between, an execution finds its own error, its own table and its
\* own session's declarations.
ActivationsFindTheirOwn ==
  ErrorIsOwn /\ RegistersInOwnTable /\ KernelsFromOwnSource

\* A delivered event holds the representations of one value only.
EventsNotMixed ==
  observed.what \in Emissions => observed.parts \subseteq {observed.owner}

\* A value that is displayed is displayed unless its own representation method
\* displays another: cells that its callbacks run do not disturb it.
LostOnlyToNestedDisplay == lost \subseteq nested

\* A value is displayed in one event of its own.
EventsAreOwn == EventsNotMixed /\ LostOnlyToNestedDisplay

(***************************************************************************)
(* The saved and restored thread-locals are a stack of private states. The *)
(* GPU compiler is left out: a destructor inherits it.                     *)
(***************************************************************************)
LocalsOf(k) == IF k = Len(scopes) THEN threadLocals ELSE scopes[k + 1].saved

Activation(kind, s, id, locals) ==
  [kind |-> kind, session |-> s, id |-> id, output |-> locals.output,
   display |-> locals.display, event |-> locals.event, error |-> locals.error,
   table |-> locals.table]

FreshActivation(kind, s, id) ==
  Activation(kind, s, id, [output |-> OutputOf(s), display |-> DisplayOf(s),
                           event |-> NoEvent, error |-> 0,
                           table |-> IF kind = "cell" THEN id ELSE 0])

Activations ==
  [k \in 1..Len(scopes) |->
     Activation(scopes[k].kind, scopes[k].session, scopes[k].id, LocalsOf(k))]

Emission == IF observed.what \in Emissions
              THEN [by |-> observed.by, to |-> observed.to] ELSE [by |-> 0]

Scoped == INSTANCE ScopedCallbacks
            WITH Numbers <- 1..MaxScopes, Fresh <- FreshActivation,
                 activations <- Activations, emission <- Emission

ActivationsAreIsolated == Scoped!ScopedSpec
=============================================================================

----------------------- MODULE RuntimeCallbacksProofs -----------------------
(***************************************************************************)
(* Saving and restoring the thread-local variables keeps activations       *)
(* apart, for any number of sessions and any depth of nesting.             *)
(***************************************************************************)
EXTENDS RuntimeCallbacks, SequenceTheorems, TLAPS

\* The thread-local variables that an activation must see while it runs.
Mine(scope, locals) ==
  /\ locals.output = OutputOf(scope.session)
  /\ locals.display = DisplayOf(scope.session)
  /\ locals.error = IF scope.returned THEN scope.id ELSE 0
  /\ scope.kind = "cell" =>
       locals.compiler = scope.session /\ locals.table = scope.id
  /\ scope.kind = "destructor" => ~scope.returned /\ locals.table = 0

EachHasItsOwn == \A k \in 1..Len(scopes) : Mine(scopes[k], LocalsOf(k))

StackInv == scopes \in Seq(Scope) /\ EachHasItsOwn

-----------------------------------------------------------------------------
(* The three ways in which the stack changes. *)

\* The innermost scope changes its calls, or has returned.
LEMMA TopChanges ==
  ASSUME StackInv, scopes # <<>>, NEW t \in Scope,
         scopes' = [scopes EXCEPT ![Len(scopes)] = t],
         t.saved = Top.saved, Mine(t, threadLocals')
  PROVE  StackInv'
<1>1. Len(scopes) \in Nat \ {0}
  BY EmptySeq, LenProperties DEF StackInv
<1>2. /\ scopes' \in Seq(Scope) /\ Len(scopes') = Len(scopes)
      /\ scopes'[Len(scopes)] = t
      /\ \A k \in 1..(Len(scopes) - 1) : scopes'[k] = scopes[k]
      /\ \A k \in 1..Len(scopes) : scopes'[k].saved = scopes[k].saved
  BY <1>1, ExceptSeq DEF StackInv, Top
<1>3. ASSUME NEW k \in 1..Len(scopes') PROVE Mine(scopes'[k], LocalsOf(k)')
  <2>1. CASE k = Len(scopes)
    BY <1>2, <2>1 DEF LocalsOf
  <2>2. CASE k # Len(scopes)
    <3>0. k \in 1..Len(scopes)
      BY <1>2
    <3>1. k \in 1..(Len(scopes) - 1) /\ k + 1 \in 1..Len(scopes)
      BY <1>1, <2>2, <3>0
    <3>2. LocalsOf(k)' = LocalsOf(k) /\ scopes'[k] = scopes[k]
      BY <1>2, <2>2, <3>1 DEF LocalsOf
    <3> QED BY <3>1, <3>2 DEF StackInv, EachHasItsOwn
  <2> QED BY <2>1, <2>2
<1> QED BY <1>2, <1>3 DEF StackInv, EachHasItsOwn

\* A scope is entered: the thread-local variables are saved in it.
LEMMA ScopeEntered ==
  ASSUME StackInv, NEW t \in Scope, scopes' = Append(scopes, t),
         t.saved = threadLocals, Mine(t, threadLocals')
  PROVE  StackInv'
<1>1. Len(scopes) \in Nat
  BY LenProperties DEF StackInv
<1>2. /\ scopes' \in Seq(Scope) /\ Len(scopes') = Len(scopes) + 1
      /\ scopes'[Len(scopes) + 1] = t
      /\ \A k \in 1..Len(scopes) : scopes'[k] = scopes[k]
  BY AppendProperties DEF StackInv
<1>3. ASSUME NEW k \in 1..Len(scopes') PROVE Mine(scopes'[k], LocalsOf(k)')
  <2>1. CASE k = Len(scopes) + 1
    BY <1>2, <2>1 DEF LocalsOf
  <2>2. CASE k # Len(scopes) + 1
    <3>1. k \in 1..Len(scopes) /\ scopes'[k] = scopes[k]
      BY <1>1, <1>2, <2>2
    <3>2. LocalsOf(k)' = LocalsOf(k)
      <4>1. CASE k = Len(scopes)
        BY <1>1, <1>2, <4>1 DEF LocalsOf
      <4>2. CASE k # Len(scopes)
        <5>1. k + 1 \in 1..Len(scopes)
          BY <1>1, <3>1, <4>2
        <5> QED BY <1>1, <1>2, <3>1, <4>2, <5>1 DEF LocalsOf
      <4> QED BY <4>1, <4>2
    <3> QED BY <3>1, <3>2 DEF StackInv, EachHasItsOwn
  <2> QED BY <2>1, <2>2
<1> QED BY <1>2, <1>3 DEF StackInv, EachHasItsOwn

\* A scope is left: the saved variables are those of the scope below.
LEMMA ScopeLeft ==
  ASSUME StackInv, scopes # <<>>, LeaveScope
  PROVE  StackInv'
<1>1. Len(scopes) \in Nat \ {0}
  BY EmptySeq, LenProperties DEF StackInv
<1>2. scopes' = SubSeq(scopes, 1, Len(scopes) - 1)
      /\ threadLocals' = scopes[Len(scopes)].saved
  BY DEF LeaveScope, Restored, Top
<1>3. /\ scopes' \in Seq(Scope) /\ Len(scopes') = Len(scopes) - 1
      /\ \A k \in 1..(Len(scopes) - 1) : scopes'[k] = scopes[k]
  <2> DEFINE n == Len(scopes) - 1
  <2>1. n \in Nat /\ \A i \in 1..n : scopes[i] \in Scope
    BY <1>1, ElementOfSeq DEF StackInv
  <2>2. /\ SubSeq(scopes, 1, n) \in Seq(Scope) /\ Len(SubSeq(scopes, 1, n)) = n
        /\ \A i \in 1..n : SubSeq(scopes, 1, n)[i] = scopes[i]
    <3> HIDE DEF n
    <3> QED BY <2>1, SubSeqProperties
  <2> QED BY <1>2, <2>2
<1>4. ASSUME NEW k \in 1..Len(scopes') PROVE Mine(scopes'[k], LocalsOf(k)')
  <2>1. k \in 1..(Len(scopes) - 1) /\ scopes'[k] = scopes[k]
    BY <1>3
  <2>2. LocalsOf(k)' = LocalsOf(k)
    <3>1. CASE k = Len(scopes) - 1
      <4>1. k # Len(scopes) /\ k + 1 = Len(scopes) /\ k = Len(scopes')
        BY <1>1, <1>3, <3>1
      <4> QED BY <1>2, <4>1 DEF LocalsOf
    <3>2. CASE k # Len(scopes) - 1
      <4>1. k + 1 \in 1..(Len(scopes) - 1)
        BY <1>1, <2>1, <3>2
      <4> QED BY <1>1, <1>2, <1>3, <2>1, <3>2, <4>1 DEF LocalsOf
    <3> QED BY <3>1, <3>2
  <2> QED BY <1>1, <2>1, <2>2 DEF StackInv, EachHasItsOwn
<1> QED BY <1>3, <1>4 DEF StackInv, EachHasItsOwn

-----------------------------------------------------------------------------
(* Type correctness. *)

LEMMA LocalsType ==
  /\ NoEvent \in Event /\ Null \in Locals
  /\ \A r \in 1..MaxRenders : Pending(r) \in Event
  /\ \A s \in Sessions, compiler \in Addressee, table \in 0..MaxScopes :
       FreshLocals(s, compiler, table) \in Locals
<1>1. NoEvent \in Event
  BY SessionsAssumption DEF NoEvent, Event
<1>2. \A r \in 1..MaxRenders : Pending(r) \in Event
  BY SessionsAssumption DEF Pending, Event
<1>3. Null \in Locals
  BY <1>1, SessionsAssumption DEF Null, Locals, Addressee
<1>4. ASSUME NEW s \in Sessions, NEW c \in Addressee, NEW t \in 0..MaxScopes
      PROVE  FreshLocals(s, c, t) \in Locals
  BY <1>1, SessionsAssumption
  DEF FreshLocals, Locals, Addressee, OutputOf, DisplayOf
<1> QED BY <1>1, <1>2, <1>3, <1>4

\* The innermost scope and its innermost call.
LEMMA TopType ==
  ASSUME TypeOK, scopes # <<>>
  PROVE  /\ Len(scopes) \in 1..Len(scopes) /\ Top \in Scope
         /\ Calls \in Seq(CallRecord) /\ Len(Calls) \in Nat
         /\ Calls # <<>> => Len(Calls) \in 1..Len(Calls) /\ Call \in CallRecord
<1>1. scopes \in Seq(Scope)
  BY DEF TypeOK
<1>2. Len(scopes) \in 1..Len(scopes)
  BY <1>1, EmptySeq, LenProperties
<1>3. Top \in Scope
  BY <1>1, <1>2, ElementOfSeq DEF Top
<1>4. Calls \in Seq(CallRecord)
  BY <1>3 DEF Scope, Calls
<1>5. Len(Calls) \in Nat /\ (Calls # <<>> => Len(Calls) \in 1..Len(Calls))
  BY <1>4, EmptySeq, LenProperties
<1>6. Calls # <<>> => Call \in CallRecord
  BY <1>4, <1>5, ElementOfSeq DEF Call
<1> QED BY <1>2, <1>3, <1>4, <1>5, <1>6

\* The innermost scope after a call has begun, ended or turned into a callback.
LEMMA CallsType ==
  ASSUME TypeOK, scopes # <<>>
  PROVE  /\ \A call \in CallRecord :
              [Top EXCEPT !.calls = Append(@, call)] \in Scope
         /\ Calls # <<>> =>
              /\ [Top EXCEPT !.calls = SubSeq(@, 1, Len(@) - 1)] \in Scope
              /\ \A call \in CallRecord :
                   [Top EXCEPT !.calls[Len(Calls)] = call] \in Scope
         /\ [Top EXCEPT !.calls = <<>>] \in Scope
         /\ [Top EXCEPT !.returned = TRUE] \in Scope
<1>1. /\ Top \in Scope /\ Calls \in Seq(CallRecord)
      /\ Calls # <<>> => Len(Calls) \in 1..Len(Calls)
  BY TopType
<1>2. \A calls \in Seq(CallRecord) : [Top EXCEPT !.calls = calls] \in Scope
  BY <1>1 DEF Scope
<1>3. Top.calls = Calls
  BY DEF Calls
<1>4. \A call \in CallRecord : Append(Calls, call) \in Seq(CallRecord)
  BY <1>1, AppendProperties
<1>5. ASSUME Calls # <<>>
      PROVE  SubSeq(Calls, 1, Len(Calls) - 1) \in Seq(CallRecord)
  <2> DEFINE n == Len(Calls) - 1
  <2>1. n \in Nat /\ \A i \in 1..n : Calls[i] \in CallRecord
    BY <1>1, <1>5, ElementOfSeq, LenProperties
  <2> HIDE DEF n
  <2>2. SubSeq(Calls, 1, n) \in Seq(CallRecord)
    BY <2>1, SubSeqProperties
  <2> QED BY <2>2 DEF n
<1>6. ASSUME Calls # <<>>, NEW call \in CallRecord
      PROVE  [Calls EXCEPT ![Len(Calls)] = call] \in Seq(CallRecord)
  BY <1>1, <1>6, ExceptSeq
<1>7. <<>> \in Seq(CallRecord)
  BY EmptySeq
<1>8. [Top EXCEPT !.returned = TRUE] \in Scope
  BY <1>1 DEF Scope
<1> QED BY <1>2, <1>3, <1>4, <1>5, <1>6, <1>7, <1>8

-----------------------------------------------------------------------------
(* Each activation has its own thread-local variables. *)

Inv == TypeOK /\ EachHasItsOwn

\* A step of the innermost activation that at most exchanges its calls and the
\* pending event.
LEMMA InnermostStep ==
  ASSUME Inv, scopes # <<>>, NEW t \in Scope,
         t.kind = Top.kind, t.session = Top.session, t.id = Top.id,
         t.returned = Top.returned, t.saved = Top.saved,
         \/ scopes' = scopes
         \/ scopes' = [scopes EXCEPT ![Len(scopes)] = t],
         threadLocals'.output = threadLocals.output,
         threadLocals'.display = threadLocals.display,
         threadLocals'.error = threadLocals.error,
         threadLocals'.compiler = threadLocals.compiler,
         threadLocals'.table = threadLocals.table
  PROVE  StackInv'
<1>1. StackInv
  BY DEF Inv, TypeOK, StackInv
<1>2. Len(scopes) \in 1..Len(scopes)
  BY TopType DEF Inv
<1>3. Mine(Top, threadLocals)
  BY <1>2 DEF Inv, EachHasItsOwn, LocalsOf, Top
<1>4. Mine(t, threadLocals') /\ Mine(Top, threadLocals')
  BY <1>3 DEF Mine
<1>5. CASE scopes' = scopes
  <2>1. \A k \in 1..Len(scopes) :
          LocalsOf(k)' = IF k = Len(scopes) THEN threadLocals' ELSE LocalsOf(k)
    BY <1>5 DEF LocalsOf
  <2> QED BY <1>1, <1>4, <1>5, <2>1 DEF StackInv, EachHasItsOwn, Top
<1>6. CASE scopes' = [scopes EXCEPT ![Len(scopes)] = t]
  BY <1>1, <1>4, <1>6, TopChanges
<1> QED BY <1>5, <1>6

LEMMA InitInv == Init => Inv
<1> SUFFICES ASSUME Init PROVE Inv
  OBVIOUS
<1>1. <<>> \in Seq(Scope) /\ Len(<<>>) = 0
  BY EmptySeq
<1>2. TypeOK
  BY <1>1, LocalsType, SessionsAssumption DEF Init, TypeOK, Observation
<1>3. EachHasItsOwn
  BY <1>1 DEF Init, EachHasItsOwn
<1> QED BY <1>2, <1>3 DEF Inv

LEMMA EnterInv ==
  ASSUME Inv, NEW kind \in {"cell", "destructor"}, NEW s \in Sessions,
         NEW compiler \in Addressee, NEW table \in 0..MaxScopes,
         EnterScope(kind, s, compiler, table),
         kind = "cell" => compiler = s /\ table = entered + 1,
         kind = "destructor" => table = 0,
         alive' \subseteq alive, UNCHANGED <<usable, displays>>,
         observed' = Nothing
  PROVE  Inv'
<1> DEFINE t == [kind |-> kind, session |-> s, id |-> entered + 1,
                 calls |-> <<>>, returned |-> FALSE, saved |-> threadLocals]
<1>1. entered + 1 \in 1..MaxScopes /\ entered' = entered + 1
  BY SessionsAssumption DEF Inv, TypeOK, EnterScope
<1>2. <<>> \in Seq(CallRecord)
  BY EmptySeq
<1>3. threadLocals \in Locals
  BY DEF Inv, TypeOK
<1>4. t \in Scope
  BY <1>1, <1>2, <1>3 DEF Scope
<1>5. threadLocals' = FreshLocals(s, compiler, table) /\ threadLocals' \in Locals
  BY LocalsType DEF EnterScope
<1>6. Mine(t, threadLocals')
  BY <1>5 DEF Mine, FreshLocals
<1>7. StackInv /\ scopes' = Append(scopes, t)
  BY DEF Inv, TypeOK, StackInv, EnterScope
<1>8. StackInv'
  BY <1>4, <1>6, <1>7, ScopeEntered
<1>9. TypeOK'
  BY <1>1, <1>5, <1>8
  DEF Inv, TypeOK, StackInv, displays, Observation
<1> QED BY <1>8, <1>9 DEF Inv, StackInv

LEMMA LeaveInv ==
  ASSUME Inv, scopes # <<>>, LeaveScope, alive' \subseteq alive,
         usable' \subseteq usable, UNCHANGED <<entered, displays>>,
         observed' \in Observation
  PROVE  Inv'
<1>1. StackInv
  BY DEF Inv, TypeOK, StackInv
<1>2. StackInv'
  BY <1>1, ScopeLeft
<1>3. threadLocals' \in Locals
  <2>1. Top \in Scope
    BY TopType DEF Inv
  <2> QED BY <2>1 DEF LeaveScope, Restored, Scope
<1>4. TypeOK'
  BY <1>2, <1>3 DEF Inv, TypeOK, StackInv, displays
<1> QED BY <1>2, <1>4 DEF Inv, StackInv

\* What the innermost activation knows about itself.
LEMMA OwnLocals ==
  ASSUME Inv, scopes # <<>>
  PROVE  Mine(Top, threadLocals)
<1>1. Len(scopes) \in 1..Len(scopes)
  BY TopType DEF Inv
<1> QED BY <1>1 DEF Inv, EachHasItsOwn, LocalsOf, Top

LEMMA DeliveryType ==
  ASSUME Inv, scopes # <<>>, NEW what \in Emissions, NEW to \in Addressee,
         NEW event \in Event
  PROVE  Delivery(what, to, event) \in Observation
<1>1. Top.id \in 1..MaxScopes /\ Top.session \in Sessions
  BY TopType DEF Inv, Scope
<1> QED BY <1>1 DEF Delivery, Observation, Event

LEMMA MojoInv ==
  ASSUME Inv, MojoStep
  PROVE  Inv'
<1> USE DEF Inv
<1>0. /\ scopes # <<>> /\ threadLocals \in Locals
      /\ threadLocals.event \in Event /\ NoEvent \in Event
      /\ threadLocals.output \in Addressee /\ threadLocals.display \in Addressee
  BY LocalsType
  DEF MojoStep, EmitPrint, DisplayBegin, DisplayAdd, DisplayEnd, EmitError,
      RegisterPersistent, CompileGPU, InRender, MojoRuns, TypeOK, Locals
<1>a. /\ Top \in Scope /\ Len(scopes) \in 1..Len(scopes)
      /\ Calls # <<>> => Call \in CallRecord
      /\ \A i \in 1..Len(Calls) : Calls[i] \in CallRecord
  BY <1>0, TopType, ElementOfSeq
<1>b. \A call \in CallRecord :
        [Top EXCEPT !.calls = Append(@, call)] \in Scope
  BY <1>0, CallsType
<1>1. CASE EmitPrint
  <2> DEFINE call == [kind |-> "output", render |-> 0]
             t    == [Top EXCEPT !.calls = Append(@, call)]
  <2>1. t \in Scope
    BY <1>b DEF CallRecord
  <2>2. StackInv'
    BY <1>0, <1>1, <2>1, InnermostStep DEF EmitPrint, Push, Top, Scope
  <2>3. observed' \in Observation
    BY <1>0, <1>1, DeliveryType DEF EmitPrint, Emissions
  <2> QED
    BY <1>1, <2>2, <2>3 DEF EmitPrint, TypeOK, StackInv, displays, sessionState
<1>2. CASE DisplayBegin
  <2> DEFINE call == [kind |-> "render", render |-> renders + 1]
             t    == [Top EXCEPT !.calls = Append(@, call)]
  <2>1. renders + 1 \in 1..MaxRenders
    BY <1>2, SessionsAssumption DEF DisplayBegin, TypeOK
  <2>2. t \in Scope
    BY <1>b, <2>1 DEF CallRecord
  <2>3. threadLocals' = [threadLocals EXCEPT !.event = Pending(renders + 1)]
    BY <1>2 DEF DisplayBegin
  <2>4. threadLocals' \in Locals
    BY <1>0, <2>1, <2>3, LocalsType DEF Locals
  <2>5. StackInv'
    BY <1>0, <1>2, <2>2, <2>3, InnermostStep
    DEF DisplayBegin, Push, Top, Scope, Locals
  <2>6. nested' \subseteq 0..MaxRenders
    <3>1. \A i \in 1..Len(Calls) : Calls[i].render \in 0..MaxRenders
      BY <1>a, SessionsAssumption DEF CallRecord
    <3>2. nested' = nested \union {Calls[i].render : i \in 1..Len(Calls)}
      BY <1>2 DEF DisplayBegin
    <3>3. nested \subseteq 0..MaxRenders
      BY DEF TypeOK
    <3> QED BY <3>1, <3>2, <3>3
  <2> QED
    BY <1>2, <2>1, <2>4, <2>5, <2>6
    DEF DisplayBegin, TypeOK, StackInv, sessionState, Observation
<1>3. CASE DisplayAdd
  <2>1. Call.render \in 1..MaxRenders
    BY <1>3, <1>a DEF DisplayAdd, InRender, MojoRuns, InCallback, CallRecord
  <2>2. threadLocals' \in Locals
    BY <1>0, <1>3, <2>1 DEF DisplayAdd, WithPart, Locals, Event
  <2>3. StackInv'
    BY <1>0, <1>3, <1>a, InnermostStep DEF DisplayAdd, WithPart, Locals
  <2> QED
    BY <1>3, <2>2, <2>3
    DEF DisplayAdd, TypeOK, StackInv, sessionState, displays, Observation
<1>4. CASE DisplayEnd
  <2>1. Calls # <<>> /\ Call.render \in 1..MaxRenders
    BY <1>4, <1>a DEF DisplayEnd, InRender, MojoRuns, InCallback, CallRecord
  <2>2. /\ [Top EXCEPT !.calls = SubSeq(@, 1, Len(@) - 1)] \in Scope
        /\ \A call \in CallRecord :
             [Top EXCEPT !.calls[Len(Calls)] = call] \in Scope
    BY <1>0, <2>1, CallsType
  <2>3. /\ [kind |-> "display", render |-> 0] \in CallRecord
        /\ [kind |-> "text", render |-> 0] \in CallRecord
    BY DEF CallRecord
  <2> DEFINE TopBecomes(t) ==
               /\ t.kind = Top.kind /\ t.session = Top.session /\ t.id = Top.id
               /\ t.returned = Top.returned /\ t.saved = Top.saved
               /\ scopes' = [scopes EXCEPT ![Len(scopes)] = t]
  <2>4. \E t \in Scope : TopBecomes(t)
    <3>1. CASE scopes' = Pop
      BY <1>a, <2>2, <3>1 DEF Pop, Top, Scope
    <3>2. ASSUME NEW call \in CallRecord, scopes' = Replace(call)
          PROVE  \E t \in Scope : TopBecomes(t)
      BY <1>a, <2>2, <3>2 DEF Replace, Top, Scope
    <3> QED BY <1>4, <2>3, <3>1, <3>2 DEF DisplayEnd
  <2>5. threadLocals' \in Locals
    BY <1>0, <1>4 DEF DisplayEnd, Locals, Event
  <2>6. StackInv'
    BY <1>0, <1>4, <2>4, InnermostStep DEF DisplayEnd, Locals
  <2>7. observed' \in Observation
    BY <1>0, <1>4, DeliveryType DEF DisplayEnd, Observation, Emissions
  <2>8. lost' \subseteq 0..MaxRenders
    BY <1>4, <2>1 DEF DisplayEnd, TypeOK
  <2> QED
    BY <1>4, <2>5, <2>6, <2>7, <2>8
    DEF DisplayEnd, TypeOK, StackInv, sessionState
<1>5. CASE EmitError
  <2> DEFINE t == [Top EXCEPT !.returned = TRUE]
  <2>1. t \in Scope /\ t.saved = Top.saved
    BY <1>0, <1>a, CallsType DEF Scope
  <2>2. Mine(Top, threadLocals) /\ Top.kind = "cell" /\ StackInv
    BY <1>0, <1>5, OwnLocals DEF EmitError, TypeOK, StackInv
  <2>3. threadLocals' = [threadLocals EXCEPT !.error = Top.id]
        /\ scopes' = [scopes EXCEPT ![Len(scopes)] = t]
    BY <1>5 DEF EmitError, Top
  <2>4. Mine(t, threadLocals')
    BY <1>0, <1>a, <2>2, <2>3 DEF Mine, Scope, Locals
  <2>5. StackInv'
    BY <1>0, <2>1, <2>2, <2>3, <2>4, TopChanges
  <2>6. threadLocals' \in Locals
    <3>1. Top.id \in 0..MaxScopes
      BY <1>a DEF Scope
    <3> QED BY <1>0, <2>3, <3>1 DEF Locals
  <2> QED
    BY <1>5, <2>5, <2>6
    DEF EmitError, TypeOK, StackInv, sessionState, displays, Observation
<1>6. CASE RegisterPersistent \/ CompileGPU
  <2>1. UNCHANGED <<scopes, threadLocals, sessionState, entered, displays>>
    BY <1>6 DEF RegisterPersistent, CompileGPU
  <2>2. StackInv'
    BY <1>0, <1>a, <2>1, InnermostStep
  <2>3. observed' \in Observation
    <3>1. CASE RegisterPersistent
      BY <1>0, <1>a, <3>1 DEF RegisterPersistent, Observation, Scope, Locals
    <3>2. CASE CompileGPU
      BY <1>0, <1>a, <3>2
      DEF CompileGPU, Observation, Scope, Locals, Addressee
    <3> QED BY <1>6, <3>1, <3>2
  <2> QED BY <2>1, <2>2, <2>3 DEF TypeOK, StackInv, sessionState, displays
<1> QED
  BY <1>1, <1>2, <1>3, <1>4, <1>5, <1>6 DEF MojoStep

LEMMA NextInv == Inv /\ [Next]_vars => Inv'
<1> SUFFICES ASSUME Inv, [Next]_vars PROVE Inv'
  OBVIOUS
<1> USE DEF Inv
<1>0. /\ Nothing \in Observation /\ 0 \in 0..MaxScopes
      /\ entered < MaxScopes => entered + 1 \in 0..MaxScopes
      /\ threadLocals.compiler \in Addressee
  BY SessionsAssumption DEF Observation, TypeOK, Locals
<1>1. ASSUME NEW s \in Sessions, Execute(s) PROVE Inv'
  BY <1>0, <1>1, EnterInv
  DEF Execute, EnterScope, Addressee, sessionState, displays
<1>2. ASSUME NEW s \in Sessions, Destroy(s) PROVE Inv'
  BY <1>0, <1>2, EnterInv DEF Destroy
<1>3. CASE CallbackReturns
  <2>1. scopes # <<>> /\ Calls # <<>> /\ NoEvent \in Event
    BY <1>3, LocalsType DEF CallbackReturns, InCallback
  <2>2. [Top EXCEPT !.calls = SubSeq(@, 1, Len(@) - 1)] \in Scope
    BY <2>1, CallsType
  <2>3. threadLocals' \in Locals
    BY <1>3, <2>1 DEF CallbackReturns, TypeOK, Locals
  <2>4. StackInv'
    BY <1>3, <2>1, <2>2, TopType, InnermostStep
    DEF CallbackReturns, Pop, Top, Scope, TypeOK, Locals
  <2> QED
    BY <1>0, <1>3, <2>3, <2>4
    DEF CallbackReturns, TypeOK, StackInv, sessionState, displays
<1>4. CASE MojoStep
  BY <1>4, MojoInv
<1>5. CASE CellReturns
  <2>1. Top \in Scope /\ threadLocals \in Locals
    BY <1>5, TopType DEF CellReturns, TypeOK
  <2>2. Top.id \in 1..MaxScopes /\ Top.returned \in BOOLEAN
        /\ threadLocals.error \in 0..MaxScopes
    BY <2>1 DEF Scope, Locals
  <2>3. observed' \in Observation
    BY <1>5, <2>2 DEF CellReturns, Observation
  <2> QED
    BY <1>5, <2>3, LeaveInv DEF CellReturns, sessionState
<1>6. CASE DestructorReturns
  BY <1>0, <1>6, LeaveInv DEF DestructorReturns, sessionState
<1>7. CASE Crash
  <2>1. scopes # <<>>
    BY <1>7 DEF Crash
  <2>2. CASE LeaveScope /\ usable' = usable \ {Top.session}
    BY <1>0, <1>7, <2>1, <2>2, LeaveInv DEF Crash
  <2>3. CASE /\ scopes' = [scopes EXCEPT ![Len(scopes)].calls = <<>>]
             /\ UNCHANGED <<usable, threadLocals>>
    <3>1. [Top EXCEPT !.calls = <<>>] \in Scope
      BY <2>1, CallsType
    <3>2. StackInv'
      BY <2>1, <2>3, <3>1, TopType, InnermostStep DEF Top, Scope
    <3> QED
      BY <1>0, <1>7, <2>3, <3>2 DEF Crash, TypeOK, StackInv, displays
  <2> QED BY <1>7, <2>2, <2>3 DEF Crash
<1>8. CASE UNCHANGED vars
  BY <1>8
  DEF vars, sessionState, displays, TypeOK, EachHasItsOwn, LocalsOf
<1> QED
  BY <1>1, <1>2, <1>3, <1>4, <1>5, <1>6, <1>7, <1>8
  DEF Next, ClientStep, ScopeStep

THEOREM Invariance == Spec => []Inv
  BY InitInv, NextInv, PTL DEF Spec

\* The thread-local variables, the saved ones and the stack have their shapes.
THEOREM TypeCorrectness == Spec => []TypeOK
<1>1. Inv => TypeOK
  BY DEF Inv
<1> QED BY <1>1, Invariance, PTL

-----------------------------------------------------------------------------
(* What an activation does concerns its own session and its own execution. *)

StaysHome == /\ DeliveredToOwnSession /\ ErrorIsOwn
             /\ RegistersInOwnTable /\ KernelsFromOwnSource

LEMMA NextStaysHome == Inv /\ StaysHome /\ [Next]_vars => StaysHome'
<1> SUFFICES ASSUME Inv, StaysHome, [Next]_vars PROVE StaysHome'
  OBVIOUS
<1> USE DEF DeliveredToOwnSession, ErrorIsOwn, RegistersInOwnTable,
            KernelsFromOwnSource, Emissions, StaysHome
<1>1. CASE observed' = Nothing
  BY <1>1 DEF Nothing
<1>2. CASE EmitPrint
  <2>1. Mine(Top, threadLocals)
    BY <1>2, OwnLocals DEF EmitPrint, MojoRuns
  <2> QED BY <1>2, <2>1 DEF EmitPrint, Delivery, Mine
<1>3. CASE DisplayEnd
  <2>1. Mine(Top, threadLocals)
    BY <1>3, OwnLocals DEF DisplayEnd, InRender, MojoRuns
  <2> QED BY <1>3, <2>1 DEF DisplayEnd, Delivery, Mine, Nothing
<1>4. CASE RegisterPersistent
  <2>1. Mine(Top, threadLocals)
    BY <1>4, OwnLocals DEF RegisterPersistent, MojoRuns
  <2> QED BY <1>4, <2>1 DEF RegisterPersistent, Mine
<1>5. CASE CompileGPU
  <2>1. Mine(Top, threadLocals)
    BY <1>5, OwnLocals DEF CompileGPU, MojoRuns
  <2> QED BY <1>5, <2>1 DEF CompileGPU, Mine
<1>6. CASE CellReturns
  <2>1. Mine(Top, threadLocals)
    BY <1>6, OwnLocals DEF CellReturns
  <2> QED BY <1>6, <2>1 DEF CellReturns, Mine
<1>7. CASE UNCHANGED vars
  BY <1>7 DEF vars
<1> QED
  BY <1>1, <1>2, <1>3, <1>4, <1>5, <1>6, <1>7
  DEF Next, ClientStep, MojoStep, ScopeStep, Execute, Destroy, CallbackReturns,
      DisplayBegin, DisplayAdd, EmitError, DestructorReturns, Crash

LEMMA AlwaysHome == Spec => []StaysHome
<1>1. Init => StaysHome
  BY DEF Init, StaysHome, DeliveredToOwnSession, ErrorIsOwn,
         RegistersInOwnTable, KernelsFromOwnSource, Nothing, Emissions
<1> QED
  BY <1>1, NextStaysHome, Invariance, PTL DEF Spec

\* Output and displays reach the callbacks of the session that produced them.
THEOREM EmissionsReachTheirSession == Spec => []DeliveredToOwnSession
<1>1. StaysHome => DeliveredToOwnSession
  BY DEF StaysHome
<1> QED BY <1>1, AlwaysHome, PTL

\* A cell that raised returns its own error, any other cell none.
THEOREM ErrorsStayHome == Spec => []ErrorIsOwn
<1>1. StaysHome => ErrorIsOwn
  BY DEF StaysHome
<1> QED BY <1>1, AlwaysHome, PTL

\* Destructors are registered in the table of the execution that declares them.
THEOREM RegistrationsStayHome == Spec => []RegistersInOwnTable
<1>1. StaysHome => RegistersInOwnTable
  BY DEF StaysHome
<1> QED BY <1>1, AlwaysHome, PTL

\* A cell gets kernels of its own session.
THEOREM KernelsStayHome == Spec => []KernelsFromOwnSource
<1>1. StaysHome => KernelsFromOwnSource
  BY DEF StaysHome
<1> QED BY <1>1, AlwaysHome, PTL

\* A cell finds its own error, its own destructor table and its own session's
\* declarations, however deep the cells and destructors that ran in between were.
THEOREM ActivationsStayHome == Spec => []ActivationsFindTheirOwn
<1>1. ErrorIsOwn /\ RegistersInOwnTable /\ KernelsFromOwnSource
        <=> ActivationsFindTheirOwn
  BY DEF ActivationsFindTheirOwn
<1> QED BY <1>1, ErrorsStayHome, RegistrationsStayHome, KernelsStayHome, PTL

-----------------------------------------------------------------------------
(* Refinement of ScopedCallbacks. *)

ActivationRecord ==
  [kind : {"cell", "destructor"}, session : Sessions, id : 1..MaxScopes,
   output : Addressee, display : Addressee, event : Event,
   error : 0..MaxScopes, table : 0..MaxScopes]

\* Activations is a sequence as long as the stack of scopes.
ActivationsShaped ==
  /\ Len(scopes) \in Nat /\ (Len(scopes) = 0 <=> scopes = <<>>)
  /\ Len(Activations) = Len(scopes)
  /\ (Activations = <<>>) = (scopes = <<>>)
  /\ Activations \in Seq(ActivationRecord)
  /\ \A k \in 1..Len(scopes) :
       Activations[k] = Activation(scopes[k].kind, scopes[k].session,
                                   scopes[k].id, LocalsOf(k))

LEMMA ActivationsShape == Inv => ActivationsShaped
<1> SUFFICES ASSUME Inv PROVE ActivationsShaped
  OBVIOUS
<1>1. Len(scopes) \in Nat /\ (Len(scopes) = 0 <=> scopes = <<>>)
  <2>1. scopes \in Seq(Scope)
    BY DEF Inv, TypeOK
  <2> QED BY <2>1, LenProperties, EmptySeq
<1>2. Len(Activations) = Len(scopes)
  BY <1>1 DEF Activations
<1>3. (Activations = <<>>) = (scopes = <<>>)
  BY <1>1, <1>2 DEF Activations
<1>4. \A k \in 1..Len(scopes) : scopes[k] \in Scope
  BY ElementOfSeq DEF Inv, TypeOK
<1>5. \A k \in 1..Len(scopes) : LocalsOf(k) \in Locals
  <2>1. ASSUME NEW k \in 1..Len(scopes) PROVE LocalsOf(k) \in Locals
    <3>1. CASE k = Len(scopes)
      BY <3>1 DEF LocalsOf, Inv, TypeOK
    <3>2. CASE k # Len(scopes)
      <4>1. k + 1 \in 1..Len(scopes)
        BY <1>1, <3>2
      <4>2. scopes[k + 1].saved \in Locals
        BY <1>4, <4>1 DEF Scope
      <4> QED BY <3>2, <4>2 DEF LocalsOf
    <3> QED BY <3>1, <3>2
  <2> QED BY <2>1
<1>6. ASSUME NEW k \in 1..Len(scopes)
      PROVE  Activation(scopes[k].kind, scopes[k].session, scopes[k].id,
                        LocalsOf(k)) \in ActivationRecord
  <2>1. scopes[k] \in Scope /\ LocalsOf(k) \in Locals
    BY <1>4, <1>5
  <2> QED BY <2>1 DEF Activation, ActivationRecord, Scope, Locals
<1>7. Activations \in Seq(ActivationRecord)
  BY <1>1, <1>6 DEF Activations
<1> QED BY <1>1, <1>2, <1>3, <1>7 DEF Activations, ActivationsShaped

LEMMA ShapesOfStep == Inv /\ Inv' => ActivationsShaped /\ ActivationsShaped'
BY ActivationsShape, PTL

\* A new scope is a fresh activation.
LEMMA EnterRefines ==
  ASSUME ActivationsShaped, ActivationsShaped', scopes \in Seq(Scope),
         entered' \in 1..MaxScopes, entered' = entered + 1,
         NEW kind \in {"cell", "destructor"}, NEW s \in Sessions,
         NEW compiler, NEW table, EnterScope(kind, s, compiler, table),
         table = IF kind = "cell" THEN entered + 1 ELSE 0,
         observed' = Nothing
  PROVE  Scoped!Enter
<1> DEFINE n     == Len(scopes)
           fresh == FreshActivation(kind, s, entered')
           t     == [kind |-> kind, session |-> s, id |-> entered + 1,
                     calls |-> <<>>, returned |-> FALSE, saved |-> threadLocals]
<1>1. n \in Nat
  BY DEF ActivationsShaped
<1>2. scopes' = Append(scopes, t) /\ threadLocals' = FreshLocals(s, compiler, table)
  BY DEF EnterScope
<1>3. /\ Len(scopes') = n + 1 /\ scopes'[n + 1] = t
      /\ \A k \in 1..n : scopes'[k] = scopes[k]
  BY <1>1, <1>2, AppendProperties
<1>4. Len(Activations') = n + 1 /\ Len(Activations) = n
  BY <1>3 DEF ActivationsShaped
<1>5. \A k \in 1..n : Activations'[k] = Activations[k]
  <2>1. ASSUME NEW k \in 1..n PROVE Activations'[k] = Activations[k]
    <3>1. k \in 1..Len(scopes) /\ k \in 1..Len(scopes') /\ k # n + 1
      BY <1>1, <1>3
    <3>2. LocalsOf(k)' = LocalsOf(k)
      <4>1. CASE k = n
        BY <1>1, <1>3, <4>1 DEF LocalsOf
      <4>2. CASE k # n
        <5>1. k + 1 \in 1..n
          BY <1>1, <4>2
        <5> QED BY <1>1, <1>3, <4>2, <5>1 DEF LocalsOf
      <4> QED BY <4>1, <4>2
    <3>3. scopes'[k] = scopes[k]
      BY <1>3
    <3> QED BY <3>1, <3>2, <3>3 DEF ActivationsShaped
  <2> QED BY <2>1
<1>6. Activations'[n + 1] = fresh
  <2>1. PICK k \in 1..Len(scopes') : k = n + 1
    BY <1>1, <1>3
  <2>2. LocalsOf(k)' = FreshLocals(s, compiler, table)
    BY <1>2, <1>3, <2>1 DEF LocalsOf
  <2>3. Activations'[k] =
          Activation(kind, s, entered + 1, FreshLocals(s, compiler, table))
    BY <1>3, <2>1, <2>2 DEF ActivationsShaped
  <2>4. fresh = Activation(kind, s, entered + 1, FreshLocals(s, compiler, table))
    BY DEF Activation, FreshActivation, FreshLocals
  <2> HIDE DEF fresh
  <2> QED BY <2>1, <2>3, <2>4
<1>7. Activations' = Append(Activations, fresh)
  <2>1. Activations \in Seq(ActivationRecord) /\ Activations' \in Seq(ActivationRecord)
    BY DEF ActivationsShaped
  <2>2. fresh \in ActivationRecord
    <3>1. n + 1 \in 1..Len(Activations')
      BY <1>1, <1>4
    <3> QED BY <1>6, <2>1, <3>1, ElementOfSeq
  <2>3. /\ Append(Activations, fresh) \in Seq(ActivationRecord)
        /\ Len(Append(Activations, fresh)) = n + 1
        /\ \A k \in 1..n : Append(Activations, fresh)[k] = Activations[k]
        /\ Append(Activations, fresh)[n + 1] = fresh
    BY <1>1, <1>4, <2>1, <2>2, AppendProperties
  <2>4. \A k \in 1..(n + 1) : Activations'[k] = Append(Activations, fresh)[k]
    <3>1. ASSUME NEW k \in 1..(n + 1)
          PROVE  Activations'[k] = Append(Activations, fresh)[k]
      <4>1. k \in 1..n \/ k = n + 1
        BY <1>1
      <4> HIDE DEF fresh, n
      <4> QED BY <4>1, <1>5, <1>6, <2>3
    <3> QED BY <3>1
  <2> HIDE DEF fresh, n
  <2> QED BY <1>4, <2>1, <2>3, <2>4, SeqEqual
<1>8. Emission' = [by |-> 0]
  BY DEF Emission, Nothing, Emissions
<1> QED BY <1>7, <1>8 DEF Scoped!Enter, Scoped!Silence

\* The scope that ends is the last activation.
LEMMA LeaveRefines ==
  ASSUME ActivationsShaped, ActivationsShaped', scopes \in Seq(Scope),
         scopes # <<>>, LeaveScope, observed'.what \notin Emissions
  PROVE  Scoped!Leave
<1> DEFINE n == Len(scopes) - 1
<1>1. /\ Len(scopes) \in Nat \ {0} /\ n \in Nat
      /\ Len(scopes) = n + 1 /\ Len(Activations) = n + 1
  BY DEF ActivationsShaped
<1>2. /\ scopes' \in Seq(Scope) /\ Len(scopes') = n
      /\ \A k \in 1..n : scopes'[k] = scopes[k]
  <2>1. \A i \in 1..n : scopes[i] \in Scope
    BY <1>1, ElementOfSeq
  <2>2. scopes' = SubSeq(scopes, 1, n)
    BY DEF LeaveScope
  <2> HIDE DEF n
  <2> QED BY <1>1, <2>1, <2>2, SubSeqProperties
<1>3. Len(Activations') = n
  BY <1>2 DEF ActivationsShaped
<1>4. \A k \in 1..n : Activations'[k] = Activations[k]
  <2>1. ASSUME NEW k \in 1..n PROVE Activations'[k] = Activations[k]
    <3> HIDE DEF n
    <3>a. k \in 1..Len(scopes) /\ k # Len(scopes)
      BY <1>1
    <3>b. k \in 1..Len(scopes') /\ scopes'[k] = scopes[k]
      BY <1>2
    <3>1. k \in Int /\ Len(scopes') = n /\ k + 1 \in Int
      BY <1>2
    <3>2. LocalsOf(k)' = LocalsOf(k)
      <4>1. CASE k = n
        BY <1>1, <3>a, <3>1, <4>1 DEF LocalsOf, LeaveScope, Restored, Top
      <4>2. CASE k # n
        <5>1. k + 1 \in 1..n
          BY <1>1, <4>2
        <5>2. scopes'[k + 1] = scopes[k + 1]
          BY <1>2, <5>1
        <5> QED BY <3>a, <3>1, <4>2, <5>2 DEF LocalsOf
      <4> QED BY <4>1, <4>2
    <3> QED BY <3>a, <3>b, <3>2 DEF ActivationsShaped
  <2> QED BY <2>1
<1>5. Activations' = SubSeq(Activations, 1, n)
  <2>1. /\ Activations \in Seq(ActivationRecord)
        /\ Activations' \in Seq(ActivationRecord)
    BY DEF ActivationsShaped
  <2>2. \A k \in 1..n : Activations[k] \in ActivationRecord
    BY <1>1, <2>1, ElementOfSeq
  <2> HIDE DEF n
  <2>3. /\ SubSeq(Activations, 1, n) \in Seq(ActivationRecord)
        /\ Len(SubSeq(Activations, 1, n)) = n
        /\ \A k \in 1..n : SubSeq(Activations, 1, n)[k] = Activations[k]
    BY <1>1, <2>1, <2>2, SubSeqProperties
  <2> QED BY <1>3, <1>4, <2>1, <2>3, SeqEqual
<1>6. Activations # <<>> /\ n = Len(Activations) - 1
  BY <1>1 DEF ActivationsShaped
<1>7. Emission' = [by |-> 0]
  BY DEF Emission
<1> QED BY <1>5, <1>6, <1>7 DEF Scoped!Leave, Scoped!Silence

\* Only the innermost scope changes, and not what identifies it.
OnlyTopChanges ==
  \E t \in Scope :
    /\ t.kind = Top.kind /\ t.session = Top.session /\ t.id = Top.id
    /\ t.saved = Top.saved
    /\ scopes' = [scopes EXCEPT ![Len(scopes)] = t]

SameAddressees ==
  /\ threadLocals'.output = threadLocals.output
  /\ threadLocals'.display = threadLocals.display
  /\ threadLocals'.table = threadLocals.table
  /\ threadLocals'.error \in {threadLocals.error, Top.id}

EmitsOwn ==
  \/ observed'.what \notin Emissions
  \/ /\ observed'.by = Top.id
     /\ observed'.to \in {threadLocals.output, threadLocals.display}

\* A step of the innermost scope is a step of the last activation.
LEMMA ActRefines ==
  ASSUME ActivationsShaped, ActivationsShaped', scopes \in Seq(Scope),
         scopes # <<>>, OnlyTopChanges, SameAddressees, EmitsOwn
  PROVE  Scoped!Act
<1> DEFINE n == Len(scopes)
           own == Activation(Top.kind, Top.session, Top.id, threadLocals)
           new == Activation(Top.kind, Top.session, Top.id, threadLocals')
<1>1. n \in Nat \ {0} /\ Len(Activations) = n /\ Activations # <<>>
  BY DEF ActivationsShaped
<1>2. PICK t \in Scope :
        /\ t.kind = Top.kind /\ t.session = Top.session /\ t.id = Top.id
        /\ t.saved = Top.saved
        /\ scopes' = [scopes EXCEPT ![n] = t]
  BY DEF OnlyTopChanges
<1>3. /\ Len(scopes') = n /\ scopes'[n] = t
      /\ \A k \in 1..(n - 1) : scopes'[k] = scopes[k]
      /\ \A k \in 1..n : scopes'[k].saved = scopes[k].saved
  BY <1>1, <1>2, ExceptSeq DEF Top
<1>4. Len(Activations') = n
  BY <1>3 DEF ActivationsShaped
<1>5. \A k \in 1..(n - 1) : Activations'[k] = Activations[k]
  <2>1. ASSUME NEW k \in 1..(n - 1) PROVE Activations'[k] = Activations[k]
    <3>1. /\ k \in 1..Len(scopes) /\ k \in 1..Len(scopes') /\ k + 1 \in 1..n
          /\ k # Len(scopes) /\ k # Len(scopes') /\ scopes'[k] = scopes[k]
      BY <1>1, <1>3
    <3>2. LocalsOf(k)' = LocalsOf(k)
      BY <1>3, <3>1 DEF LocalsOf
    <3> QED BY <3>1, <3>2 DEF ActivationsShaped
  <2> QED BY <2>1
<1>6. Activations[n] = own
  <2>1. n \in 1..Len(scopes)
    BY <1>1
  <2> QED BY <2>1 DEF ActivationsShaped, LocalsOf, Top
<1>7. Activations'[n] = new
  <2>1. PICK k \in 1..Len(scopes') : k = n
    BY <1>1, <1>3
  <2>2. LocalsOf(k)' = threadLocals'
    BY <1>3, <2>1 DEF LocalsOf
  <2>3. Activations'[k] = Activation(t.kind, t.session, t.id, threadLocals')
    BY <1>3, <2>1, <2>2 DEF ActivationsShaped
  <2> QED BY <1>2, <2>1, <2>3 DEF Activation
<1>8. /\ Scoped!Fixed(new) = Scoped!Fixed(own)
      /\ new.error \in {own.error, own.id}
  BY DEF SameAddressees, Activation, Scoped!Fixed
<1>9. Emission' = [by |-> 0]
      \/ \E to \in {own.output, own.display} : Emission' = [by |-> own.id, to |-> to]
  BY DEF EmitsOwn, Emission, Activation
<1> HIDE DEF own, new, n
<1> QED BY <1>1, <1>4, <1>5, <1>6, <1>7, <1>8, <1>9 DEF Scoped!Act, Scoped!Silence

TopSteps ==
  \/ scopes' = scopes
  \/ Calls # <<>> /\ scopes' = Pop
  \/ \E call \in CallRecord : scopes' = Push(call)
  \/ Calls # <<>> /\ \E call \in CallRecord : scopes' = Replace(call)
  \/ scopes' = [scopes EXCEPT ![Len(scopes)].calls = <<>>]
  \/ scopes' = [scopes EXCEPT ![Len(scopes)].returned = TRUE]

\* Only the innermost scope changes in a step of Mojo code, when a callback
\* returns, and when a destructor crashes.
LEMMA TopOnly ==
  ASSUME Inv, scopes # <<>>, TopSteps
  PROVE  OnlyTopChanges
<1>1. /\ Top \in Scope /\ Len(scopes) \in 1..Len(scopes) /\ scopes \in Seq(Scope)
  BY TopType DEF Inv, TypeOK
<1>2. CASE scopes' = scopes
  BY <1>1, <1>2 DEF OnlyTopChanges, Top
<1>3. CASE Calls # <<>> /\ scopes' = Pop
  <2>1. [Top EXCEPT !.calls = SubSeq(@, 1, Len(@) - 1)] \in Scope
    BY <1>3, CallsType DEF Inv
  <2> QED BY <1>1, <1>3, <2>1 DEF OnlyTopChanges, Pop, Top, Scope
<1>4. ASSUME NEW call \in CallRecord, scopes' = Push(call)
      PROVE  OnlyTopChanges
  <2>1. [Top EXCEPT !.calls = Append(@, call)] \in Scope
    BY CallsType DEF Inv
  <2> QED BY <1>1, <1>4, <2>1 DEF OnlyTopChanges, Push, Top, Scope
<1>5. ASSUME NEW call \in CallRecord, Calls # <<>>, scopes' = Replace(call)
      PROVE  OnlyTopChanges
  <2>1. [Top EXCEPT !.calls[Len(Calls)] = call] \in Scope
    BY <1>5, CallsType DEF Inv
  <2> QED BY <1>1, <1>5, <2>1 DEF OnlyTopChanges, Replace, Top, Scope
<1>6. CASE scopes' = [scopes EXCEPT ![Len(scopes)].calls = <<>>]
  <2>1. [Top EXCEPT !.calls = <<>>] \in Scope
    BY CallsType DEF Inv
  <2> QED BY <1>1, <1>6, <2>1 DEF OnlyTopChanges, Top, Scope
<1>7. CASE scopes' = [scopes EXCEPT ![Len(scopes)].returned = TRUE]
  <2>1. [Top EXCEPT !.returned = TRUE] \in Scope
    BY CallsType DEF Inv
  <2> QED BY <1>1, <1>7, <2>1 DEF OnlyTopChanges, Top, Scope
<1> QED BY <1>2, <1>3, <1>4, <1>5, <1>6, <1>7 DEF TopSteps

\* Mojo code runs in the last activation.
LEMMA MojoRefines ==
  ASSUME Inv, ActivationsShaped, ActivationsShaped', MojoStep
  PROVE  Scoped!Act
<1>1. /\ scopes # <<>> /\ scopes \in Seq(Scope) /\ threadLocals \in Locals
  BY DEF MojoStep, EmitPrint, DisplayBegin, DisplayAdd, DisplayEnd, EmitError,
         RegisterPersistent, CompileGPU, InRender, MojoRuns, Inv, TypeOK
<1>2. OnlyTopChanges
  <2>1. /\ [kind |-> "output", render |-> 0] \in CallRecord
        /\ [kind |-> "display", render |-> 0] \in CallRecord
        /\ [kind |-> "text", render |-> 0] \in CallRecord
    BY DEF CallRecord
  <2>2. CASE EmitPrint
    <3>1. scopes' = scopes \/ scopes' = Push([kind |-> "output", render |-> 0])
      BY <2>2 DEF EmitPrint
    <3>2. scopes' = scopes \/ \E call \in CallRecord : scopes' = Push(call)
      BY <2>1, <3>1
    <3>3. TopSteps
      BY <3>2 DEF TopSteps
    <3> QED BY <1>1, <3>3, TopOnly
  <2>3. CASE DisplayBegin
    <3>1. renders + 1 \in 1..MaxRenders
      BY <2>3, SessionsAssumption DEF DisplayBegin, Inv, TypeOK
    <3>2. [kind |-> "render", render |-> renders + 1] \in CallRecord
      BY <3>1 DEF CallRecord
    <3>3. \E call \in CallRecord : scopes' = Push(call)
      BY <2>3, <3>2 DEF DisplayBegin
    <3>4. TopSteps
      BY <3>3 DEF TopSteps
    <3> QED BY <1>1, <3>4, TopOnly
  <2>4. CASE DisplayEnd
    <3>1. Calls # <<>>
      BY <2>4 DEF DisplayEnd, InRender
    <3>2. TopSteps
      BY <2>1, <2>4, <3>1 DEF DisplayEnd, TopSteps
    <3> QED BY <1>1, <3>2, TopOnly
  <2>5. CASE EmitError
    <3>1. TopSteps
      BY <2>5 DEF EmitError, TopSteps
    <3> QED BY <1>1, <3>1, TopOnly
  <2>6. CASE DisplayAdd \/ RegisterPersistent \/ CompileGPU
    <3>1. scopes' = scopes
      BY <2>6 DEF DisplayAdd, RegisterPersistent, CompileGPU
    <3>2. TopSteps
      BY <3>1 DEF TopSteps
    <3> QED BY <1>1, <3>2, TopOnly
  <2> QED BY <2>2, <2>3, <2>4, <2>5, <2>6 DEF MojoStep
<1>3. SameAddressees
  BY <1>1
  DEF SameAddressees, Locals, MojoStep, EmitPrint, DisplayBegin, DisplayAdd,
      WithPart, DisplayEnd, EmitError, RegisterPersistent, CompileGPU
<1>4. EmitsOwn
  BY DEF EmitsOwn, Emissions, Nothing, Delivery, MojoStep, EmitPrint,
         DisplayBegin, DisplayAdd, DisplayEnd, EmitError, RegisterPersistent,
         CompileGPU
<1> QED BY <1>1, <1>2, <1>3, <1>4, ActRefines

LEMMA NextRefines ==
  Inv /\ Inv' /\ [Next]_vars => [Scoped!ScopedNext]_(Scoped!scopedVars)
<1> SUFFICES ASSUME Inv, Inv', [Next]_vars
             PROVE  [Scoped!ScopedNext]_(Scoped!scopedVars)
  OBVIOUS
<1>0. /\ ActivationsShaped /\ ActivationsShaped'
      /\ scopes \in Seq(Scope) /\ threadLocals \in Locals
  BY ShapesOfStep DEF Inv, TypeOK
<1>1. ASSUME NEW s \in Sessions, Execute(s) PROVE Scoped!Enter
  <2>1. entered' \in 1..MaxScopes /\ entered' = entered + 1
    BY <1>1, SessionsAssumption DEF Execute, EnterScope, Inv, TypeOK
  <2> QED BY <1>0, <1>1, <2>1, EnterRefines DEF Execute
<1>2. ASSUME NEW s \in Sessions, Destroy(s) PROVE Scoped!Enter
  <2>1. entered' \in 1..MaxScopes /\ entered' = entered + 1
    BY <1>2, SessionsAssumption DEF Destroy, EnterScope, Inv, TypeOK
  <2> QED BY <1>0, <1>2, <2>1, EnterRefines DEF Destroy
<1>3. CASE CallbackReturns
  <2>1. scopes # <<>> /\ Calls # <<>> /\ scopes' = Pop
    BY <1>3 DEF CallbackReturns, InCallback
  <2>2. OnlyTopChanges
    <3>1. TopSteps
      BY <2>1 DEF TopSteps
    <3> QED BY <2>1, <3>1, TopOnly
  <2>3. SameAddressees /\ EmitsOwn
    BY <1>0, <1>3
    DEF SameAddressees, EmitsOwn, CallbackReturns, Locals, Nothing, Emissions
  <2> QED BY <1>0, <2>1, <2>2, <2>3, ActRefines DEF Scoped!ScopedNext
<1>4. CASE MojoStep
  BY <1>0, <1>4, MojoRefines DEF Scoped!ScopedNext
<1>5. CASE CellReturns \/ DestructorReturns
  <2>1. scopes # <<>> /\ LeaveScope /\ observed'.what \notin Emissions
    BY <1>5 DEF CellReturns, DestructorReturns, Nothing, Emissions
  <2> QED BY <1>0, <2>1, LeaveRefines DEF Scoped!ScopedNext
<1>6. CASE Crash
  <2>1. scopes # <<>> /\ observed'.what \notin Emissions
    BY <1>6 DEF Crash, Nothing, Emissions
  <2>2. CASE LeaveScope
    BY <1>0, <2>1, <2>2, LeaveRefines DEF Scoped!ScopedNext
  <2>3. CASE scopes' = [scopes EXCEPT ![Len(scopes)].calls = <<>>]
             /\ UNCHANGED threadLocals
    <3>1. OnlyTopChanges
      <4>1. TopSteps
        BY <2>3 DEF TopSteps
      <4> QED BY <2>1, <4>1, TopOnly
    <3>2. SameAddressees /\ EmitsOwn
      BY <2>1, <2>3 DEF SameAddressees, EmitsOwn
    <3> QED BY <1>0, <2>1, <3>1, <3>2, ActRefines DEF Scoped!ScopedNext
  <2> QED BY <1>6, <2>2, <2>3 DEF Crash
<1>7. CASE UNCHANGED vars
  <2>1. UNCHANGED <<scopes, threadLocals, observed>>
    BY <1>7 DEF vars
  <2> QED
    BY <2>1 DEF Scoped!scopedVars, Activations, Activation, LocalsOf, Emission
<1> QED
  BY <1>1, <1>2, <1>3, <1>4, <1>5, <1>6, <1>7
  DEF Next, ClientStep, ScopeStep, Scoped!ScopedNext

\* Every behaviour of the thread-local callback state is one in which each
\* activation has callback state of its own.
THEOREM ScopesImplementIsolation == Spec => ActivationsAreIsolated
<1>1. Init => Scoped!ScopedInit
  <2> SUFFICES ASSUME Init PROVE Scoped!ScopedInit
    OBVIOUS
  <2>1. scopes = <<>> /\ Len(scopes) = 0
    BY EmptySeq DEF Init
  <2>2. Activations = <<>>
    BY <2>1 DEF Activations
  <2> QED BY <2>2 DEF Init, Scoped!ScopedInit, Scoped!Silence, Emission, Nothing,
                      Emissions
<1> QED
  BY <1>1, NextRefines, Invariance, PTL
  DEF Spec, ActivationsAreIsolated, Scoped!ScopedSpec

-----------------------------------------------------------------------------
(* The pending event of an activation belongs to its innermost render. *)

\* The i-th call is the innermost render: at most output of it is being called.
Current(calls, i) ==
  \/ i = Len(calls)
  \/ /\ i = Len(calls) - 1
     /\ calls[Len(calls)].kind = "output"

\* Only renders nest others. The innermost one owns the pending event; one that
\* does not find its event again is in inner.
OwnEvent(calls, event, inner) ==
  /\ event.parts \subseteq {event.owner}
  /\ \A i \in 1..(Len(calls) - 1) : calls[i].kind = "render"
  /\ \A i \in 1..Len(calls) : calls[i].kind = "render" =>
       /\ Current(calls, i) => event.owner \in {0, calls[i].render}
       /\ \/ calls[i].render \in inner
          \/ /\ Current(calls, i)
             /\ event.owner = calls[i].render

LEMMA OwnEventGrows ==
  ASSUME NEW calls, NEW event, NEW inner, NEW more, inner \subseteq more,
         OwnEvent(calls, event, inner)
  PROVE  OwnEvent(calls, event, more)
BY DEF OwnEvent

\* What is left when the last call is removed.
LEMMA FrontOfCalls ==
  ASSUME NEW calls \in Seq(CallRecord), calls # <<>>
  PROVE  LET rest == SubSeq(calls, 1, Len(calls) - 1)
         IN  /\ Len(calls) \in Nat \ {0} /\ Len(rest) = Len(calls) - 1
             /\ \A i \in 1..(Len(calls) - 1) : rest[i] = calls[i]
<1> DEFINE n == Len(calls) - 1
<1>1. /\ Len(calls) \in Nat \ {0} /\ n \in Nat
      /\ \A i \in 1..n : calls[i] \in CallRecord
  BY EmptySeq, LenProperties, ElementOfSeq
<1> HIDE DEF n
<1>2. /\ Len(SubSeq(calls, 1, n)) = n
      /\ \A i \in 1..n : SubSeq(calls, 1, n)[i] = calls[i]
  BY <1>1, SubSeqProperties
<1> QED BY <1>1, <1>2 DEF n

\* Mojo code runs: nothing or a render is innermost.
Rendering(calls) == calls # <<>> => calls[Len(calls)].kind = "render"

LEMMA RenderBegins ==
  ASSUME NEW calls \in Seq(CallRecord), NEW event, NEW inner, NEW r \in Nat,
         OwnEvent(calls, event, inner), Rendering(calls)
  PROVE  OwnEvent(Append(calls, [kind |-> "render", render |-> r]), Pending(r),
                  inner \union {calls[i].render : i \in 1..Len(calls)})
<1> DEFINE call == [kind |-> "render", render |-> r]
           more == inner \union {calls[i].render : i \in 1..Len(calls)}
           new  == Append(calls, call)
<1>1. /\ Len(calls) \in Nat /\ Len(new) = Len(calls) + 1
      /\ \A i \in 1..Len(calls) : new[i] = calls[i]
      /\ new[Len(calls) + 1] = call
  OBVIOUS
<1>2. \A i \in 1..Len(calls) : calls[i].kind = "render"
  <2>1. ASSUME NEW i \in 1..Len(calls) PROVE calls[i].kind = "render"
    <3>1. CASE i = Len(calls)
      BY <1>1, <3>1, EmptySeq DEF Rendering
    <3>2. CASE i # Len(calls)
      BY <1>1, <3>2 DEF OwnEvent
    <3> QED BY <3>1, <3>2
  <2> QED BY <2>1
<1>3. \A i \in 1..Len(calls) : calls[i].render \in more
  OBVIOUS
<1>4. call.kind = "render" /\ call.render = r /\ call.kind # "output"
  OBVIOUS
<1>5. Pending(r).owner = r /\ Pending(r).parts = {}
  BY DEF Pending
<1> HIDE DEF call, more, new
<1>6. \A i \in 1..(Len(new) - 1) : new[i].kind = "render"
  BY <1>1, <1>2
<1>7. ASSUME NEW i \in 1..Len(new)
      PROVE  /\ Current(new, i) => r \in {0, new[i].render}
             /\ new[i].render \in more \/ (Current(new, i) /\ r = new[i].render)
  <2>1. CASE i = Len(calls) + 1
    BY <1>1, <1>4, <2>1 DEF Current
  <2>2. CASE i # Len(calls) + 1
    <3>1. i \in 1..Len(calls)
      BY <1>1, <2>2
    <3>2. ~Current(new, i)
      BY <1>1, <1>4, <2>2, <3>1 DEF Current
    <3> QED BY <1>1, <1>3, <3>1, <3>2
  <2> QED BY <2>1, <2>2
<1>8. OwnEvent(new, Pending(r), more)
  BY <1>5, <1>6, <1>7 DEF OwnEvent
<1> QED BY <1>8 DEF new, more, call

LEMMA OutputIsCalled ==
  ASSUME NEW calls \in Seq(CallRecord), NEW event, NEW inner,
         OwnEvent(calls, event, inner), Rendering(calls)
  PROVE  OwnEvent(Append(calls, [kind |-> "output", render |-> 0]), event, inner)
<1> DEFINE call == [kind |-> "output", render |-> 0]
           new  == Append(calls, call)
<1>1. /\ Len(calls) \in Nat /\ Len(new) = Len(calls) + 1
      /\ \A i \in 1..Len(calls) : new[i] = calls[i]
      /\ new[Len(calls) + 1] = call
  OBVIOUS
<1>2. \A i \in 1..Len(calls) : calls[i].kind = "render"
  <2>1. ASSUME NEW i \in 1..Len(calls) PROVE calls[i].kind = "render"
    <3>1. CASE i = Len(calls)
      BY <1>1, <3>1, EmptySeq DEF Rendering
    <3>2. CASE i # Len(calls)
      BY <1>1, <3>2 DEF OwnEvent
    <3> QED BY <3>1, <3>2
  <2> QED BY <2>1
<1>4. call.kind = "output"
  OBVIOUS
<1> HIDE DEF call, new
<1>6. \A i \in 1..(Len(new) - 1) : new[i].kind = "render"
  BY <1>1, <1>2
<1>7. ASSUME NEW i \in 1..Len(new), new[i].kind = "render"
      PROVE  /\ Current(new, i) => event.owner \in {0, new[i].render}
             /\ \/ new[i].render \in inner
                \/ /\ Current(new, i)
                   /\ event.owner = new[i].render
  <2>1. i \in 1..Len(calls)
    BY <1>1, <1>4, <1>7
  <2>2. Current(new, i) <=> i = Len(calls)
    BY <1>1, <1>4, <2>1 DEF Current
  <2>3. Current(calls, i) <=> i = Len(calls)
    BY <1>1, <1>2, <2>1 DEF Current
  <2> QED BY <1>1, <1>2, <2>1, <2>2, <2>3 DEF OwnEvent
<1>8. OwnEvent(new, event, inner)
  BY <1>6, <1>7 DEF OwnEvent
<1> QED BY <1>8 DEF new, call

LEMMA OutputReturns ==
  ASSUME NEW calls \in Seq(CallRecord), NEW event, NEW inner, calls # <<>>,
         OwnEvent(calls, event, inner), calls[Len(calls)].kind = "output"
  PROVE  OwnEvent(SubSeq(calls, 1, Len(calls) - 1), event, inner)
<1> DEFINE rest == SubSeq(calls, 1, Len(calls) - 1)
<1>1. /\ Len(calls) \in Nat \ {0} /\ Len(rest) = Len(calls) - 1
      /\ \A i \in 1..(Len(calls) - 1) : rest[i] = calls[i]
  BY FrontOfCalls
<1> HIDE DEF rest
<1>2. \A i \in 1..(Len(calls) - 1) : calls[i].kind = "render"
  BY DEF OwnEvent
<1>3. \A i \in 1..(Len(rest) - 1) : rest[i].kind = "render"
  BY <1>1, <1>2
<1>4. ASSUME NEW i \in 1..Len(rest), rest[i].kind = "render"
      PROVE  /\ Current(rest, i) => event.owner \in {0, rest[i].render}
             /\ \/ rest[i].render \in inner
                \/ /\ Current(rest, i)
                   /\ event.owner = rest[i].render
  <2>1. i \in 1..Len(calls) /\ i \in 1..(Len(calls) - 1) /\ rest[i] = calls[i]
    BY <1>1
  <2>2. Current(calls, i) <=> i = Len(calls) - 1
    BY <1>1, <2>1 DEF Current
  <2>3. Current(rest, i) <=> i = Len(calls) - 1
    <3>1. i = Len(rest) - 1 => rest[Len(rest)].kind # "output"
      BY <1>1, <1>2, <2>1
    <3> QED BY <1>1, <2>1, <3>1 DEF Current
  <2> QED BY <1>4, <2>1, <2>2, <2>3 DEF OwnEvent
<1>5. OwnEvent(rest, event, inner)
  BY <1>3, <1>4 DEF OwnEvent
<1> QED BY <1>5 DEF rest

\* The calls below one that is not output have lost their event.
LEMMA OuterHaveLost ==
  ASSUME NEW calls \in Seq(CallRecord), NEW event, NEW inner, calls # <<>>,
         OwnEvent(calls, event, inner), calls[Len(calls)].kind # "output"
  PROVE  /\ Len(calls) \in Nat \ {0}
         /\ \A i \in 1..(Len(calls) - 1) : /\ calls[i].kind = "render"
                                           /\ calls[i].render \in inner
<1>1. Len(calls) \in Nat \ {0}
  BY FrontOfCalls
<1>2. ASSUME NEW i \in 1..(Len(calls) - 1)
      PROVE  calls[i].kind = "render" /\ calls[i].render \in inner
  <2>1. i \in 1..Len(calls) /\ i # Len(calls)
    BY <1>1
  <2>2. ~Current(calls, i)
    BY <2>1 DEF Current
  <2> QED BY <2>1, <2>2 DEF OwnEvent
<1> QED BY <1>1, <1>2

LEMMA DisplayIsOver ==
  ASSUME NEW calls \in Seq(CallRecord), NEW event, NEW inner, calls # <<>>,
         OwnEvent(calls, event, inner), calls[Len(calls)].kind # "output",
         NEW left, left.owner = 0, left.parts \subseteq {0}
  PROVE  OwnEvent(SubSeq(calls, 1, Len(calls) - 1), left, inner)
<1> DEFINE rest == SubSeq(calls, 1, Len(calls) - 1)
<1>1. /\ Len(calls) \in Nat \ {0} /\ Len(rest) = Len(calls) - 1
      /\ \A i \in 1..(Len(calls) - 1) : rest[i] = calls[i]
  BY FrontOfCalls
<1>2. \A i \in 1..(Len(calls) - 1) : /\ calls[i].kind = "render"
                                     /\ calls[i].render \in inner
  BY OuterHaveLost
<1> HIDE DEF rest
<1>3. \A i \in 1..Len(rest) : rest[i].kind = "render" /\ rest[i].render \in inner
  BY <1>1, <1>2
<1>4. \A i \in 1..(Len(rest) - 1) : i \in 1..Len(rest)
  BY <1>1
<1>5. OwnEvent(rest, left, inner)
  BY <1>3, <1>4 DEF OwnEvent
<1> QED BY <1>5 DEF rest

LEMMA DisplayIsCalled ==
  ASSUME NEW calls \in Seq(CallRecord), NEW event, NEW inner, calls # <<>>,
         OwnEvent(calls, event, inner), calls[Len(calls)].kind # "output",
         NEW call \in CallRecord, call.kind \notin {"render", "output"},
         NEW left, left.parts \subseteq {left.owner}
  PROVE  OwnEvent([calls EXCEPT ![Len(calls)] = call], left, inner)
<1> DEFINE n == Len(calls)
           new == [calls EXCEPT ![n] = call]
<1>1. /\ n \in Nat \ {0}
      /\ \A i \in 1..(n - 1) : /\ calls[i].kind = "render"
                               /\ calls[i].render \in inner
  BY OuterHaveLost
<1>2. /\ Len(new) = n /\ new[n] = call
      /\ \A i \in 1..(n - 1) : new[i] = calls[i]
  BY <1>1, ExceptSeq
<1>a. call.kind # "render" /\ call.kind # "output"
  OBVIOUS
<1> HIDE DEF new
<1>3. ASSUME NEW i \in 1..Len(new), new[i].kind = "render"
      PROVE  new[i].render \in inner /\ ~Current(new, i)
  <2>1. i # n
    BY <1>2, <1>a, <1>3
  <2>2. i \in 1..(n - 1)
    BY <1>1, <1>2, <2>1
  <2>3. ~Current(new, i)
    BY <1>1, <1>2, <1>a, <2>1, <2>2 DEF Current
  <2> QED BY <1>1, <1>2, <2>2, <2>3
<1>4. \A i \in 1..(Len(new) - 1) : new[i].kind = "render"
  BY <1>1, <1>2
<1>5. OwnEvent(new, left, inner)
  BY <1>3, <1>4 DEF OwnEvent
<1> QED BY <1>5 DEF new
-----------------------------------------------------------------------------
(* The three ways in which the stack changes, again. *)

EachOwnsItsEvent ==
  \A k \in 1..Len(scopes) :
    OwnEvent(scopes[k].calls, LocalsOf(k).event, nested)

LEMMA TopEvent ==
  ASSUME Inv, EachOwnsItsEvent, scopes # <<>>
  PROVE  OwnEvent(Calls, threadLocals.event, nested)
<1>1. Len(scopes) \in 1..Len(scopes)
  BY TopType DEF Inv
<1> QED BY <1>1 DEF EachOwnsItsEvent, LocalsOf, Calls, Top

\* The activations below the innermost one see at most that renders have nested.
LEMMA EventsAfterTopStep ==
  ASSUME Inv, EachOwnsItsEvent, scopes # <<>>, NEW t \in Scope,
         scopes' = [scopes EXCEPT ![Len(scopes)] = t],
         t.saved = Top.saved, nested \subseteq nested',
         OwnEvent(t.calls, threadLocals'.event, nested')
  PROVE  EachOwnsItsEvent'
<1>1. Len(scopes) \in Nat \ {0} /\ scopes \in Seq(Scope)
  BY EmptySeq, LenProperties DEF Inv, TypeOK
<1>2. /\ Len(scopes') = Len(scopes)
      /\ scopes'[Len(scopes)] = t
      /\ \A k \in 1..(Len(scopes) - 1) : scopes'[k] = scopes[k]
      /\ \A k \in 1..Len(scopes) : scopes'[k].saved = scopes[k].saved
  BY <1>1, ExceptSeq DEF Top
<1>3. ASSUME NEW k \in 1..Len(scopes')
      PROVE  OwnEvent(scopes'[k].calls, LocalsOf(k)'.event, nested')
  <2>1. CASE k = Len(scopes)
    BY <1>2, <2>1 DEF LocalsOf
  <2>2. CASE k # Len(scopes)
    <3>0. k \in 1..Len(scopes)
      BY <1>2
    <3>1. k \in 1..(Len(scopes) - 1) /\ k + 1 \in 1..Len(scopes)
      BY <1>1, <2>2, <3>0
    <3>2. LocalsOf(k)' = LocalsOf(k) /\ scopes'[k] = scopes[k]
      BY <1>2, <2>2, <3>1 DEF LocalsOf
    <3>3. OwnEvent(scopes[k].calls, LocalsOf(k).event, nested)
      BY <3>0 DEF EachOwnsItsEvent
    <3> QED BY <3>2, <3>3, OwnEventGrows
  <2> QED BY <2>1, <2>2
<1> QED BY <1>3 DEF EachOwnsItsEvent

LEMMA EventsAfterEnter ==
  ASSUME Inv, EachOwnsItsEvent, NEW t, scopes' = Append(scopes, t),
         t \in Scope, t.saved = threadLocals, t.calls = <<>>,
         threadLocals'.event = NoEvent, nested' = nested
  PROVE  EachOwnsItsEvent'
<1>1. Len(scopes) \in Nat /\ scopes \in Seq(Scope)
  BY LenProperties DEF Inv, TypeOK
<1>2. /\ Len(scopes') = Len(scopes) + 1
      /\ scopes'[Len(scopes) + 1] = t
      /\ \A k \in 1..Len(scopes) : scopes'[k] = scopes[k]
  BY <1>1, AppendProperties
<1>3. ASSUME NEW k \in 1..Len(scopes')
      PROVE  OwnEvent(scopes'[k].calls, LocalsOf(k)'.event, nested')
  <2>1. CASE k = Len(scopes) + 1
    <3>1. scopes'[k].calls = <<>> /\ LocalsOf(k)'.event = NoEvent
      BY <1>2, <2>1 DEF LocalsOf
    <3>2. Len(<<>>) = 0
      BY EmptySeq
    <3>3. OwnEvent(<<>>, NoEvent, nested')
      BY <3>2 DEF OwnEvent, NoEvent
    <3> QED BY <3>1, <3>3
  <2>2. CASE k # Len(scopes) + 1
    <3>1. k \in 1..Len(scopes) /\ scopes'[k] = scopes[k]
      BY <1>1, <1>2, <2>2
    <3>2. LocalsOf(k)' = LocalsOf(k)
      <4>1. CASE k = Len(scopes)
        BY <1>1, <1>2, <4>1 DEF LocalsOf
      <4>2. CASE k # Len(scopes)
        <5>1. k + 1 \in 1..Len(scopes)
          BY <1>1, <3>1, <4>2
        <5> QED BY <1>1, <1>2, <3>1, <4>2, <5>1 DEF LocalsOf
      <4> QED BY <4>1, <4>2
    <3> QED BY <3>1, <3>2 DEF EachOwnsItsEvent
  <2> QED BY <2>1, <2>2
<1> QED BY <1>3 DEF EachOwnsItsEvent

LEMMA EventsAfterLeave ==
  ASSUME Inv, EachOwnsItsEvent, scopes # <<>>, LeaveScope, nested' = nested
  PROVE  EachOwnsItsEvent'
<1>0. scopes \in Seq(Scope)
  BY DEF Inv, TypeOK
<1>1. Len(scopes) \in Nat \ {0}
  BY <1>0, EmptySeq, LenProperties
<1>2. scopes' = SubSeq(scopes, 1, Len(scopes) - 1)
      /\ threadLocals' = scopes[Len(scopes)].saved
  BY DEF LeaveScope, Restored, Top
<1>3. /\ Len(scopes') = Len(scopes) - 1
      /\ \A k \in 1..(Len(scopes) - 1) : scopes'[k] = scopes[k]
  <2> DEFINE n == Len(scopes) - 1
  <2>1. n \in Nat /\ \A i \in 1..n : scopes[i] \in Scope
    BY <1>0, <1>1, ElementOfSeq
  <2>2. /\ Len(SubSeq(scopes, 1, n)) = n
        /\ \A i \in 1..n : SubSeq(scopes, 1, n)[i] = scopes[i]
    <3> HIDE DEF n
    <3> QED BY <2>1, SubSeqProperties
  <2> QED BY <1>2, <2>2
<1>4. ASSUME NEW k \in 1..Len(scopes')
      PROVE  OwnEvent(scopes'[k].calls, LocalsOf(k)'.event, nested')
  <2>1. k \in 1..(Len(scopes) - 1) /\ scopes'[k] = scopes[k]
    BY <1>3
  <2>2. LocalsOf(k)' = LocalsOf(k)
    <3>1. CASE k = Len(scopes) - 1
      <4>1. k # Len(scopes) /\ k + 1 = Len(scopes) /\ k = Len(scopes')
        BY <1>1, <1>3, <3>1
      <4> QED BY <1>2, <4>1 DEF LocalsOf
    <3>2. CASE k # Len(scopes) - 1
      <4>1. k + 1 \in 1..(Len(scopes) - 1)
        BY <1>1, <2>1, <3>2
      <4> QED BY <1>1, <1>2, <1>3, <2>1, <3>2, <4>1 DEF LocalsOf
    <3> QED BY <3>1, <3>2
  <2> QED BY <1>1, <2>1, <2>2 DEF EachOwnsItsEvent
<1> QED BY <1>4 DEF EachOwnsItsEvent
-----------------------------------------------------------------------------
(* What is delivered, and what is lost. *)

EventsInv == EachOwnsItsEvent /\ EventsAreOwn

\* A step of the innermost activation that observes nothing.
LEMMA QuietStep ==
  ASSUME EventsInv, EachOwnsItsEvent', observed'.what \notin Emissions,
         nested \subseteq nested', lost' = lost
  PROVE  EventsInv'
BY DEF EventsInv, EventsAreOwn, EventsNotMixed, LostOnlyToNestedDisplay

LEMMA NothingIsEmitted == Nothing.what \notin Emissions
BY DEF Nothing, Emissions

LEMMA MojoEvents ==
  ASSUME Inv, EventsInv, MojoStep
  PROVE  EventsInv'
<1>0. /\ scopes # <<>> /\ threadLocals \in Locals /\ Top \in Scope
      /\ Calls \in Seq(CallRecord) /\ Len(scopes) \in 1..Len(scopes)
  BY TopType
  DEF MojoStep, EmitPrint, DisplayBegin, DisplayAdd, DisplayEnd, EmitError,
      RegisterPersistent, CompileGPU, InRender, MojoRuns, Inv, TypeOK
<1>1. Rendering(Calls)
  BY DEF MojoStep, EmitPrint, DisplayBegin, DisplayAdd, DisplayEnd, EmitError,
      RegisterPersistent, CompileGPU, InRender, MojoRuns, InCallback, Rendering,
      Call
<1>2. OwnEvent(Calls, threadLocals.event, nested)
  BY <1>0, TopEvent DEF EventsInv
<1>3. threadLocals.event.parts \subseteq {threadLocals.event.owner}
  BY <1>2 DEF OwnEvent
<1>4. EachOwnsItsEvent /\ EventsNotMixed /\ LostOnlyToNestedDisplay
  BY DEF EventsInv, EventsAreOwn
<1>5. \A call \in CallRecord :
        LET t == [Top EXCEPT !.calls = Append(@, call)]
        IN  /\ t \in Scope /\ t.saved = Top.saved
            /\ t.calls = Append(Calls, call)
            /\ Push(call) = [scopes EXCEPT ![Len(scopes)] = t]
  <2>1. ASSUME NEW call \in CallRecord
        PROVE  LET t == [Top EXCEPT !.calls = Append(@, call)]
               IN  /\ t \in Scope /\ t.saved = Top.saved
                   /\ t.calls = Append(Calls, call)
                   /\ Push(call) = [scopes EXCEPT ![Len(scopes)] = t]
    <3>1. [Top EXCEPT !.calls = Append(@, call)] \in Scope
      BY <1>0, CallsType DEF Inv
    <3> QED BY <1>0, <3>1 DEF Push, Top, Calls, Scope
  <2> QED BY <2>1
<1>6. CASE EmitPrint
  <2>1. observed'.parts = {} /\ nested' = nested /\ lost' = lost
        /\ threadLocals' = threadLocals
    BY <1>6 DEF EmitPrint, Delivery, NoEvent, displays
  <2>2. EachOwnsItsEvent'
    <3>1. CASE scopes' = scopes
      BY <1>4, <2>1, <3>1 DEF EachOwnsItsEvent, LocalsOf
    <3>2. CASE scopes' = Push([kind |-> "output", render |-> 0])
      <4> DEFINE call == [kind |-> "output", render |-> 0]
                 t    == [Top EXCEPT !.calls = Append(@, call)]
      <4>1. call \in CallRecord
        BY DEF CallRecord
      <4>2. OwnEvent(Append(Calls, call), threadLocals.event, nested)
        BY <1>0, <1>1, <1>2, OutputIsCalled
      <4>3. /\ t \in Scope /\ t.saved = Top.saved
            /\ t.calls = Append(Calls, call)
            /\ scopes' = [scopes EXCEPT ![Len(scopes)] = t]
        BY <1>5, <3>2, <4>1
      <4> HIDE DEF t, call
      <4> QED BY <1>0, <1>4, <2>1, <4>2, <4>3, EventsAfterTopStep
    <3> QED BY <1>6, <3>1, <3>2 DEF EmitPrint
  <2> QED
    BY <1>4, <2>1, <2>2
    DEF EventsInv, EventsAreOwn, EventsNotMixed, LostOnlyToNestedDisplay
<1>7. CASE DisplayBegin
  <2> DEFINE call == [kind |-> "render", render |-> renders + 1]
             t    == [Top EXCEPT !.calls = Append(@, call)]
  <2>1. /\ threadLocals'.event = Pending(renders + 1)
        /\ nested' = nested \union {Calls[i].render : i \in 1..Len(Calls)}
        /\ scopes' = Push(call) /\ lost' = lost /\ observed' = Nothing
    BY <1>0, <1>7 DEF DisplayBegin, Locals
  <2>2. renders + 1 \in 1..MaxRenders /\ renders + 1 \in Nat
    BY <1>7, SessionsAssumption DEF DisplayBegin, Inv, TypeOK
  <2>3. call \in CallRecord
    BY <2>2 DEF CallRecord
  <2>4. OwnEvent(Append(Calls, call), threadLocals'.event, nested')
    BY <1>0, <1>1, <1>2, <2>1, <2>2, RenderBegins
  <2>5. /\ t \in Scope /\ t.saved = Top.saved
        /\ t.calls = Append(Calls, call)
        /\ scopes' = [scopes EXCEPT ![Len(scopes)] = t]
    BY <1>5, <2>1, <2>3
  <2> HIDE DEF t, call
  <2>6. EachOwnsItsEvent'
    BY <1>0, <1>4, <2>1, <2>4, <2>5, EventsAfterTopStep
  <2> QED BY <2>1, <2>6, QuietStep, NothingIsEmitted
<1>8. CASE DisplayAdd
  <2>1. /\ scopes' = scopes /\ nested' = nested /\ lost' = lost
        /\ observed' = Nothing /\ Calls # <<>>
    BY <1>8 DEF DisplayAdd, InRender, displays
  <2>2. Len(Calls) \in 1..Len(Calls) /\ Call.kind = "render"
    BY <1>0, <1>1, <2>1, EmptySeq, LenProperties DEF Call, Rendering
  <2>3. threadLocals.event.owner \in {0, Call.render}
    BY <1>2, <2>2 DEF OwnEvent, Current, Call
  <2>4. /\ threadLocals'.event.owner = threadLocals.event.owner
        /\ threadLocals'.event.parts \subseteq {threadLocals.event.owner}
    BY <1>0, <1>3, <1>8, <2>3 DEF DisplayAdd, WithPart, Locals, Event
  <2>5. OwnEvent(Calls, threadLocals'.event, nested')
    BY <1>2, <2>1, <2>4 DEF OwnEvent
  <2>6. scopes' = [scopes EXCEPT ![Len(scopes)] = Top] /\ Top.calls = Calls
    BY <1>0, <2>1 DEF Top, Calls, Inv, TypeOK
  <2>7. EachOwnsItsEvent'
    BY <1>0, <1>4, <2>1, <2>5, <2>6, EventsAfterTopStep
  <2> QED BY <2>1, <2>7, QuietStep, NothingIsEmitted
<1>9. CASE DisplayEnd
  <2>1. /\ nested' = nested /\ Calls # <<>>
    BY <1>9 DEF DisplayEnd, InRender
  <2>2. /\ Len(Calls) \in 1..Len(Calls) /\ Call.kind = "render"
        /\ Calls[Len(Calls)].kind # "output"
    BY <1>0, <1>1, <2>1, EmptySeq, LenProperties DEF Call, Rendering
  <2>3. /\ threadLocals.event.owner \in {0, Call.render}
        /\ threadLocals.event.owner = 0 => Call.render \in nested
    <3>1. Call.render \in 1..MaxRenders
      BY <1>0, <2>2, ElementOfSeq DEF Call, CallRecord
    <3> QED
      BY <1>2, <2>2, <3>1, SessionsAssumption DEF OwnEvent, Current, Call
  <2>4. LET t == [Top EXCEPT !.calls = SubSeq(@, 1, Len(@) - 1)]
        IN  /\ t \in Scope /\ t.saved = Top.saved
            /\ t.calls = SubSeq(Calls, 1, Len(Calls) - 1)
            /\ Pop = [scopes EXCEPT ![Len(scopes)] = t]
    <3>1. [Top EXCEPT !.calls = SubSeq(@, 1, Len(@) - 1)] \in Scope
      BY <1>0, <2>1, CallsType DEF Inv
    <3> QED BY <1>0, <3>1 DEF Pop, Top, Calls, Scope
  <2>5. ASSUME scopes' = Pop, threadLocals'.event.owner = 0,
               threadLocals'.event.parts \subseteq {0}
        PROVE  EachOwnsItsEvent'
    <3> DEFINE t == [Top EXCEPT !.calls = SubSeq(@, 1, Len(@) - 1)]
    <3>1. OwnEvent(SubSeq(Calls, 1, Len(Calls) - 1), threadLocals'.event, nested)
      BY <1>0, <1>2, <2>1, <2>2, <2>5, DisplayIsOver
    <3>2. /\ t \in Scope /\ t.saved = Top.saved
          /\ t.calls = SubSeq(Calls, 1, Len(Calls) - 1)
          /\ scopes' = [scopes EXCEPT ![Len(scopes)] = t]
      BY <2>4, <2>5
    <3> HIDE DEF t
    <3> QED BY <1>0, <1>4, <2>1, <3>1, <3>2, EventsAfterTopStep
  <2>6. ASSUME NEW call \in CallRecord, call.kind \notin {"render", "output"},
               scopes' = Replace(call),
               threadLocals'.event.parts \subseteq {threadLocals'.event.owner}
        PROVE  EachOwnsItsEvent'
    <3> DEFINE t == [Top EXCEPT !.calls[Len(Calls)] = call]
    <3>1. OwnEvent([Calls EXCEPT ![Len(Calls)] = call], threadLocals'.event, nested)
      BY <1>0, <1>2, <2>1, <2>2, <2>6, DisplayIsCalled
    <3>2. t \in Scope
      BY <1>0, <2>1, CallsType DEF Inv
    <3>3. /\ t.saved = Top.saved /\ t.calls = [Calls EXCEPT ![Len(Calls)] = call]
          /\ scopes' = [scopes EXCEPT ![Len(scopes)] = t]
      BY <1>0, <2>6 DEF Replace, Top, Calls, Scope
    <3> HIDE DEF t
    <3> QED BY <1>0, <1>4, <2>1, <3>1, <3>2, <3>3, EventsAfterTopStep
  <2>7. CASE /\ threadLocals.event.owner = 0 /\ scopes' = Pop
             /\ lost' = lost \union {Call.render} /\ observed' = Nothing
             /\ threadLocals' = threadLocals
    <3>1. EachOwnsItsEvent'
      BY <1>3, <2>5, <2>7
    <3>2. lost' \subseteq nested'
      BY <1>4, <2>1, <2>3, <2>7 DEF LostOnlyToNestedDisplay
    <3> QED
      BY <2>7, <3>1, <3>2, NothingIsEmitted
      DEF EventsInv, EventsAreOwn, EventsNotMixed, LostOnlyToNestedDisplay
  <2>8. CASE /\ threadLocals.event.owner # 0
             /\ observed' = Delivery("display", threadLocals.display,
                                     threadLocals.event)
             /\ threadLocals' = [threadLocals EXCEPT !.event.parts = {}]
             /\ scopes' = Replace([kind |-> "display", render |-> 0])
             /\ lost' = lost
    <3>1. threadLocals'.event.parts = {}
      BY <1>0, <2>8 DEF Locals, Event
    <3>2. [kind |-> "display", render |-> 0] \in CallRecord
      BY DEF CallRecord
    <3>3. EachOwnsItsEvent'
      BY <2>6, <2>8, <3>1, <3>2
    <3>4. observed'.parts \subseteq {observed'.owner}
      BY <1>3, <2>8 DEF Delivery
    <3> QED
      BY <1>4, <2>1, <2>8, <3>3, <3>4
      DEF EventsInv, EventsAreOwn, EventsNotMixed, LostOnlyToNestedDisplay
  <2>9. CASE /\ threadLocals.event.owner # 0
             /\ observed' = Delivery("text", threadLocals.output,
                                     threadLocals.event)
             /\ IF threadLocals.output = NoSession
                  THEN /\ scopes' = Pop
                       /\ threadLocals' = [threadLocals EXCEPT !.event = NoEvent]
                  ELSE /\ scopes' = Replace([kind |-> "text", render |-> 0])
                       /\ UNCHANGED threadLocals
             /\ lost' = lost
    <3>1. EachOwnsItsEvent'
      <4>1. CASE threadLocals.output = NoSession
        <5>1. threadLocals'.event = NoEvent
          BY <1>0, <2>9, <4>1 DEF Locals
        <5>2. threadLocals'.event.owner = 0 /\ threadLocals'.event.parts = {}
          BY <5>1 DEF NoEvent
        <5> QED BY <2>5, <2>9, <4>1, <5>2
      <4>2. CASE threadLocals.output # NoSession
        <5>1. [kind |-> "text", render |-> 0] \in CallRecord
          BY DEF CallRecord
        <5> QED BY <1>3, <2>6, <2>9, <4>2, <5>1
      <4> QED BY <4>1, <4>2
    <3>2. observed'.parts \subseteq {observed'.owner}
      BY <1>3, <2>9 DEF Delivery
    <3> QED
      BY <1>4, <2>1, <2>9, <3>1, <3>2
      DEF EventsInv, EventsAreOwn, EventsNotMixed, LostOnlyToNestedDisplay
  <2> QED BY <1>9, <2>7, <2>8, <2>9 DEF DisplayEnd
<1>10. CASE EmitError
  <2> DEFINE t == [Top EXCEPT !.returned = TRUE]
  <2>1. /\ t \in Scope /\ t.saved = Top.saved /\ t.calls = Calls
        /\ scopes' = [scopes EXCEPT ![Len(scopes)] = t]
    BY <1>0, <1>10, CallsType DEF EmitError, Top, Scope, Calls, Inv
  <2>2. /\ threadLocals'.event = threadLocals.event /\ observed' = Nothing
        /\ nested' = nested /\ lost' = lost
    BY <1>0, <1>10 DEF EmitError, Locals, displays
  <2> HIDE DEF t
  <2>3. EachOwnsItsEvent'
    BY <1>0, <1>2, <1>4, <2>1, <2>2, EventsAfterTopStep
  <2> QED BY <2>2, <2>3, QuietStep, NothingIsEmitted
<1>11. CASE RegisterPersistent \/ CompileGPU
  <2>1. /\ scopes' = scopes /\ threadLocals' = threadLocals
        /\ nested' = nested /\ lost' = lost
    BY <1>11 DEF RegisterPersistent, CompileGPU, displays
  <2>2. EachOwnsItsEvent'
    BY <1>4, <2>1 DEF EachOwnsItsEvent, LocalsOf
  <2>3. observed'.what \notin Emissions
    BY <1>11 DEF RegisterPersistent, CompileGPU, Emissions
  <2> QED BY <2>1, <2>2, <2>3, QuietStep
<1> QED
  BY <1>6, <1>7, <1>8, <1>9, <1>10, <1>11 DEF MojoStep
LEMMA NextEvents == Inv /\ EventsInv /\ [Next]_vars => EventsInv'
<1> SUFFICES ASSUME Inv, EventsInv, [Next]_vars PROVE EventsInv'
  OBVIOUS
<1>0. /\ EachOwnsItsEvent /\ EventsNotMixed /\ LostOnlyToNestedDisplay
      /\ threadLocals \in Locals /\ <<>> \in Seq(CallRecord)
  BY EmptySeq DEF EventsInv, EventsAreOwn, Inv, TypeOK
<1>1. ASSUME NEW s \in Sessions, NEW kind \in {"cell", "destructor"},
             NEW compiler, NEW table, EnterScope(kind, s, compiler, table),
             observed' = Nothing, UNCHANGED displays
      PROVE  EventsInv'
  <2> DEFINE t == [kind |-> kind, session |-> s, id |-> entered + 1,
                   calls |-> <<>>, returned |-> FALSE, saved |-> threadLocals]
  <2>1. entered + 1 \in 1..MaxScopes
    BY <1>1, SessionsAssumption DEF EnterScope, Inv, TypeOK
  <2>2. t \in Scope /\ t.saved = threadLocals /\ t.calls = <<>>
    BY <1>0, <2>1 DEF Scope
  <2>3. scopes' = Append(scopes, t) /\ threadLocals'.event = NoEvent
    BY <1>1 DEF EnterScope, FreshLocals
  <2>4. nested' = nested /\ lost' = lost
    BY <1>1 DEF displays
  <2> HIDE DEF t
  <2>5. EachOwnsItsEvent'
    BY <1>0, <2>2, <2>3, <2>4, EventsAfterEnter
  <2> QED BY <1>1, <2>4, <2>5, QuietStep, NothingIsEmitted
<1>2. ASSUME NEW s \in Sessions, Execute(s) PROVE EventsInv'
  BY <1>1, <1>2 DEF Execute
<1>3. ASSUME NEW s \in Sessions, Destroy(s) PROVE EventsInv'
  BY <1>1, <1>3 DEF Destroy
<1>4. CASE CallbackReturns
  <2> DEFINE t == [Top EXCEPT !.calls = SubSeq(@, 1, Len(@) - 1)]
  <2>1. /\ scopes # <<>> /\ Calls # <<>> /\ Call.kind # "render"
        /\ scopes' = Pop /\ observed' = Nothing
        /\ nested' = nested /\ lost' = lost
    BY <1>4 DEF CallbackReturns, InCallback, displays
  <2>2. /\ Top \in Scope /\ Calls \in Seq(CallRecord)
        /\ Len(scopes) \in 1..Len(scopes)
    BY <2>1, TopType DEF Inv
  <2>3. OwnEvent(Calls, threadLocals.event, nested)
    BY <1>0, <2>1, TopEvent
  <2>4. t \in Scope
    BY <2>1, CallsType DEF Inv
  <2>5. /\ t.saved = Top.saved /\ t.calls = SubSeq(Calls, 1, Len(Calls) - 1)
        /\ scopes' = [scopes EXCEPT ![Len(scopes)] = t]
    BY <2>1, <2>2 DEF Pop, Top, Calls, Scope
  <2> HIDE DEF t
  <2>6. OwnEvent(SubSeq(Calls, 1, Len(Calls) - 1), threadLocals'.event, nested)
    <3>1. CASE Call.kind = "output"
      <4>1. threadLocals' = threadLocals /\ Calls[Len(Calls)].kind = "output"
        BY <1>4, <3>1 DEF CallbackReturns, Call
      <4> QED BY <2>1, <2>2, <2>3, <4>1, OutputReturns
    <3>2. CASE Call.kind # "output"
      <4>1. threadLocals'.event = NoEvent /\ Calls[Len(Calls)].kind # "output"
        BY <1>0, <1>4, <3>2 DEF CallbackReturns, Call, Locals
      <4>2. threadLocals'.event.owner = 0 /\ threadLocals'.event.parts \subseteq {0}
        BY <4>1 DEF NoEvent
      <4> QED BY <2>1, <2>2, <2>3, <4>1, <4>2, DisplayIsOver
    <3> QED BY <3>1, <3>2
  <2>7. EachOwnsItsEvent'
    BY <1>0, <2>1, <2>4, <2>5, <2>6, EventsAfterTopStep
  <2> QED BY <2>1, <2>7, QuietStep, NothingIsEmitted
<1>5. CASE MojoStep
  BY <1>5, MojoEvents
<1>6. CASE CellReturns \/ DestructorReturns
  <2>1. /\ scopes # <<>> /\ LeaveScope /\ observed'.what \notin Emissions
        /\ nested' = nested /\ lost' = lost
    BY <1>6, NothingIsEmitted
    DEF CellReturns, DestructorReturns, Emissions, displays
  <2>2. EachOwnsItsEvent'
    BY <1>0, <2>1, EventsAfterLeave
  <2> QED BY <2>1, <2>2, QuietStep
<1>7. CASE Crash
  <2>1. /\ scopes # <<>> /\ observed' = Nothing
        /\ nested' = nested /\ lost' = lost
    BY <1>7 DEF Crash, displays
  <2>2. CASE LeaveScope
    <3>1. EachOwnsItsEvent'
      BY <1>0, <2>1, <2>2, EventsAfterLeave
    <3> QED BY <2>1, <3>1, QuietStep, NothingIsEmitted
  <2>3. CASE /\ scopes' = [scopes EXCEPT ![Len(scopes)].calls = <<>>]
             /\ UNCHANGED threadLocals
    <3> DEFINE t == [Top EXCEPT !.calls = <<>>]
    <3>1. OwnEvent(Calls, threadLocals.event, nested)
      BY <1>0, <2>1, TopEvent
    <3>2. OwnEvent(<<>>, threadLocals.event, nested)
      <4>1. Len(<<>>) = 0
        BY EmptySeq
      <4> QED BY <3>1, <4>1 DEF OwnEvent
    <3>3. t \in Scope /\ Top \in Scope /\ Len(scopes) \in 1..Len(scopes)
      BY <2>1, CallsType, TopType DEF Inv
    <3>4. /\ t.saved = Top.saved /\ t.calls = <<>>
          /\ scopes' = [scopes EXCEPT ![Len(scopes)] = t]
      BY <2>3, <3>3 DEF Top, Scope
    <3> HIDE DEF t
    <3>5. EachOwnsItsEvent'
      BY <1>0, <2>1, <2>3, <3>2, <3>3, <3>4, EventsAfterTopStep
    <3> QED BY <2>1, <3>5, QuietStep, NothingIsEmitted
  <2> QED BY <1>7, <2>2, <2>3 DEF Crash
<1>8. CASE UNCHANGED vars
  BY <1>8
  DEF EventsInv, EventsAreOwn, EventsNotMixed, LostOnlyToNestedDisplay,
      EachOwnsItsEvent, LocalsOf, vars, displays
<1> QED
  BY <1>2, <1>3, <1>4, <1>5, <1>6, <1>7, <1>8
  DEF Next, ClientStep, ScopeStep

\* A value is delivered in one event that holds its representations only, unless
\* its own representation method displayed another value.
THEOREM EventsStayOwn == Spec => []EventsAreOwn
<1>1. Init => EventsInv
  <2> SUFFICES ASSUME Init PROVE EventsInv
    OBVIOUS
  <2>1. scopes = <<>> /\ Len(scopes) = 0 /\ lost = {} /\ observed = Nothing
    BY EmptySeq DEF Init
  <2> QED
    BY <2>1, NothingIsEmitted
    DEF EventsInv, EachOwnsItsEvent, EventsAreOwn, EventsNotMixed,
        LostOnlyToNestedDisplay
<1>2. EventsInv => EventsAreOwn
  BY DEF EventsInv
<1> QED BY <1>1, <1>2, NextEvents, Invariance, PTL DEF Spec
=============================================================================

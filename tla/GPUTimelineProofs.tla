------------------------- MODULE GPUTimelineProofs -------------------------
(***************************************************************************)
(* Theorems about GPUTimeline, for any threads and buffers and any number  *)
(* of dispatches.                                                          *)
(***************************************************************************)
EXTENDS GPUTimeline, TLAPS

LEMMA Appending ==
  ASSUME NEW S, NEW q \in Seq(S), NEW x \in S
  PROVE  /\ Append(q, x) \in Seq(S)
         /\ DOMAIN q = 1..Len(q) /\ DOMAIN Append(q, x) = 1..(Len(q) + 1)
         /\ \A i \in 1..Len(q) : Append(q, x)[i] = q[i]
         /\ Append(q, x)[Len(q) + 1] = x /\ Len(q) \in Nat
OBVIOUS

LEMMA Removing ==
  ASSUME NEW S, NEW q \in Seq(S), q # <<>>
  PROVE  /\ Tail(q) \in Seq(S) /\ Head(q) \in S /\ Head(q) = q[1]
         /\ Len(q) \in Nat \ {0} /\ DOMAIN q = 1..Len(q)
         /\ DOMAIN Tail(q) = 1..(Len(q) - 1)
         /\ \A i \in 1..(Len(q) - 1) : Tail(q)[i] = q[i + 1]
OBVIOUS

-----------------------------------------------------------------------------
(* Shapes. *)

InDispatch == {"lock", "allocate", "submit", "unlock", "return"}

LEMMA CallType ==
  ASSUME TypeOK, NEW t \in Threads
  PROVE  /\ call[t].pc \in InDispatch =>
              /\ call[t].buffer \in Buffers \ Foreign
              /\ call[t].offset \in Sizes /\ call[t].length \in Sizes
         /\ call[t].pc \in {"submit", "unlock", "return", "wait"} =>
              call[t].value \in Values
BY DEF TypeOK, Call, Idle, InDispatch

\* Calls change in four ways.
LEMMA Moves ==
  ASSUME TypeOK, NEW t \in Threads, NEW c \in Call, Becomes(t, c)
  PROVE  call' \in [Threads -> Call]
BY DEF TypeOK, Becomes

LEMMA GotoType ==
  ASSUME TypeOK, NEW t \in Threads
  PROVE  /\ call[t].pc = "lock" => Goto(t, "allocate") \in Call
         /\ call[t].pc = "submit" => Goto(t, "unlock") \in Call
         /\ call[t].pc = "unlock" => Goto(t, "return") \in Call
<1>1. call[t] \in Call
  BY DEF TypeOK
<1>2. ASSUME call[t].pc = "lock" PROVE Goto(t, "allocate") \in Call
  <2>1. call[t] \in [pc : {"lock", "allocate"}, buffer : Buffers \ Foreign,
                     offset : Sizes, length : Sizes]
    BY <1>1, <1>2 DEF Call, Idle
  <2> QED BY <2>1 DEF Goto, Call
<1>3. ASSUME call[t].pc \in {"submit", "unlock"}, NEW pc \in {"unlock", "return"}
      PROVE  Goto(t, pc) \in Call
  <2>1. call[t] \in [pc : {"submit", "unlock", "return"},
                     buffer : Buffers \ Foreign,
                     offset : Sizes, length : Sizes, value : Values]
    BY <1>1, <1>3 DEF Call, Idle
  <2> QED BY <2>1, <1>3 DEF Goto, Call
<1> QED BY <1>2, <1>3

LEMMA IdleType == Idle \in Call
BY DEF Call

LEMMA ViewType ==
  ASSUME NEW offset \in Lengths, NEW passed \in Lengths,
         NEW length \in {passed, ViewLength(offset, passed)}
  PROVE  offset \in Sizes /\ length \in Sizes
BY TimelineAssumption DEF ViewLength, Sizes

LEMMA TypeInductive == TypeOK /\ [Next]_vars => TypeOK'
<1> SUFFICES ASSUME TypeOK, [Next]_vars PROVE TypeOK'
  OBVIOUS
<1>1. CASE UNCHANGED vars
  BY <1>1 DEF vars, host, device, TypeOK
<1>2. ASSUME NEW t \in Threads, Dispatch(t) PROVE TypeOK'
  <2>1. PICK b \in Buffers \ Foreign, offset \in Lengths, passed \in Lengths :
          \E length \in {passed, ViewLength(offset, passed)} :
            Becomes(t, [pc |-> "lock", buffer |-> b, offset |-> offset,
                        length |-> length])
    BY <1>2 DEF Dispatch
  <2>2. PICK length \in {passed, ViewLength(offset, passed)} :
          Becomes(t, [pc |-> "lock", buffer |-> b, offset |-> offset,
                      length |-> length])
    BY <2>1
  <2>3. [pc |-> "lock", buffer |-> b, offset |-> offset, length |-> length] \in Call
    BY ViewType DEF Call
  <2>4. call' \in [Threads -> Call]
    BY <2>2, <2>3, Moves
  <2> QED BY <1>2, <2>4 DEF Dispatch, device, TypeOK
<1>3. ASSUME NEW t \in Threads, Wait(t) PROVE TypeOK'
  <2>1. PICK v \in events : Becomes(t, [pc |-> "wait", value |-> v])
    BY <1>3 DEF Wait
  <2>2. [pc |-> "wait", value |-> v] \in Call
    BY DEF Call, TypeOK
  <2>3. call' \in [Threads -> Call]
    BY <2>1, <2>2, Moves
  <2> QED BY <1>3, <2>3 DEF Wait, device, TypeOK
<1>4. ASSUME NEW t \in Threads, Lock(t) PROVE TypeOK'
  <2>1. call' \in [Threads -> Call]
    BY <1>4, GotoType, Moves DEF Lock
  <2> QED BY <1>4, <2>1 DEF Lock, device, TypeOK
<1>5. ASSUME NEW t \in Threads, Allocate(t) PROVE TypeOK'
  <2> DEFINE c == [pc |-> "submit", buffer |-> call[t].buffer,
                   offset |-> call[t].offset, length |-> call[t].length,
                   value |-> nextTimelineValue + 1]
  <2>1. nextTimelineValue \in Nat
    BY DEF TypeOK
  <2>2. nextTimelineValue + 1 \in Values /\ nextTimelineValue' \in Nat
    BY <1>5, <2>1 DEF Values, Allocate
  <2>3. c \in Call
    BY <1>5, <2>2, CallType DEF Allocate, Call, InDispatch
  <2>4. Becomes(t, c)
    BY <1>5 DEF Allocate, TimelineValue
  <2> HIDE DEF c
  <2>5. call' \in [Threads -> Call]
    BY <2>3, <2>4, Moves
  <2> QED BY <1>5, <2>2, <2>5 DEF Allocate, Held, device, TypeOK
<1>6. ASSUME NEW t \in Threads, Submit(t) PROVE TypeOK'
  <2>1. call' \in [Threads -> Call]
    BY <1>6, GotoType, Moves DEF Submit
  <2>2. Work(t) \in Item
    BY <1>6, CallType DEF Submit, Work, Item, InDispatch
  <2>3. queue' \in Seq(Item)
    BY <1>6, <2>2, Appending DEF Submit, TypeOK
  <2> QED BY <1>6, <2>1, <2>3 DEF Submit, TypeOK
<1>7. ASSUME NEW t \in Threads, SubmitFails(t) PROVE TypeOK'
  <2>1. call' \in [Threads -> Call]
    BY <1>7, IdleType, Moves DEF SubmitFails
  <2>2. rejected' \subseteq Values
    BY <1>7, CallType DEF SubmitFails, TypeOK
  <2> QED BY <1>7, <2>1, <2>2 DEF SubmitFails, Released, device, TypeOK
<1>8. ASSUME NEW t \in Threads, Unlock(t) PROVE TypeOK'
  <2>1. call' \in [Threads -> Call]
    BY <1>8, GotoType, Moves DEF Unlock
  <2> QED BY <1>8, <2>1 DEF Unlock, device, TypeOK
<1>9. ASSUME NEW t \in Threads, ReturnEvent(t) PROVE TypeOK'
  <2>1. call' \in [Threads -> Call]
    BY <1>9, IdleType, Moves DEF ReturnEvent
  <2>2. events' \subseteq Values
    BY <1>9, CallType DEF ReturnEvent, EventValue, TypeOK
  <2> QED BY <1>9, <2>1, <2>2 DEF ReturnEvent, device, TypeOK
<1>10. ASSUME NEW t \in Threads, WaitEnds(t) PROVE TypeOK'
  <2>1. call' \in [Threads -> Call]
    BY <1>10, IdleType, Moves DEF WaitEnds
  <2> QED BY <1>10, <2>1 DEF WaitEnds, device, TypeOK
<1>11. CASE Execute
  <2>1. Head(queue) \in Item
    BY <1>11, Removing DEF Execute, TypeOK
  <2>2. Head(queue).value \in Values /\ Head(queue).buffer \in Buffers
    BY <2>1 DEF Item
  <2>3. \A b \in Buffers : contents[b] \in Seq(Values)
    BY DEF TypeOK
  <2>4. Append(contents[Head(queue).buffer], Head(queue).value) \in Seq(Values)
    BY <2>2, <2>3, Appending
  <2>5. contents' \in [Buffers -> Seq(Values)]
    BY <1>11, <2>4 DEF Execute, TypeOK
  <2> QED BY <1>11, <2>5 DEF Execute, host, TypeOK
<1>12. ASSUME queue # <<>>, Signal \/ Fail PROVE TypeOK'
  <2>1. queue' \in Seq(Item) /\ Head(queue) \in Item
    BY <1>12, Removing DEF Signal, Fail, TypeOK
  <2>2. Head(queue).value \in Nat
    BY <2>1 DEF Item, Values
  <2>3. payload' \in Nat
    BY <1>12, <2>2 DEF Signal, Fail, TypeOK
  <2> QED BY <1>12, <2>1, <2>3 DEF Signal, Fail, host, TypeOK
<1> QED
  BY <1>1, <1>2, <1>3, <1>4, <1>5, <1>6, <1>7, <1>8, <1>9, <1>10, <1>11, <1>12
  DEF Next, Finish, Signal, Fail

LEMMA InitType == Init => TypeOK
<1> SUFFICES ASSUME Init PROVE TypeOK
  OBVIOUS
<1>1. call \in [Threads -> Call]
  BY IdleType DEF Init
<1>2. queue \in Seq(Item)
  BY DEF Init
<1>3. contents \in [Buffers -> Seq(Values)]
  <2>1. <<>> \in Seq(Values)
    OBVIOUS
  <2> QED BY <2>1 DEF Init
<1>4. /\ nextTimelineValue \in Nat /\ dispatchMutex \in Threads \union {None}
      /\ events \subseteq Values /\ rejected \subseteq Values
      /\ payload \in Nat
  BY DEF Init
<1>5. executed \in BOOLEAN /\ failed \in BOOLEAN
  BY DEF Init
<1> QED BY <1>1, <1>2, <1>3, <1>4, <1>5 DEF TypeOK

\* Every state has the shape of TypeOK.
THEOREM TypeCorrectness == Spec => []TypeOK
<1> QED BY InitType, TypeInductive, PTL DEF Spec

-----------------------------------------------------------------------------
(* The order of the timeline. *)

\* Who holds the mutex, and what has been allocated and not been submitted.
HasMutex(t) == call[t].pc \in {"allocate", "submit", "unlock"}

Exclusive ==
  \A t \in Threads :
    /\ HasMutex(t) => dispatchMutex = t
    /\ call[t].pc = "submit" => call[t].value = nextTimelineValue

Allocated ==
  /\ payload <= nextTimelineValue
  /\ \A i \in DOMAIN queue : queue[i].value <= nextTimelineValue
  /\ \A t \in Threads : call[t].pc = "submit" =>
       /\ payload < call[t].value
       /\ \A i \in DOMAIN queue : queue[i].value < call[t].value

Order == TypeOK /\ Exclusive /\ Allocated /\ TimelineInOrder

\* A step of a thread leaves the others alone.
LEMMA Others ==
  ASSUME TypeOK, NEW t \in Threads, NEW c, Becomes(t, c)
  PROVE  call'[t] = c /\ \A r \in Threads \ {t} : call'[r] = call[r]
BY DEF TypeOK, Becomes

LEMMA GotoFields ==
  ASSUME TypeOK, NEW t \in Threads, NEW pc, call[t].pc # "idle"
  PROVE  /\ Goto(t, pc).pc = pc
         /\ call[t].pc \in {"lock", "submit", "unlock"} =>
              /\ Goto(t, pc).buffer = call[t].buffer
              /\ Goto(t, pc).offset = call[t].offset
              /\ Goto(t, pc).length = call[t].length
         /\ call[t].pc \in {"submit", "unlock"} => Goto(t, pc).value = call[t].value
BY DEF TypeOK, Call, Idle, Goto

LEMMA ExclusiveInductive ==
  TypeOK /\ Exclusive /\ [Next]_vars => Exclusive'
<1> SUFFICES ASSUME TypeOK, Exclusive, [Next]_vars PROVE Exclusive'
  OBVIOUS
<1> USE TimelineAssumption
<1>1. CASE UNCHANGED vars
  BY <1>1 DEF vars, host, Exclusive, HasMutex
\* A step of a thread that does not allocate.
<1>2. ASSUME NEW t \in Threads, NEW c, Becomes(t, c),
             nextTimelineValue' = nextTimelineValue,
             c.pc # "submit",
             \/ dispatchMutex' = dispatchMutex /\ dispatchMutex # t
                  /\ c.pc \notin {"allocate", "unlock"}
             \/ dispatchMutex' = t /\ dispatchMutex \in {None, t}
             \/ dispatchMutex' = None /\ dispatchMutex = t
                  /\ c.pc \notin {"allocate", "unlock"}
      PROVE  Exclusive'
  <2> SUFFICES ASSUME NEW r \in Threads
               PROVE  /\ HasMutex(r)' => dispatchMutex' = r
                      /\ call'[r].pc = "submit" =>
                           call'[r].value = nextTimelineValue'
    BY DEF Exclusive
  <2>1. CASE r = t
    BY <1>2, <2>1, Others DEF HasMutex
  <2>2. CASE r # t
    BY <1>2, <2>2, Others DEF HasMutex, Exclusive
  <2> QED BY <2>1, <2>2
<1>3. ASSUME NEW t \in Threads, Allocate(t) PROVE Exclusive'
  <2>1. dispatchMutex = t /\ dispatchMutex' = t
    BY <1>3 DEF Allocate, Held, Exclusive, HasMutex
  <2>2. call'[t].pc = "submit" /\ call'[t].value = nextTimelineValue'
    BY <1>3, Others DEF Allocate, TimelineValue
  <2>3. \A r \in Threads \ {t} : call'[r] = call[r] /\ ~HasMutex(r)
    BY <1>3, <2>1, Others DEF Allocate, Exclusive
  <2> QED BY <2>1, <2>2, <2>3 DEF Exclusive, HasMutex
<1>4. ASSUME NEW t \in Threads, Dispatch(t) PROVE Exclusive'
  <2>1. PICK c : Becomes(t, c) /\ c.pc = "lock"
    BY <1>4 DEF Dispatch
  <2>2. CASE dispatchMutex # t
    BY <1>2, <1>4, <2>1, <2>2 DEF Dispatch
  <2>3. CASE dispatchMutex = t
    BY <1>2, <1>4, <2>1, <2>3 DEF Dispatch
  <2> QED BY <2>2, <2>3
<1>5. ASSUME NEW t \in Threads, Wait(t) PROVE Exclusive'
  <2>1. PICK c : Becomes(t, c) /\ c.pc = "wait"
    BY <1>5 DEF Wait
  <2>2. CASE dispatchMutex # t
    BY <1>2, <1>5, <2>1, <2>2 DEF Wait
  <2>3. CASE dispatchMutex = t
    BY <1>2, <1>5, <2>1, <2>3 DEF Wait
  <2> QED BY <2>2, <2>3
<1>6. ASSUME NEW t \in Threads, Lock(t) PROVE Exclusive'
  <2>1. Goto(t, "allocate").pc = "allocate"
    BY <1>6, GotoFields DEF Lock
  <2> QED BY <1>2, <1>6, <2>1 DEF Lock
<1>7. ASSUME NEW t \in Threads, Submit(t) PROVE Exclusive'
  <2>1. Goto(t, "unlock").pc = "unlock" /\ dispatchMutex = t
    BY <1>7, GotoFields DEF Submit, Exclusive, HasMutex
  <2> QED BY <1>2, <1>7, <2>1 DEF Submit
<1>8. ASSUME NEW t \in Threads, SubmitFails(t) PROVE Exclusive'
  <2>1. Idle.pc = "idle" /\ dispatchMutex = t
    BY <1>8 DEF SubmitFails, Exclusive, HasMutex, Idle
  <2> QED BY <1>2, <1>8, <2>1 DEF SubmitFails, Released
<1>9. ASSUME NEW t \in Threads, Unlock(t) PROVE Exclusive'
  <2>1. Goto(t, "return").pc = "return" /\ dispatchMutex = t
    BY <1>9, GotoFields DEF Unlock, Exclusive, HasMutex
  <2> QED BY <1>2, <1>9, <2>1 DEF Unlock
<1>10. ASSUME NEW t \in Threads, ReturnEvent(t) \/ WaitEnds(t) PROVE Exclusive'
  <2>1. /\ Becomes(t, Idle) /\ Idle.pc = "idle"
        /\ UNCHANGED <<nextTimelineValue, dispatchMutex>>
    BY <1>10 DEF ReturnEvent, WaitEnds, Idle
  <2>2. CASE dispatchMutex # t
    BY <1>2, <2>1, <2>2
  <2>3. CASE dispatchMutex = t
    BY <1>2, <2>1, <2>3
  <2> QED BY <2>2, <2>3
<1>11. CASE Execute \/ Signal \/ Fail
  BY <1>11 DEF Execute, Signal, Fail, host, Exclusive, HasMutex
<1> QED
  BY <1>1, <1>3, <1>4, <1>5, <1>6, <1>7, <1>8, <1>9, <1>10, <1>11
  DEF Next, Finish

LEMMA OrderInductive == Order /\ [Next]_vars => Order'
<1> SUFFICES ASSUME Order, [Next]_vars PROVE Allocated' /\ TimelineInOrder'
  BY TypeInductive, ExclusiveInductive DEF Order
<1>0. /\ TypeOK /\ TypeOK' /\ Exclusive /\ Allocated /\ TimelineInOrder
      /\ nextTimelineValue \in Nat /\ payload \in Nat
      /\ DOMAIN queue = 1..Len(queue) /\ Len(queue) \in Nat
      /\ \A i \in DOMAIN queue : queue[i].value \in Nat
      /\ \A t \in Threads : call[t].pc = "submit" => call[t].value \in Nat
  <2>1. TypeOK /\ TypeOK'
    BY TypeInductive DEF Order
  <2>2. DOMAIN queue = 1..Len(queue) /\ Len(queue) \in Nat
    BY <2>1 DEF TypeOK
  <2>3. \A i \in DOMAIN queue : queue[i] \in Item
    BY <2>1 DEF TypeOK
  <2>4. \A i \in DOMAIN queue : queue[i].value \in Nat
    BY <2>3 DEF Item, Values
  <2>5. \A t \in Threads : call[t].pc = "submit" => call[t].value \in Nat
    BY <2>1, CallType DEF Values
  <2> QED BY <2>1, <2>2, <2>4, <2>5 DEF Order, TypeOK
\* A step that neither allocates, submits nor completes.
<1>1. ASSUME UNCHANGED <<nextTimelineValue, queue, payload>>,
             \A t \in Threads : call'[t] = call[t] \/ call'[t].pc # "submit"
      PROVE  Allocated' /\ TimelineInOrder'
  <2>1. TimelineInOrder'
    BY <1>0, <1>1 DEF TimelineInOrder
  <2>2. Allocated'
    BY <1>0, <1>1 DEF Allocated
  <2> QED BY <2>1, <2>2
<1>2. CASE UNCHANGED vars
  BY <1>1, <1>2 DEF vars, host, device
<1>3. ASSUME NEW t \in Threads, NEW c, Becomes(t, c), c.pc # "submit",
             UNCHANGED <<nextTimelineValue, queue, payload>>
      PROVE  Allocated' /\ TimelineInOrder'
  <2>1. \A r \in Threads : call'[r] = call[r] \/ call'[r].pc # "submit"
    BY <1>0, <1>3, Others
  <2> QED BY <1>1, <1>3, <2>1
<1>4. ASSUME NEW t \in Threads,
             \/ Dispatch(t) \/ Wait(t) \/ Lock(t) \/ SubmitFails(t)
             \/ Unlock(t) \/ ReturnEvent(t) \/ WaitEnds(t)
      PROVE  Allocated' /\ TimelineInOrder'
  <2>1. UNCHANGED <<nextTimelineValue, queue, payload>>
    BY <1>4
    DEF Dispatch, Wait, Lock, SubmitFails, Unlock, ReturnEvent, WaitEnds, device
  <2>2. CASE Dispatch(t)
    <3>1. PICK c : Becomes(t, c) /\ c.pc = "lock"
      BY <2>2 DEF Dispatch
    <3> QED BY <1>3, <2>1, <3>1
  <2>3. CASE Wait(t)
    <3>1. PICK c : Becomes(t, c) /\ c.pc = "wait"
      BY <2>3 DEF Wait
    <3> QED BY <1>3, <2>1, <3>1
  <2>4. CASE Lock(t)
    <3>1. Becomes(t, Goto(t, "allocate")) /\ Goto(t, "allocate").pc = "allocate"
      BY <1>0, <2>4, GotoFields DEF Lock
    <3> QED BY <1>3, <2>1, <3>1
  <2>5. CASE Unlock(t)
    <3>1. Becomes(t, Goto(t, "return")) /\ Goto(t, "return").pc = "return"
      BY <1>0, <2>5, GotoFields DEF Unlock
    <3> QED BY <1>3, <2>1, <3>1
  <2>6. CASE SubmitFails(t) \/ ReturnEvent(t) \/ WaitEnds(t)
    <3>1. Becomes(t, Idle) /\ Idle.pc = "idle"
      BY <2>6 DEF SubmitFails, ReturnEvent, WaitEnds, Idle
    <3> QED BY <1>3, <2>1, <3>1
  <2> QED BY <1>4, <2>2, <2>3, <2>4, <2>5, <2>6
<1>5. ASSUME NEW t \in Threads, Allocate(t)
      PROVE  Allocated' /\ TimelineInOrder'
  <2>1. /\ UNCHANGED <<queue, payload>>
        /\ nextTimelineValue' = nextTimelineValue + 1
    BY <1>5 DEF Allocate, device
  <2>2. /\ call'[t].value = nextTimelineValue + 1
        /\ \A r \in Threads \ {t} : call'[r] = call[r] /\ call[r].pc # "submit"
    BY <1>0, <1>5, Others DEF Allocate, TimelineValue, Exclusive, HasMutex
  <2>3. TimelineInOrder'
    BY <1>0, <2>1 DEF TimelineInOrder
  <2>4. Allocated'
    BY <1>0, <2>1, <2>2 DEF Allocated
  <2> QED BY <2>3, <2>4
<1>6. ASSUME NEW t \in Threads, Submit(t)
      PROVE  Allocated' /\ TimelineInOrder'
  <2>1. /\ UNCHANGED <<nextTimelineValue, payload>>
        /\ queue' = Append(queue, Work(t)) /\ call[t].pc = "submit"
    BY <1>6 DEF Submit
  <2>2. \A r \in Threads : call'[r].pc # "submit"
    <3>1. call'[t].pc = "unlock"
      BY <1>0, <1>6, Others, GotoFields DEF Submit
    <3>2. \A r \in Threads \ {t} : call'[r] = call[r] /\ call[r].pc # "submit"
      BY <1>0, <1>6, <2>1, Others DEF Submit, Exclusive, HasMutex
    <3> QED BY <3>1, <3>2
  <2>3. Work(t) \in Item /\ Work(t).value = call[t].value
    BY <1>0, <2>1, CallType DEF Work, Item, InDispatch
  <2>4. /\ DOMAIN queue' = 1..(Len(queue) + 1)
        /\ \A i \in 1..Len(queue) : queue'[i] = queue[i]
        /\ queue'[Len(queue) + 1].value = call[t].value
    BY <1>0, <2>1, <2>3, Appending DEF TypeOK
  <2>5. /\ payload < call[t].value /\ call[t].value <= nextTimelineValue
        /\ \A i \in 1..Len(queue) : queue[i].value < call[t].value
    BY <1>0, <2>1 DEF Allocated, Exclusive
  <2>6. TimelineInOrder'
    BY <1>0, <2>1, <2>4, <2>5 DEF TimelineInOrder
  <2>7. Allocated'
    BY <1>0, <2>1, <2>2, <2>4, <2>5 DEF Allocated
  <2> QED BY <2>6, <2>7
<1>7. CASE Execute
  BY <1>1, <1>7 DEF Execute, host
<1>8. CASE Signal \/ Fail
  <2>1. /\ UNCHANGED <<nextTimelineValue, call>> /\ queue # <<>>
        /\ queue' = Tail(queue)
        /\ payload' = payload \/ payload' = Head(queue).value
    BY <1>8 DEF Signal, Fail, host
  <2>2. /\ Head(queue) = queue[1] /\ Len(queue) >= 1
        /\ DOMAIN queue' = 1..(Len(queue) - 1)
        /\ \A i \in 1..(Len(queue) - 1) : queue'[i] = queue[i + 1]
    BY <1>0, <2>1, Removing DEF TypeOK
  <2>3. TimelineInOrder'
    BY <1>0, <2>1, <2>2 DEF TimelineInOrder
  <2>4. Allocated'
    BY <1>0, <2>1, <2>2 DEF Allocated
  <2> QED BY <2>3, <2>4
<1> QED
  BY <1>2, <1>4, <1>5, <1>6, <1>7, <1>8 DEF Next, Finish

LEMMA OrderInvariant == Spec => []Order
<1>1. Init => Order
  <2> SUFFICES ASSUME Init PROVE Order
    OBVIOUS
  <2>1. /\ queue = <<>> /\ payload = 0 /\ nextTimelineValue = 0
        /\ \A t \in Threads : call[t].pc = "idle"
    BY DEF Init, Idle
  <2>2. DOMAIN queue = {}
    BY <2>1
  <2>3. Exclusive
    BY <2>1 DEF Exclusive, HasMutex
  <2>4. Allocated
    BY <2>1, <2>2 DEF Allocated
  <2>5. TimelineInOrder
    BY <2>2 DEF TimelineInOrder
  <2> QED BY <2>3, <2>4, <2>5, InitType DEF Order
<1> QED BY <1>1, OrderInductive, PTL DEF Spec

\* The semaphore is signalled with growing values, whoever dispatches when.
THEOREM SignalsGrow == Spec => []TimelineInOrder
<1>1. Order => TimelineInOrder
  BY DEF Order
<1> QED BY <1>1, OrderInvariant, PTL

-----------------------------------------------------------------------------
(* A wait covers earlier work. *)

InHand(u) == \E t \in Threads : call[t].pc = "submit" /\ call[t].value = u

\* Every value that was taken is somewhere, until the semaphore fails; what the
\* semaphore has passed was done or refused.
Accounted ==
  failed \/ \A u \in 1..nextTimelineValue :
              u \in rejected \/ Done(u) \/ Queued(u) \/ InHand(u)

Covered == \A u \in Values : u <= payload => u \in rejected \/ Done(u)

HeadIsDone == executed => queue # <<>> /\ Done(Head(queue).value)

Coverage == Accounted /\ Covered /\ HeadIsDone

\* What was done stays done.
LEMMA DoneStays ==
  TypeOK /\ [Next]_vars =>
    \A u : Done(u) => Done(u)'
<1> SUFFICES ASSUME TypeOK, [Next]_vars, NEW u, Done(u) PROVE Done(u)'
  OBVIOUS
<1>1. CASE contents' = contents
  BY <1>1 DEF Done
<1>2. CASE Execute
  <2>0. PICK b \in Buffers : \E i \in DOMAIN contents[b] : contents[b][i] = u
    BY DEF Done
  <2>1. PICK i \in DOMAIN contents[b] : contents[b][i] = u
    BY <2>0
  <2> DEFINE x == Head(queue).value
             h == Head(queue).buffer
  <2>2. x \in Values /\ h \in Buffers
    <3>1. Head(queue) \in Item
      BY <1>2, Removing DEF Execute, TypeOK
    <3> QED BY <3>1 DEF Item
  <2>3. contents' = [contents EXCEPT ![h] = Append(@, x)]
    BY <1>2 DEF Execute
  <2>4. contents[b] \in Seq(Values) /\ contents \in [Buffers -> Seq(Values)]
    BY DEF TypeOK
  <2> HIDE DEF x, h
  <2>5. CASE b = h
    <3>1. contents'[b] = Append(contents[b], x)
      BY <2>2, <2>3, <2>4, <2>5
    <3>2. i \in DOMAIN contents'[b] /\ contents'[b][i] = u
      BY <2>1, <2>2, <2>4, <3>1, Appending
    <3> QED BY <3>2 DEF Done
  <2>6. CASE b # h
    <3>1. contents'[b] = contents[b]
      BY <2>2, <2>3, <2>4, <2>6
    <3> QED BY <2>1, <3>1 DEF Done
  <2> QED BY <2>5, <2>6
<1> QED
  BY <1>1, <1>2 DEF Next, Finish, Dispatch, Wait, Lock, Allocate, Submit,
     SubmitFails, Unlock, ReturnEvent, WaitEnds, Signal, Fail, device, vars

LEMMA ExecuteDoes == TypeOK /\ Execute => Done(Head(queue).value)'
<1> SUFFICES ASSUME TypeOK, Execute PROVE Done(Head(queue).value)'
  OBVIOUS
<1> DEFINE x == Head(queue).value
           h == Head(queue).buffer
<1>1. x \in Values /\ h \in Buffers
  <2>1. Head(queue) \in Item
    BY Removing DEF Execute, TypeOK
  <2> QED BY <2>1 DEF Item
<1>2. contents' = [contents EXCEPT ![h] = Append(@, x)] /\ queue' = queue
  BY DEF Execute
<1>3. contents[h] \in Seq(Values) /\ contents \in [Buffers -> Seq(Values)]
  BY <1>1 DEF TypeOK
<1>4. Head(queue').value = x
  BY <1>2
<1> HIDE DEF x, h
<1>5. contents'[h] = Append(contents[h], x)
  BY <1>1, <1>2, <1>3
<1>6. \E i \in DOMAIN contents'[h] : contents'[h][i] = x
  BY <1>1, <1>3, <1>5, Appending
<1> QED BY <1>1, <1>4, <1>6 DEF Done

\* A step that only moves threads, none of which has a value in hand.
LEMMA CoverageKept ==
  ASSUME Coverage, [Next]_vars, TypeOK,
         UNCHANGED <<nextTimelineValue, rejected, queue, executed, payload, failed>>,
         \A u : InHand(u) => InHand(u)'
  PROVE  Coverage'
<1>1. \A u : Done(u) => Done(u)'
  BY DoneStays
<1>2. \A u : Queued(u) => Queued(u)'
  BY DEF Queued
<1>3. Accounted'
  BY <1>1, <1>2 DEF Coverage, Accounted
<1>4. Covered'
  BY <1>1 DEF Coverage, Covered
<1>5. HeadIsDone'
  BY <1>1 DEF Coverage, HeadIsDone
<1> QED BY <1>3, <1>4, <1>5 DEF Coverage

\* A thread that is not submitting moves.
LEMMA HandKept ==
  ASSUME TypeOK, NEW t \in Threads, NEW c, Becomes(t, c), call[t].pc # "submit"
  PROVE  \A u : InHand(u) => InHand(u)'
BY Others DEF InHand

LEMMA CoverageInductive == Order /\ Coverage /\ [Next]_vars => Coverage'
<1> SUFFICES ASSUME Order, Coverage, [Next]_vars PROVE Coverage'
  OBVIOUS
<1>0. /\ TypeOK /\ Exclusive /\ Allocated /\ TimelineInOrder
      /\ Accounted /\ Covered /\ HeadIsDone
      /\ \A u : Done(u) => Done(u)'
  BY DoneStays DEF Order, Coverage
<1>1. CASE UNCHANGED vars
  BY <1>0, <1>1, CoverageKept DEF vars, host, device, InHand
<1>2. ASSUME NEW t \in Threads,
             \/ Dispatch(t) \/ Wait(t) \/ Lock(t) \/ Unlock(t)
             \/ ReturnEvent(t) \/ WaitEnds(t)
      PROVE  Coverage'
  <2>1. call[t].pc # "submit" /\ \E c : Becomes(t, c)
    BY <1>2 DEF Dispatch, Wait, Lock, Unlock, ReturnEvent, WaitEnds
  <2>2. UNCHANGED <<nextTimelineValue, rejected, queue, executed, payload, failed>>
    BY <1>2 DEF Dispatch, Wait, Lock, Unlock, ReturnEvent, WaitEnds, device
  <2> QED BY <1>0, <2>1, <2>2, HandKept, CoverageKept
<1>3. ASSUME NEW t \in Threads, Allocate(t) PROVE Coverage'
  <2>1. /\ UNCHANGED <<rejected, queue, executed, payload, failed>>
        /\ nextTimelineValue' = nextTimelineValue + 1
        /\ nextTimelineValue \in Nat
    BY <1>0, <1>3 DEF Allocate, device, TypeOK
  <2>2. \A u : InHand(u) => InHand(u)'
    BY <1>0, <1>3, HandKept DEF Allocate
  <2>3. \A u : u = nextTimelineValue + 1 => InHand(u)'
    <3>1. call'[t].pc = "submit" /\ call'[t].value = nextTimelineValue + 1
      BY <1>0, <1>3, Others DEF Allocate, TimelineValue
    <3> QED BY <3>1 DEF InHand
  <2>4. \A u \in 1..nextTimelineValue' :
          u \in 1..nextTimelineValue \/ u = nextTimelineValue + 1
    BY <2>1
  <2>5. Accounted'
    BY <1>0, <2>1, <2>2, <2>3, <2>4 DEF Accounted, Queued
  <2>6. Covered' /\ HeadIsDone'
    BY <1>0, <2>1 DEF Covered, HeadIsDone
  <2> QED BY <2>5, <2>6 DEF Coverage
<1>4. ASSUME NEW t \in Threads, Submit(t) PROVE Coverage'
  <2>1. /\ UNCHANGED <<nextTimelineValue, rejected, executed, payload, failed>>
        /\ queue' = Append(queue, Work(t)) /\ call[t].pc = "submit"
    BY <1>4 DEF Submit
  <2>2. Work(t) \in Item /\ Work(t).value = call[t].value
    BY <1>0, <2>1, CallType DEF Work, Item, InDispatch
  <2>3. /\ queue \in Seq(Item)
        /\ DOMAIN queue = 1..Len(queue) /\ DOMAIN queue' = 1..(Len(queue) + 1)
        /\ \A i \in 1..Len(queue) : queue'[i] = queue[i]
        /\ queue'[Len(queue) + 1] = Work(t) /\ Len(queue) \in Nat
    BY <1>0, <2>1, <2>2, Appending DEF TypeOK
  <2>4. \A u : Queued(u) => Queued(u)'
    BY <2>3 DEF Queued
  <2>5. \A u : u = call[t].value => Queued(u)'
    BY <2>2, <2>3 DEF Queued
  <2>6. \A u : InHand(u) => u = call[t].value
    BY <1>0, <2>1 DEF InHand, Exclusive, HasMutex
  <2>7. Accounted'
    BY <1>0, <2>1, <2>4, <2>5, <2>6 DEF Accounted
  <2>8. Covered'
    BY <1>0, <2>1 DEF Covered
  <2>9. HeadIsDone'
    <3> SUFFICES ASSUME executed PROVE queue' # <<>> /\ Done(Head(queue).value)'
      BY <2>1 DEF HeadIsDone
    <3>1. queue # <<>> /\ Done(Head(queue).value)
      BY <1>0 DEF HeadIsDone
    <3>2. queue' # <<>> /\ Head(queue') = Head(queue)
      BY <2>1, <2>2, <2>3, <3>1
    <3>3. \A u : u = Head(queue).value => Done(u)'
      BY <1>0, <3>1
    <3> QED BY <3>2, <3>3 DEF Done
  <2> QED BY <2>7, <2>8, <2>9 DEF Coverage
<1>5. ASSUME NEW t \in Threads, SubmitFails(t) PROVE Coverage'
  <2>1. /\ UNCHANGED <<nextTimelineValue, queue, executed, payload, failed>>
        /\ rejected' = rejected \union {call[t].value} /\ call[t].pc = "submit"
    BY <1>5 DEF SubmitFails, device
  <2>2. \A u : InHand(u) => u = call[t].value
    BY <1>0, <2>1 DEF InHand, Exclusive, HasMutex
  <2>3. Accounted'
    BY <1>0, <2>1, <2>2 DEF Accounted, Queued
  <2>4. Covered' /\ HeadIsDone'
    BY <1>0, <2>1 DEF Covered, HeadIsDone
  <2> QED BY <2>3, <2>4 DEF Coverage
<1>6. CASE Execute
  <2>1. /\ UNCHANGED <<nextTimelineValue, rejected, queue, payload, failed, call>>
        /\ queue # <<>>
    BY <1>6 DEF Execute, host
  <2>2. Accounted' /\ Covered'
    BY <1>0, <2>1 DEF Accounted, Covered, Queued, InHand
  <2>3. HeadIsDone'
    BY <1>0, <1>6, <2>1, ExecuteDoes DEF HeadIsDone
  <2> QED BY <2>2, <2>3 DEF Coverage
<1>7. CASE Fail
  <2>1. /\ UNCHANGED <<rejected, executed, payload>> /\ ~executed /\ failed'
    BY <1>7 DEF Fail, host
  <2>2. Accounted' /\ Covered' /\ HeadIsDone'
    BY <1>0, <2>1 DEF Accounted, Covered, HeadIsDone
  <2> QED BY <2>2 DEF Coverage
<1>8. CASE Signal
  <2>1. /\ UNCHANGED <<nextTimelineValue, rejected, failed, call>>
        /\ queue # <<>> /\ queue' = Tail(queue) /\ ~executed'
        /\ Done(Head(queue).value)
        /\ payload' = IF failed THEN payload ELSE Head(queue).value
    BY <1>0, <1>8 DEF Signal, host, HeadIsDone
  <2>2. /\ Head(queue) = queue[1] /\ Len(queue) \in Nat \ {0}
        /\ DOMAIN queue = 1..Len(queue) /\ DOMAIN queue' = 1..(Len(queue) - 1)
        /\ \A i \in 1..(Len(queue) - 1) : queue'[i] = queue[i + 1]
    BY <1>0, <2>1, Removing DEF TypeOK
  <2>3. \A u : Queued(u) => Queued(u)' \/ u = Head(queue).value
    <3> SUFFICES ASSUME NEW i \in 1..Len(queue), i # 1
                 PROVE  \E j \in DOMAIN queue' : queue'[j].value = queue[i].value
      BY <2>2 DEF Queued
    <3>1. i - 1 \in 1..(Len(queue) - 1) /\ queue'[i - 1] = queue[i - 1 + 1]
      BY <2>2
    <3>2. i - 1 + 1 = i
      OBVIOUS
    <3> QED BY <2>2, <3>1, <3>2
  <2>4. Accounted'
    BY <1>0, <2>1, <2>3 DEF Accounted, InHand
  <2>5. CASE failed
    BY <1>0, <2>1, <2>4, <2>5 DEF Coverage, Covered, HeadIsDone
  <2>6. CASE ~failed
    <3> SUFFICES ASSUME NEW u \in Values, u <= Head(queue).value
                 PROVE  u \in rejected \/ Done(u)
      BY <1>0, <2>1, <2>4, <2>6 DEF Coverage, Covered, HeadIsDone
    <3>1. /\ Head(queue).value <= nextTimelineValue
          /\ nextTimelineValue \in Nat /\ Head(queue).value \in Nat
      <4>1. Head(queue) \in Item
        BY <1>0, <2>1, Removing DEF TypeOK
      <4>2. Head(queue).value \in Nat /\ nextTimelineValue \in Nat
        BY <1>0, <4>1 DEF Item, Values, TypeOK
      <4>3. 1 \in DOMAIN queue
        BY <2>2
      <4> QED BY <1>0, <2>2, <4>2, <4>3 DEF Allocated
    <3>2. u \in 1..nextTimelineValue
      BY <3>1 DEF Values
    <3>3. Queued(u) => u = Head(queue).value
      <4> SUFFICES ASSUME NEW i \in 1..Len(queue), i # 1, queue[i].value = u
                   PROVE  FALSE
        BY <2>2 DEF Queued
      <4>1. 1 \in DOMAIN queue /\ i \in DOMAIN queue /\ 1 < i
        BY <2>2
      <4>2. queue[1].value < queue[i].value
        BY <1>0, <4>1 DEF TimelineInOrder
      <4> QED BY <2>2, <3>1, <4>2 DEF Values
    <3>4. ~InHand(u)
      <4>1. 1 \in DOMAIN queue
        BY <2>2
      <4> QED BY <1>0, <2>2, <3>1, <4>1 DEF InHand, Allocated, Values
    <3> QED BY <1>0, <2>1, <2>6, <3>2, <3>3, <3>4 DEF Accounted
  <2> QED BY <2>5, <2>6
<1> QED
  BY <1>1, <1>2, <1>3, <1>4, <1>5, <1>6, <1>7, <1>8 DEF Next, Finish

LEMMA CoverageInvariant == Spec => []Coverage
<1>1. Init => Coverage
  <2> SUFFICES ASSUME Init PROVE Coverage
    OBVIOUS
  <2>1. payload = 0 /\ nextTimelineValue = 0 /\ ~executed
    BY DEF Init
  <2> QED BY <2>1 DEF Coverage, Accounted, Covered, HeadIsDone, Values
<1> QED BY <1>1, OrderInvariant, CoverageInductive, PTL DEF Spec

\* When the semaphore has reached the value of an event, all that came before on
\* the timeline was done or refused.
THEOREM WaitsCoverEarlierWork == Spec => []EarlierWorkIsDone
<1>1. Order /\ Coverage => EarlierWorkIsDone
  <2> SUFFICES ASSUME TypeOK, Covered, NEW v \in events, payload >= v,
                      NEW u \in 1..v
               PROVE  u \in rejected \/ Done(u)
    BY DEF Order, Coverage, EarlierWorkIsDone, Reached
  <2>1. v \in Values /\ payload \in Nat
    BY DEF TypeOK
  <2>2. u \in Values /\ u <= payload
    BY <2>1 DEF Values
  <2> QED BY <2>2 DEF Covered
<1> QED BY <1>1, OrderInvariant, CoverageInvariant, PTL

-----------------------------------------------------------------------------
(* The order of effects. *)

\* What was done is older than what is to be done.
Recorded ==
  \A b \in Buffers : \A i \in DOMAIN contents[b] :
    /\ contents[b][i] <= nextTimelineValue
    /\ \A j \in DOMAIN queue : contents[b][i] < queue[j].value \/ (executed /\ j = 1)
    /\ \A t \in Threads : call[t].pc = "submit" => contents[b][i] < call[t].value

Effects == Recorded /\ EffectsInOrder

LEMMA ContentsType ==
  TypeOK => \A b \in Buffers : /\ contents[b] \in Seq(Values)
                               /\ \A i \in DOMAIN contents[b] : contents[b][i] \in Nat
<1> SUFFICES ASSUME TypeOK, NEW b \in Buffers
             PROVE  /\ contents[b] \in Seq(Values)
                    /\ \A i \in DOMAIN contents[b] : contents[b][i] \in Nat
  OBVIOUS
<1>1. contents[b] \in Seq(Values)
  BY DEF TypeOK
<1>2. \A i \in DOMAIN contents[b] : contents[b][i] \in Values
  BY <1>1
<1> QED BY <1>1, <1>2 DEF Values

\* A thread moves, and has no value in hand after.
LEMMA EffectsKept ==
  ASSUME TypeOK, Effects, NEW t \in Threads, NEW c, Becomes(t, c), c.pc # "submit",
         UNCHANGED <<nextTimelineValue, queue, executed, contents>>
  PROVE  Effects'
<1>1. \A r \in Threads : call'[r].pc = "submit" => call'[r] = call[r]
  BY Others
<1> QED BY <1>1 DEF Effects, Recorded, EffectsInOrder

LEMMA EffectsInductive == Order /\ Coverage /\ Effects /\ [Next]_vars => Effects'
<1> SUFFICES ASSUME Order, Coverage, Effects, [Next]_vars PROVE Effects'
  OBVIOUS
<1>0. /\ TypeOK /\ Exclusive /\ Allocated /\ TimelineInOrder
      /\ HeadIsDone /\ Recorded /\ EffectsInOrder
  BY DEF Order, Coverage, Effects
<1>1. CASE UNCHANGED vars
  BY <1>0, <1>1 DEF vars, host, device, Effects, Recorded, EffectsInOrder
<1>2. ASSUME NEW t \in Threads,
             \/ Dispatch(t) \/ Wait(t) \/ Lock(t) \/ Unlock(t)
             \/ ReturnEvent(t) \/ WaitEnds(t) \/ SubmitFails(t)
      PROVE  Effects'
  <2>1. \E c : Becomes(t, c) /\ c.pc # "submit"
    <3>1. CASE Dispatch(t)
      BY <3>1 DEF Dispatch
    <3>2. CASE Wait(t)
      BY <3>2 DEF Wait
    <3>3. CASE Lock(t) \/ Unlock(t)
      BY <1>0, <3>3, GotoFields DEF Lock, Unlock
    <3>4. CASE ReturnEvent(t) \/ WaitEnds(t) \/ SubmitFails(t)
      BY <3>4 DEF ReturnEvent, WaitEnds, SubmitFails, Idle
    <3> QED BY <1>2, <3>1, <3>2, <3>3, <3>4
  <2>2. UNCHANGED <<nextTimelineValue, queue, executed, contents>>
    BY <1>2
    DEF Dispatch, Wait, Lock, Unlock, ReturnEvent, WaitEnds, SubmitFails, device
  <2> QED BY <1>0, <2>1, <2>2, EffectsKept
<1>3. ASSUME NEW t \in Threads, Allocate(t) PROVE Effects'
  <2>1. /\ UNCHANGED <<queue, executed, contents>>
        /\ nextTimelineValue' = nextTimelineValue + 1 /\ nextTimelineValue \in Nat
    BY <1>0, <1>3 DEF Allocate, device, TypeOK
  <2>2. call'[t].value = nextTimelineValue + 1
    BY <1>0, <1>3, Others DEF Allocate, TimelineValue
  <2>3. \A r \in Threads \ {t} : call'[r] = call[r]
    BY <1>0, <1>3, Others DEF Allocate
  <2>4. \A b \in Buffers : \A i \in DOMAIN contents[b] :
          /\ contents[b][i] < nextTimelineValue + 1
          /\ contents[b][i] <= nextTimelineValue + 1
    BY <1>0, <2>1, ContentsType DEF Recorded
  <2>5. Recorded'
    BY <1>0, <2>1, <2>2, <2>3, <2>4 DEF Recorded
  <2> QED BY <1>0, <2>1, <2>5 DEF Effects, EffectsInOrder
<1>4. ASSUME NEW t \in Threads, Submit(t) PROVE Effects'
  <2>1. /\ UNCHANGED <<nextTimelineValue, executed, contents>>
        /\ queue' = Append(queue, Work(t)) /\ call[t].pc = "submit"
    BY <1>4 DEF Submit
  <2>2. Work(t) \in Item /\ Work(t).value = call[t].value
    BY <1>0, <2>1, CallType DEF Work, Item, InDispatch
  <2>3. /\ DOMAIN queue = 1..Len(queue) /\ DOMAIN queue' = 1..(Len(queue) + 1)
        /\ \A i \in 1..Len(queue) : queue'[i] = queue[i]
        /\ queue'[Len(queue) + 1].value = call[t].value /\ Len(queue) \in Nat
    BY <1>0, <2>1, <2>2, Appending DEF TypeOK
  <2>4. \A r \in Threads : call'[r].pc = "submit" => call'[r] = call[r]
    BY <1>0, <1>4, <2>1, Others, GotoFields DEF Submit
  <2>5. Recorded'
    BY <1>0, <2>1, <2>3, <2>4 DEF Recorded
  <2> QED BY <1>0, <2>1, <2>5 DEF Effects, EffectsInOrder
<1>5. CASE Signal \/ Fail
  <2>1. /\ UNCHANGED <<nextTimelineValue, call, contents>>
        /\ queue # <<>> /\ queue' = Tail(queue)
    BY <1>5 DEF Signal, Fail, host
  <2>2. /\ Len(queue) \in Nat \ {0} /\ DOMAIN queue = 1..Len(queue)
        /\ DOMAIN queue' = 1..(Len(queue) - 1)
        /\ \A i \in 1..(Len(queue) - 1) : queue'[i] = queue[i + 1]
    BY <1>0, <2>1, Removing DEF TypeOK
  <2>3. \A j \in DOMAIN queue' : j + 1 \in DOMAIN queue /\ j + 1 # 1
    BY <2>2
  <2>4. \A b \in Buffers : \A i \in DOMAIN contents[b] :
          \A j \in DOMAIN queue' : contents[b][i] < queue'[j].value
    BY <1>0, <2>2, <2>3 DEF Recorded
  <2>5. Recorded'
    BY <1>0, <2>1, <2>4 DEF Recorded
  <2> QED BY <1>0, <2>1, <2>5 DEF Effects, EffectsInOrder
<1>6. CASE Execute
  <2> DEFINE x == Head(queue).value
             h == Head(queue).buffer
  <2>1. /\ UNCHANGED <<nextTimelineValue, call, queue>>
        /\ queue # <<>> /\ ~executed /\ executed'
        /\ contents' = [contents EXCEPT ![h] = Append(@, x)]
    BY <1>6 DEF Execute, host
  <2>2. x \in Values /\ h \in Buffers /\ Head(queue) = queue[1]
    <3>1. Head(queue) \in Item /\ Head(queue) = queue[1]
      BY <1>0, <2>1, Removing DEF TypeOK
    <3> QED BY <3>1 DEF Item
  <2>3. 1 \in DOMAIN queue /\ \A j \in DOMAIN queue : j # 1 => 1 < j
    BY <1>0, <2>1, Removing DEF TypeOK
  <2>4. /\ x <= nextTimelineValue
        /\ \A j \in DOMAIN queue : j # 1 => x < queue[j].value
        /\ \A t \in Threads : call[t].pc = "submit" => x < call[t].value
    BY <1>0, <2>2, <2>3 DEF Allocated, TimelineInOrder
  <2>5. \A b \in Buffers : \A i \in DOMAIN contents[b] : contents[b][i] < x
    BY <1>0, <2>1, <2>2, <2>3 DEF Recorded
  <2>6. contents[h] \in Seq(Values) /\ contents \in [Buffers -> Seq(Values)]
    BY <1>0, <2>2 DEF TypeOK
  <2> HIDE DEF x, h
  <2>7. \A b \in Buffers \ {h} : contents'[b] = contents[b]
    BY <2>1, <2>6
  <2>8. contents'[h] = Append(contents[h], x)
    BY <2>1, <2>2, <2>6
  <2>9. /\ Len(contents[h]) \in Nat /\ DOMAIN contents[h] = 1..Len(contents[h])
        /\ DOMAIN contents'[h] = 1..(Len(contents[h]) + 1)
        /\ \A i \in 1..Len(contents[h]) : contents'[h][i] = contents[h][i]
        /\ contents'[h][Len(contents[h]) + 1] = x
    BY <2>2, <2>6, <2>8, Appending
  <2>10. \A i, j \in DOMAIN contents'[h] :
           i < j => contents'[h][i] < contents'[h][j]
    <3> SUFFICES ASSUME NEW i \in 1..(Len(contents[h]) + 1),
                        NEW j \in 1..(Len(contents[h]) + 1), i < j
                 PROVE  contents'[h][i] < contents'[h][j]
      BY <2>9
    <3>1. i \in 1..Len(contents[h])
      BY <2>9
    <3>2. CASE j = Len(contents[h]) + 1
      BY <2>2, <2>5, <2>9, <3>1, <3>2
    <3>3. CASE j \in 1..Len(contents[h])
      BY <1>0, <2>2, <2>9, <3>1, <3>3 DEF EffectsInOrder
    <3> QED BY <2>9, <3>2, <3>3
  <2>11. EffectsInOrder'
    BY <1>0, <2>7, <2>10 DEF EffectsInOrder
  <2>12. \A b \in Buffers : \A i \in DOMAIN contents'[b] :
           \/ contents'[b][i] = x
           \/ i \in DOMAIN contents[b] /\ contents'[b][i] = contents[b][i]
    BY <2>7, <2>9
  <2>13. \A b \in Buffers : \A i \in DOMAIN contents'[b] :
           /\ contents'[b][i] <= nextTimelineValue
           /\ \A j \in DOMAIN queue : contents'[b][i] < queue[j].value \/ j = 1
           /\ \A t \in Threads : call[t].pc = "submit" => contents'[b][i] < call[t].value
    BY <1>0, <2>1, <2>4, <2>12 DEF Recorded
  <2>14. Recorded'
    BY <2>1, <2>13 DEF Recorded
  <2> QED BY <2>11, <2>14 DEF Effects
<1> QED
  BY <1>1, <1>2, <1>3, <1>4, <1>5, <1>6 DEF Next, Finish

LEMMA EffectsInvariant == Spec => []Effects
<1>1. Init => Effects
  <2> SUFFICES ASSUME Init PROVE Effects
    OBVIOUS
  <2>1. \A b \in Buffers : DOMAIN contents[b] = {}
    BY DEF Init
  <2> QED BY <2>1 DEF Effects, Recorded, EffectsInOrder
<1> QED
  BY <1>1, OrderInvariant, CoverageInvariant, EffectsInductive, PTL DEF Spec

\* Dispatches work on a buffer in the order of their values, each at most once.
THEOREM EffectsAreOrdered == Spec => []EffectsInOrder
<1>1. Effects => EffectsInOrder
  BY DEF Effects
<1> QED BY <1>1, EffectsInvariant, PTL

\* The timeline, the buffers and the waits see the work in the order of its values:
\* what a client of dispatch() counts on.
THEOREM WorkIsOrdered == Spec => []WorkIsInOrder
<1>1. TimelineInOrder /\ EffectsInOrder /\ EarlierWorkIsDone => WorkIsInOrder
  BY DEF WorkIsInOrder
<1> QED
  BY <1>1, SignalsGrow, EffectsAreOrdered, WaitsCoverEarlierWork, PTL

-----------------------------------------------------------------------------
(* Bounds of bindings. *)

\* From the checks of dispatch on, and on the device.
Bounded ==
  /\ \A t \in Threads : call[t].pc \in InDispatch =>
       InBounds(call[t].offset, call[t].length)
  /\ \A i \in DOMAIN queue : InBounds(queue[i].offset, queue[i].length)

LEMMA BoundedKept ==
  ASSUME TypeOK, Bounded, NEW t \in Threads, NEW c, Becomes(t, c),
         c.pc \in InDispatch => InBounds(c.offset, c.length),
         queue' = queue
  PROVE  Bounded'
BY Others DEF Bounded, InBounds

LEMMA BoundedInductive == TypeOK /\ Bounded /\ [Next]_vars => Bounded'
<1> SUFFICES ASSUME TypeOK, Bounded, [Next]_vars PROVE Bounded'
  OBVIOUS
<1>1. CASE UNCHANGED vars
  BY <1>1 DEF vars, host, device, Bounded
<1>2. ASSUME NEW t \in Threads, Dispatch(t) PROVE Bounded'
  <2>1. PICK b \in Buffers \ Foreign, offset \in Lengths, passed \in Lengths :
          \E length \in {passed, ViewLength(offset, passed)} :
            /\ InBounds(offset, length)
            /\ Becomes(t, [pc |-> "lock", buffer |-> b, offset |-> offset,
                           length |-> length])
    BY <1>2 DEF Dispatch
  <2>2. PICK length \in {passed, ViewLength(offset, passed)} :
          /\ InBounds(offset, length)
          /\ Becomes(t, [pc |-> "lock", buffer |-> b, offset |-> offset,
                         length |-> length])
    BY <2>1
  <2> QED BY <1>2, <2>2, BoundedKept DEF Dispatch, device
<1>3. ASSUME NEW t \in Threads,
             Wait(t) \/ SubmitFails(t) \/ ReturnEvent(t) \/ WaitEnds(t)
      PROVE  Bounded'
  <2>1. (\E c : Becomes(t, c) /\ c.pc \notin InDispatch) /\ queue' = queue
    <3>1. CASE Wait(t)
      BY <3>1 DEF Wait, device, InDispatch
    <3>2. CASE SubmitFails(t) \/ ReturnEvent(t) \/ WaitEnds(t)
      BY <3>2 DEF SubmitFails, ReturnEvent, WaitEnds, device, Idle, InDispatch
    <3> QED BY <1>3, <3>1, <3>2
  <2> QED BY <2>1, BoundedKept
<1>4. ASSUME NEW t \in Threads, Lock(t) \/ Unlock(t) PROVE Bounded'
  <2>1. PICK pc \in InDispatch : Becomes(t, Goto(t, pc))
    BY <1>4 DEF Lock, Unlock, InDispatch
  <2>2. call[t].pc \in {"lock", "unlock"} /\ queue' = queue
    BY <1>4 DEF Lock, Unlock, device
  <2>3. /\ Goto(t, pc).offset = call[t].offset /\ Goto(t, pc).length = call[t].length
        /\ InBounds(call[t].offset, call[t].length)
    BY <2>2, GotoFields DEF Bounded, InDispatch
  <2> QED BY <2>1, <2>2, <2>3, BoundedKept
<1>5. ASSUME NEW t \in Threads, Allocate(t) PROVE Bounded'
  <2>1. InBounds(call[t].offset, call[t].length) /\ queue' = queue
    BY <1>5 DEF Allocate, device, Bounded, InDispatch
  <2> QED BY <1>5, <2>1, BoundedKept DEF Allocate
<1>6. ASSUME NEW t \in Threads, Submit(t) PROVE Bounded'
  <2>1. queue' = Append(queue, Work(t)) /\ call[t].pc = "submit"
    BY <1>6 DEF Submit
  <2>2. /\ Work(t) \in Item /\ Work(t).offset = call[t].offset
        /\ Work(t).length = call[t].length
    BY <2>1, CallType DEF Work, Item, InDispatch
  <2>3. /\ DOMAIN queue = 1..Len(queue) /\ DOMAIN queue' = 1..(Len(queue) + 1)
        /\ \A i \in 1..Len(queue) : queue'[i] = queue[i]
        /\ queue'[Len(queue) + 1] = Work(t) /\ Len(queue) \in Nat
    BY <2>1, <2>2, Appending DEF TypeOK
  <2>4. InBounds(call[t].offset, call[t].length)
    BY <2>1 DEF Bounded, InDispatch
  <2>5. \A i \in DOMAIN queue' : InBounds(queue'[i].offset, queue'[i].length)
    BY <2>2, <2>3, <2>4 DEF Bounded
  <2>6. \A r \in Threads : call'[r].pc \in InDispatch =>
          InBounds(call'[r].offset, call'[r].length)
    BY <1>6, <2>1, <2>4, Others, GotoFields DEF Submit, Bounded
  <2> QED BY <2>5, <2>6 DEF Bounded, InBounds
<1>7. CASE Signal \/ Fail
  <2>1. call' = call /\ queue # <<>> /\ queue' = Tail(queue)
    BY <1>7 DEF Signal, Fail, host
  <2>2. /\ Len(queue) \in Nat \ {0} /\ DOMAIN queue = 1..Len(queue)
        /\ DOMAIN queue' = 1..(Len(queue) - 1)
        /\ \A i \in 1..(Len(queue) - 1) : queue'[i] = queue[i + 1]
    BY <2>1, Removing DEF TypeOK
  <2>3. \A i \in DOMAIN queue' : InBounds(queue'[i].offset, queue'[i].length)
    BY <2>2 DEF Bounded
  <2> QED BY <2>1, <2>3 DEF Bounded, InBounds
<1>8. CASE Execute
  BY <1>8 DEF Execute, host, Bounded, InBounds
<1> QED
  BY <1>1, <1>2, <1>3, <1>4, <1>5, <1>6, <1>7, <1>8 DEF Next, Finish

\* No binding that reaches the device extends past its buffer, though the sum of
\* its offset and its length may not fit a word.
THEOREM BindingsAreInBounds == Spec => []BindingsInBounds
<1>1. Init => Bounded
  <2> SUFFICES ASSUME Init PROVE Bounded
    OBVIOUS
  <2>1. DOMAIN queue = {} /\ \A t \in Threads : call[t].pc = "idle"
    BY DEF Init, Idle
  <2> QED BY <2>1 DEF Bounded, InDispatch
<1>2. TypeOK /\ Bounded => BindingsInBounds
  <2> SUFFICES ASSUME TypeOK, Bounded, NEW i \in DOMAIN queue
               PROVE  queue[i].offset + queue[i].length <= Size
    BY DEF BindingsInBounds
  <2>1. queue[i] \in Item
    BY DEF TypeOK
  <2>2. queue[i].offset \in Nat /\ queue[i].length \in Nat
    BY <2>1, TimelineAssumption DEF Item, Sizes
  <2>3. InBounds(queue[i].offset, queue[i].length) /\ Size \in Nat
    BY TimelineAssumption DEF Bounded
  <2> QED BY <2>2, <2>3 DEF InBounds
<1> QED BY <1>1, <1>2, TypeCorrectness, BoundedInductive, PTL DEF Spec

-----------------------------------------------------------------------------
(* The device does one dispatch after the other. *)

\* What is decided of the values: those that are refused, those that are queued and
\* those of events are apart, and none is still in hand.
Decided ==
  /\ \A u \in rejected : u <= Issued
  /\ \A i \in DOMAIN queue : queue[i].value \notin rejected
  /\ \A t \in Threads : call[t].pc \in {"unlock", "return"} =>
       call[t].value <= Issued /\ call[t].value \notin rejected
  /\ \A v \in events : v <= Issued /\ v \notin rejected

LEMMA QueueType ==
  TypeOK => /\ DOMAIN queue = 1..Len(queue) /\ Len(queue) \in Nat
            /\ \A i \in DOMAIN queue : queue[i] \in Item /\ queue[i].value \in Values
<1> SUFFICES ASSUME TypeOK
             PROVE  /\ DOMAIN queue = 1..Len(queue) /\ Len(queue) \in Nat
                    /\ \A i \in DOMAIN queue : queue[i] \in Item
                                            /\ queue[i].value \in Values
  OBVIOUS
<1>1. DOMAIN queue = 1..Len(queue) /\ Len(queue) \in Nat
  BY DEF TypeOK
<1>2. \A i \in DOMAIN queue : queue[i] \in Item
  BY DEF TypeOK
<1> QED BY <1>1, <1>2 DEF Item

LEMMA IssuedIs ==
  Order => /\ Issued \in Nat /\ nextTimelineValue \in Nat
           /\ Issued <= nextTimelineValue /\ payload <= Issued
           /\ \A t \in Threads : call[t].pc = "submit" =>
                call[t].value = Issued + 1 /\ nextTimelineValue = Issued + 1
           /\ \A i \in DOMAIN queue : queue[i].value <= Issued
<1> SUFFICES ASSUME Order
             PROVE  /\ Issued \in Nat /\ nextTimelineValue \in Nat
                    /\ Issued <= nextTimelineValue /\ payload <= Issued
                    /\ \A t \in Threads : call[t].pc = "submit" =>
                         call[t].value = Issued + 1 /\ nextTimelineValue = Issued + 1
                    /\ \A i \in DOMAIN queue : queue[i].value <= Issued
  OBVIOUS
<1>1. /\ TypeOK /\ Exclusive /\ Allocated
      /\ nextTimelineValue \in Nat /\ payload \in Nat
      /\ \A i \in DOMAIN queue : queue[i].value \in Nat
  BY QueueType DEF Order, TypeOK, Values
<1>2. CASE \E t \in Threads : call[t].pc = "submit"
  <2>1. PICK t \in Threads : call[t].pc = "submit"
    BY <1>2
  <2>2. call[t].value = nextTimelineValue /\ call[t].value \in Nat \ {0}
    BY <1>1, <2>1, CallType DEF Exclusive, Values
  <2>3. Issued = nextTimelineValue - 1
    BY <1>2 DEF Issued
  <2>4. payload < nextTimelineValue
    BY <1>1, <2>1, <2>2 DEF Allocated
  <2>5. \A i \in DOMAIN queue : queue[i].value < nextTimelineValue
    BY <1>1, <2>1, <2>2 DEF Allocated
  <2>6. \A r \in Threads : call[r].pc = "submit" => call[r].value = nextTimelineValue
    BY <1>1 DEF Exclusive
  <2> QED BY <1>1, <2>2, <2>3, <2>4, <2>5, <2>6
<1>3. CASE ~\E t \in Threads : call[t].pc = "submit"
  BY <1>1, <1>3 DEF Issued, Allocated
<1> QED BY <1>2, <1>3

\* Nothing is decided by a thread that neither allocates nor submits.
LEMMA IssuedKept ==
  ASSUME TypeOK, NEW t \in Threads, NEW c, Becomes(t, c), call[t].pc # "submit",
         c.pc # "submit", nextTimelineValue' = nextTimelineValue
  PROVE  Issued' = Issued
<1>1. (\E r \in Threads : call'[r].pc = "submit") <=>
      (\E r \in Threads : call[r].pc = "submit")
  BY Others
<1> QED BY <1>1 DEF Issued

\* Taking a value decides nothing either.
LEMMA AllocateIssues ==
  ASSUME Order, NEW t \in Threads, Allocate(t)
  PROVE  Issued' = Issued
<1>1. TypeOK /\ Exclusive /\ nextTimelineValue \in Nat
  BY DEF Order, TypeOK
<1>2. call'[t].pc = "submit" /\ nextTimelineValue' = nextTimelineValue + 1
  BY <1>1, Others DEF Allocate
<1>3. ~\E r \in Threads : call[r].pc = "submit"
  BY <1>1 DEF Exclusive, HasMutex, Allocate
<1>4. Issued = nextTimelineValue
  BY <1>3 DEF Issued
<1>5. Issued' = nextTimelineValue' - 1
  BY <1>2 DEF Issued
<1> QED BY <1>1, <1>2, <1>4, <1>5

LEMMA SubmitIssues ==
  ASSUME Order, NEW t \in Threads, Submit(t) \/ SubmitFails(t)
  PROVE  Issued' = Issued + 1 /\ call[t].value = Issued + 1
<1>1. TypeOK /\ Exclusive
  BY DEF Order
<1>2. call[t].pc = "submit" /\ nextTimelineValue' = nextTimelineValue
  BY DEF Submit, SubmitFails
<1>3. \A r \in Threads \ {t} : call[r].pc # "submit"
  BY <1>1, <1>2 DEF Exclusive, HasMutex
<1>4. \E c : Becomes(t, c) /\ c.pc # "submit"
  BY <1>1, <1>2, GotoFields DEF Submit, SubmitFails, Idle
<1>5. ~\E r \in Threads : call'[r].pc = "submit"
  BY <1>1, <1>3, <1>4, Others
<1>6. Issued' = nextTimelineValue
  BY <1>2, <1>5 DEF Issued
<1> QED BY <1>2, <1>6, IssuedIs

LEMMA DecidedInductive == Order /\ Decided /\ [Next]_vars => Decided'
<1> SUFFICES ASSUME Order, Decided, [Next]_vars PROVE Decided'
  OBVIOUS
<1>0. /\ TypeOK /\ Exclusive /\ Issued \in Nat
      /\ \A i \in DOMAIN queue : queue[i].value <= Issued /\ queue[i].value \in Nat
      /\ \A t \in Threads :
           call[t].pc \in {"unlock", "return"} => call[t].value \in Nat
      /\ rejected \subseteq Nat /\ events \subseteq Nat
  BY IssuedIs, QueueType, CallType DEF Order, TypeOK, Values
<1>1. CASE UNCHANGED vars
  BY <1>1 DEF vars, host, device, Decided, Issued
\* A thread moves, and decides nothing.
<1>2. ASSUME NEW t \in Threads, NEW c, Becomes(t, c), Issued' = Issued,
             c.pc \in {"unlock", "return"} =>
               c.value <= Issued /\ c.value \notin rejected,
             UNCHANGED <<rejected, queue>>,
             \A v \in events' : v <= Issued /\ v \notin rejected
      PROVE  Decided'
  <2>1. \A r \in Threads : call'[r] = c \/ call'[r] = call[r]
    BY <1>0, <1>2, Others
  <2> QED BY <1>2, <2>1 DEF Decided
<1>3. ASSUME NEW t \in Threads, Dispatch(t) \/ Wait(t) \/ WaitEnds(t)
      PROVE  Decided'
  <2>1. PICK c : Becomes(t, c) /\ c.pc \in {"lock", "wait", "idle"}
    <3>1. CASE Dispatch(t)
      BY <3>1 DEF Dispatch
    <3>2. CASE Wait(t)
      BY <3>2 DEF Wait
    <3>3. CASE WaitEnds(t)
      BY <3>3 DEF WaitEnds, Idle
    <3> QED BY <1>3, <3>1, <3>2, <3>3
  <2>2. /\ UNCHANGED <<nextTimelineValue, rejected, queue, events>>
        /\ call[t].pc # "submit"
    BY <1>3 DEF Dispatch, Wait, WaitEnds, device
  <2>3. Issued' = Issued
    BY <1>0, <2>1, <2>2, IssuedKept
  <2> QED BY <1>2, <2>1, <2>2, <2>3 DEF Decided
<1>4. ASSUME NEW t \in Threads, Lock(t) \/ Unlock(t) PROVE Decided'
  <2>1. PICK c : /\ Becomes(t, c) /\ c.pc \in {"allocate", "return"}
                 /\ c.pc = "return" => call[t].pc = "unlock" /\ c.value = call[t].value
    BY <1>0, <1>4, GotoFields DEF Lock, Unlock
  <2>2. /\ UNCHANGED <<nextTimelineValue, rejected, queue, events>>
        /\ call[t].pc # "submit"
    BY <1>4 DEF Lock, Unlock, device
  <2>3. Issued' = Issued
    BY <1>0, <2>1, <2>2, IssuedKept
  <2> QED BY <1>2, <2>1, <2>2, <2>3 DEF Decided
<1>5. ASSUME NEW t \in Threads, Allocate(t) PROVE Decided'
  <2>1. \E c : Becomes(t, c) /\ c.pc = "submit"
    BY <1>5 DEF Allocate
  <2>2. UNCHANGED <<rejected, queue, events>>
    BY <1>5 DEF Allocate, device
  <2> QED BY <1>2, <1>5, <2>1, <2>2, AllocateIssues DEF Decided
<1>6. ASSUME NEW t \in Threads, ReturnEvent(t) PROVE Decided'
  <2>1. /\ Becomes(t, Idle) /\ Idle.pc = "idle" /\ call[t].pc = "return"
        /\ UNCHANGED <<nextTimelineValue, rejected, queue>>
        /\ events' = events \union {call[t].value}
    BY <1>6 DEF ReturnEvent, EventValue, Idle, device
  <2>2. Issued' = Issued
    BY <1>0, <2>1, IssuedKept
  <2> QED BY <1>2, <2>1, <2>2 DEF Decided
<1>7. ASSUME NEW t \in Threads, Submit(t) PROVE Decided'
  <2>1. /\ UNCHANGED <<rejected, events>> /\ call[t].pc = "submit"
        /\ queue' = Append(queue, Work(t)) /\ Becomes(t, Goto(t, "unlock"))
    BY <1>7 DEF Submit
  <2>2. Issued' = Issued + 1 /\ call[t].value = Issued + 1
    BY <1>7, SubmitIssues
  <2>3. call[t].value \notin rejected
    BY <1>0, <2>2 DEF Decided
  <2>4. Work(t) \in Item /\ Work(t).value = call[t].value
    BY <1>0, <2>1, CallType DEF Work, Item, InDispatch
  <2>5. \A i \in DOMAIN queue' : queue'[i].value \notin rejected
    <3>1. /\ DOMAIN queue = 1..Len(queue) /\ DOMAIN queue' = 1..(Len(queue) + 1)
          /\ \A i \in 1..Len(queue) : queue'[i] = queue[i]
          /\ queue'[Len(queue) + 1] = Work(t) /\ Len(queue) \in Nat
      BY <1>0, <2>1, <2>4, Appending DEF TypeOK
    <3> QED BY <2>3, <2>4, <3>1 DEF Decided
  <2>6. call'[t].value = call[t].value /\ \A r \in Threads \ {t} : call'[r] = call[r]
    BY <1>0, <2>1, GotoFields, Others
  <2>7. \A r \in Threads : call'[r].pc \in {"unlock", "return"} =>
          call'[r].value <= Issued' /\ call'[r].value \notin rejected
    BY <1>0, <2>2, <2>3, <2>6 DEF Decided
  <2>8. \A u \in Nat : u <= Issued => u <= Issued'
    BY <1>0, <2>2
  <2> QED BY <1>0, <2>1, <2>5, <2>7, <2>8 DEF Decided
<1>8. ASSUME NEW t \in Threads, SubmitFails(t) PROVE Decided'
  <2>1. /\ UNCHANGED <<queue, events>> /\ call[t].pc = "submit"
        /\ rejected' = rejected \union {call[t].value} /\ Becomes(t, Idle)
    BY <1>8 DEF SubmitFails, device
  <2>2. Issued' = Issued + 1 /\ call[t].value = Issued + 1
    BY <1>8, SubmitIssues
  <2>3. call'[t].pc = "idle" /\ \A r \in Threads \ {t} : call'[r] = call[r]
    BY <1>0, <2>1, Others DEF Idle
  <2>4. \A u \in Nat : u <= Issued => u <= Issued' /\ u # call[t].value
    BY <1>0, <2>2
  <2>5. \A u \in rejected' : u <= Issued'
    BY <1>0, <2>1, <2>2, <2>4 DEF Decided
  <2>6. \A i \in DOMAIN queue : queue[i].value \notin rejected'
    BY <1>0, <2>1, <2>4 DEF Decided
  <2>7. \A r \in Threads : call'[r].pc \in {"unlock", "return"} =>
          call'[r].value <= Issued' /\ call'[r].value \notin rejected'
    BY <1>0, <2>1, <2>3, <2>4 DEF Decided
  <2>8. \A v \in events : v <= Issued' /\ v \notin rejected'
    BY <1>0, <2>1, <2>4 DEF Decided
  <2> QED BY <2>1, <2>5, <2>6, <2>7, <2>8 DEF Decided
<1>9. CASE Execute
  BY <1>9 DEF Execute, host, Decided, Issued
<1>10. CASE Signal \/ Fail
  <2>1. UNCHANGED host /\ queue # <<>> /\ queue' = Tail(queue)
    BY <1>10 DEF Signal, Fail
  <2>2. \A i \in DOMAIN queue' : queue'[i].value \notin rejected
    <3>1. /\ Len(queue) \in Nat \ {0} /\ DOMAIN queue = 1..Len(queue)
          /\ DOMAIN queue' = 1..(Len(queue) - 1)
          /\ \A i \in 1..(Len(queue) - 1) : queue'[i] = queue[i + 1]
      BY <1>0, <2>1, Removing DEF TypeOK
    <3> QED BY <3>1 DEF Decided
  <2> QED BY <2>1, <2>2 DEF host, Decided, Issued
<1> QED
  BY <1>1, <1>3, <1>4, <1>5, <1>6, <1>7, <1>8, <1>9, <1>10 DEF Next, Finish

LEMMA DecidedInvariant == Spec => []Decided
<1>1. Init => Decided
  <2> SUFFICES ASSUME Init PROVE Decided
    OBVIOUS
  <2>1. /\ queue = <<>> /\ rejected = {} /\ events = {}
        /\ \A t \in Threads : call[t].pc = "idle"
    BY DEF Init, Idle
  <2>2. DOMAIN queue = {}
    BY <2>1
  <2> QED BY <2>1, <2>2 DEF Decided
<1> QED BY <1>1, OrderInvariant, DecidedInductive, PTL DEF Spec

\* Only the device does work, and only the oldest of what is queued.
LEMMA DoneOnly ==
  ASSUME TypeOK, Execute, NEW u
  PROVE  Done(u)' <=> Done(u) \/ u = Head(queue).value
<1> DEFINE x == Head(queue).value
           h == Head(queue).buffer
<1>1. x \in Values /\ h \in Buffers
  <2>1. Head(queue) \in Item
    BY Removing DEF Execute, TypeOK
  <2> QED BY <2>1 DEF Item
<1>2. contents' = [contents EXCEPT ![h] = Append(@, x)]
  BY DEF Execute
<1>3. contents[h] \in Seq(Values) /\ contents \in [Buffers -> Seq(Values)]
  BY <1>1 DEF TypeOK
<1> HIDE DEF x, h
<1>4. contents'[h] = Append(contents[h], x)
      /\ \A b \in Buffers \ {h} : contents'[b] = contents[b]
  BY <1>1, <1>2, <1>3
<1>5. /\ Len(contents[h]) \in Nat /\ DOMAIN contents[h] = 1..Len(contents[h])
      /\ DOMAIN contents'[h] = 1..(Len(contents[h]) + 1)
      /\ \A i \in 1..Len(contents[h]) : contents'[h][i] = contents[h][i]
      /\ contents'[h][Len(contents[h]) + 1] = x
  BY <1>1, <1>3, <1>4, Appending
<1>6. (\E i \in DOMAIN contents'[h] : contents'[h][i] = u) <=>
      (\E i \in DOMAIN contents[h] : contents[h][i] = u) \/ u = x
  <2>1. ASSUME NEW i \in DOMAIN contents'[h], contents'[h][i] = u
        PROVE  (\E j \in DOMAIN contents[h] : contents[h][j] = u) \/ u = x
    BY <1>5, <2>1
  <2>2. ASSUME NEW i \in DOMAIN contents[h], contents[h][i] = u
        PROVE  \E j \in DOMAIN contents'[h] : contents'[h][j] = u
    BY <1>5, <2>2
  <2>3. \E j \in DOMAIN contents'[h] : contents'[h][j] = x
    BY <1>5
  <2> QED BY <2>1, <2>2, <2>3
<1>7. Done(u)' <=> \E b \in Buffers : \E i \in DOMAIN contents'[b] : contents'[b][i] = u
  BY DEF Done
<1> QED BY <1>1, <1>4, <1>6, <1>7 DEF Done, x

LEMMA StatusKept ==
  ASSUME NEW u, u \in rejected' <=> u \in rejected, Done(u)' <=> Done(u),
         Queued(u)' <=> Queued(u)
  PROVE  Status(u)' = Status(u)
BY DEF Status

\* The variables of the promise that this specification does not have.
Timeline == [u \in 1..Issued |-> Status(u)]

Waiting == [t \in Threads |-> IF call[t].pc = "wait" THEN call[t].value ELSE 0]

Statuses == {"pending", "refused", "done", "lost"}

LEMMA StatusType == \A u : Status(u) \in Statuses
BY DEF Status, Statuses

TimelineShape ==
  /\ Timeline \in Seq(Statuses) /\ Len(Timeline) = Issued
  /\ DOMAIN Timeline = 1..Issued /\ Issued \in Nat
  /\ \A u \in 1..Issued : Timeline[u] = Status(u)

LEMMA TimelineType == Order => TimelineShape
<1> SUFFICES ASSUME Order PROVE TimelineShape
  OBVIOUS
<1>1. Issued \in Nat
  BY IssuedIs
<1>2. Timeline \in [1..Issued -> Statuses]
  BY StatusType DEF Timeline
<1>3. DOMAIN Timeline = 1..Issued /\ \A u \in 1..Issued : Timeline[u] = Status(u)
  BY DEF Timeline
<1> QED BY <1>1, <1>2, <1>3 DEF TimelineShape

LEMMA TimelineTypeNext == Order' => TimelineShape'
BY TimelineType, PTL

LEMMA AppendIs ==
  ASSUME NEW S, NEW q \in Seq(S), NEW x \in S, NEW r \in Seq(S),
         Len(r) = Len(q) + 1, \A i \in 1..Len(q) : r[i] = q[i], r[Len(q) + 1] = x
  PROVE  r = Append(q, x)
<1>1. /\ Len(Append(q, x)) = Len(q) + 1 /\ Len(q) \in Nat
      /\ \A i \in 1..Len(q) : Append(q, x)[i] = q[i]
      /\ Append(q, x)[Len(q) + 1] = x /\ Append(q, x) \in Seq(S)
  BY Appending
<1>2. \A i \in 1..(Len(q) + 1) : r[i] = Append(q, x)[i]
  BY <1>1
<1> QED BY <1>1, <1>2, SMTT(30)

-----------------------------------------------------------------------------
\* A step that decides nothing.
LEMMA TimelineKept ==
  ASSUME TypeOK, Issued' = Issued, UNCHANGED <<rejected, queue, contents>>
  PROVE  Timeline' = Timeline
<1>1. \A u : Status(u)' = Status(u)
  BY StatusKept DEF Done, Queued
<1> QED BY <1>1 DEF Timeline

LEMMA WaitingKept ==
  ASSUME TypeOK, NEW t \in Threads, NEW c, Becomes(t, c), call[t].pc # "wait",
         c.pc # "wait"
  PROVE  Waiting' = Waiting
BY Others DEF Waiting

\* The semaphore covers what is settled.
LEMMA SettledIs ==
  ASSUME Order, Coverage, NEW v \in Values, v <= payload
  PROVE  v \in 1..Issued /\ \A u \in 1..v : Timeline[u] \in {"done", "refused"}
<1>1. v \in 1..Issued
  BY IssuedIs DEF Values, Order, TypeOK
<1>2. ASSUME NEW u \in 1..v PROVE Timeline[u] \in {"done", "refused"}
  <2>1. u \in 1..Issued /\ u \in Values /\ u <= payload
    BY <1>1, IssuedIs DEF Values, Order, TypeOK
  <2>2. Timeline[u] = Status(u)
    BY <2>1 DEF Timeline
  <2>3. u \in rejected \/ Done(u)
    BY <2>1 DEF Coverage, Covered
  <2> QED BY <2>2, <2>3 DEF Status
<1> QED BY <1>1, <1>2

LEMMA QuietRefines ==
  ASSUME Order, NEW t \in Threads,
         Dispatch(t) \/ Lock(t) \/ Allocate(t) \/ Unlock(t)
  PROVE  UNCHANGED Serial!serialVars
<1>0. TypeOK
  BY DEF Order
<1>1. PICK c : Becomes(t, c) /\ c.pc \in {"lock", "allocate", "submit", "return"}
  <2>1. CASE Dispatch(t)
    BY <2>1 DEF Dispatch
  <2>2. CASE Lock(t) \/ Unlock(t)
    BY <1>0, <2>2, GotoFields DEF Lock, Unlock
  <2>3. CASE Allocate(t)
    BY <2>3 DEF Allocate
  <2> QED BY <2>1, <2>2, <2>3
<1>2. /\ UNCHANGED <<rejected, events, queue, contents, failed>>
      /\ call[t].pc \notin {"submit", "wait"}
  BY DEF Dispatch, Lock, Allocate, Unlock, device
<1>3. Issued' = Issued
  <2>1. CASE Allocate(t)
    BY <2>1, AllocateIssues
  <2>2. CASE Dispatch(t) \/ Lock(t) \/ Unlock(t)
    <3>1. nextTimelineValue' = nextTimelineValue
      BY <2>2 DEF Dispatch, Lock, Unlock
    <3>2. \E d : Becomes(t, d) /\ d.pc # "submit"
      <4>1. CASE Dispatch(t)
        BY <4>1 DEF Dispatch
      <4>2. CASE Lock(t) \/ Unlock(t)
        BY <1>0, <4>2, GotoFields DEF Lock, Unlock
      <4> QED BY <2>2, <4>1, <4>2
    <3> QED BY <1>0, <1>2, <3>1, <3>2, IssuedKept
  <2> QED BY <2>1, <2>2
<1>4. Timeline' = Timeline
  BY <1>0, <1>2, <1>3, TimelineKept
<1>5. Waiting' = Waiting
  BY <1>0, <1>1, <1>2, WaitingKept
<1> QED BY <1>2, <1>4, <1>5 DEF Serial!serialVars, Timeline, Waiting

LEMMA SubmitRefines ==
  ASSUME Order, Order', Coverage, Effects, Decided, NEW t \in Threads,
         Submit(t) \/ SubmitFails(t)
  PROVE  Serial!Issue
<1> PICK v : v = call[t].value
  OBVIOUS
<1>0. TypeOK /\ call[t].pc = "submit"
  BY DEF Order, Submit, SubmitFails
<1>1. Issued' = Issued + 1 /\ v = Issued + 1 /\ Issued \in Nat
  BY SubmitIssues, IssuedIs
<1>2. v \notin rejected
  BY <1>1 DEF Decided
<1>3. ~Done(v)
  <2>1. v \in Nat
    BY <1>1
  <2> QED BY <1>0, <2>1 DEF Effects, Recorded, Done
<1>4. UNCHANGED <<contents, events, failed>>
  BY DEF Submit, SubmitFails, device
<1>5. Waiting' = Waiting
  <2>1. PICK c : Becomes(t, c) /\ c.pc # "wait"
    BY <1>0, GotoFields DEF Submit, SubmitFails, Idle
  <2> QED BY <1>0, <2>1, WaitingKept
<1>6. /\ \A u : u # v => Status(u)' = Status(u)
      /\ Status(v)' \in {"pending", "refused"}
  <2>1. CASE SubmitFails(t)
    <3>1. /\ rejected' = rejected \union {v}
          /\ UNCHANGED <<queue, contents>>
      BY <2>1 DEF SubmitFails, device
    <3>2. \A u : (Done(u)' <=> Done(u)) /\ (Queued(u)' <=> Queued(u))
      BY <3>1 DEF Done, Queued
    <3>3. \A u : u # v => Status(u)' = Status(u)
      BY <3>1, <3>2, StatusKept
    <3>4. Status(v)' = "refused"
      BY <3>1 DEF Status
    <3> QED BY <3>3, <3>4
  <2>2. CASE Submit(t)
    <3>1. /\ queue' = Append(queue, Work(t)) /\ UNCHANGED <<rejected, contents>>
      BY <2>2 DEF Submit
    <3>2. Work(t) \in Item /\ Work(t).value = v
      BY <1>0, CallType DEF Work, Item, InDispatch
    <3>3. /\ DOMAIN queue = 1..Len(queue) /\ DOMAIN queue' = 1..(Len(queue) + 1)
          /\ \A i \in 1..Len(queue) : queue'[i] = queue[i]
          /\ queue'[Len(queue) + 1].value = v /\ Len(queue) \in Nat
      BY <1>0, <3>1, <3>2, Appending DEF TypeOK
    <3>4. Queued(v)' /\ \A u : u # v => (Queued(u)' <=> Queued(u))
      <4>1. Queued(v)'
        BY <3>3 DEF Queued
      <4>2. ASSUME NEW u, Queued(u) PROVE Queued(u)'
        BY <3>3, <4>2 DEF Queued
      <4>3. ASSUME NEW u, u # v, Queued(u)' PROVE Queued(u)
        BY <3>3, <4>3 DEF Queued
      <4> QED BY <4>1, <4>2, <4>3
    <3>5. \A u : Done(u)' <=> Done(u)
      BY <3>1 DEF Done
    <3>6. \A u : u # v => Status(u)' = Status(u)
      BY <3>1, <3>4, <3>5, StatusKept
    <3>7. v \notin rejected' /\ ~Done(v)' /\ Queued(v)'
      BY <1>2, <1>3, <3>1, <3>4, <3>5
    <3>8. Status(v)' = "pending"
      BY <3>7 DEF Status
    <3> QED BY <3>6, <3>8
  <2> QED BY <2>1, <2>2
<1>7. \A u \in 1..Issued : u # v /\ u \in 1..Issued'
  BY <1>1
<1>8. /\ Timeline \in Seq(Statuses) /\ Len(Timeline) = Issued
      /\ \A u \in 1..Issued : Timeline[u] = Status(u)
  BY TimelineType DEF TimelineShape
<1>9. /\ Timeline' \in Seq(Statuses) /\ Len(Timeline') = Issued'
      /\ \A u \in 1..Issued' : Timeline'[u] = Status(u)'
  BY TimelineTypeNext DEF TimelineShape
<1>10. \A u \in 1..Len(Timeline) : Timeline'[u] = Timeline[u]
  BY <1>6, <1>7, <1>8, <1>9
<1>11. Timeline'[Len(Timeline) + 1] = Status(v)'
  BY <1>1, <1>8, <1>9
<1>12. Status(v)' \in Statuses
  BY <1>6 DEF Statuses
<1>13. Timeline' = Append(Timeline, Status(v)')
  BY <1>1, <1>8, <1>9, <1>10, <1>11, <1>12, AppendIs
<1> QED BY <1>4, <1>5, <1>6, <1>13 DEF Serial!Issue, Timeline, Waiting

\* A thread moves; the timeline stays.
LEMMA ThreadKeeps ==
  ASSUME TypeOK, NEW t \in Threads, NEW c, Becomes(t, c), call[t].pc # "submit",
         c.pc # "submit",
         UNCHANGED <<nextTimelineValue, rejected, queue, contents>>
  PROVE  Timeline' = Timeline
BY IssuedKept, TimelineKept

LEMMA ReturnRefines ==
  ASSUME Order, Decided, NEW t \in Threads, ReturnEvent(t)
  PROVE  Serial!Return
<1>1. /\ TypeOK /\ Becomes(t, Idle) /\ Idle.pc = "idle" /\ call[t].pc = "return"
      /\ UNCHANGED <<nextTimelineValue, rejected, queue, contents, failed>>
      /\ events' = events \union {call[t].value}
  BY DEF Order, ReturnEvent, EventValue, Idle, device
<1>2. Timeline' = Timeline /\ Waiting' = Waiting
  BY <1>1, ThreadKeeps, WaitingKept
<1>3. call[t].value \in 1..Issued /\ call[t].value \notin rejected
  BY <1>1, CallType, IssuedIs DEF Decided, Values
<1>4. Timeline[call[t].value] # "refused"
  BY <1>3 DEF Timeline, Status
<1>5. call[t].value \in DOMAIN Timeline
  BY <1>3 DEF Timeline
<1> QED BY <1>1, <1>2, <1>4, <1>5 DEF Serial!Return, Timeline, Waiting

LEMMA WaitRefines ==
  ASSUME Order, NEW t \in Threads, Wait(t)
  PROVE  Serial!BeginWait
<1>1. PICK v \in events : Becomes(t, [pc |-> "wait", value |-> v])
  BY DEF Wait
<1>2. /\ TypeOK /\ call[t].pc = "idle"
      /\ UNCHANGED <<nextTimelineValue, rejected, events, queue, contents, failed>>
  BY DEF Order, Wait, device
<1>3. Timeline' = Timeline
  BY <1>1, <1>2, ThreadKeeps
<1>4. Waiting[t] = 0
  BY <1>2 DEF Waiting
<1>5. Waiting' = [Waiting EXCEPT ![t] = v]
  <2>1. /\ call'[t].pc = "wait" /\ call'[t].value = v
        /\ \A r \in Threads \ {t} : call'[r] = call[r]
    BY <1>1, <1>2, Others
  <2> QED BY <2>1 DEF Waiting
<1> QED BY <1>2, <1>3, <1>4, <1>5 DEF Serial!BeginWait, Timeline, Waiting

LEMMA WaitEndRefines ==
  ASSUME Order, Coverage, NEW t \in Threads, WaitEnds(t)
  PROVE  Serial!EndWait
<1>1. /\ TypeOK /\ call[t].pc = "wait" /\ Becomes(t, Idle) /\ Idle.pc = "idle"
      /\ UNCHANGED <<nextTimelineValue, rejected, events, queue, contents, failed>>
      /\ payload >= call[t].value \/ failed
  BY DEF Order, WaitEnds, Reached, Idle, device
<1>2. Timeline' = Timeline
  BY <1>1, ThreadKeeps
<1>3. Waiting[t] = call[t].value /\ Waiting[t] \in Values
  BY <1>1, CallType DEF Waiting
<1>4. Waiting' = [Waiting EXCEPT ![t] = 0]
  BY <1>1, Others DEF Waiting
<1>5. failed \/ \A u \in 1..Waiting[t] : Timeline[u] \in {"done", "refused"}
  <2>1. CASE payload >= call[t].value
    <3>1. Waiting[t] <= payload
      BY <1>1, <1>3, <2>1 DEF TypeOK, Values
    <3> QED BY <1>3, <3>1, SettledIs
  <2> QED BY <1>1, <2>1
<1>6. Waiting[t] # 0
  BY <1>3 DEF Values
<1> QED
  BY <1>1, <1>2, <1>4, <1>5, <1>6
  DEF Serial!EndWait, Serial!Settled, Timeline, Waiting

\* The head of the queue, before the device has done it, is the oldest of what is
\* pending.
LEMMA HeadIsOldest ==
  ASSUME Order, Effects, Decided, queue # <<>>, ~executed
  PROVE  /\ Head(queue).value \in 1..Issued /\ Head(queue).value \in DOMAIN Timeline
         /\ Head(queue).value \notin rejected
         /\ Timeline[Head(queue).value] = "pending"
         /\ \A u \in 1..(Head(queue).value - 1) : Timeline[u] # "pending"
<1> DEFINE x == Head(queue).value
<1>1. /\ TypeOK /\ Head(queue) = queue[1] /\ 1 \in DOMAIN queue /\ Issued \in Nat
      /\ x \in Values /\ x <= Issued /\ Len(queue) \in Nat
      /\ DOMAIN queue = 1..Len(queue)
  <2>1. TypeOK
    BY DEF Order
  <2>2. Head(queue) = queue[1] /\ 1 \in DOMAIN queue
    BY <2>1, Removing DEF TypeOK
  <2> QED BY <2>1, <2>2, QueueType, IssuedIs
<1>2. x \in 1..Issued
  BY <1>1 DEF Values
<1>3. x \notin rejected
  BY <1>1 DEF Decided
<1>4. ~Done(x)
  BY <1>1 DEF Effects, Recorded, Done, Values
<1>5. Queued(x)
  BY <1>1 DEF Queued
<1>6. Status(x) = "pending"
  BY <1>3, <1>4, <1>5 DEF Status
<1>7. ASSUME NEW u \in 1..(x - 1) PROVE Timeline[u] # "pending"
  <2>1. u \in 1..Issued /\ u \in Nat /\ u < x
    BY <1>1 DEF Values
  <2>2. \A i \in DOMAIN queue : queue[i].value # u
    <3> SUFFICES ASSUME NEW i \in DOMAIN queue, queue[i].value = u PROVE FALSE
      OBVIOUS
    <3>1. i = 1 \/ 1 < i
      BY <1>1
    <3>2. queue[1].value <= queue[i].value
      BY <1>1, <2>1, <3>1 DEF Order, TimelineInOrder, Values
    <3> QED BY <1>1, <2>1, <3>2 DEF Values
  <2>3. ~Queued(u)
    BY <2>2 DEF Queued
  <2> QED BY <2>1, <2>3 DEF Timeline, Status
<1> QED BY <1>2, <1>3, <1>6, <1>7 DEF Timeline

LEMMA ExecuteRefines ==
  ASSUME Order, Effects, Decided, Execute
  PROVE  Serial!Do
<1> PICK x : x = Head(queue).value
  OBVIOUS
<1> PICK h : h = Head(queue).buffer
  OBVIOUS
<1>1. /\ TypeOK /\ queue # <<>> /\ ~executed /\ UNCHANGED <<host, queue, failed>>
      /\ contents' = [contents EXCEPT ![h] = Append(@, x)]
  BY DEF Order, Execute
<1>2. /\ x \in 1..Issued /\ x \in DOMAIN Timeline /\ x \notin rejected
      /\ Timeline[x] = "pending" /\ \A u \in 1..(x - 1) : Timeline[u] # "pending"
  BY <1>1, HeadIsOldest
<1>3. h \in Buffers
  <2>1. Head(queue) \in Item
    BY <1>1, Removing DEF TypeOK
  <2> QED BY <2>1 DEF Item
<1>4. \A u : Done(u)' <=> Done(u) \/ u = x
  BY <1>1, DoneOnly
<1>5. \A u : u # x => Status(u)' = Status(u)
  BY <1>1, <1>4, StatusKept DEF host, Queued
<1>6. Status(x)' = "done"
  <2>1. x \notin rejected' /\ Done(x)'
    BY <1>1, <1>2, <1>4 DEF host
  <2> QED BY <2>1 DEF Status
<1>7. Issued' = Issued /\ Waiting' = Waiting /\ events' = events
  BY <1>1 DEF host, Issued, Waiting
<1>8. Timeline' = [Timeline EXCEPT ![x] = "done"]
  BY <1>5, <1>6, <1>7 DEF Timeline
<1> QED
  BY <1>1, <1>2, <1>3, <1>7, <1>8
  DEF Serial!Do, Serial!Oldest, Timeline, Waiting

\* What leaves the queue is in it no more, and the rest is.
LEMMA QueuedAfter ==
  ASSUME Order, queue # <<>>, queue' = Tail(queue), NEW u
  PROVE  Queued(u)' <=> Queued(u) /\ u # Head(queue).value
<1>1. /\ TypeOK /\ Len(queue) \in Nat \ {0} /\ Head(queue) = queue[1]
      /\ DOMAIN queue = 1..Len(queue) /\ DOMAIN queue' = 1..(Len(queue) - 1)
      /\ \A i \in 1..(Len(queue) - 1) : queue'[i] = queue[i + 1]
  BY Removing DEF Order, TypeOK
<1>2. ASSUME NEW i \in DOMAIN queue', queue'[i].value = u
      PROVE  Queued(u) /\ u # Head(queue).value
  <2>1. 1 \in DOMAIN queue /\ i + 1 \in DOMAIN queue /\ 1 < i + 1
    BY <1>1
  <2>2. queue[1].value < queue[i + 1].value
    BY <2>1 DEF Order, TimelineInOrder
  <2>3. queue[1].value \in Nat /\ queue[i + 1].value \in Nat
    BY <1>1, <2>1, QueueType DEF Values
  <2> QED BY <1>1, <1>2, <2>1, <2>2, <2>3 DEF Queued
<1>3. ASSUME NEW i \in DOMAIN queue, queue[i].value = u, u # Head(queue).value
      PROVE  \E j \in DOMAIN queue' : queue'[j].value = u
  <2>1. i # 1 /\ i - 1 \in DOMAIN queue' /\ i - 1 + 1 = i
    BY <1>1, <1>3
  <2> QED BY <1>1, <1>3, <2>1
<1> QED BY <1>2, <1>3 DEF Queued

LEMMA FailRefines ==
  ASSUME Order, Effects, Decided, Fail
  PROVE  Serial!Lose
<1> PICK x : x = Head(queue).value
  OBVIOUS
<1>1. /\ TypeOK /\ queue # <<>> /\ ~executed /\ UNCHANGED <<host, contents>>
      /\ queue' = Tail(queue) /\ failed' = TRUE
  BY DEF Order, Fail
<1>2. /\ x \in 1..Issued /\ x \in DOMAIN Timeline /\ x \notin rejected
      /\ Timeline[x] = "pending" /\ \A u \in 1..(x - 1) : Timeline[u] # "pending"
  BY <1>1, HeadIsOldest
<1>3. \A u : Done(u)' <=> Done(u)
  BY <1>1 DEF Done
<1>4. \A u : Queued(u)' <=> Queued(u) /\ u # x
  BY <1>1, QueuedAfter
<1>5. \A u : u # x => Status(u)' = Status(u)
  BY <1>1, <1>3, <1>4, StatusKept DEF host
<1>6. Status(x)' = "lost"
  <2>1. ~Done(x)
    BY <1>2 DEF Timeline, Status
  <2>2. x \notin rejected' /\ ~Done(x)' /\ ~Queued(x)'
    BY <1>1, <1>2, <1>3, <1>4, <2>1 DEF host
  <2> QED BY <2>2 DEF Status
<1>7. Issued' = Issued /\ Waiting' = Waiting /\ events' = events
  BY <1>1 DEF host, Issued, Waiting
<1>8. Timeline' = [Timeline EXCEPT ![x] = "lost"]
  BY <1>5, <1>6, <1>7 DEF Timeline
<1> QED
  BY <1>1, <1>2, <1>7, <1>8 DEF Serial!Lose, Serial!Oldest, Timeline, Waiting

\* The semaphore is nothing that a client sees: what it counts was done before.
LEMMA SignalRefines ==
  ASSUME Order, Coverage, Signal
  PROVE  UNCHANGED Serial!serialVars
<1>1. /\ TypeOK /\ queue # <<>> /\ UNCHANGED <<host, contents, failed>>
      /\ queue' = Tail(queue) /\ Done(Head(queue).value)
  BY DEF Order, Signal, Coverage, HeadIsDone
<1>2. ASSUME NEW u PROVE Status(u)' = Status(u)
  <2>1. (Queued(u)' <=> Queued(u)) \/ Done(u)
    BY <1>1, QueuedAfter
  <2>2. (Done(u)' <=> Done(u)) /\ (u \in rejected' <=> u \in rejected)
    BY <1>1 DEF Done, host
  <2>3. CASE Queued(u)' <=> Queued(u)
    BY <2>2, <2>3, StatusKept
  <2>4. CASE Done(u)
    BY <2>2, <2>4 DEF Status
  <2> QED BY <2>1, <2>3, <2>4
<1>3. Issued' = Issued /\ Waiting' = Waiting /\ events' = events
  BY <1>1 DEF host, Issued, Waiting
<1>4. Timeline' = Timeline
  BY <1>2, <1>3 DEF Timeline
<1> QED BY <1>1, <1>3, <1>4 DEF Serial!serialVars, Timeline, Waiting

LEMMA DeviceRefines ==
  Order /\ Order' /\ Coverage /\ Effects /\ Decided /\ [Next]_vars =>
    [Serial!SerialNext]_(Serial!serialVars)
<1> SUFFICES ASSUME Order, Order', Coverage, Effects, Decided, [Next]_vars
             PROVE  [Serial!SerialNext]_(Serial!serialVars)
  OBVIOUS
<1>1. CASE UNCHANGED vars
  <2>1. UNCHANGED Serial!serialVars
    BY <1>1 DEF vars, host, device, Serial!serialVars, Issued, Status, Done, Queued
  <2> QED BY <2>1
<1>2. ASSUME NEW t \in Threads, Dispatch(t) \/ Wait(t) \/ Finish(t)
      PROVE  [Serial!SerialNext]_(Serial!serialVars)
  <2>1. CASE Dispatch(t) \/ Lock(t) \/ Allocate(t) \/ Unlock(t)
    BY <2>1, QuietRefines
  <2>2. CASE Submit(t) \/ SubmitFails(t)
    BY <2>2, SubmitRefines DEF Serial!SerialNext
  <2>3. CASE ReturnEvent(t)
    BY <2>3, ReturnRefines DEF Serial!SerialNext
  <2>4. CASE Wait(t)
    BY <2>4, WaitRefines DEF Serial!SerialNext
  <2>5. CASE WaitEnds(t)
    BY <2>5, WaitEndRefines DEF Serial!SerialNext
  <2> QED BY <1>2, <2>1, <2>2, <2>3, <2>4, <2>5 DEF Finish
<1>3. CASE Execute
  BY <1>3, ExecuteRefines DEF Serial!SerialNext
<1>4. CASE Fail
  BY <1>4, FailRefines DEF Serial!SerialNext
<1>5. CASE Signal
  BY <1>5, SignalRefines
<1> QED BY <1>1, <1>2, <1>3, <1>4, <1>5 DEF Next

\* The mutex around the counter and the queue, the semaphore and the device together
\* do what Runtime.h says of dispatch() and wait(): one dispatch after the other,
\* and a wait that ends covers all earlier work or tells of a failure.
THEOREM RuntimeIsSerial == Spec => DispatchesAreSerial
<1>1. Init => Serial!SerialInit
  <2> SUFFICES ASSUME Init PROVE Serial!SerialInit
    OBVIOUS
  <2>1. /\ nextTimelineValue = 0 /\ events = {} /\ ~failed /\ failed = FALSE
        /\ contents = [b \in Buffers |-> <<>>]
        /\ \A t \in Threads : call[t].pc = "idle"
    BY DEF Init, Idle
  <2>2. Issued = 0
    BY <2>1 DEF Issued
  <2>3. Timeline = <<>>
    BY <2>2 DEF Timeline
  <2>4. Waiting = [t \in Threads |-> 0]
    BY <2>1 DEF Waiting
  <2> QED BY <2>1, <2>3, <2>4 DEF Serial!SerialInit, Timeline, Waiting
<1> QED
  BY <1>1, OrderInvariant, CoverageInvariant, EffectsInvariant, DecidedInvariant,
     DeviceRefines, PTL
  DEF Spec, DispatchesAreSerial, Serial!SerialSpec
=============================================================================

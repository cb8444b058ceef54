---------------------------- MODULE GPUTimeline ----------------------------
(***************************************************************************)
(* Executable::dispatch and Event::wait of src/gpu/Runtime.mm: threads     *)
(* that submit work to one device and wait for it on the semaphore that    *)
(* all of its work shares.                                                 *)
(*                                                                         *)
(* IREE's queue is external: it works in the order of submission, and a    *)
(* dispatch is signalled when its effects can be read. A dispatch has one  *)
(* binding; what a kernel does to a buffer is that the value of the        *)
(* dispatch on the timeline is appended to it.                             *)
(***************************************************************************)
EXTENDS Integers, Sequences

CONSTANTS
  Threads,       \* the callers
  Buffers,       \* what they bind
  Foreign,       \* the buffers of other devices
  Size,          \* the elements of a buffer
  Word,          \* a size_t is below this
  Lengths,       \* the offsets and lengths that are passed
  None,          \* not a thread
  MaxDispatches  \* bound: no dispatch begins after this many

ASSUME TimelineAssumption ==
  /\ None \notin Threads /\ Foreign \subseteq Buffers
  /\ Word \in Nat /\ Size \in 0..(Word - 1) /\ Lengths \subseteq 0..(Word - 1)
  /\ MaxDispatches \in Nat

VARIABLES
  nextTimelineValue,
  dispatchMutex,  \* the thread that holds it
  call,           \* what each thread does
  events,         \* the values of the events that were returned
  rejected,       \* the values whose dispatch was refused
  queue,          \* what the device has not completed, the oldest first
  executed,       \* whether the device has done the oldest
  payload,        \* the value of the semaphore
  failed,         \* whether the semaphore has failed
  contents        \* what has been done to each buffer

host == <<nextTimelineValue, dispatchMutex, call, events, rejected>>
device == <<queue, executed, payload, failed, contents>>
vars == <<host, device>>

Idle == [pc |-> "idle"]

Init ==
  /\ nextTimelineValue = 0 /\ dispatchMutex = None
  /\ call = [t \in Threads |-> Idle]
  /\ events = {} /\ rejected = {}
  /\ queue = <<>> /\ executed = FALSE /\ payload = 0 /\ failed = FALSE
  /\ contents = [b \in Buffers |-> <<>>]

Becomes(t, c) == call' = [call EXCEPT ![t] = c]

Goto(t, pc) == [call[t] EXCEPT !.pc = pc]

-----------------------------------------------------------------------------
(* Executable::dispatch *)

\* Fault: the end is computed and compared; it may wrap around.
EndInBounds(offset, length) == (offset + length) % Word <= Size

InBounds(offset, length) == offset <= Size /\ length <= Size - offset

\* What Buffer::view makes of std::dynamic_extent.
ViewLength(offset, length) ==
  IF length = Word - 1 /\ offset <= Size THEN Size - offset ELSE length

\* A call with a wrong count of bindings or size of constants, or without
\* workgroups, throws like one whose binding is not accepted, and changes
\* nothing.
Dispatch(t) ==
  /\ call[t].pc = "idle" /\ nextTimelineValue < MaxDispatches
  /\ \E b \in Buffers \ Foreign, offset, passed \in Lengths :
       \E length \in {passed, ViewLength(offset, passed)} :
         /\ InBounds(offset, length)
         /\ Becomes(t, [pc |-> "lock", buffer |-> b, offset |-> offset,
                        length |-> length])
  /\ UNCHANGED <<nextTimelineValue, dispatchMutex, events, rejected, device>>

Lock(t) ==
  /\ call[t].pc = "lock" /\ dispatchMutex = None
  /\ dispatchMutex' = t
  /\ Becomes(t, Goto(t, "allocate"))
  /\ UNCHANGED <<nextTimelineValue, events, rejected, device>>

\* Fault: the mutex protects the counter only.
Counted(t) == None

Held(t) == dispatchMutex

TimelineValue(t) == nextTimelineValue + 1

Allocate(t) ==
  /\ call[t].pc = "allocate"
  /\ nextTimelineValue' = nextTimelineValue + 1
  /\ dispatchMutex' = Held(t)
  /\ Becomes(t, [pc |-> "submit", buffer |-> call[t].buffer,
                 offset |-> call[t].offset, length |-> call[t].length,
                 value |-> TimelineValue(t)])
  /\ UNCHANGED <<events, rejected, device>>

Work(t) == [buffer |-> call[t].buffer, offset |-> call[t].offset,
            length |-> call[t].length, value |-> call[t].value]

Submit(t) ==
  /\ call[t].pc = "submit"
  /\ queue' = Append(queue, Work(t))
  /\ Becomes(t, Goto(t, "unlock"))
  /\ UNCHANGED <<nextTimelineValue, dispatchMutex, events, rejected,
                 executed, payload, failed, contents>>

\* Fault: the mutex is not released when the queue refuses.
StillHeld(t) == t

Released(t) == None

\* check() throws; the value has been taken and nobody will signal it.
SubmitFails(t) ==
  /\ call[t].pc = "submit"
  /\ rejected' = rejected \union {call[t].value}
  /\ dispatchMutex' = Released(t)
  /\ Becomes(t, Idle)
  /\ UNCHANGED <<nextTimelineValue, events, device>>

\* Fault: the event is made of the counter, outside of the lock.
LatestValue(t) == nextTimelineValue

EventValue(t) == call[t].value

Unlock(t) ==
  /\ call[t].pc = "unlock"
  /\ dispatchMutex' = None
  /\ Becomes(t, Goto(t, "return"))
  /\ UNCHANGED <<nextTimelineValue, events, rejected, device>>

ReturnEvent(t) ==
  /\ call[t].pc = "return"
  /\ events' = events \union {EventValue(t)}
  /\ Becomes(t, Idle)
  /\ UNCHANGED <<nextTimelineValue, dispatchMutex, rejected, device>>

-----------------------------------------------------------------------------
(* Event::wait *)

Wait(t) ==
  /\ call[t].pc = "idle"
  /\ \E v \in events : Becomes(t, [pc |-> "wait", value |-> v])
  /\ UNCHANGED <<nextTimelineValue, dispatchMutex, events, rejected, device>>

Reached(v) == payload >= v

\* The wait returns, or throws when the semaphore has failed.
WaitEnds(t) ==
  /\ call[t].pc = "wait"
  /\ Reached(call[t].value) \/ failed
  /\ Becomes(t, Idle)
  /\ UNCHANGED <<nextTimelineValue, dispatchMutex, events, rejected, device>>

-----------------------------------------------------------------------------
(* The device. *)

Execute ==
  /\ queue # <<>> /\ ~executed
  /\ executed' = TRUE
  /\ contents' = [contents EXCEPT ![Head(queue).buffer] =
                    Append(@, Head(queue).value)]
  /\ UNCHANGED <<host, queue, payload, failed>>

\* A semaphore that has failed keeps its value.
Signal ==
  /\ queue # <<>> /\ executed
  /\ executed' = FALSE /\ queue' = Tail(queue)
  /\ payload' = IF failed THEN payload ELSE Head(queue).value
  /\ UNCHANGED <<host, failed, contents>>

Fail ==
  /\ queue # <<>> /\ ~executed
  /\ failed' = TRUE /\ queue' = Tail(queue)
  /\ UNCHANGED <<host, executed, payload, contents>>

-----------------------------------------------------------------------------
Finish(t) ==
  \/ Lock(t) \/ Allocate(t) \/ Submit(t) \/ SubmitFails(t) \/ Unlock(t)
  \/ ReturnEvent(t) \/ WaitEnds(t)

Next ==
  \/ \E t \in Threads : Dispatch(t) \/ Wait(t) \/ Finish(t)
  \/ Execute \/ Signal \/ Fail

Spec == Init /\ [][Next]_vars

\* A thread that may go on does; the device completes what it has begun. Nothing
\* is assumed of the order in which the mutex is granted.
Fairness == /\ \A t \in Threads : WF_vars(Finish(t))
            /\ WF_vars(Execute) /\ WF_vars(Signal)

LiveSpec == Spec /\ Fairness

-----------------------------------------------------------------------------
(* Properties. *)

Values == Nat \ {0}

Sizes == 0..(Word - 1)

Item == [buffer : Buffers \ Foreign, offset : Sizes, length : Sizes,
         value : Values]

Call == {Idle}
        \union [pc : {"lock", "allocate"}, buffer : Buffers \ Foreign,
                offset : Sizes, length : Sizes]
        \union [pc : {"submit", "unlock", "return"}, buffer : Buffers \ Foreign,
                offset : Sizes, length : Sizes, value : Values]
        \union [pc : {"wait"}, value : Values]

\* Every variable has its shape; every event and every dispatch has a value
\* that was taken from the timeline, which starts at one.
TypeOK ==
  /\ nextTimelineValue \in Nat /\ dispatchMutex \in Threads \union {None}
  /\ call \in [Threads -> Call]
  /\ events \subseteq Values /\ rejected \subseteq Values
  /\ queue \in Seq(Item) /\ executed \in BOOLEAN
  /\ payload \in Nat /\ failed \in BOOLEAN
  /\ contents \in [Buffers -> Seq(Values)]

\* The semaphore is never signalled with a value that it has or has passed:
\* what is queued has values that grow, and that are above the semaphore's.
TimelineInOrder ==
  /\ \A i, j \in DOMAIN queue : i < j => queue[i].value < queue[j].value
  /\ \A i \in DOMAIN queue : payload < queue[i].value

Done(u) == \E b \in Buffers : \E i \in DOMAIN contents[b] : contents[b][i] = u

\* Who waits for an event waits for all earlier work on the timeline: when the
\* semaphore has reached the value of an event, what has this value or a smaller
\* one was done, or was refused.
EarlierWorkIsDone ==
  \A v \in events : Reached(v) => \A u \in 1..v : u \in rejected \/ Done(u)

\* Dispatches work on a buffer in the order of their values, each at most once.
EffectsInOrder ==
  \A b \in Buffers : \A i, j \in DOMAIN contents[b] :
    i < j => contents[b][i] < contents[b][j]

\* The timeline is one order: of what is queued, of what was done, and of what is
\* covered by a wait.
WorkIsInOrder == TimelineInOrder /\ EffectsInOrder /\ EarlierWorkIsDone

\* No binding that reaches the device extends past its buffer.
BindingsInBounds ==
  \A i \in DOMAIN queue : queue[i].offset + queue[i].length <= Size

\* Every dispatch returns or throws, also after another one was refused.
DispatchesReturn ==
  \A t \in Threads : call[t].pc = "lock" ~> call[t].pc = "idle"

\* Every wait ends, also when values were taken that nobody signals.
WaitsEnd == \A t \in Threads : call[t].pc = "wait" ~> call[t].pc = "idle"

\* No call on the device blocks for ever, whatever is refused or fails.
CallsEnd == DispatchesReturn /\ WaitsEnd

-----------------------------------------------------------------------------
(* The promise of include/xmojo/gpu/Runtime.h. *)

Queued(u) == \E i \in DOMAIN queue : queue[i].value = u

\* The values that are decided: one that a thread has in hand is not yet.
Issued == IF \E t \in Threads : call[t].pc = "submit"
          THEN nextTimelineValue - 1 ELSE nextTimelineValue

Status(u) == CASE u \in rejected -> "refused"
               [] u \notin rejected /\ Done(u) -> "done"
               [] u \notin rejected /\ ~Done(u) /\ Queued(u) -> "pending"
               [] OTHER -> "lost"

Serial == INSTANCE SerialDevice WITH
            timeline <- [u \in 1..Issued |-> Status(u)],
            broken <- failed,
            waiting <- [t \in Threads |->
                          IF call[t].pc = "wait" THEN call[t].value ELSE 0]

\* Threads, mutex, semaphore and queue together are a device that does one
\* dispatch after the other, and a wait that ends covers all earlier work.
DispatchesAreSerial == Serial!SerialSpec
=============================================================================

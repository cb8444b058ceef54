---------------------------- MODULE SerialDevice ----------------------------
(***************************************************************************)
(* What include/xmojo/gpu/Runtime.h promises to the callers of dispatch()  *)
(* and wait(), without mutex, semaphore or queue. The dispatches of a      *)
(* device form one timeline. The device takes them one after the other,    *)
(* each does its work once or is lost, and a loss is for good. A wait for  *)
(* a dispatch is a wait for it and for all earlier work: it ends when all  *)
(* of that is settled, or with the failure of the device.                  *)
(***************************************************************************)
EXTENDS Integers, Sequences

CONSTANTS
  Threads,  \* the callers
  Buffers   \* what they bind

VARIABLES
  timeline,  \* what became of each dispatch
  contents,  \* the dispatches that worked on each buffer, in order
  broken,    \* whether the device has lost work
  events,    \* the dispatches whose event was returned
  waiting    \* the dispatch each thread waits for, zero if it does not

serialVars == <<timeline, contents, broken, events, waiting>>

SerialInit ==
  /\ timeline = <<>> /\ broken = FALSE /\ events = {}
  /\ contents = [b \in Buffers |-> <<>>]
  /\ waiting = [t \in Threads |-> 0]

\* A dispatch that is refused keeps its place.
Issue ==
  /\ \E status \in {"pending", "refused"} : timeline' = Append(timeline, status)
  /\ UNCHANGED <<contents, broken, events, waiting>>

Oldest(v) ==
  /\ v \in DOMAIN timeline /\ timeline[v] = "pending"
  /\ \A u \in 1..(v - 1) : timeline[u] # "pending"

Do ==
  /\ \E v \in DOMAIN timeline, b \in Buffers :
       /\ Oldest(v)
       /\ timeline' = [timeline EXCEPT ![v] = "done"]
       /\ contents' = [contents EXCEPT ![b] = Append(@, v)]
  /\ UNCHANGED <<broken, events, waiting>>

Lose ==
  /\ \E v \in DOMAIN timeline :
       Oldest(v) /\ timeline' = [timeline EXCEPT ![v] = "lost"]
  /\ broken' = TRUE
  /\ UNCHANGED <<contents, events, waiting>>

\* dispatch() returns an event only for what was not refused.
Return ==
  /\ \E v \in DOMAIN timeline :
       timeline[v] # "refused" /\ events' = events \union {v}
  /\ UNCHANGED <<timeline, contents, broken, waiting>>

BeginWait ==
  /\ \E t \in Threads, v \in events :
       waiting[t] = 0 /\ waiting' = [waiting EXCEPT ![t] = v]
  /\ UNCHANGED <<timeline, contents, broken, events>>

Settled(v) == \A u \in 1..v : timeline[u] \in {"done", "refused"}

EndWait ==
  /\ \E t \in Threads :
       /\ waiting[t] # 0 /\ (Settled(waiting[t]) \/ broken)
       /\ waiting' = [waiting EXCEPT ![t] = 0]
  /\ UNCHANGED <<timeline, contents, broken, events>>

SerialNext == Issue \/ Do \/ Lose \/ Return \/ BeginWait \/ EndWait

SerialSpec == SerialInit /\ [][SerialNext]_serialVars
=============================================================================

-------------------------- MODULE ScopedCallbacks --------------------------
(***************************************************************************)
(* What the callbacks of include/xmojo/InteractiveSession.h promise when   *)
(* cells, displays and destructors of several sessions nest on one thread: *)
(* every activation has callback state of its own. It starts fresh, only   *)
(* the innermost activation changes its own, and what an activation emits  *)
(* reaches the callbacks of its own session.                               *)
(***************************************************************************)
EXTENDS Integers, Sequences

CONSTANTS
  Sessions,       \* the sessions that live on the thread
  Numbers,        \* the numbers of activations
  Fresh(_, _, _)  \* the state of a new activation: kind, session and number

VARIABLES
  activations,  \* the stack of activations
  emission      \* what has just been emitted, and to whom

scopedVars == <<activations, emission>>

Silence == [by |-> 0]

ScopedInit == activations = <<>> /\ emission = Silence

Enter ==
  /\ \E kind \in {"cell", "destructor"}, s \in Sessions, id \in Numbers :
       activations' = Append(activations, Fresh(kind, s, id))
  /\ emission' = Silence

Leave ==
  /\ activations # <<>>
  /\ activations' = SubSeq(activations, 1, Len(activations) - 1)
  /\ emission' = Silence

\* Identity and addressees of an activation never change.
Fixed(a) == <<a.kind, a.session, a.id, a.output, a.display, a.table>>

Act ==
  /\ activations # <<>>
  /\ Len(activations') = Len(activations)
  /\ \A k \in 1..(Len(activations) - 1) : activations'[k] = activations[k]
  /\ LET top == activations[Len(activations)]
     IN  /\ Fixed(activations'[Len(activations)]) = Fixed(top)
         /\ activations'[Len(activations)].error \in {top.error, top.id}
         /\ \/ emission' = Silence
            \/ \E to \in {top.output, top.display} :
                 emission' = [by |-> top.id, to |-> to]

ScopedNext == Enter \/ Leave \/ Act

ScopedSpec == ScopedInit /\ [][ScopedNext]_scopedVars
=============================================================================

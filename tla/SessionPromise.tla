--------------------------- MODULE SessionPromise ---------------------------
(***************************************************************************)
(* What include/xmojo/InteractiveSession.h promises a client of execute(), *)
(* without parser, ORC, slots or storage. A cell is rejected and leaves no *)
(* trace, or it is loaded as a whole. A loaded cell keeps its declarations *)
(* whatever happens next; its variables join the session only if its body  *)
(* ends normally. After a failure that is neither a diagnostic nor a       *)
(* runtime error the session refuses every cell.                           *)
(***************************************************************************)
EXTENDS Naturals, Sequences

CONSTANTS
  Sources,           \* the cells a client may submit
  NoCell,            \* no cell is being executed
  Shadow(_, _, _)    \* the scope after loading declarations as cell number n

VARIABLES
  status,     \* where the session is between and during calls
  submitted,  \* how many cells have been numbered
  current,    \* the cell being executed
  scope,      \* the declarations a new cell can use
  variables,  \* the variables a new cell can use: names and types
  outcome     \* what the last execute() returned

promiseVars == <<status, submitted, current, scope, variables, outcome>>

PromiseInit ==
  /\ status = "ready" /\ current = NoCell
  /\ submitted = 0 /\ scope = {} /\ variables = <<>> /\ outcome = "none"

Submit(s) ==
  /\ status = "ready" /\ status' = "compiling"
  /\ submitted' = submitted + 1 /\ current' = s /\ outcome' = "none"
  /\ UNCHANGED <<scope, variables>>

End(newStatus, newOutcome) ==
  /\ status' = newStatus /\ outcome' = newOutcome /\ current' = NoCell
  /\ UNCHANGED submitted

Reject ==
  /\ status = "compiling"
  /\ End("ready", "diagnostics")
  /\ UNCHANGED <<scope, variables>>

Load ==
  /\ status = "compiling" /\ status' = "running"
  /\ scope' = Shadow(scope, current.decls, submitted)
  /\ UNCHANGED <<submitted, current, variables, outcome>>

\* The values that the cell's variables hold become variables of the session.
Declared(s) == [i \in 1..Len(s.vars) |->
                  [name |-> s.vars[i].name, type |-> s.vars[i].type]]

Complete ==
  /\ status = "running"
  /\ variables' = variables \o Declared(current)
  /\ End("ready", "succeeded")
  /\ UNCHANGED scope

Raise ==
  /\ status = "running"
  /\ End("ready", "runtime error")
  /\ UNCHANGED <<scope, variables>>

FailForGood ==
  /\ \/ status = "compiling" /\ End("unusable", "jit failure")
     \/ /\ status = "running"
        /\ \E why \in {"crashed", "uninitialized"} : End("unusable", why)
  /\ UNCHANGED <<scope, variables>>

RefuseForGood ==
  /\ status = "unusable" /\ outcome' = "unusable"
  /\ UNCHANGED <<status, submitted, current, scope, variables>>

Destroy ==
  /\ status \in {"ready", "unusable"} /\ status' = "closed"
  /\ UNCHANGED <<submitted, current, scope, variables, outcome>>

PromiseNext ==
  \/ \E s \in Sources : Submit(s)
  \/ Reject \/ Load \/ Complete \/ Raise
  \/ FailForGood \/ RefuseForGood \/ Destroy

PromiseSpec == PromiseInit /\ [][PromiseNext]_promiseVars
=============================================================================

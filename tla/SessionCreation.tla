-------------------------- MODULE SessionCreation --------------------------
(***************************************************************************)
(* InteractiveSession::Impl::create and loadGPURuntime of                  *)
(* src/compiler/InteractiveSession.cpp: threads of one process create and  *)
(* destroy sessions, some of which need the GPU runtime, a library of      *)
(* which the process may load one, while somebody moves the links through  *)
(* which it is found.                                                      *)
(***************************************************************************)
EXTENDS Naturals

CONSTANTS
  Sessions,   \* each is created by a thread of its own
  Kinds,      \* "cpu" and "gpu"
  Paths,      \* the values of gpuRuntimeLibrary
  Libraries,  \* the canonical paths of GPU runtimes
  None,       \* no session, no library
  MaxLinks    \* bound: links are moved this often

ASSUME CreationAssumption ==
  /\ None \notin Sessions \union Libraries
  /\ Kinds \subseteq {"cpu", "gpu"} /\ MaxLinks \in Nat

VARIABLES
  link,          \* what each path resolves to
  links,         \* how often links were moved
  mutex,         \* the session that holds it
  handle,        \* the library that `handle` was returned for
  loadedPath,
  loads,         \* how many libraries dlopen has returned
  context,       \* the process-wide context, with what had been loaded before
  session,       \* how far the creation of each session is
  answer         \* the last answer of create()

process == <<mutex, handle, loadedPath, loads>>
vars == <<link, links, process, context, session, answer>>

Gone == [pc |-> "gone"]

NoContext == [made |-> FALSE, runtime |-> None]

Nothing == [what |-> "nothing"]

Init ==
  /\ link \in [Paths -> Libraries \union {None}] /\ links = 0
  /\ mutex = None /\ handle = None /\ loadedPath = None /\ loads = 0
  /\ context = NoContext
  /\ session = [s \in Sessions |-> Gone]
  /\ answer = Nothing

Becomes(s, r) == session' = [session EXCEPT ![s] = r]

Goto(s, pc) == Becomes(s, [session[s] EXCEPT !.pc = pc]) /\ answer' = Nothing

Refuse(s, why) ==
  /\ Becomes(s, Gone)
  /\ answer' = [what |-> why, library |-> session[s].library]

-----------------------------------------------------------------------------
MoveLink(p) ==
  /\ links < MaxLinks /\ links' = links + 1
  /\ \E l \in Libraries \union {None} : link' = [link EXCEPT ![p] = l]
  /\ answer' = Nothing
  /\ UNCHANGED <<process, context, session>>

CreateCPU(s) ==
  /\ session[s].pc = "gone"
  /\ Becomes(s, [pc |-> "context", kind |-> "cpu", library |-> None])
  /\ answer' = Nothing
  /\ UNCHANGED <<link, links, process, context>>

\* No path is given, or one that does not resolve.
RefusedAtOnce(s) == Becomes(s, Gone)

CreateGPU(s) ==
  /\ session[s].pc = "gone"
  /\ \/ RefusedAtOnce(s)
     \/ \E p \in Paths :
          /\ link[p] # None
          /\ Becomes(s, [pc |-> "lock", kind |-> "gpu", library |-> link[p]])
  /\ answer' = Nothing
  /\ UNCHANGED <<link, links, process, context>>

(* loadGPURuntime *)

\* Fault: there is no mutex.
Unguarded == TRUE

Free == mutex = None

Lock(s) ==
  /\ session[s].pc = "lock" /\ Free
  /\ mutex' = s
  /\ Goto(s, "check")
  /\ UNCHANGED <<link, links, handle, loadedPath, loads, context>>

\* Fault: any library that is loaded will do.
AnyLoaded(s) == handle # None

SameLoaded(s) == session[s].library = loadedPath

\* Fault: the mutex is not released when a library is refused.
StillHeld == mutex

Unlocked == None

CheckHandle(s) ==
  /\ session[s].pc = "check"
  /\ \/ handle = None /\ Goto(s, "open") /\ UNCHANGED mutex
     \/ handle # None /\ SameLoaded(s) /\ Goto(s, "context") /\ mutex' = None
     \/ handle # None /\ ~SameLoaded(s) /\ Refuse(s, "conflict")
        /\ mutex' = Unlocked
  /\ UNCHANGED <<link, links, handle, loadedPath, loads, context>>

Open(s) ==
  /\ session[s].pc = "open"
  /\ handle' = session[s].library /\ loads' = loads + 1
  /\ Goto(s, "record")
  /\ UNCHANGED <<link, links, mutex, loadedPath, context>>

OpenFails(s) ==
  /\ session[s].pc = "open"
  /\ handle' = None /\ mutex' = None
  /\ Refuse(s, "cannot load")
  /\ UNCHANGED <<link, links, loadedPath, loads, context>>

Record(s) ==
  /\ session[s].pc = "record"
  /\ loadedPath' = session[s].library /\ mutex' = None
  /\ Goto(s, "context")
  /\ UNCHANGED <<link, links, handle, loads, context>>

(* The rest of create, and the destructor. *)

\* Init::getOrCreateContext is external: the first session makes the context,
\* the others share it.
GetContext(s) ==
  /\ session[s].pc = "context"
  /\ context' = IF context.made THEN context
                ELSE [made |-> TRUE, runtime |-> handle]
  /\ Goto(s, "initialize")
  /\ UNCHANGED <<link, links, process>>

ContextFails(s) ==
  /\ session[s].pc = "context"
  /\ Refuse(s, "no context")
  /\ UNCHANGED <<link, links, process, context>>

Users == {s \in Sessions : session[s].pc \in {"initialize", "created"}}

\* Whether the context survives its last user is not known here.
Release(s) ==
  \/ UNCHANGED context
  \/ Users = {s} /\ context' = NoContext

Initialize(s) ==
  /\ session[s].pc = "initialize"
  /\ Becomes(s, [session[s] EXCEPT !.pc = "created"])
  /\ answer' = [what |-> "created", library |-> session[s].library]
  /\ UNCHANGED <<link, links, process, context>>

InitializeFails(s) ==
  /\ session[s].pc = "initialize"
  /\ Release(s)
  /\ Refuse(s, "cannot initialize")
  /\ UNCHANGED <<link, links, process>>

Destroy(s) ==
  /\ session[s].pc = "created"
  /\ Release(s)
  /\ Becomes(s, Gone)
  /\ answer' = Nothing
  /\ UNCHANGED <<link, links, process>>

-----------------------------------------------------------------------------
Create(s) == \/ "cpu" \in Kinds /\ CreateCPU(s)
             \/ "gpu" \in Kinds /\ CreateGPU(s)

Finish(s) ==
  \/ Lock(s) \/ CheckHandle(s) \/ Open(s) \/ OpenFails(s) \/ Record(s)
  \/ GetContext(s) \/ ContextFails(s) \/ Initialize(s) \/ InitializeFails(s)

Next ==
  \/ \E p \in Paths : MoveLink(p)
  \/ \E s \in Sessions : Create(s) \/ Finish(s) \/ Destroy(s)

Spec == Init /\ [][Next]_vars

-----------------------------------------------------------------------------
(* Properties. *)

OrNone(S) == S \union {None}

Steps == {"lock", "check", "open", "record", "context", "initialize", "created"}

Session == {Gone} \union [pc : Steps, kind : Kinds, library : OrNone(Libraries)]

Answer == {Nothing} \union
          [what : {"conflict", "cannot load", "no context", "cannot initialize",
                   "created"},
           library : OrNone(Libraries)]

\* Every variable has its shape; a session of the GPU has a library.
TypeOK ==
  /\ link \in [Paths -> OrNone(Libraries)] /\ links \in 0..MaxLinks
  /\ mutex \in OrNone(Sessions) /\ handle \in OrNone(Libraries)
  /\ loadedPath \in OrNone(Libraries) /\ loads \in Nat
  /\ context \in [made : BOOLEAN, runtime : OrNone(Libraries)]
  /\ session \in [Sessions -> Session] /\ answer \in Answer
  /\ \A s \in Sessions : session[s].pc # "gone" =>
       (session[s].library = None <=> session[s].kind = "cpu")

\* No two runtimes get into the process, and none is loaded twice.
OneRuntime == loads <= 1

\* The first runtime that was loaded stays.
RuntimeStays == [][handle # None => handle' = handle]_handle

\* A GPU session has the runtime that its options named when it was created.
SessionsHaveTheirRuntime ==
  \A s \in Sessions : session[s].pc = "created" /\ session[s].kind = "gpu" =>
                        handle # None /\ session[s].library = handle

\* A session is refused for a conflict only if another runtime is loaded.
ConflictsAreReal == answer.what = "conflict" => answer.library # handle

\* Only a thread that is loading holds the mutex: none that was refused, or that
\* could not load, still does.
MutexIsReleased == mutex # None => session[mutex].pc \in {"check", "open", "record"}

\* A refusal has a reason, and leaves the runtime to others.
RefusalsAreSound == ConflictsAreReal /\ MutexIsReleased

\* The GPU runtime is loaded before the context that GPU sessions use is made.
RuntimeBeforeContext ==
  \A s \in Sessions : session[s].pc = "created" /\ session[s].kind = "gpu" =>
                        context.made /\ context.runtime = session[s].library
=============================================================================

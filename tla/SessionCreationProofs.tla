----------------------- MODULE SessionCreationProofs -----------------------
(***************************************************************************)
(* Theorems about SessionCreation, for any sessions, paths and libraries.  *)
(***************************************************************************)
EXTENDS SessionCreation, TLAPS

\* What holds of one session, given what its thread does.
Consistent(s) ==
  /\ session[s].pc \in {"check", "open", "record"} <=> mutex = s
  /\ session[s].pc \in {"lock", "check", "open", "record"} =>
       session[s].kind = "gpu"
  /\ session[s].pc = "open" => handle = None
  /\ session[s].pc = "record" => handle = session[s].library
  /\ session[s].pc \in {"context", "initialize", "created"}
       /\ session[s].kind = "gpu" => session[s].library = handle

\* The two static variables of loadGPURuntime agree, but while the holder of the
\* mutex is between its assignments to them.
Loaded ==
  /\ loads = IF handle = None THEN 0 ELSE 1
  /\ loadedPath # handle =>
       \E s \in Sessions : session[s].pc = "record" /\ loadedPath = None

Inv == TypeOK /\ (\A s \in Sessions : Consistent(s)) /\ Loaded

LEMMA InitInv == Init => Inv
BY CreationAssumption
DEF Init, Inv, TypeOK, Consistent, Loaded, OrNone, NoContext, Nothing, Gone,
    Session, Answer, Steps

LEMMA SessionType ==
  ASSUME TypeOK, NEW s \in Sessions, session[s].pc # "gone"
  PROVE  /\ session[s] \in [pc : Steps, kind : Kinds, library : OrNone(Libraries)]
         /\ session[s].library = None <=> session[s].kind = "cpu"
BY DEF TypeOK, Session, Gone

\* A thread at one step goes to another.
LEMMA Going ==
  ASSUME TypeOK, NEW s \in Sessions, session[s].pc # "gone", NEW pc \in Steps,
         Goto(s, pc)
  PROVE  /\ session' \in [Sessions -> Session] /\ answer' \in Answer
         /\ session'[s] = [pc |-> pc, kind |-> session[s].kind,
                           library |-> session[s].library]
         /\ \A r \in Sessions \ {s} : session'[r] = session[r]
         /\ \A r \in Sessions : session'[r].pc # "gone" =>
              (session'[r].library = None <=> session'[r].kind = "cpu")
<1>1. [session[s] EXCEPT !.pc = pc] =
        [pc |-> pc, kind |-> session[s].kind, library |-> session[s].library]
  BY SessionType
<1>2. [session[s] EXCEPT !.pc = pc] \in Session
  BY <1>1, SessionType DEF Session
<1> QED BY <1>1, <1>2, SessionType DEF TypeOK, Goto, Becomes, Answer, Nothing

LEMMA Refusing ==
  ASSUME TypeOK, NEW s \in Sessions, session[s].pc # "gone",
         NEW why \in {"conflict", "cannot load", "no context", "cannot initialize"},
         Refuse(s, why)
  PROVE  /\ session' \in [Sessions -> Session] /\ answer' \in Answer
         /\ session'[s] = Gone
         /\ \A r \in Sessions \ {s} : session'[r] = session[r]
         /\ \A r \in Sessions : session'[r].pc # "gone" =>
              (session'[r].library = None <=> session'[r].kind = "cpu")
BY SessionType DEF TypeOK, Refuse, Becomes, Answer, Session, Gone

LEMMA Releasing ==
  ASSUME TypeOK, NEW s \in Sessions, Release(s)
  PROVE  context' \in [made : BOOLEAN, runtime : OrNone(Libraries)]
<1>1. NoContext \in [made : BOOLEAN, runtime : OrNone(Libraries)]
  BY DEF NoContext, OrNone
<1>2. context' = context \/ context' = NoContext
  BY DEF Release
<1> QED BY <1>1, <1>2 DEF TypeOK

LEMMA TypeInductive == TypeOK /\ [Next]_vars => TypeOK'
<1> SUFFICES ASSUME TypeOK, [Next]_vars PROVE TypeOK'
  OBVIOUS
<1>1. CASE UNCHANGED vars
  BY <1>1 DEF vars, process, TypeOK
<1>2. ASSUME NEW p \in Paths, MoveLink(p) PROVE TypeOK'
  <2>1. links' \in 0..MaxLinks
    BY <1>2, CreationAssumption DEF MoveLink, TypeOK
  <2>2. link' \in [Paths -> OrNone(Libraries)]
    BY <1>2 DEF MoveLink, TypeOK, OrNone
  <2>3. answer' \in Answer
    BY <1>2 DEF MoveLink, Answer
  <2> QED BY <1>2, <2>1, <2>2, <2>3 DEF MoveLink, TypeOK, process
<1>3. ASSUME NEW s \in Sessions, Create(s) PROVE TypeOK'
  <2>1. CASE "cpu" \in Kinds /\ CreateCPU(s)
    <3>1. [pc |-> "context", kind |-> "cpu", library |-> None] \in Session
      BY <2>1 DEF Session, Steps, OrNone
    <3> QED BY <2>1, <3>1
        DEF CreateCPU, Becomes, TypeOK, process, Answer, Nothing
  <2>2. CASE "gpu" \in Kinds /\ CreateGPU(s)
    <3>1. ASSUME NEW p \in Paths, link[p] # None
          PROVE  /\ [pc |-> "lock", kind |-> "gpu", library |-> link[p]] \in Session
                 /\ link[p] # None
      BY <2>2, <3>1 DEF Session, Steps, OrNone, TypeOK
    <3>2. Gone \in Session /\ Gone.pc = "gone"
      BY DEF Session, Gone
    <3>3. answer' \in Answer
      BY <2>2 DEF CreateGPU, Answer
    <3>4. CASE RefusedAtOnce(s)
      BY <2>2, <3>2, <3>3, <3>4
      DEF CreateGPU, RefusedAtOnce, Becomes, TypeOK, process
    <3>5. ASSUME NEW p \in Paths, link[p] # None,
                 Becomes(s, [pc |-> "lock", kind |-> "gpu", library |-> link[p]])
          PROVE  TypeOK'
      BY <2>2, <3>1, <3>3, <3>5 DEF CreateGPU, Becomes, TypeOK, process
    <3> QED BY <2>2, <3>4, <3>5 DEF CreateGPU
  <2> QED BY <1>3, <2>1, <2>2 DEF Create
<1>4. ASSUME NEW s \in Sessions, Lock(s) PROVE TypeOK'
  BY <1>4, Going DEF Lock, TypeOK, OrNone, Steps
<1>5. ASSUME NEW s \in Sessions, CheckHandle(s) PROVE TypeOK'
  <2>1. mutex' \in OrNone(Sessions)
    BY <1>5 DEF CheckHandle, TypeOK, OrNone, Unlocked
  <2>2. session[s].pc # "gone"
    BY <1>5 DEF CheckHandle
  <2>3. CASE Goto(s, "open") \/ Goto(s, "context")
    <3>1. "open" \in Steps /\ "context" \in Steps
      BY DEF Steps
    <3> QED BY <1>5, <2>1, <2>2, <2>3, <3>1, Going DEF CheckHandle, TypeOK
  <2>4. CASE Refuse(s, "conflict")
    BY <1>5, <2>1, <2>2, <2>4, Refusing DEF CheckHandle, TypeOK
  <2> QED BY <1>5, <2>3, <2>4 DEF CheckHandle
<1>6. ASSUME NEW s \in Sessions, Open(s) PROVE TypeOK'
  <2>1. session[s].library \in OrNone(Libraries) /\ session[s].pc # "gone"
    BY <1>6, SessionType DEF Open
  <2>2. "record" \in Steps
    BY DEF Steps
  <2>3. loads' \in Nat /\ handle' \in OrNone(Libraries)
    BY <1>6, <2>1 DEF Open, TypeOK
  <2>4. Goto(s, "record")
    BY <1>6 DEF Open
  <2>5. /\ session' \in [Sessions -> Session] /\ answer' \in Answer
        /\ \A r \in Sessions : session'[r].pc # "gone" =>
             (session'[r].library = None <=> session'[r].kind = "cpu")
    BY <2>1, <2>2, <2>4, Going
  <2> QED BY <1>6, <2>3, <2>5 DEF Open, TypeOK
<1>7. ASSUME NEW s \in Sessions, OpenFails(s) PROVE TypeOK'
  BY <1>7, Refusing DEF OpenFails, TypeOK, OrNone
<1>8. ASSUME NEW s \in Sessions, Record(s) PROVE TypeOK'
  <2>1. session[s].library \in OrNone(Libraries) /\ session[s].pc # "gone"
    BY <1>8, SessionType DEF Record
  <2>2. "context" \in Steps /\ mutex' \in OrNone(Sessions)
    BY <1>8 DEF Steps, Record, OrNone
  <2> QED BY <1>8, <2>1, <2>2, Going DEF Record, TypeOK
<1>9. ASSUME NEW s \in Sessions, GetContext(s) PROVE TypeOK'
  <2>1. "initialize" \in Steps /\ session[s].pc # "gone"
    BY <1>9 DEF Steps, GetContext
  <2>2. context' \in [made : BOOLEAN, runtime : OrNone(Libraries)]
    BY <1>9 DEF GetContext, TypeOK
  <2> QED BY <1>9, <2>1, <2>2, Going DEF GetContext, TypeOK, process
<1>10. ASSUME NEW s \in Sessions, ContextFails(s) PROVE TypeOK'
  BY <1>10, Refusing DEF ContextFails, TypeOK, process
<1>11. ASSUME NEW s \in Sessions, Initialize(s) PROVE TypeOK'
  <2>1. /\ session[s].pc # "gone"
        /\ session[s] \in [pc : Steps, kind : Kinds, library : OrNone(Libraries)]
        /\ session[s].library = None <=> session[s].kind = "cpu"
    BY <1>11, SessionType DEF Initialize
  <2>2. [session[s] EXCEPT !.pc = "created"] \in Session
    BY <2>1 DEF Session, Steps
  <2>3. /\ [session[s] EXCEPT !.pc = "created"].library = session[s].library
        /\ [session[s] EXCEPT !.pc = "created"].kind = session[s].kind
    BY <2>1
  <2>4. answer' \in Answer
    BY <1>11, <2>1 DEF Initialize, Answer
  <2> QED BY <1>11, <2>1, <2>2, <2>3, <2>4 DEF Initialize, Becomes, TypeOK, process
<1>12. ASSUME NEW s \in Sessions, InitializeFails(s) PROVE TypeOK'
  <2>1. context' \in [made : BOOLEAN, runtime : OrNone(Libraries)]
    BY <1>12, Releasing DEF InitializeFails
  <2>2. Refuse(s, "cannot initialize") /\ session[s].pc # "gone"
    BY <1>12 DEF InitializeFails
  <2>3. /\ session' \in [Sessions -> Session] /\ answer' \in Answer
        /\ \A r \in Sessions : session'[r].pc # "gone" =>
             (session'[r].library = None <=> session'[r].kind = "cpu")
    BY <2>2, Refusing
  <2> QED BY <1>12, <2>1, <2>3 DEF InitializeFails, TypeOK, process
<1>13. ASSUME NEW s \in Sessions, Destroy(s) PROVE TypeOK'
  <2>1. context' \in [made : BOOLEAN, runtime : OrNone(Libraries)]
    BY <1>13, Releasing DEF Destroy
  <2>2. answer' \in Answer
    BY <1>13 DEF Destroy, Answer
  <2>3. /\ session' \in [Sessions -> Session]
        /\ \A r \in Sessions : session'[r].pc # "gone" =>
             (session'[r].library = None <=> session'[r].kind = "cpu")
    BY <1>13 DEF Destroy, Becomes, Gone, Session, TypeOK
  <2> QED BY <1>13, <2>1, <2>2, <2>3 DEF Destroy, TypeOK, process
<1> QED
  BY <1>1, <1>2, <1>3, <1>4, <1>5, <1>6, <1>7, <1>8, <1>9, <1>10, <1>11, <1>12,
     <1>13 DEF Next, Finish

\* Every state of the process has the shape of TypeOK.
THEOREM TypeCorrectness == Spec => []TypeOK
<1>1. Init => TypeOK
  BY InitInv DEF Inv
<1> QED BY <1>1, TypeInductive, PTL DEF Spec

-----------------------------------------------------------------------------
LEMMA Moving ==
  \A s \in Sessions, pc \in Steps :
    TypeOK /\ session[s].pc # "gone" /\ Goto(s, pc) =>
      /\ session'[s].pc = pc /\ session'[s].kind = session[s].kind
      /\ session'[s].library = session[s].library
      /\ \A r \in Sessions \ {s} : session'[r] = session[r]
<1> SUFFICES ASSUME NEW s \in Sessions, NEW pc \in Steps, TypeOK,
                    session[s].pc # "gone", Goto(s, pc)
             PROVE  /\ session'[s].pc = pc /\ session'[s].kind = session[s].kind
                    /\ session'[s].library = session[s].library
                    /\ \A r \in Sessions \ {s} : session'[r] = session[r]
  OBVIOUS
<1>1. session'[s] = [pc |-> pc, kind |-> session[s].kind,
                     library |-> session[s].library]
  BY Going
<1>2. \A r \in Sessions \ {s} : session'[r] = session[r]
  BY Going
<1> QED BY <1>1, <1>2

LEMMA Leaving ==
  \A s \in Sessions, why \in {"conflict", "cannot load"} :
    TypeOK /\ Refuse(s, why) =>
      /\ session'[s].pc = "gone"
      /\ \A r \in Sessions \ {s} : session'[r] = session[r]
<1> SUFFICES ASSUME NEW s \in Sessions, NEW why, TypeOK, Refuse(s, why)
             PROVE  /\ session'[s].pc = "gone"
                    /\ \A r \in Sessions \ {s} : session'[r] = session[r]
  OBVIOUS
<1>1. session' = [session EXCEPT ![s] = Gone] /\ DOMAIN session = Sessions
  BY DEF TypeOK, Refuse, Becomes
<1> QED BY <1>1 DEF Gone

LEMMA InvInductive == Inv /\ [Next]_vars => Inv'
<1> SUFFICES ASSUME Inv, [Next]_vars
             PROVE  Loaded' /\ \A r \in Sessions : Consistent(r)'
  BY TypeInductive DEF Inv
<1>0. TypeOK /\ Loaded /\ \A s \in Sessions : Consistent(s)
  BY DEF Inv
<1>1. CASE UNCHANGED vars
  BY <1>0, <1>1 DEF vars, process, Consistent, Loaded
<1>2. ASSUME NEW p \in Paths, MoveLink(p)
      PROVE  Loaded' /\ \A r \in Sessions : Consistent(r)'
  BY <1>0, <1>2 DEF MoveLink, process, Consistent, Loaded
\* A step of a session that leaves the library and the mutex alone.
<1>3. ASSUME NEW s \in Sessions, UNCHANGED process,
             \A r \in Sessions \ {s} : session'[r] = session[r],
             session[s].pc \notin {"check", "open", "record"},
             \/ session'[s].pc = "gone"
             \/ session'[s].pc = "lock" /\ session'[s].kind = "gpu"
             \/ /\ session'[s].pc \in {"context", "initialize", "created"}
                /\ session'[s].kind = "gpu" => session'[s].library = handle
      PROVE  Loaded' /\ \A r \in Sessions : Consistent(r)'
  <2>1. Consistent(s)'
    BY <1>0, <1>3 DEF process, Consistent
  <2>2. ASSUME NEW r \in Sessions \ {s} PROVE Consistent(r)'
    BY <1>0, <1>3, <2>2 DEF process, Consistent
  <2>3. Loaded'
    BY <1>0, <1>3 DEF process, Loaded
  <2> QED BY <1>0, <2>1, <2>2, <2>3
<1>4. ASSUME NEW s \in Sessions, Create(s)
      PROVE  Loaded' /\ \A r \in Sessions : Consistent(r)'
  <2>1. session[s].pc = "gone" /\ UNCHANGED process
    BY <1>0, <1>4 DEF Create, CreateCPU, CreateGPU, process
  <2>2. \A r \in Sessions \ {s} : session'[r] = session[r]
    BY <1>0, <1>4 DEF Create, CreateCPU, CreateGPU, RefusedAtOnce, Becomes, TypeOK
  <2>3. \/ session'[s].pc = "gone"
        \/ session'[s].pc = "lock" /\ session'[s].kind = "gpu"
        \/ session'[s].pc = "context" /\ session'[s].kind = "cpu"
    BY <1>0, <1>4
    DEF Create, CreateCPU, CreateGPU, RefusedAtOnce, Becomes, TypeOK, Gone
  <2> QED BY <1>0, <1>3, <2>1, <2>2, <2>3
\* Steps of a session that has its runtime, or needs none.
<1>5. ASSUME NEW s \in Sessions,
             \/ GetContext(s) \/ ContextFails(s) \/ Initialize(s)
             \/ InitializeFails(s) \/ Destroy(s)
      PROVE  Loaded' /\ \A r \in Sessions : Consistent(r)'
  <2>1. /\ session[s].pc \in {"context", "initialize", "created"}
        /\ UNCHANGED process
    BY <1>0, <1>5 DEF GetContext, ContextFails, Initialize, InitializeFails, Destroy,
               process
  <2>2. \A r \in Sessions \ {s} : session'[r] = session[r]
    BY <1>0, <1>5 DEF GetContext, ContextFails, Initialize, InitializeFails, Destroy,
               Goto, Refuse, Becomes, TypeOK
  <2>3. session[s].kind = "gpu" => session[s].library = handle
    BY <1>0, <2>1 DEF Consistent
  <2>4. session[s] \in [pc : Steps, kind : Kinds, library : OrNone(Libraries)]
    BY <1>0, <2>1, SessionType
  <2>5. \/ session'[s] = Gone
        \/ session'[s] = [session[s] EXCEPT !.pc = "initialize"]
        \/ session'[s] = [session[s] EXCEPT !.pc = "created"]
    BY <1>0, <1>5 DEF GetContext, ContextFails, Initialize, InitializeFails, Destroy,
               Goto, Refuse, Becomes, TypeOK
  <2>6. \/ session'[s].pc = "gone"
        \/ /\ session'[s].pc \in {"context", "initialize", "created"}
           /\ session'[s].kind = session[s].kind
           /\ session'[s].library = session[s].library
    BY <1>0, <2>4, <2>5 DEF Gone
  <2> QED BY <1>0, <1>3, <2>1, <2>2, <2>3, <2>6
<1>6. ASSUME NEW s \in Sessions, Lock(s)
      PROVE  Loaded' /\ \A r \in Sessions : Consistent(r)'
  <2>0. session[s].pc = "lock" /\ Goto(s, "check") /\ mutex' = s
    BY <1>6 DEF Lock
  <2>1. /\ session'[s].pc = "check" /\ session'[s].kind = session[s].kind
        /\ \A r \in Sessions \ {s} : session'[r] = session[r]
    <3>1. "check" \in Steps /\ session[s].pc # "gone"
      BY <2>0 DEF Steps
    <3> QED BY <1>0, <2>0, <3>1, Moving
  <2>2. mutex = None /\ session[s].pc = "lock" /\ None \notin Sessions
    BY <1>0, <1>6, CreationAssumption DEF Lock, Free
  <2>3. UNCHANGED <<handle, loadedPath, loads>>
    BY <1>0, <1>6 DEF Lock
  <2>4. Consistent(s)'
    BY <1>0, <2>0, <2>1 DEF Consistent
  <2>5. ASSUME NEW r \in Sessions \ {s} PROVE Consistent(r)'
    BY <1>0, <2>0, <2>1, <2>2, <2>3, <2>5 DEF Consistent
  <2>6. Loaded'
    BY <1>0, <2>1, <2>2, <2>3 DEF Loaded
  <2> QED BY <1>0, <2>4, <2>5, <2>6
\* Nobody else is between the locks; what they know of the library is unchanged
\* unless it is loaded now.
<1>7. ASSUME NEW s \in Sessions, mutex = s,
             \A r \in Sessions \ {s} : session'[r] = session[r],
             mutex' \in {s, None},
             handle' = handle \/ handle = None
      PROVE  \A r \in Sessions \ {s} : Consistent(r)'
  <2> SUFFICES ASSUME NEW r \in Sessions \ {s} PROVE Consistent(r)'
    OBVIOUS
  <2>1. session[r].pc \notin {"check", "open", "record"} /\ mutex' # r
    BY <1>0, <1>7, CreationAssumption DEF Consistent
  <2>2. CASE handle' = handle
    BY <1>0, <1>7, <2>1, <2>2 DEF Consistent
  <2>3. CASE handle = None
    <3>1. session[r].pc \in {"context", "initialize", "created"} =>
            session[r].kind # "gpu"
      BY <1>0, <2>3, SessionType DEF Consistent
    <3> QED BY <1>0, <1>7, <2>1, <3>1 DEF Consistent
  <2> QED BY <1>0, <1>7, <2>2, <2>3
<1>8. ASSUME NEW s \in Sessions, CheckHandle(s)
      PROVE  Loaded' /\ \A r \in Sessions : Consistent(r)'
  <2>1. session[s].pc = "check" /\ mutex = s /\ UNCHANGED <<handle, loadedPath, loads>>
    BY <1>0, <1>8 DEF CheckHandle, Consistent
  <2>2. loadedPath = handle
    BY <1>0, <2>1, CreationAssumption DEF Loaded, Consistent
  <2>3. CASE handle = None /\ Goto(s, "open") /\ mutex' = mutex
    <3>1. /\ session'[s].pc = "open" /\ session'[s].kind = session[s].kind
          /\ \A r \in Sessions \ {s} : session'[r] = session[r]
      BY <1>0, <2>1, <2>3, Moving DEF Steps
    <3>2. Consistent(s)'
      BY <1>0, <2>1, <2>2, <2>3, <3>1 DEF Consistent
    <3>3. Loaded'
      BY <1>0, <2>1, <2>2, <2>3, <3>1 DEF Loaded
    <3>4. \A r \in Sessions \ {s} : Consistent(r)'
      BY <1>0, <1>7, <2>1, <2>2, <2>3, <3>1
    <3> QED BY <3>2, <3>3, <3>4
  <2>4. CASE handle # None /\ SameLoaded(s) /\ Goto(s, "context") /\ mutex' = None
    <3>1. /\ session'[s].pc = "context" /\ session'[s].library = session[s].library
          /\ \A r \in Sessions \ {s} : session'[r] = session[r]
      BY <1>0, <2>1, <2>4, Moving DEF Steps
    <3>2. Consistent(s)'
      BY <1>0, <2>1, <2>2, <2>4, <3>1, CreationAssumption DEF Consistent, SameLoaded
    <3>3. Loaded'
      BY <1>0, <2>1, <2>2, <2>4, <3>1, CreationAssumption DEF Loaded, SameLoaded
    <3>4. \A r \in Sessions \ {s} : Consistent(r)'
      BY <1>0, <1>7, <2>1, <2>2, <2>4, <3>1, CreationAssumption
    <3> QED BY <3>2, <3>3, <3>4
  <2>5. CASE Refuse(s, "conflict") /\ mutex' = Unlocked
    <3>1. /\ session'[s].pc = "gone"
          /\ \A r \in Sessions \ {s} : session'[r] = session[r]
      BY <1>0, <2>1, <2>5, Leaving
    <3>2. Consistent(s)'
      BY <1>0, <2>1, <2>2, <2>5, <3>1, CreationAssumption DEF Consistent, Unlocked
    <3>3. Loaded'
      BY <1>0, <2>1, <2>2, <2>5, <3>1, CreationAssumption DEF Loaded, Unlocked
    <3>4. \A r \in Sessions \ {s} : Consistent(r)'
      BY <1>0, <1>7, <2>1, <2>2, <2>5, <3>1, CreationAssumption DEF Unlocked
    <3> QED BY <3>2, <3>3, <3>4
  <2> QED BY <1>0, <1>8, <2>3, <2>4, <2>5 DEF CheckHandle
<1>9. ASSUME NEW s \in Sessions, Open(s)
      PROVE  Loaded' /\ \A r \in Sessions : Consistent(r)'
  <2>1. /\ session[s].pc = "open" /\ mutex = s /\ handle = None
        /\ mutex' = mutex /\ handle' = session[s].library
        /\ loads' = loads + 1 /\ loadedPath' = loadedPath
    BY <1>0, <1>9 DEF Open, Consistent
  <2>2. loadedPath = None /\ loads = 0
    BY <1>0, <2>1, CreationAssumption DEF Loaded, Consistent
  <2>0. Goto(s, "record")
    BY <1>9 DEF Open
  <2>3. /\ session'[s].pc = "record" /\ session'[s].library = session[s].library
        /\ session'[s].kind = session[s].kind
        /\ \A r \in Sessions \ {s} : session'[r] = session[r]
    <3>1. "record" \in Steps /\ session[s].pc # "gone"
      BY <2>1 DEF Steps
    <3> QED BY <1>0, <2>0, <3>1, Moving
  <2>4. session[s].library # None
    BY <1>0, <2>1, SessionType DEF Consistent
  <2>5. Consistent(s)'
    BY <1>0, <2>1, <2>2, <2>3, <2>4 DEF Consistent
  <2>6. Loaded'
    BY <1>0, <2>1, <2>2, <2>3, <2>4 DEF Loaded
  <2>7. \A r \in Sessions \ {s} : Consistent(r)'
    BY <1>0, <1>7, <2>1, <2>2, <2>3, <2>4
  <2> QED BY <2>5, <2>6, <2>7
<1>10. ASSUME NEW s \in Sessions, OpenFails(s)
       PROVE  Loaded' /\ \A r \in Sessions : Consistent(r)'
  <2>1. /\ session[s].pc = "open" /\ mutex = s /\ handle = None /\ mutex' = None
        /\ handle' = handle /\ loads' = loads /\ loadedPath' = loadedPath
    BY <1>0, <1>10 DEF OpenFails, Consistent
  <2>2. loadedPath = handle
    BY <1>0, <2>1, CreationAssumption DEF Loaded, Consistent
  <2>3. /\ session'[s].pc = "gone"
        /\ \A r \in Sessions \ {s} : session'[r] = session[r]
    BY <1>0, <1>10, Leaving DEF OpenFails
  <2>4. Consistent(s)'
    BY <1>0, <2>1, <2>2, <2>3, CreationAssumption DEF Consistent
  <2>5. Loaded'
    BY <1>0, <2>1, <2>2, <2>3, CreationAssumption DEF Loaded
  <2>6. \A r \in Sessions \ {s} : Consistent(r)'
    BY <1>0, <1>7, <2>1, <2>2, <2>3, CreationAssumption
  <2> QED BY <2>4, <2>5, <2>6
<1>11. ASSUME NEW s \in Sessions, Record(s)
       PROVE  Loaded' /\ \A r \in Sessions : Consistent(r)'
  <2>1. /\ session[s].pc = "record" /\ mutex = s /\ mutex' = None
        /\ handle = session[s].library /\ handle' = handle /\ loads' = loads
        /\ loadedPath' = handle
    BY <1>0, <1>11 DEF Record, Consistent
  <2>0. Goto(s, "context")
    BY <1>11 DEF Record
  <2>2. /\ session'[s].pc = "context" /\ session'[s].library = session[s].library
        /\ \A r \in Sessions \ {s} : session'[r] = session[r]
    <3>1. "context" \in Steps /\ session[s].pc # "gone"
      BY <2>1 DEF Steps
    <3> QED BY <1>0, <2>0, <3>1, Moving
  <2>3. Consistent(s)'
    BY <1>0, <2>1, <2>2, CreationAssumption DEF Consistent
  <2>4. Loaded'
    BY <1>0, <2>1, <2>2, CreationAssumption DEF Loaded
  <2>5. \A r \in Sessions \ {s} : Consistent(r)'
    BY <1>0, <1>7, <2>1, <2>2, CreationAssumption
  <2> QED BY <2>3, <2>4, <2>5
<1> QED
  BY <1>1, <1>2, <1>4, <1>5, <1>6, <1>8, <1>9, <1>10, <1>11 DEF Next, Finish

LEMMA Invariance == Spec => []Inv
BY InitInv, InvInductive, PTL DEF Spec

\* A process loads no second runtime.
THEOREM OneRuntimeOnly == Spec => []OneRuntime
<1>1. Inv => OneRuntime
  BY DEF Inv, Loaded, OneRuntime
<1> QED BY <1>1, Invariance, PTL

\* A GPU session has the runtime that it asked for.
THEOREM RuntimesMatch == Spec => []SessionsHaveTheirRuntime
<1>1. Inv => SessionsHaveTheirRuntime
  <2> SUFFICES ASSUME Inv, NEW s \in Sessions, session[s].pc = "created",
                      session[s].kind = "gpu"
               PROVE  handle # None /\ session[s].library = handle
    BY DEF SessionsHaveTheirRuntime
  <2>1. session[s].library # None
    BY SessionType DEF Inv
  <2> QED BY <2>1 DEF Inv, Consistent
<1> QED BY <1>1, Invariance, PTL

\* What is loaded is never unloaded or replaced.
THEOREM RuntimeIsRetained == Spec => RuntimeStays
<1>1. Inv /\ [Next]_vars => [handle # None => handle' = handle]_handle
  <2> SUFFICES ASSUME Inv, Next, handle # None PROVE handle' = handle
    BY DEF vars, process
  <2>1. \A s \in Sessions : session[s].pc # "open"
    BY DEF Inv, Consistent
  <2> QED BY <2>1
      DEF Next, MoveLink, Create, CreateCPU, CreateGPU, Finish, Lock, CheckHandle,
          Open, OpenFails, Record, GetContext, ContextFails, Initialize,
          InitializeFails, Destroy, process
<1> QED BY <1>1, Invariance, PTL DEF Spec, RuntimeStays

\* Only another runtime is a conflict, and no thread that was refused keeps the
\* mutex of loadGPURuntime.
THEOREM RefusalsAreRight == Spec => []RefusalsAreSound
<1>1. Init => ConflictsAreReal
  BY DEF Init, ConflictsAreReal, Nothing
<1>2. Inv /\ ConflictsAreReal /\ [Next]_vars => ConflictsAreReal'
  <2> SUFFICES ASSUME Inv, ConflictsAreReal, [Next]_vars PROVE ConflictsAreReal'
    OBVIOUS
  <2>1. CASE UNCHANGED vars
    BY <2>1 DEF vars, process, ConflictsAreReal
  <2>2. CASE answer'.what # "conflict"
    BY <2>2 DEF ConflictsAreReal
  <2>3. ASSUME NEW s \in Sessions, CheckHandle(s), Refuse(s, "conflict"),
               ~SameLoaded(s)
        PROVE  ConflictsAreReal'
    <3>1. mutex = s /\ session[s].pc = "check"
      BY <2>3 DEF CheckHandle, Inv, Consistent
    <3>2. loadedPath = handle
      BY <3>1, CreationAssumption DEF Inv, Loaded, Consistent
    <3> QED BY <2>3, <3>2
        DEF CheckHandle, Refuse, SameLoaded, ConflictsAreReal
  <2>4. ASSUME NEW s \in Sessions, CheckHandle(s) PROVE ConflictsAreReal'
    BY <2>2, <2>3, <2>4 DEF CheckHandle, Goto, Nothing
  <2>5. ASSUME NEW p \in Paths, MoveLink(p) PROVE ConflictsAreReal'
    BY <2>2, <2>5 DEF MoveLink, Nothing
  <2>6. ASSUME NEW s \in Sessions, Create(s) \/ Destroy(s) PROVE ConflictsAreReal'
    BY <2>2, <2>6 DEF Create, CreateCPU, CreateGPU, Destroy, Nothing
  <2>7. ASSUME NEW s \in Sessions,
               Lock(s) \/ Open(s) \/ Record(s) \/ GetContext(s)
        PROVE  ConflictsAreReal'
    BY <2>2, <2>7 DEF Lock, Open, Record, GetContext, Goto, Nothing
  <2>8. ASSUME NEW s \in Sessions,
               OpenFails(s) \/ ContextFails(s) \/ InitializeFails(s)
        PROVE  ConflictsAreReal'
    <3>1. CASE OpenFails(s)
      BY <2>2, <3>1 DEF OpenFails, Refuse
    <3>2. CASE ContextFails(s)
      BY <2>2, <3>2 DEF ContextFails, Refuse
    <3>3. CASE InitializeFails(s)
      <4>1. Refuse(s, "cannot initialize")
        BY <3>3 DEF InitializeFails
      <4> QED BY <2>2, <4>1 DEF Refuse
    <3> QED BY <2>8, <3>1, <3>2, <3>3
  <2>9. ASSUME NEW s \in Sessions, Initialize(s) PROVE ConflictsAreReal'
    BY <2>2, <2>9 DEF Initialize
  <2> QED
    BY <2>1, <2>4, <2>5, <2>6, <2>7, <2>8, <2>9 DEF Next, Finish
<1>3. Inv => MutexIsReleased
  BY DEF Inv, TypeOK, OrNone, Consistent, MutexIsReleased
<1>4. ConflictsAreReal /\ MutexIsReleased <=> RefusalsAreSound
  BY DEF RefusalsAreSound
<1> QED BY <1>1, <1>2, <1>3, <1>4, Invariance, PTL DEF Spec

\* If every session needs the runtime, the context is made with it.
ContextHasRuntime == context.made => handle # None /\ context.runtime = handle

UsersHaveContext ==
  \A s \in Sessions : session[s].pc \in {"initialize", "created"} => context.made

THEOREM GPUSessionsAlone ==
  "cpu" \notin Kinds => (Spec => []RuntimeBeforeContext)
<1> SUFFICES ASSUME "cpu" \notin Kinds PROVE Spec => []RuntimeBeforeContext
  OBVIOUS
<1> DEFINE I == ContextHasRuntime /\ UsersHaveContext
<1>1. Init => I
  BY DEF Init, ContextHasRuntime, UsersHaveContext, NoContext, Gone
<1>2. Inv /\ I /\ [Next]_vars => I'
  <2> SUFFICES ASSUME Inv, ContextHasRuntime, UsersHaveContext, [Next]_vars
               PROVE  ContextHasRuntime' /\ UsersHaveContext'
    OBVIOUS
  <2>0. TypeOK /\ TypeOK'
    BY TypeInductive DEF Inv
  <2>1. CASE UNCHANGED vars
    BY <2>1 DEF vars, process, ContextHasRuntime, UsersHaveContext
  <2>2. ASSUME context' = context, handle' = handle \/ ~context.made,
               \A s \in Sessions : session'[s].pc \in {"initialize", "created"} =>
                  session[s].pc \in {"initialize", "created"}
        PROVE  ContextHasRuntime' /\ UsersHaveContext'
    BY <2>2 DEF ContextHasRuntime, UsersHaveContext
  <2>3. ASSUME NEW p \in Paths, MoveLink(p)
        PROVE  ContextHasRuntime' /\ UsersHaveContext'
    BY <2>2, <2>3 DEF MoveLink, process
  <2>4. ASSUME NEW s \in Sessions, Create(s)
        PROVE  ContextHasRuntime' /\ UsersHaveContext'
    <3>1. \A r \in Sessions : session'[r] = session[r] \/ session'[r].pc \in {"gone", "lock"}
      BY <2>0, <2>4 DEF Create, CreateGPU, RefusedAtOnce, Becomes, Gone, TypeOK
    <3> QED BY <2>2, <2>4, <3>1 DEF Create, CreateGPU, process
  <2>5. ASSUME NEW s \in Sessions, Lock(s) \/ CheckHandle(s) \/ Record(s)
        PROVE  ContextHasRuntime' /\ UsersHaveContext'
    <3>1. session[s].pc # "gone"
      BY <2>5 DEF Lock, CheckHandle, Record
    <3>2. \A r \in Sessions : \/ session'[r] = session[r]
                             \/ session'[r].pc \in {"gone", "check", "open", "context"}
      BY <2>0, <2>5, <3>1, Moving, Leaving DEF Lock, CheckHandle, Record, Steps
    <3> QED BY <2>2, <2>5, <3>2 DEF Lock, CheckHandle, Record
  <2>6. ASSUME NEW s \in Sessions, Open(s) \/ OpenFails(s)
        PROVE  ContextHasRuntime' /\ UsersHaveContext'
    <3>1. session[s].pc = "open" /\ handle = None
      BY <2>6 DEF Open, OpenFails, Inv, Consistent
    <3>2. ~context.made
      BY <3>1 DEF ContextHasRuntime
    <3>3. \A r \in Sessions : session'[r] = session[r]
                             \/ session'[r].pc \in {"gone", "record"}
      BY <2>0, <2>6, <3>1, Moving, Leaving DEF Open, OpenFails, Steps
    <3> QED BY <2>2, <2>6, <3>2, <3>3 DEF Open, OpenFails
  <2>7. ASSUME NEW s \in Sessions, GetContext(s)
        PROVE  ContextHasRuntime' /\ UsersHaveContext'
    <3>1. session[s].pc = "context" /\ handle' = handle
      BY <2>7 DEF GetContext, process
    <3>2. session[s].kind = "gpu"
      <4>1. session[s].kind \in Kinds /\ Kinds \subseteq {"cpu", "gpu"}
        BY <2>0, <3>1, SessionType, CreationAssumption
      <4> QED BY <4>1
    <3>3. handle # None
      BY <2>0, <3>1, <3>2, SessionType DEF Inv, Consistent
    <3>4. context'.made /\ ContextHasRuntime'
      BY <2>7, <3>1, <3>3 DEF GetContext, ContextHasRuntime
    <3> QED BY <3>4 DEF UsersHaveContext
  <2>8. ASSUME NEW s \in Sessions, ContextFails(s) \/ Initialize(s)
        PROVE  ContextHasRuntime' /\ UsersHaveContext'
    <3>1. UNCHANGED <<handle, context>>
      BY <2>8 DEF ContextFails, Initialize, process
    <3>2. \A r \in Sessions \ {s} : session'[r] = session[r]
      BY <2>0, <2>8 DEF ContextFails, Initialize, Refuse, Becomes, TypeOK
    <3>3. session'[s].pc = "gone" \/ session[s].pc = "initialize"
      <4>1. CASE ContextFails(s)
        BY <2>0, <4>1 DEF ContextFails, Refuse, Becomes, TypeOK, Gone
      <4>2. CASE Initialize(s)
        BY <4>2 DEF Initialize
      <4> QED BY <2>8, <4>1, <4>2
    <3>4. \A r \in Sessions : session'[r].pc \in {"initialize", "created"} =>
                             session[r].pc \in {"initialize", "created"}
      BY <3>2, <3>3
    <3> QED BY <2>2, <3>1, <3>4
  <2>9. ASSUME NEW s \in Sessions, InitializeFails(s) \/ Destroy(s)
        PROVE  ContextHasRuntime' /\ UsersHaveContext'
    <3>1. /\ session' = [session EXCEPT ![s] = Gone] /\ handle' = handle
          /\ Release(s)
      BY <2>9 DEF InitializeFails, Destroy, Refuse, Becomes, process
    <3>2. /\ session'[s].pc = "gone"
          /\ \A r \in Sessions \ {s} : session'[r] = session[r]
      BY <2>0, <3>1 DEF TypeOK, Gone
    <3>3. CASE context' = context
      BY <2>2, <3>1, <3>2, <3>3
    <3>4. CASE Users = {s} /\ context' = NoContext
      <4>1. \A r \in Sessions \ {s} : session[r].pc \notin {"initialize", "created"}
        BY <3>4 DEF Users
      <4> QED BY <3>2, <3>4, <4>1
          DEF ContextHasRuntime, UsersHaveContext, NoContext
    <3> QED BY <3>1, <3>3, <3>4 DEF Release
  <2> QED
    BY <2>1, <2>3, <2>4, <2>5, <2>6, <2>7, <2>8, <2>9 DEF Next, Finish
<1>3. Inv /\ I => RuntimeBeforeContext
  BY DEF Inv, Consistent, ContextHasRuntime, UsersHaveContext,
         RuntimeBeforeContext
<1> HIDE DEF I
<1> QED BY <1>1, <1>2, <1>3, Invariance, PTL DEF Spec
=============================================================================

--------------------------- MODULE FrontEndProofs ---------------------------
(***************************************************************************)
(* What the front ends promise, for any requests, texts, input, arguments, *)
(* threads and messages:                                                   *)
(*   - every signature is one of its own message: a thread that has        *)
(*     initialised the context holds the mutex, so the context holds what  *)
(*     that thread has given it, and no more;                              *)
(*   - every request to the kernel is answered once, and replies tell what *)
(*     the session has;                                                    *)
(*   - the command does what its arguments say, and the REPL gives the     *)
(*     session all that was typed;                                         *)
(*   - completion counts characters, whatever their bytes.                 *)
(***************************************************************************)
EXTENDS JupyterKernel, CommandLine, Authentication,
        SequenceTheorems, FiniteSetTheorems, WellFoundedInduction, TLAPS

Phases == {"lock", "init", "update"}

\* What is known of a call: its phase, and when it is not idle its message and how many
\* of its buffers have been given.
IsCall(c) ==
  /\ "pc" \in DOMAIN c /\ c.pc \in Phases \union {"idle"}
  /\ c.pc # "idle" =>
       /\ {"message", "given"} \subseteq DOMAIN c
       /\ c.message \in Messages
       /\ c.given \in Nat /\ c.given <= Len(c.message)

SigningTypeOK ==
  /\ context \in Seq(Buffers)
  /\ DOMAIN call = Threads
  /\ \A t \in Threads : IsCall(call[t])

\* The thread that is inside the critical section is the one that holds the mutex.
Exclusive == \A t \in Threads : call[t].pc \in {"init", "update"} => mutex = t

\* The context holds what the thread that fills it has given.
Filled ==
  \A t \in Threads :
    /\ call[t].pc = "init" => call[t].given = 0
    /\ call[t].pc = "lock" => call[t].given = 0
    /\ call[t].pc = "update" =>
         /\ Len(context) = call[t].given
         /\ \A k \in 1..call[t].given : context[k] = call[t].message[k]

SigningInv == SigningTypeOK /\ Exclusive /\ Filled /\ SignaturesAreOwn

-----------------------------------------------------------------------------

\* A thread that does nothing satisfies all that is said of calls.
LEMMA IdleIsCall == IsCall(Idle) /\ Idle.pc = "idle"
BY DEF IsCall, Idle

\* A call stays a call when it goes on to another phase.
LEMMA PhaseChanges ==
  ASSUME NEW c, IsCall(c), c.pc # "idle", NEW phase \in Phases
  PROVE  LET d == [c EXCEPT !.pc = phase]
         IN  /\ IsCall(d) /\ d.pc = phase
             /\ d.message = c.message /\ d.given = c.given
BY DEF IsCall, Phases

\* A call stays a call when another buffer of its message has been given.
LEMMA GivenGrows ==
  ASSUME NEW c, IsCall(c), c.pc # "idle", c.given < Len(c.message)
  PROVE  LET d == [c EXCEPT !.given = @ + 1]
         IN  /\ IsCall(d) /\ d.pc = c.pc
             /\ d.message = c.message /\ d.given = c.given + 1
<1>1. c.message \in Seq(Buffers) /\ Len(c.message) \in Nat
  BY MessagesAssumption DEF IsCall
<1> QED BY <1>1 DEF IsCall, Phases

\* A buffer of a message is a buffer.
LEMMA BuffersOfMessages ==
  ASSUME NEW m \in Messages
  PROVE  m \in Seq(Buffers) /\ Len(m) \in Nat /\ \A k \in 1..Len(m) : m[k] \in Buffers
BY MessagesAssumption

-----------------------------------------------------------------------------

LEMMA InitInv == SigningInit => SigningInv
<1> SUFFICES ASSUME SigningInit PROVE SigningInv
  OBVIOUS
<1>1. SigningTypeOK
  <2>1. context \in Seq(Buffers)
    BY DEF SigningInit
  <2>2. DOMAIN call = Threads /\ \A t \in Threads : call[t] = Idle
    BY DEF SigningInit
  <2> QED BY <2>1, <2>2, IdleIsCall DEF SigningTypeOK
<1>2. Exclusive /\ Filled
  BY DEF SigningInit, Exclusive, Filled, Idle
<1>3. SignaturesAreOwn
  BY DEF SigningInit, SignaturesAreOwn, Nothing
<1> QED BY <1>1, <1>2, <1>3 DEF SigningInv

\* Only the thread that steps changes its call.
LEMMA NewCall ==
  ASSUME SigningInv, NEW t \in Threads, NEW message \in Messages, NEW signature \in Messages,
         Sign(t, message) \/ Verify(t, message, signature)
  PROVE  SigningInv'
<1> DEFINE c == call'[t]
<1>1. DOMAIN call' = Threads /\ \A u \in Threads \ {t} : call'[u] = call[u]
  BY DEF SigningInv, SigningTypeOK, Sign, Verify
<1>2. /\ {"pc", "message", "given"} \subseteq DOMAIN c
      /\ c.pc = "lock" /\ c.message = message /\ c.given = 0
  BY DEF SigningInv, SigningTypeOK, Sign, Verify
<1>3. IsCall(c) /\ c.pc = "lock" /\ c.given = 0
  <2>1. 0 <= Len(message)
    BY BuffersOfMessages
  <2> HIDE DEF c
  <2> QED BY <1>2, <2>1 DEF IsCall, Phases
<1>4. context' = context /\ mutex' = mutex /\ answer' = Nothing
  BY DEF Sign, Verify
<1> HIDE DEF c
<1>5. SigningTypeOK'
  <2>1. \A u \in Threads : IsCall(call'[u])
    BY <1>1, <1>3 DEF SigningInv, SigningTypeOK, c
  <2> QED BY <1>1, <1>4, <2>1 DEF SigningInv, SigningTypeOK, IsCall
<1>6. Exclusive'
  BY <1>1, <1>3, <1>4 DEF SigningInv, Exclusive, c
<1>7. Filled'
  BY <1>1, <1>3, <1>4 DEF SigningInv, Filled, c
<1>8. SignaturesAreOwn'
  BY <1>4 DEF SignaturesAreOwn, Nothing
<1> QED BY <1>5, <1>6, <1>7, <1>8 DEF SigningInv

LEMMA LockInv ==
  ASSUME SigningInv, NEW t \in Threads, Lock(t) PROVE SigningInv'
<1> DEFINE c == call'[t]
<1>1. DOMAIN call' = Threads /\ \A u \in Threads \ {t} : call'[u] = call[u]
  BY DEF SigningInv, SigningTypeOK, Lock
<1>2. c = [call[t] EXCEPT !.pc = "init"] /\ call[t].pc = "lock" /\ IsCall(call[t])
  BY DEF SigningInv, SigningTypeOK, Lock
<1>3. IsCall(c) /\ c.pc = "init" /\ c.given = call[t].given
  <2>1. call[t].pc # "idle" /\ "init" \in Phases
    BY <1>2 DEF Phases
  <2> QED BY <1>2, <2>1, PhaseChanges
<1>4. context' = context /\ mutex = Nobody /\ mutex' = t /\ answer' = Nothing
  BY DEF Lock, Free
<1>5. \A u \in Threads : call[u].pc \notin {"init", "update"}
  BY <1>4, AuthenticationAssumption DEF SigningInv, Exclusive
<1> HIDE DEF c
<1>6. SigningTypeOK'
  <2>1. \A u \in Threads : IsCall(call'[u])
    BY <1>1, <1>3 DEF SigningInv, SigningTypeOK, c
  <2> QED BY <1>1, <1>4, <2>1 DEF SigningInv, SigningTypeOK, IsCall
<1>7. Exclusive'
  BY <1>1, <1>4, <1>5 DEF Exclusive
<1>8. Filled'
  <2>1. c.pc = "init" /\ c.given = 0
    BY <1>2, <1>3 DEF SigningInv, Filled
  <2>2. \A u \in Threads : call'[u].pc # "update"
    BY <1>1, <1>5, <2>1 DEF c
  <2> QED BY <1>1, <2>1, <2>2 DEF SigningInv, Filled, c
<1>9. SignaturesAreOwn'
  BY <1>4 DEF SignaturesAreOwn, Nothing
<1> QED BY <1>6, <1>7, <1>8, <1>9 DEF SigningInv

LEMMA HMACInitInv ==
  ASSUME SigningInv, NEW t \in Threads, HMACInit(t) PROVE SigningInv'
<1> DEFINE c == call'[t]
<1>1. DOMAIN call' = Threads /\ \A u \in Threads \ {t} : call'[u] = call[u]
  BY DEF SigningInv, SigningTypeOK, HMACInit
<1>2. c = [call[t] EXCEPT !.pc = "update"] /\ call[t].pc = "init" /\ IsCall(call[t])
  BY DEF SigningInv, SigningTypeOK, HMACInit
<1>3. IsCall(c) /\ c.pc = "update" /\ c.given = 0
  <2>1. call[t].pc # "idle" /\ "update" \in Phases
    BY <1>2 DEF Phases
  <2>2. call[t].given = 0
    BY <1>2 DEF SigningInv, Filled
  <2> QED BY <1>2, <2>1, <2>2, PhaseChanges
<1>4. context' = <<>> /\ mutex' = mutex /\ mutex = t /\ answer' = Nothing
  BY <1>2 DEF HMACInit, Cleared, SigningInv, Exclusive
<1>5. \A u \in Threads \ {t} : call[u].pc \notin {"init", "update"}
  BY <1>4 DEF SigningInv, Exclusive
<1> HIDE DEF c
<1>6. SigningTypeOK'
  <2>1. \A u \in Threads : IsCall(call'[u])
    BY <1>1, <1>3 DEF SigningInv, SigningTypeOK, c
  <2> QED BY <1>1, <1>4, <2>1 DEF SigningTypeOK, IsCall
<1>7. Exclusive'
  BY <1>1, <1>4, <1>5 DEF Exclusive
<1>8. Filled'
  BY <1>1, <1>3, <1>4, <1>5 DEF SigningInv, Filled, c
<1>9. SignaturesAreOwn'
  BY <1>4 DEF SignaturesAreOwn, Nothing
<1> QED BY <1>6, <1>7, <1>8, <1>9 DEF SigningInv

LEMMA HMACUpdateInv ==
  ASSUME SigningInv, NEW t \in Threads, HMACUpdate(t) PROVE SigningInv'
<1> DEFINE c == call'[t]
<1> DEFINE n == call[t].given
<1> DEFINE m == call[t].message
<1>1. DOMAIN call' = Threads /\ \A u \in Threads \ {t} : call'[u] = call[u]
  BY DEF SigningInv, SigningTypeOK, HMACUpdate
<1>2. /\ c = [call[t] EXCEPT !.given = @ + 1] /\ call[t].pc = "update"
      /\ IsCall(call[t]) /\ n < Len(m)
  BY DEF SigningInv, SigningTypeOK, HMACUpdate
<1>3. IsCall(c) /\ c.pc = "update" /\ c.message = m /\ c.given = n + 1
  BY <1>2, GivenGrows
<1>4. m \in Messages /\ n \in Nat
  BY <1>2 DEF IsCall
<1>5. /\ context' = Append(context, m[n + 1])
      /\ mutex' = mutex /\ mutex = t /\ answer' = Nothing
  BY <1>2 DEF HMACUpdate, SigningInv, Exclusive
<1>6. \A u \in Threads \ {t} : call[u].pc \notin {"init", "update"}
  BY <1>5 DEF SigningInv, Exclusive
<1>7. m[n + 1] \in Buffers
  BY <1>2, <1>4, BuffersOfMessages
<1>8. context \in Seq(Buffers) /\ Len(context) = n
      /\ \A k \in 1..n : context[k] = m[k]
  BY <1>2 DEF SigningInv, SigningTypeOK, Filled
<1> HIDE DEF c, n, m
<1>9. context' \in Seq(Buffers)
  BY <1>5, <1>7, <1>8, AppendProperties
<1>10. Len(context') = n + 1 /\ \A k \in 1..(n + 1) : context'[k] = m[k]
  BY <1>4, <1>5, <1>7, <1>8, AppendProperties
<1>11. SigningTypeOK'
  <2>1. \A u \in Threads : IsCall(call'[u])
    BY <1>1, <1>3 DEF SigningInv, SigningTypeOK, c
  <2> QED BY <1>1, <1>9, <2>1 DEF SigningTypeOK, IsCall
<1>12. Exclusive'
  BY <1>1, <1>5, <1>6 DEF Exclusive
<1>13. Filled'
  BY <1>1, <1>3, <1>6, <1>10 DEF SigningInv, Filled, c
<1>14. SignaturesAreOwn'
  BY <1>5 DEF SignaturesAreOwn, Nothing
<1> QED BY <1>11, <1>12, <1>13, <1>14 DEF SigningInv

\* The thread that leaves is the only one that was inside.
LEMMA LeaveInv ==
  ASSUME SigningInv, NEW t \in Threads, call[t].pc \in {"init", "update"},
         call' = [call EXCEPT ![t] = Idle], context' = context
  PROVE  SigningTypeOK' /\ Exclusive' /\ Filled'
<1>1. DOMAIN call' = Threads /\ \A u \in Threads \ {t} : call'[u] = call[u]
  BY DEF SigningInv, SigningTypeOK
<1>2. call'[t] = Idle /\ mutex = t
  BY DEF SigningInv, SigningTypeOK, Exclusive
<1>3. \A u \in Threads \ {t} : call[u].pc \notin {"init", "update"}
  BY <1>2 DEF SigningInv, Exclusive
<1>4. SigningTypeOK'
  <2>1. \A u \in Threads : IsCall(call'[u])
    BY <1>1, <1>2, IdleIsCall DEF SigningInv, SigningTypeOK
  <2> QED BY <1>1, <2>1 DEF SigningInv, SigningTypeOK, IsCall
<1>5. Exclusive'
  BY <1>1, <1>2, <1>3 DEF Exclusive, Idle
<1>6. Filled'
  BY <1>1, <1>2, <1>3 DEF SigningInv, Filled, Idle
<1> QED BY <1>4, <1>5, <1>6

LEMMA HMACFinalInv ==
  ASSUME SigningInv, NEW t \in Threads, HMACFinal(t) PROVE SigningInv'
<1> DEFINE c == call[t]
<1> DEFINE m == call[t].message
<1>1. c.pc = "update" /\ c.given = Len(m) /\ IsCall(c)
  BY DEF HMACFinal, SigningInv, SigningTypeOK
<1>2. m \in Messages
  BY <1>1 DEF IsCall
<1>3. m \in Seq(Buffers) /\ context \in Seq(Buffers)
  BY <1>2, BuffersOfMessages DEF SigningInv, SigningTypeOK
<1>4. Len(context) = Len(m) /\ \A k \in 1..Len(m) : context[k] = m[k]
  BY <1>1 DEF SigningInv, Filled
<1>5. context = m
  <2> HIDE DEF m
  <2> QED BY <1>3, <1>4, SeqEqual
<1>6. SigningTypeOK' /\ Exclusive' /\ Filled'
  <2>1. call' = [call EXCEPT ![t] = Idle] /\ context' = context
    BY DEF HMACFinal
  <2> QED BY <1>1, <2>1, LeaveInv
<1>7. CASE c.verifies
  <2>1. answer' = [what |-> "verdict", message |-> m, signature |-> c.signature,
                   matches |-> c.signature = context]
    BY <1>7 DEF HMACFinal
  <2>2. /\ answer'.what = "verdict" /\ answer'.message = m
        /\ answer'.signature = c.signature
    BY <2>1
  <2>3. answer'.matches <=> answer'.signature = answer'.message
    BY <2>1, <1>5
  <2>4. SignaturesAreOwn'
    BY <2>2, <2>3 DEF SignaturesAreOwn
  <2> QED BY <1>6, <2>4 DEF SigningInv
<1>8. CASE ~c.verifies
  <2>1. answer' = [what |-> "signature", message |-> m, digest |-> context]
    BY <1>8 DEF HMACFinal
  <2>2. SignaturesAreOwn'
    BY <2>1, <1>5 DEF SignaturesAreOwn
  <2> QED BY <1>6, <2>2 DEF SigningInv
<1> QED BY <1>7, <1>8

LEMMA ThrowInv ==
  ASSUME SigningInv, NEW t \in Threads, Throw(t) PROVE SigningInv'
<1>1. SigningTypeOK' /\ Exclusive' /\ Filled'
  <2>1. /\ call[t].pc \in {"init", "update"} /\ context' = context
        /\ call' = [call EXCEPT ![t] = Idle]
    BY DEF Throw
  <2> QED BY <2>1, LeaveInv
<1>2. SignaturesAreOwn'
  BY DEF Throw, SignaturesAreOwn
<1> QED BY <1>1, <1>2 DEF SigningInv

LEMMA NextInv == SigningInv /\ [SigningNext]_signingVars => SigningInv'
<1> SUFFICES ASSUME SigningInv, [SigningNext]_signingVars PROVE SigningInv'
  OBVIOUS
<1>1. CASE \E t \in Threads :
             \/ \E message \in Messages : Sign(t, message)
             \/ \E message, signature \in Messages : Verify(t, message, signature)
  BY <1>1, NewCall
<1>2. CASE \E t \in Threads : Lock(t)
  BY <1>2, LockInv
<1>3. CASE \E t \in Threads : Step(t)
  BY <1>3, HMACInitInv, HMACUpdateInv, HMACFinalInv DEF Step
<1>4. CASE \E t \in Threads : Throw(t)
  BY <1>4, ThrowInv
<1>5. CASE UNCHANGED signingVars
  BY <1>5 DEF signingVars, SigningInv, SigningTypeOK, IsCall, Exclusive, Filled, SignaturesAreOwn
<1> QED BY <1>1, <1>2, <1>3, <1>4, <1>5 DEF SigningNext

LEMMA Invariance == SigningSpec => []SigningInv
BY InitInv, NextInv, PTL DEF SigningSpec

\* However the threads of the server interleave, and whichever of their calls fail, the
\* signature of a message covers its buffers in order and nothing else, and a
\* verification compares with that signature.
THEOREM SignaturesCoverTheirMessage == SigningSpec => []SignaturesAreOwn
<1>1. SigningInv => SignaturesAreOwn
  BY DEF SigningInv
<1> QED BY <1>1, Invariance, PTL

\* A nonempty set of numbers has a smallest one.
LEMMA LeastOfSet ==
  ASSUME NEW S \in SUBSET Nat, S # {}
  PROVE  \E x \in S : \A y \in S : x <= y
<1>1. IsWellFoundedOn(OpToRel(<, Nat), Nat)
  BY NatLessThanWellFounded
<1>2. PICK x \in S : \A y \in S : ~(<<y, x>> \in OpToRel(<, Nat))
  BY <1>1, WFMin
<1>3. \A y \in S : ~(y < x)
  BY <1>2 DEF OpToRel
<1> QED BY <1>3

\* The sequences that FlattenSeq makes on its way: of the first parts, joined.
Joins(f, parts) ==
  f = [i \in 1..Len(parts) |-> IF i = 1 THEN parts[i] ELSE f[i - 1] \o parts[i]]

LEMMA JoinsStep ==
  ASSUME NEW S, NEW parts \in Seq(S), NEW s \in S, NEW f, Joins(f, parts)
  PROVE  \E g : Joins(g, Append(parts, s))
<1> DEFINE more == Append(parts, s)
           n == Len(parts)
           g == [i \in 1..(n + 1) |->
                   IF i <= n THEN f[i]
                   ELSE IF i = 1 THEN s ELSE f[n] \o s]
<1>1. n \in Nat /\ Len(more) = n + 1 /\ more[n + 1] = s
      /\ \A i \in 1..n : more[i] = parts[i]
  OBVIOUS
<1>2. \A i \in 1..n : f[i] = IF i = 1 THEN parts[i] ELSE f[i - 1] \o parts[i]
  BY DEF Joins
<1>3. ASSUME NEW i \in 1..(n + 1)
      PROVE  g[i] = IF i = 1 THEN more[i] ELSE g[i - 1] \o more[i]
  <2>1. CASE i <= n
    BY <2>1, <1>1, <1>2
  <2>2. CASE i = n + 1 /\ n = 0
    BY <2>2, <1>1
  <2>3. CASE i = n + 1 /\ n # 0
    <3>1. g[i] = f[n] \o s /\ g[i - 1] = f[n]
      BY <2>3, <1>1
    <3> QED BY <3>1, <2>3, <1>1
  <2> QED BY <2>1, <2>2, <2>3, <1>1
<1>4. g = [i \in 1..Len(more) |-> g[i]]
  BY <1>1
<1>5. g = [i \in 1..Len(more) |-> IF i = 1 THEN more[i] ELSE g[i - 1] \o more[i]]
  <2> HIDE DEF g, more
  <2> QED BY <1>1, <1>3, <1>4
<1>6. Joins(g, more)
  <2> HIDE DEF g, more
  <2> QED BY <1>5 DEF Joins
<1> QED BY <1>6

LEMMA JoinsExist ==
  ASSUME NEW S, NEW parts \in Seq(S)
  PROVE  \E f : Joins(f, parts)
<1> DEFINE Fails(t) == ~ \E f : Joins(f, t)
           Bad == {n \in Nat : \E t \in Seq(S) : Len(t) = n /\ Fails(t)}
<1>1. SUFFICES ASSUME Bad # {} PROVE FALSE
  OBVIOUS
<1>2. PICK n \in Bad : \A k \in Bad : n <= k
  BY <1>1, LeastOfSet
<1>3. PICK t \in Seq(S) : Len(t) = n /\ Fails(t)
  BY <1>2
<1>4. t # <<>>
  <2>1. SUFFICES ASSUME t = <<>> PROVE FALSE
    OBVIOUS
  <2>2. Joins([i \in 1..0 |-> 0], t)
    BY <2>1 DEF Joins
  <2> QED BY <1>3, <2>2
<1>5. PICK u \in Seq(S) : \E s \in S : t = Append(u, s)
  BY <1>4, SequenceEmptyOrAppend
<1>6. PICK s \in S : t = Append(u, s)
  BY <1>5
<1>7. Len(u) \in Nat /\ n = Len(u) + 1
  BY <1>3, <1>6
<1>8. Len(u) \notin Bad
  <2> HIDE DEF Bad
  <2> QED BY <1>2, <1>7
<1>9. \E f : Joins(f, u)
  BY <1>7, <1>8
<1> QED BY <1>3, <1>6, <1>9, JoinsStep

LEMMA JoinsAgree ==
  ASSUME NEW S, NEW parts \in Seq(S), NEW more \in Seq(S), NEW f, NEW g,
         Joins(f, parts), Joins(g, more), Len(parts) <= Len(more),
         \A i \in 1..Len(parts) : parts[i] = more[i]
  PROVE  \A i \in 1..Len(parts) : f[i] = g[i]
<1> DEFINE Bad == {i \in 1..Len(parts) : f[i] # g[i]}
<1>1. SUFFICES ASSUME Bad # {} PROVE FALSE
  OBVIOUS
<1>0. Len(parts) \in Nat /\ Len(more) \in Nat
  OBVIOUS
<1>2. PICK n \in Bad : \A k \in Bad : n <= k
  <2>1. Bad \in SUBSET Nat
    BY <1>0
  <2> HIDE DEF Bad
  <2> QED BY <1>1, <2>1, LeastOfSet
<1>a. n \in 1..Len(parts) /\ n \in 1..Len(more)
  BY <1>0
<1>b. f[n] = IF n = 1 THEN parts[n] ELSE f[n - 1] \o parts[n]
  BY <1>a DEF Joins
<1>3. /\ f[n] = IF n = 1 THEN parts[n] ELSE f[n - 1] \o parts[n]
      /\ g[n] = IF n = 1 THEN more[n] ELSE g[n - 1] \o more[n]
  BY <1>a, <1>b DEF Joins
<1>4. n # 1 => f[n - 1] = g[n - 1]
  BY <1>0, <1>2
<1>5. f[n] = g[n]
  BY <1>3, <1>4
<1> QED BY <1>5

LEMMA JoinsAreSeqs ==
  ASSUME NEW S, NEW parts \in Seq(Seq(S)), NEW f, Joins(f, parts)
  PROVE  \A i \in 1..Len(parts) : f[i] \in Seq(S)
<1> DEFINE Bad == {i \in 1..Len(parts) : f[i] \notin Seq(S)}
<1>1. SUFFICES ASSUME Bad # {} PROVE FALSE
  OBVIOUS
<1>0. Len(parts) \in Nat
  OBVIOUS
<1>2. PICK n \in Bad : \A k \in Bad : n <= k
  <2>1. Bad \in SUBSET Nat
    BY <1>0
  <2> HIDE DEF Bad
  <2> QED BY <1>1, <2>1, LeastOfSet
<1>3. f[n] = IF n = 1 THEN parts[n] ELSE f[n - 1] \o parts[n]
  BY <1>0 DEF Joins
<1>4. parts[n] \in Seq(S)
  BY ElementOfSeq
<1>5. n # 1 => f[n - 1] \in Seq(S)
  BY <1>0, <1>2
<1>6. f[n] \in Seq(S)
  BY <1>3, <1>4, <1>5, ConcatProperties
<1> QED BY <1>6

LEMMA JoinsExtend ==
  ASSUME NEW S, NEW parts \in Seq(S), NEW s \in S, NEW f, NEW g, parts # <<>>,
         Joins(f, parts), Joins(g, Append(parts, s))
  PROVE  g[Len(parts) + 1] = f[Len(parts)] \o s
<1>1. PICK more \in Seq(S) : more = Append(parts, s)
  BY AppendProperties
<1>2. PICK n \in Nat : n = Len(parts)
  BY LenProperties
<1>3. PICK k \in Nat : k = n + 1
  BY <1>2
<1>4. /\ n \in 1..n /\ Len(more) = k /\ more[k] = s /\ k # 1 /\ k - 1 = n
      /\ \A i \in 1..n : parts[i] = more[i]
  BY <1>1, <1>2, <1>3
<1>5. \A i \in 1..n : f[i] = g[i]
  <2>1. Joins(g, more) /\ Len(parts) <= Len(more)
    BY <1>1, <1>2, <1>3, <1>4
  <2> QED BY <1>2, <1>4, <2>1, JoinsAgree
<1>6. \A i \in 1..k : g[i] = IF i = 1 THEN more[i] ELSE g[i - 1] \o more[i]
  BY <1>1, <1>4 DEF Joins
<1>7. g[k] = g[n] \o s
  <2>1. k \in 1..k
    BY <1>3
  <2>2. g[k] = g[k - 1] \o more[k]
    BY <1>4, <1>6, <2>1
  <2> QED BY <1>4, <2>2
<1>8. g[n] = f[n]
  BY <1>4, <1>5
<1> QED BY <1>2, <1>3, <1>7, <1>8

LEMMA FlattenIsJoin ==
  ASSUME NEW S, NEW parts \in Seq(S), parts # <<>>
  PROVE  \E f : Joins(f, parts) /\ FlattenSeq(parts) = f[Len(parts)]
<1> DEFINE F == CHOOSE f : f = [i \in 1..Len(parts) |->
                                 IF i = 1 THEN parts[i] ELSE f[i - 1] \o parts[i]]
<1>1. Len(parts) # 0
  OBVIOUS
<1>2. FlattenSeq(parts) = F[Len(parts)]
  BY <1>1 DEF FlattenSeq
<1>3. F = CHOOSE f : Joins(f, parts)
  BY DEF Joins
<1>4. Joins(F, parts)
  <2> HIDE DEF F
  <2> QED BY <1>3, JoinsExist
<1> QED BY <1>2, <1>4

\* What FlattenSeq makes of a sequence of sequences with one more.
LEMMA FlattenOfAppend ==
  ASSUME NEW S, NEW parts \in Seq(Seq(S)), NEW s \in Seq(S)
  PROVE  /\ FlattenSeq(parts) \in Seq(S)
         /\ FlattenSeq(Append(parts, s)) = FlattenSeq(parts) \o s
<1> DEFINE more == Append(parts, s)
           n == Len(parts)
<1>1. /\ n \in Nat /\ more \in Seq(Seq(S)) /\ more # <<>> /\ Len(more) = n + 1
      /\ more[n + 1] = s /\ \A i \in 1..n : more[i] = parts[i]
  BY AppendProperties
<1>2. PICK g : Joins(g, more) /\ FlattenSeq(more) = g[n + 1]
  BY <1>1, FlattenIsJoin
<1>3. CASE parts = <<>>
  <2>1. FlattenSeq(parts) = <<>>
    BY <1>3 DEF FlattenSeq
  <2>2. g[n + 1] = s
    BY <1>1, <1>2, <1>3 DEF Joins
  <2> QED BY <1>2, <2>1, <2>2, ConcatEmptySeq, EmptySeq
<1>4. CASE parts # <<>>
  <2>1. PICK f : Joins(f, parts) /\ FlattenSeq(parts) = f[n]
    BY <1>4, FlattenIsJoin
  <2>2. n \in 1..n
    BY <1>1, <1>4
  <2>3. f[n] \in Seq(S)
    BY <2>1, <2>2, JoinsAreSeqs
  <2>4. g[n + 1] = f[n] \o s
    BY <1>2, <1>4, <2>1, JoinsExtend
  <2> QED BY <1>2, <2>1, <2>3, <2>4
<1> QED BY <1>3, <1>4

-----------------------------------------------------------------------------
RequestKinds == {"execute", "complete", "inspect", "is_complete", "kernel_info",
                 "interrupt", "shutdown"}

KernelRequests == [kind : RequestKinds, silent : BOOLEAN,
                   source : Sources \union {NoCell}, reply : Replies \union {"none"}]

Printed == {"stdout", "stderr", "display", "result"}

KernelMessages == [type : Printed \union {"error"} \union Replies, counter : Nat]

KernelTypeOK ==
  /\ received \in Seq(KernelRequests) /\ answering \in BOOLEAN
  /\ published \in Seq(KernelMessages)
  /\ counter \in Nat /\ currentExecutionCounter \in Nat

\* Requests are answered in turn: the last one may be in progress.
InTurn ==
  /\ \A q \in DOMAIN received :
       received[q].reply = "none" <=> answering /\ q = Len(received)
  /\ answering => received # <<>> /\ request.kind \in {"execute", "inspect"}
  /\ \A q \in Executions : received[q].source \in Sources

\* The session works for the execution in progress, or not at all.
SessionFollows ==
  /\ status \in {"ready", "compiling", "running", "unusable", "closed"}
  /\ status \in {"compiling", "running"} => Executing /\ current = request.source
  /\ Executing => status # "closed"
  /\ Executing /\ status = "ready" =>
       outcome \in {"diagnostics", "runtime error", "succeeded"}
  /\ Executing /\ status = "unusable" => outcome \in SessionFailures

\* The executions that are counted.
Loud(requests) ==
  {q \in DOMAIN requests : requests[q].kind = "execute" /\ ~requests[q].silent}

\* What is published before the answer is what the program prints.
OutputIsOwn ==
  /\ answering => \A i \in DOMAIN published : published[i].type \in Printed
  /\ Executing => outputEnabled = ~request.silent /\ currentExecutionCounter = counter
  /\ answering /\ request.silent => published = <<>>
  /\ \A i \in DOMAIN published :
       published[i].type = "result" => published[i].counter = counter
  /\ counter = Cardinality(Loud(received))

\* The messages agree with the reply, and a silent request has no others.
AnswersAgree ==
  /\ received # <<>> /\ ~answering => OneReply /\ ErrorsAgree
  /\ received # <<>> /\ request.silent =>
       \A i \in DOMAIN published : published[i].type \in Replies

KernelInv ==
  KernelTypeOK /\ InTurn /\ SessionFollows /\ OutputIsOwn /\ AnswersAgree

LEMMA AppendOfSeq ==
  ASSUME NEW S, NEW s \in Seq(S), NEW x \in S
  PROVE  LET t == Append(s, x)
         IN  /\ t \in Seq(S) /\ t # <<>> /\ Len(t) = Len(s) + 1 /\ Len(s) \in Nat
             /\ DOMAIN s = 1..Len(s) /\ DOMAIN t = 1..(Len(s) + 1)
             /\ t[Len(s) + 1] = x /\ Last(t) = x
             /\ \A i \in 1..Len(s) : t[i] = s[i]
<1>1. Append(s, x) \in Seq(S) /\ Len(Append(s, x)) = Len(s) + 1 /\ Len(s) \in Nat
  BY AppendProperties
<1>2. DOMAIN s = 1..Len(s) /\ DOMAIN Append(s, x) = 1..(Len(s) + 1)
  BY <1>1, LenProperties
<1>3. /\ Append(s, x)[Len(s) + 1] = x
      /\ \A i \in 1..Len(s) : Append(s, x)[i] = s[i]
  BY <1>1
<1>4. Append(s, x) # <<>> /\ Last(Append(s, x)) = x
  BY <1>1, <1>3 DEF Last
<1> QED BY <1>1, <1>2, <1>3, <1>4

\* One more request is counted, or none.
LEMMA LoudOfAppend ==
  ASSUME NEW s \in Seq(KernelRequests), NEW r \in KernelRequests
  PROVE  /\ Cardinality(Loud(s)) \in Nat
         /\ Cardinality(Loud(Append(s, r))) = Cardinality(Loud(s))
              + (IF r.kind = "execute" /\ ~r.silent THEN 1 ELSE 0)
<1> DEFINE t == Append(s, r)
           n == Len(s)
<1>1. /\ DOMAIN s = 1..n /\ DOMAIN t = 1..(n + 1) /\ t[n + 1] = r /\ n \in Nat
      /\ \A i \in 1..n : t[i] = s[i]
  BY AppendOfSeq
<1>2. IsFiniteSet(Loud(s)) /\ n + 1 \notin Loud(s)
  <2>1. Loud(s) \subseteq 1..n
    BY <1>1 DEF Loud
  <2>2. IsFiniteSet(1..n)
    BY <1>1, FS_Interval
  <2>3. IsFiniteSet(Loud(s))
    BY <2>1, <2>2, FS_Subset
  <2> QED BY <1>1, <2>1, <2>3
<1>3. Cardinality(Loud(s)) \in Nat
  BY <1>2, FS_CardinalityType
<1>4. CASE r.kind = "execute" /\ ~r.silent
  <2>1. Loud(t) = Loud(s) \union {n + 1}
    <3> HIDE DEF t
    <3> QED BY <1>1, <1>4 DEF Loud
  <2> QED BY <1>2, <1>3, <1>4, <2>1, FS_AddElement
<1>5. CASE ~(r.kind = "execute" /\ ~r.silent)
  <2>1. Loud(t) = Loud(s)
    <3> HIDE DEF t
    <3> QED BY <1>1, <1>5 DEF Loud
  <2> QED BY <1>3, <1>5, <2>1
<1> QED BY <1>4, <1>5

\* A reply changes nothing else.
LEMMA RepliedRequests ==
  ASSUME NEW s \in Seq(KernelRequests), s # <<>>, NEW verdict \in Replies
  PROVE  LET t == [s EXCEPT ![Len(s)].reply = verdict]
         IN  /\ t \in Seq(KernelRequests) /\ t # <<>> /\ Len(t) = Len(s)
             /\ DOMAIN t = 1..Len(s) /\ DOMAIN s = 1..Len(s) /\ Len(s) \in Nat \ {0}
             /\ \A i \in 1..(Len(s) - 1) : t[i] = s[i]
             /\ t[Len(s)] = [s[Len(s)] EXCEPT !.reply = verdict]
             /\ Loud(t) = Loud(s)
             /\ \A i \in 1..Len(s) : /\ t[i].kind = s[i].kind /\ t[i].source = s[i].source
                                     /\ t[i].silent = s[i].silent
                                     /\ t[i].reply = IF i = Len(s) THEN verdict
                                                     ELSE s[i].reply
<1> DEFINE n == Len(s)
           r == [s[n] EXCEPT !.reply = verdict]
           t == [s EXCEPT ![n].reply = verdict]
<1>1. n \in Nat \ {0} /\ DOMAIN s = 1..n /\ n \in 1..n
  BY LenProperties, EmptySeq
<1>2. s[n] \in KernelRequests
  BY <1>1, ElementOfSeq
<1>3. /\ r \in KernelRequests /\ r.kind = s[n].kind /\ r.silent = s[n].silent
      /\ r.source = s[n].source /\ r.reply = verdict
  BY <1>2 DEF KernelRequests
<1>4. t = [s EXCEPT ![n] = r]
  OBVIOUS
<1>5. /\ t \in Seq(KernelRequests) /\ Len(t) = n
      /\ \A j \in 1..n : t[j] = IF j = n THEN r ELSE s[j]
  <2> HIDE DEF r, t
  <2> QED BY <1>1, <1>3, <1>4, ExceptSeq
<1>6. t # <<>> /\ DOMAIN t = 1..n
  <2> HIDE DEF r, t
  <2> QED BY <1>1, <1>5, LenProperties, EmptySeq
<1>7. \A i \in 1..n : /\ t[i].kind = s[i].kind /\ t[i].source = s[i].source
                      /\ t[i].silent = s[i].silent
                      /\ t[i].reply = IF i = n THEN verdict ELSE s[i].reply
  <2> HIDE DEF r, t
  <2> QED BY <1>3, <1>5
<1>8. Loud(t) = Loud(s)
  <2> HIDE DEF r, t
  <2> QED BY <1>1, <1>6, <1>7 DEF Loud
<1>9. t[n] = r /\ \A i \in 1..(n - 1) : t[i] = s[i]
  <2>1. \A i \in 1..(n - 1) : i \in 1..n /\ i # n
    <3>1. n \in Nat
      BY <1>1
    <3> HIDE DEF n, r, t
    <3> QED BY <3>1
  <2> HIDE DEF r, t
  <2> QED BY <1>1, <1>5, <2>1
<1> QED BY <1>1, <1>5, <1>6, <1>7, <1>8, <1>9

-----------------------------------------------------------------------------
LEMMA RequestsAreKernelRequests ==
  /\ \A kind \in RequestKinds :
       /\ Request(kind) \in KernelRequests
       /\ Request(kind).kind = kind /\ Request(kind).silent = FALSE
       /\ Request(kind).reply = "none"
       /\ [Request(kind) EXCEPT !.reply = "ok"] \in KernelRequests
       /\ [Request(kind) EXCEPT !.reply = "ok"].kind = kind
       /\ [Request(kind) EXCEPT !.reply = "ok"].silent = FALSE
       /\ [Request(kind) EXCEPT !.reply = "ok"].reply = "ok"
  /\ \A s \in Sources, silent \in BOOLEAN :
       /\ Execution(s, silent) \in KernelRequests
       /\ Execution(s, silent).kind = "execute"
       /\ Execution(s, silent).silent = silent
       /\ Execution(s, silent).source = s
       /\ Execution(s, silent).reply = "none"
BY DEF Request, Execution, KernelRequests, RequestKinds, Replies

\* A request begins.
LEMMA RequestBegins ==
  ASSUME KernelInv, CanReceive, NEW r \in KernelRequests, r.reply = "none",
         r.kind \in {"execute", "inspect"},
         r.kind = "execute" => r.source \in Sources,
         received' = Append(received, r), answering' = TRUE, published' = <<>>
  PROVE  /\ InTurn' /\ AnswersAgree' /\ request' = r
         /\ received' \in Seq(KernelRequests)
         /\ published' \in Seq(KernelMessages)
<1> DEFINE n == Len(received)
<1>1. /\ received' \in Seq(KernelRequests) /\ received' # <<>>
      /\ Len(received') = n + 1 /\ n \in Nat
      /\ DOMAIN received = 1..n /\ DOMAIN received' = 1..(n + 1)
      /\ received'[n + 1] = r /\ Last(received') = r
      /\ \A i \in 1..n : received'[i] = received[i]
  BY AppendOfSeq DEF KernelInv, KernelTypeOK
<1>2. request' = r
  BY <1>1 DEF request
<1>3. \A q \in 1..n : received[q].reply # "none"
  BY <1>1 DEF KernelInv, InTurn, CanReceive
<1>4. \A q \in 1..(n + 1) : received'[q].reply = "none" <=> q = n + 1
  BY <1>1, <1>3
<1>5. \A q \in 1..(n + 1) : received'[q].kind = "execute" => received'[q].source \in Sources
  BY <1>1 DEF KernelInv, InTurn, Executions
<1>6. InTurn'
  BY <1>1, <1>2, <1>4, <1>5 DEF InTurn, Executions
<1>7. published' \in Seq(KernelMessages) /\ DOMAIN published' = {}
  BY EmptySeq
<1>8. AnswersAgree'
  BY <1>7 DEF AnswersAgree
<1> QED BY <1>1, <1>2, <1>6, <1>7, <1>8

LEMMA ExecuteRequestKeeps ==
  ASSUME KernelInv, NEW s \in Sources, NEW silent \in BOOLEAN, ExecuteRequest(s, silent)
  PROVE  KernelInv'
<1> DEFINE r == Execution(s, silent)
<1>1. /\ r \in KernelRequests /\ r.kind = "execute" /\ r.silent = silent
      /\ r.source = s /\ r.reply = "none"
  BY RequestsAreKernelRequests
<1>2. /\ CanReceive /\ received' = Append(received, r) /\ answering' = TRUE
      /\ published' = <<>> /\ counter' = counter + (IF silent THEN 0 ELSE 1)
      /\ outputEnabled' = ~silent /\ currentExecutionCounter' = counter'
      /\ Submit(s) \/ RefuseForGood
  BY DEF ExecuteRequest
<1> HIDE DEF r
<1>3. /\ InTurn' /\ AnswersAgree' /\ request' = r
      /\ received' \in Seq(KernelRequests) /\ published' \in Seq(KernelMessages)
  BY <1>1, <1>2, RequestBegins
<1>4. Executing'
  BY <1>1, <1>2, <1>3 DEF Executing
<1>5. KernelTypeOK'
  BY <1>2, <1>3 DEF KernelInv, KernelTypeOK
<1>6. SessionFollows'
  <2>1. CASE Submit(s)
    BY <1>1, <1>3, <1>4, <2>1 DEF SessionFollows, Submit
  <2>2. CASE RefuseForGood
    BY <1>4, <2>2 DEF SessionFollows, RefuseForGood, SessionFailures
  <2> QED BY <1>2, <2>1, <2>2
<1>7. counter' = Cardinality(Loud(received'))
  <2>1. received \in Seq(KernelRequests) /\ counter = Cardinality(Loud(received))
    BY DEF KernelInv, KernelTypeOK, OutputIsOwn
  <2> QED BY <1>1, <1>2, <2>1, LoudOfAppend
<1>8. OutputIsOwn'
  <2>1. DOMAIN published' = {}
    BY <1>2
  <2> QED BY <1>1, <1>2, <1>3, <1>7, <2>1 DEF OutputIsOwn
<1> QED BY <1>3, <1>5, <1>6, <1>8 DEF KernelInv

LEMMA InspectRequestKeeps ==
  ASSUME KernelInv, InspectRequest
  PROVE  KernelInv'
<1> DEFINE r == Request("inspect")
<1>1. /\ r \in KernelRequests /\ r.kind = "inspect" /\ r.silent = FALSE
      /\ r.reply = "none"
  BY RequestsAreKernelRequests DEF RequestKinds
<1>2. /\ CanReceive /\ received' = Append(received, r) /\ answering' = TRUE
      /\ published' = <<>> /\ UNCHANGED <<promiseVars, outputVars>>
  BY DEF InspectRequest
<1> HIDE DEF r
<1>3. /\ InTurn' /\ AnswersAgree' /\ request' = r
      /\ received' \in Seq(KernelRequests) /\ published' \in Seq(KernelMessages)
  BY <1>1, <1>2, RequestBegins
<1>4. ~Executing' /\ ~Executing
  BY <1>1, <1>2, <1>3 DEF Executing, CanReceive
<1>5. KernelTypeOK'
  BY <1>2, <1>3 DEF KernelInv, KernelTypeOK, outputVars
<1>6. SessionFollows'
  BY <1>2, <1>4 DEF KernelInv, SessionFollows, promiseVars
<1>7. counter' = Cardinality(Loud(received'))
  <2>1. received \in Seq(KernelRequests) /\ counter = Cardinality(Loud(received))
    BY DEF KernelInv, KernelTypeOK, OutputIsOwn
  <2> QED BY <1>1, <1>2, <2>1, LoudOfAppend DEF outputVars
<1>8. OutputIsOwn'
  <2>1. DOMAIN published' = {}
    BY <1>2
  <2> QED BY <1>1, <1>2, <1>3, <1>4, <1>7, <2>1 DEF OutputIsOwn
<1> QED BY <1>3, <1>5, <1>6, <1>8 DEF KernelInv

\* A single reply agrees with itself.
LEMMA SingleReply ==
  LET p == <<Reply(TRUE)>>
  IN  /\ p \in Seq(KernelMessages) /\ p # <<>> /\ Last(p).type = "ok"
      /\ DOMAIN p = {1} /\ p[1].type = "ok" /\ DOMAIN Front(p) = {}
<1>1. Reply(TRUE) \in KernelMessages /\ Reply(TRUE).type = "ok"
  BY DEF Reply, Message, Verdict, KernelMessages, Replies
<1> DEFINE m == Reply(TRUE)
<1> HIDE DEF m
<1>2. /\ <<m>> \in Seq({m}) /\ <<m>> # <<>> /\ Len(<<m>>) = 1
      /\ <<m>>[1] = m /\ DOMAIN <<m>> = {1}
  OBVIOUS
<1>3. DOMAIN Front(<<m>>) = {}
  <2>1. Front(<<m>>) = SubSeq(<<m>>, 1, 0)
    BY <1>2 DEF Front
  <2> QED BY <2>1
<1>4. m \in KernelMessages /\ m.type = "ok"
  BY <1>1 DEF m
<1>5. <<m>> \in Seq(KernelMessages)
  BY <1>4
<1>6. Last(<<m>>) = m
  BY <1>2 DEF Last
<1>7. /\ <<m>> \in Seq(KernelMessages) /\ <<m>> # <<>> /\ Last(<<m>>).type = "ok"
      /\ DOMAIN <<m>> = {1} /\ <<m>>[1].type = "ok" /\ DOMAIN Front(<<m>>) = {}
  BY <1>2, <1>3, <1>4, <1>5, <1>6
<1> QED BY <1>7 DEF m

\* What follows an answer: the request is over, and its reply is the last message.
LEMMA AnswersAgreeAtOnce ==
  ASSUME published' = <<Reply(TRUE)>>, received' # <<>>, request'.reply = "ok"
  PROVE  /\ AnswersAgree' /\ published' \in Seq(KernelMessages)
         /\ \A i \in DOMAIN published' : published'[i].type \notin Printed
<1>1. /\ published' \in Seq(KernelMessages) /\ published' # <<>>
      /\ Last(published').type = "ok"
      /\ DOMAIN published' = {1} /\ published'[1].type = "ok"
      /\ DOMAIN Front(published') = {}
  BY SingleReply
<1>2. OneReply'
  BY <1>1 DEF OneReply
<1>3. ErrorMessages' = {}
  BY <1>1 DEF ErrorMessages
<1>4. ErrorsAgree'
  BY <1>3 DEF ErrorsAgree
<1>5. AnswersAgree'
  BY <1>1, <1>2, <1>4 DEF AnswersAgree, Replies
<1>6. \A i \in DOMAIN published' : published'[i].type \notin Printed
  BY <1>1 DEF Printed
<1> QED BY <1>1, <1>5, <1>6

LEMMA AnswerAtOnceKeeps ==
  ASSUME KernelInv, NEW kind \in RequestKinds \ {"execute", "inspect"},
         AnswerAtOnce(kind), UNCHANGED promiseVars \/ Destroy
  PROVE  KernelInv'
<1> DEFINE r == [Request(kind) EXCEPT !.reply = "ok"]
           n == Len(received)
<1>1. /\ r \in KernelRequests /\ r.kind = kind /\ r.silent = FALSE /\ r.reply = "ok"
  BY RequestsAreKernelRequests
<1>2. /\ CanReceive /\ received' = Append(received, r)
      /\ published' = <<Reply(TRUE)>> /\ UNCHANGED <<answering, outputVars>>
  BY DEF AnswerAtOnce
<1> HIDE DEF r
<1>3. /\ received' \in Seq(KernelRequests) /\ received' # <<>>
      /\ Len(received') = n + 1 /\ n \in Nat
      /\ DOMAIN received = 1..n /\ DOMAIN received' = 1..(n + 1)
      /\ received'[n + 1] = r /\ Last(received') = r
      /\ \A i \in 1..n : received'[i] = received[i]
  BY <1>1, <1>2, AppendOfSeq DEF KernelInv, KernelTypeOK
<1>4. request' = r
  BY <1>3 DEF request
<1>5. answering = FALSE /\ answering' = FALSE /\ ~Executing /\ ~Executing'
  BY <1>2 DEF CanReceive, Executing, KernelInv, KernelTypeOK
<1>6. /\ AnswersAgree' /\ published' \in Seq(KernelMessages)
      /\ \A i \in DOMAIN published' : published'[i].type \notin Printed
  BY <1>1, <1>2, <1>3, <1>4, AnswersAgreeAtOnce
<1>7. KernelTypeOK'
  BY <1>2, <1>3, <1>6 DEF KernelInv, KernelTypeOK, outputVars
<1>8. InTurn'
  <2>1. \A q \in 1..(n + 1) : received'[q].reply # "none"
    BY <1>1, <1>3, <1>5 DEF KernelInv, InTurn
  <2>2. \A q \in 1..(n + 1) : received'[q].kind = "execute" =>
                                received'[q].source \in Sources
    BY <1>1, <1>3 DEF KernelInv, InTurn, Executions
  <2> QED BY <1>3, <1>5, <2>1, <2>2 DEF InTurn, Executions
<1>9. SessionFollows'
  BY <1>5 DEF KernelInv, SessionFollows, promiseVars, Destroy
<1>10. counter' = Cardinality(Loud(received'))
  <2>1. received \in Seq(KernelRequests) /\ counter = Cardinality(Loud(received))
        /\ counter \in Nat
    BY DEF KernelInv, KernelTypeOK, OutputIsOwn
  <2> QED BY <1>1, <1>2, <2>1, LoudOfAppend DEF outputVars
<1>11. OutputIsOwn'
  BY <1>5, <1>6, <1>10 DEF OutputIsOwn, Printed
<1> QED BY <1>6, <1>7, <1>8, <1>9, <1>11 DEF KernelInv

\* The request in progress is answered.
LEMMA RequestEnds ==
  ASSUME KernelInv, answering, NEW ok \in BOOLEAN, received' = Replied(ok),
         answering' = FALSE, counter' = counter
  PROVE  /\ InTurn' /\ received' \in Seq(KernelRequests) /\ received' # <<>>
         /\ request'.reply = Verdict(ok) /\ request'.silent = request.silent
         /\ counter' = Cardinality(Loud(received'))
         /\ ~Executing'
<1> DEFINE n == Len(received)
           verdict == Verdict(ok)
<1>1. received \in Seq(KernelRequests) /\ received # <<>> /\ verdict \in Replies
  BY DEF KernelInv, KernelTypeOK, InTurn, Verdict, Replies
<1>2. received' = [received EXCEPT ![n].reply = verdict]
  BY DEF Replied
<1> HIDE DEF verdict
<1>3. /\ received' \in Seq(KernelRequests) /\ received' # <<>> /\ Len(received') = n
      /\ DOMAIN received' = 1..n /\ DOMAIN received = 1..n /\ n \in Nat \ {0}
      /\ Loud(received') = Loud(received)
      /\ \A i \in 1..n : /\ received'[i].kind = received[i].kind
                         /\ received'[i].source = received[i].source
                         /\ received'[i].silent = received[i].silent
                         /\ received'[i].reply = IF i = n THEN verdict
                                                 ELSE received[i].reply
  <2> DEFINE t == [received EXCEPT ![Len(received)].reply = verdict]
  <2>1. /\ t \in Seq(KernelRequests) /\ t # <<>> /\ Len(t) = n
        /\ DOMAIN t = 1..n /\ DOMAIN received = 1..n /\ n \in Nat \ {0}
        /\ Loud(t) = Loud(received)
        /\ \A i \in 1..n : /\ t[i].kind = received[i].kind
                           /\ t[i].source = received[i].source
                           /\ t[i].silent = received[i].silent
                           /\ t[i].reply = IF i = n THEN verdict
                                           ELSE received[i].reply
    BY <1>1, RepliedRequests
  <2>2. received' = t
    BY <1>2
  <2> HIDE DEF t
  <2> QED BY <2>1, <2>2
<1>4. request'.reply = verdict /\ request'.silent = request.silent
  <2>1. n \in 1..n
    <3>1. n \in Nat \ {0}
      BY <1>3
    <3> HIDE DEF n
    <3> QED BY <3>1
  <2>2. request' = received'[n] /\ request = received[n]
    BY <1>3 DEF request, Last
  <2> QED BY <1>3, <2>1, <2>2
<1>5. verdict # "none"
  BY <1>1 DEF Replies
<1>6. \A q \in 1..n : received'[q].reply # "none"
  BY <1>3, <1>5 DEF KernelInv, InTurn
<1>7. Executions' = Executions
  BY <1>3 DEF Executions
<1>8. InTurn'
  <2>1. \A q \in Executions : received'[q].source \in Sources
    BY <1>3 DEF KernelInv, InTurn, Executions
  <2> QED BY <1>3, <1>6, <1>7, <2>1 DEF InTurn
<1>9. counter' = Cardinality(Loud(received'))
  BY <1>3 DEF KernelInv, OutputIsOwn
<1>10. ~Executing'
  BY DEF Executing
<1> QED BY <1>3, <1>4, <1>8, <1>9, <1>10 DEF verdict

LEMMA InspectAnswerKeeps ==
  ASSUME KernelInv, InspectAnswer
  PROVE  KernelInv'
<1>1. /\ answering /\ received' = Replied(TRUE) /\ answering' = FALSE
      /\ published' = <<Reply(TRUE)>> /\ counter' = counter
      /\ UNCHANGED <<promiseVars, outputVars>> /\ request.kind = "inspect"
  BY DEF InspectAnswer, outputVars
<1>2. /\ InTurn' /\ received' \in Seq(KernelRequests) /\ received' # <<>>
      /\ request'.reply = Verdict(TRUE) /\ request'.silent = request.silent
      /\ counter' = Cardinality(Loud(received')) /\ ~Executing'
  BY <1>1, RequestEnds
<1>3. request'.reply = "ok"
  BY <1>2 DEF Verdict
<1>4. /\ AnswersAgree' /\ published' \in Seq(KernelMessages)
      /\ \A i \in DOMAIN published' : published'[i].type \notin Printed
  BY <1>1, <1>2, <1>3, AnswersAgreeAtOnce
<1>5. KernelTypeOK'
  BY <1>1, <1>2, <1>4 DEF KernelInv, KernelTypeOK, outputVars
<1>6. SessionFollows'
  BY <1>1, <1>2 DEF KernelInv, SessionFollows, promiseVars, Executing
<1>7. OutputIsOwn'
  BY <1>1, <1>2, <1>4 DEF OutputIsOwn, Printed
<1> QED BY <1>2, <1>4, <1>5, <1>6, <1>7 DEF KernelInv

LEMMA EmitKeeps ==
  ASSUME KernelInv, EmitOutput \/ EmitDisplay
  PROVE  KernelInv'
<1>1. PICK type \in Printed, number \in Nat :
        /\ Emit(Message(type, number), outputEnabled)
        /\ type = "result" => number = currentExecutionCounter
  <2>1. CASE EmitOutput
    BY <2>1 DEF EmitOutput, Printed
  <2>2. CASE EmitDisplay
    <3>1. currentExecutionCounter \in Nat
      BY DEF KernelInv, KernelTypeOK
    <3> QED BY <2>2, <3>1 DEF EmitDisplay, Enabled, Printed
  <2> QED BY <2>1, <2>2
<1> DEFINE m == Message(type, number)
           n == Len(published)
<1>2. m \in KernelMessages /\ m.type = type /\ m.counter = number
  BY DEF Message, KernelMessages
<1>3. /\ status = "running"
      /\ published' = IF outputEnabled THEN Append(published, m) ELSE published
      /\ UNCHANGED <<promiseVars, requestVars, outputVars, completion, history>>
  BY <1>1 DEF Emit
<1> HIDE DEF m
<1>4. /\ Executing /\ answering /\ outputEnabled = ~request.silent
      /\ currentExecutionCounter = counter /\ published \in Seq(KernelMessages)
  BY <1>3 DEF KernelInv, SessionFollows, OutputIsOwn, Executing, KernelTypeOK
<1>5. /\ answering' = answering /\ received' = received /\ request' = request
      /\ Executing' = Executing /\ Executions' = Executions
  BY <1>3 DEF requestVars, request, Executing, Executions
<1>6. CASE request.silent
  <2>1. published' = published
    BY <1>3, <1>4, <1>6
  <2>2. KernelTypeOK' /\ SessionFollows' /\ OutputIsOwn'
    BY <1>3, <1>5, <2>1 DEF KernelInv, KernelTypeOK, SessionFollows, OutputIsOwn,
         promiseVars, outputVars
  <2>3. InTurn'
    BY <1>5 DEF KernelInv, InTurn
  <2>4. AnswersAgree'
    BY <1>4, <1>5, <2>1 DEF KernelInv, AnswersAgree
  <2> QED BY <2>2, <2>3, <2>4 DEF KernelInv
<1>7. CASE ~request.silent
  <2>1. /\ published' = Append(published, m) /\ published' \in Seq(KernelMessages)
        /\ DOMAIN published = 1..n /\ DOMAIN published' = 1..(n + 1) /\ n \in Nat
        /\ published'[n + 1] = m /\ \A i \in 1..n : published'[i] = published[i]
    <3>1. published' = Append(published, m)
      BY <1>3, <1>4, <1>7
    <3> QED BY <1>2, <1>4, <3>1, AppendOfSeq
  <2>2. KernelTypeOK'
    BY <1>3, <1>5, <2>1 DEF KernelInv, KernelTypeOK, outputVars
  <2>3. SessionFollows'
    BY <1>3, <1>5 DEF KernelInv, SessionFollows, promiseVars
  <2>4. \A i \in DOMAIN published' :
          /\ published'[i].type \in Printed
          /\ published'[i].type = "result" => published'[i].counter = counter
    <3>1. \A i \in 1..n :
            /\ published[i].type \in Printed
            /\ published[i].type = "result" => published[i].counter = counter
      BY <1>4, <2>1 DEF KernelInv, OutputIsOwn
    <3> QED BY <1>1, <1>2, <1>4, <2>1, <3>1
  <2>5. OutputIsOwn'
    BY <1>3, <1>5, <1>7, <2>4 DEF KernelInv, OutputIsOwn, outputVars
  <2>6. InTurn'
    BY <1>5 DEF KernelInv, InTurn
  <2>7. AnswersAgree'
    BY <1>4, <1>5, <1>7 DEF AnswersAgree
  <2> QED BY <2>2, <2>3, <2>5, <2>6, <2>7 DEF KernelInv
<1> QED BY <1>6, <1>7

\* The cell goes on, or ends, while nothing is published.
LEMMA SessionStepKeeps ==
  ASSUME KernelInv, LoadCell \/ EndCell \/ UNCHANGED kernelVars
  PROVE  KernelInv'
<1>1. UNCHANGED <<requestVars, outputVars, published, completion>>
  BY DEF LoadCell, EndCell, kernelVars
<1>2. /\ answering' = answering /\ received' = received /\ request' = request
      /\ Executing' = Executing /\ Executions' = Executions /\ published' = published
  BY <1>1 DEF requestVars, request, Executing, Executions
<1>3. KernelTypeOK' /\ OutputIsOwn'
  BY <1>1, <1>2 DEF KernelInv, KernelTypeOK, OutputIsOwn, outputVars
<1>4. InTurn'
  BY <1>2 DEF KernelInv, InTurn
<1>5. AnswersAgree'
  <2>1. OneReply' = OneReply /\ ErrorsAgree' = ErrorsAgree
    BY <1>2 DEF OneReply, ErrorsAgree, ErrorMessages
  <2> QED BY <1>2, <2>1 DEF KernelInv, AnswersAgree
<1>6. SessionFollows'
  <2>1. CASE LoadCell
    BY <1>2, <2>1 DEF KernelInv, SessionFollows, LoadCell, Load
  <2>2. CASE EndCell
    <3>1. Executing /\ (Reject \/ Complete \/ Raise \/ FailForGood)
      BY <2>2 DEF EndCell
    <3>2. CASE Reject \/ Complete \/ Raise
      BY <1>2, <3>1, <3>2 DEF SessionFollows, Reject, Complete, Raise, End
    <3>3. CASE FailForGood
      BY <1>2, <3>1, <3>3 DEF SessionFollows, FailForGood, End, SessionFailures
    <3> QED BY <3>1, <3>2, <3>3
  <2>3. CASE UNCHANGED kernelVars
    BY <1>2, <2>3 DEF KernelInv, SessionFollows, kernelVars, promiseVars
  <2> QED BY <2>1, <2>2, <2>3
<1> QED BY <1>3, <1>4, <1>5, <1>6 DEF KernelInv

\* The messages of a request that has been answered.
Answered(p, report, ok) == p \o report \o <<Reply(ok)>>

\* What is published with an answer: the messages of the program, those of a report,
\* and the reply.
LEMMA AnswerIsPublished ==
  ASSUME NEW p \in Seq(KernelMessages), \A i \in DOMAIN p : p[i].type \in Printed,
         NEW report \in Seq(KernelMessages), NEW ok \in BOOLEAN,
         \A i \in DOMAIN report : report[i].type \notin Replies \union {"result"},
         NEW q, q = Answered(p, report, ok)
  PROVE  LET n == Len(p) + Len(report)
         IN  /\ q \in Seq(KernelMessages) /\ n \in Nat /\ Len(q) = n + 1
             /\ DOMAIN q = 1..(n + 1)
             /\ q[n + 1].type = Verdict(ok)
             /\ \A i \in 1..n : q[i].type \notin Replies
             /\ \A i \in DOMAIN q : q[i].type = "result" =>
                  i \in DOMAIN p /\ q[i] = p[i]
             /\ \A i \in 1..(n + 1) : q[i].type = "error" <=>
                  /\ i > Len(p) /\ i <= n
                  /\ report[i - Len(p)].type = "error"
<1> DEFINE r == Reply(ok)
           a == Len(p)
           b == Len(report)
           u == p \o report
<1>1. r \in KernelMessages /\ r.type = Verdict(ok) /\ Verdict(ok) \in Replies
  BY DEF Reply, Message, Verdict, KernelMessages, Replies
<1>2. a \in Nat /\ b \in Nat /\ DOMAIN p = 1..a /\ DOMAIN report = 1..b
  BY LenProperties
<1>0. q = u \o <<r>>
  BY DEF Answered
<1> HIDE DEF r
<1>3. /\ u \in Seq(KernelMessages) /\ Len(u) = a + b
      /\ \A i \in 1..(a + b) : u[i] = IF i <= a THEN p[i] ELSE report[i - a]
  BY ConcatProperties
<1>4. <<r>> \in Seq(KernelMessages) /\ Len(<<r>>) = 1 /\ <<r>>[1] = r
  BY <1>1
<1> DEFINE n == a + b
<1>5. n \in Nat
  BY <1>2
<1>6. /\ q \in Seq(KernelMessages) /\ Len(q) = n + 1
      /\ \A i \in 1..(n + 1) : q[i] = IF i <= n THEN u[i] ELSE <<r>>[i - n]
  <2> HIDE DEF u, a, b
  <2>1. /\ u \o <<r>> \in Seq(KernelMessages) /\ Len(u \o <<r>>) = n + 1
        /\ \A i \in 1..(n + 1) : (u \o <<r>>)[i] = IF i <= n THEN u[i] ELSE <<r>>[i - n]
    BY <1>3, <1>4, ConcatProperties
  <2> QED BY <1>0, <2>1
<1>7. DOMAIN q = 1..(n + 1)
  <2> HIDE DEF n
  <2> QED BY <1>6, LenProperties
<1>8. q[n + 1] = r
  <2> HIDE DEF n
  <2> QED BY <1>4, <1>5, <1>6
<1>9. \A i \in 1..n : q[i] = IF i <= a THEN p[i] ELSE report[i - a]
  <2>1. \A i \in 1..n : q[i] = u[i]
    <3> HIDE DEF n, u
    <3>1. \A i \in 1..n : i \in 1..(n + 1) /\ i <= n
      BY <1>5
    <3> QED BY <1>6, <3>1
  <2> HIDE DEF u
  <2> QED BY <1>3, <2>1
<1>10. \A i \in 1..n : i > a => i - a \in 1..b
  <2> HIDE DEF a, b
  <2> QED BY <1>2
<1>11. \A i \in 1..n : i <= a => i \in DOMAIN p
  <2> HIDE DEF a, b
  <2> QED BY <1>2
<1>12. \A i \in 1..n : q[i].type \notin Replies
  <2>1. \A i \in DOMAIN p : p[i].type \notin Replies
    BY DEF Printed, Replies
  <2> HIDE DEF a, b, n
  <2> QED BY <1>2, <1>9, <1>10, <1>11, <2>1
<1>13. ASSUME NEW i \in DOMAIN q, q[i].type = "result"
       PROVE  i \in DOMAIN p /\ q[i] = p[i]
  <2>1. i # n + 1
    <3> HIDE DEF n
    <3> QED BY <1>1, <1>8, <1>13 DEF Replies
  <2>2. i \in 1..n
    <3> HIDE DEF n
    <3> QED BY <1>5, <1>7, <2>1
  <2> HIDE DEF a, b, n
  <2> QED BY <1>2, <1>9, <1>10, <1>11, <1>13, <2>2
<1>14. ASSUME NEW i \in 1..(n + 1)
       PROVE  q[i].type = "error" <=> /\ i > a /\ i <= n
                                      /\ report[i - a].type = "error"
  <2>1. CASE i = n + 1
    <3> HIDE DEF n
    <3> QED BY <1>1, <1>5, <1>8, <2>1 DEF Replies
  <2>2. CASE i # n + 1
    <3>1. i \in 1..n /\ i <= n
      <4> HIDE DEF n
      <4> QED BY <1>5, <2>2
    <3>2. CASE i <= a
      <4>1. q[i].type \in Printed
        <5> HIDE DEF a, n
        <5> QED BY <1>9, <1>11, <3>1, <3>2
      <4>2. ~(i > a)
        <5> HIDE DEF n, a
        <5> QED BY <1>2, <3>1, <3>2
      <4> QED BY <4>1, <4>2 DEF Printed
    <3>3. CASE ~(i <= a)
      <4>1. q[i] = report[i - a] /\ i > a
        <5> HIDE DEF a, n
        <5> QED BY <1>2, <1>9, <3>1, <3>3
      <4> QED BY <3>1, <4>1
    <3> QED BY <3>2, <3>3
  <2> QED BY <2>1, <2>2
<1> QED BY <1>1, <1>5, <1>6, <1>7, <1>8, <1>12, <1>13, <1>14 DEF r

\* How a cell can end.
Outcomes == SessionFailures \union {"diagnostics", "runtime error", "succeeded"}

\* A report ends with the error, if the cell has failed, and has no other.
LEMMA ReportTells ==
  ASSUME NEW n \in Nat,
         outcome \in Outcomes
  PROVE  /\ Report(n) \in Seq(KernelMessages)
         /\ \A i \in DOMAIN Report(n) :
              Report(n)[i].type \notin Replies \union {"result"}
         /\ outcome = "succeeded" =>
              \A i \in DOMAIN Report(n) : Report(n)[i].type # "error"
         /\ outcome # "succeeded" =>
              /\ Len(Report(n)) \in DOMAIN Report(n)
              /\ \A i \in DOMAIN Report(n) :
                   Report(n)[i].type = "error" <=> i = Len(Report(n))
<1> DEFINE d == Message("stderr", 0)
           e == Message("error", 0)
<1>1. d \in KernelMessages /\ d.type = "stderr" /\ e \in KernelMessages /\ e.type = "error"
  BY DEF Message, KernelMessages, Printed
<1>2. Diagnostics(n) = [i \in 1..n |-> d] /\ Errors = <<e>>
  BY DEF Diagnostics, Errors
<1> HIDE DEF d, e
<1>3. /\ Diagnostics(n) \in Seq(KernelMessages) /\ Len(Diagnostics(n)) = n
      /\ DOMAIN Diagnostics(n) = 1..n /\ \A i \in 1..n : Diagnostics(n)[i] = d
  BY <1>1, <1>2
<1>4. /\ Errors \in Seq(KernelMessages) /\ Len(Errors) = 1 /\ DOMAIN Errors = {1}
      /\ Errors[1] = e
  BY <1>1, <1>2
<1>5. CASE outcome \in SessionFailures \union {"diagnostics"}
  <2>1. Report(n) = Errors /\ outcome # "succeeded"
    BY <1>5 DEF Report, SessionFailures
  <2>2. /\ Report(n) \in Seq(KernelMessages) /\ DOMAIN Report(n) = {1}
        /\ Len(Report(n)) = 1 /\ Report(n)[1].type = "error"
    BY <1>1, <1>4, <2>1
  <2> QED BY <2>1, <2>2 DEF Replies
<1>6. CASE outcome = "runtime error"
  <2> DEFINE r == Diagnostics(n) \o Errors
  <2>1. Report(n) = r
    BY <1>6 DEF Report, SessionFailures
  <2>2. /\ r \in Seq(KernelMessages) /\ Len(r) = n + 1
        /\ \A i \in 1..(n + 1) : r[i] = IF i <= n THEN Diagnostics(n)[i]
                                        ELSE Errors[i - n]
    BY <1>3, <1>4, ConcatProperties
  <2> HIDE DEF r
  <2>3. DOMAIN r = 1..(n + 1) /\ n + 1 \in 1..(n + 1)
    BY <2>2, LenProperties
  <2>4. r[n + 1] = e
    BY <1>4, <2>2, <2>3
  <2>5. \A i \in 1..n : r[i] = d
    <3>1. \A i \in 1..n : i \in 1..(n + 1) /\ i <= n
      OBVIOUS
    <3> QED BY <1>3, <2>2, <3>1
  <2>6. \A i \in 1..(n + 1) : i = n + 1 \/ i \in 1..n
    OBVIOUS
  <2>7. \A i \in DOMAIN r : /\ r[i].type \in {"stderr", "error"}
                            /\ r[i].type = "error" <=> i = n + 1
    BY <1>1, <2>3, <2>4, <2>5, <2>6
  <2>8. outcome # "succeeded"
    BY <1>6
  <2> QED BY <2>1, <2>2, <2>3, <2>7, <2>8 DEF Replies
<1>7. CASE outcome = "succeeded"
  <2>1. Report(n) = Diagnostics(n)
    BY <1>7 DEF Report, SessionFailures
  <2>2. \A i \in DOMAIN Report(n) : Report(n)[i].type = "stderr"
    BY <1>1, <1>3, <2>1
  <2> QED BY <1>3, <1>7, <2>1, <2>2 DEF Replies
<1> QED BY <1>5, <1>6, <1>7 DEF Outcomes

LEMMA AnswerKeeps ==
  ASSUME KernelInv, Answer
  PROVE  KernelInv'
<1>1. PICK n \in 0..MaxDiagnostics :
        published' = published \o (IF request.silent THEN <<>> ELSE Report(n))
                               \o <<Reply(Succeeded)>>
  BY DEF Answer
<1>2. /\ Executing /\ answering /\ Returned /\ outputEnabled' = TRUE /\ answering' = FALSE
      /\ received' = Replied(Succeeded) /\ counter' = counter
      /\ UNCHANGED <<promiseVars, counter, currentExecutionCounter, completion, history>>
  BY DEF Answer, Executing
<1> DEFINE ok == Succeeded
           report == IF request.silent THEN <<>> ELSE Report(n)
           a == Len(published)
           b == Len(report)
           m == a + b
<1>3. n \in Nat /\ ok \in BOOLEAN
  BY KernelAssumption DEF Succeeded
<1>4. outcome \in Outcomes
  BY <1>2 DEF KernelInv, SessionFollows, Returned, Outcomes
<1>5. /\ InTurn' /\ received' \in Seq(KernelRequests) /\ received' # <<>>
      /\ request'.reply = Verdict(ok) /\ request'.silent = request.silent
      /\ counter' = Cardinality(Loud(received')) /\ ~Executing'
  <2> HIDE DEF ok
  <2>1. received' = Replied(ok)
    BY <1>2 DEF ok
  <2> QED BY <1>2, <1>3, <2>1, RequestEnds
<1>6. /\ report \in Seq(KernelMessages)
      /\ \A i \in DOMAIN report : report[i].type \notin Replies \union {"result"}
      /\ ok => \A i \in DOMAIN report : report[i].type # "error"
      /\ ~ok /\ ~request.silent =>
           b \in DOMAIN report /\ \A i \in DOMAIN report :
                                    report[i].type = "error" <=> i = b
  <2>1. CASE request.silent
    <3>1. report = <<>>
      BY <2>1
    <3> HIDE DEF report
    <3> QED BY <2>1, <3>1, EmptySeq
  <2>2. CASE ~request.silent
    <3>1. report = Report(n)
      BY <2>2
    <3>2. ok <=> outcome = "succeeded"
      BY DEF Succeeded
    <3> HIDE DEF report, ok
    <3> QED BY <1>3, <1>4, <2>2, <3>1, <3>2, ReportTells
  <2> QED BY <2>1, <2>2
<1> HIDE DEF ok, report
<1>7. published \in Seq(KernelMessages) /\ \A i \in DOMAIN published : published[i].type \in Printed
  BY <1>2 DEF KernelInv, KernelTypeOK, OutputIsOwn
<1>8. published' = Answered(published, report, ok)
  BY <1>1 DEF report, ok, Answered
<1>9. /\ published' \in Seq(KernelMessages) /\ m \in Nat /\ Len(published') = m + 1
      /\ DOMAIN published' = 1..(m + 1)
      /\ published'[m + 1].type = Verdict(ok)
      /\ \A i \in 1..m : published'[i].type \notin Replies
      /\ \A i \in DOMAIN published' : published'[i].type = "result" =>
           i \in DOMAIN published /\ published'[i] = published[i]
      /\ \A i \in 1..(m + 1) : published'[i].type = "error" <=>
           /\ i > a /\ i <= m
           /\ report[i - a].type = "error"
  BY <1>3, <1>6, <1>7, <1>8, AnswerIsPublished
<1>10. KernelTypeOK'
  BY <1>2, <1>5, <1>9 DEF KernelInv, KernelTypeOK
<1>11. SessionFollows'
  <2>1. UNCHANGED <<status, current, outcome>>
    BY <1>2 DEF promiseVars
  <2> QED BY <1>2, <1>5, <2>1 DEF KernelInv, SessionFollows, Returned
<1>12. OutputIsOwn'
  <2>1. \A i \in DOMAIN published' :
          published'[i].type = "result" => published'[i].counter = counter
    BY <1>9 DEF KernelInv, OutputIsOwn
  <2> QED BY <1>2, <1>5, <2>1 DEF OutputIsOwn
<1> HIDE DEF m
<1>13. published' # <<>> /\ m + 1 \in 1..(m + 1) /\ Last(published') = published'[m + 1]
  BY <1>9, EmptySeq DEF Last
<1>14. DOMAIN Front(published') = 1..m
  BY <1>9 DEF Front
<1>15. OneReply'
  BY <1>5, <1>9, <1>13, <1>14 DEF OneReply
<1>16. ErrorsAgree'
  <2>1. request'.reply = IF ok THEN "ok" ELSE "failed"
    BY <1>5 DEF Verdict
  <2>2. CASE ok \/ request.silent
    <3>1. \A i \in DOMAIN report : report[i].type # "error"
      <4>1. request.silent => report = <<>>
        BY DEF report
      <4>2. request.silent => DOMAIN report = {}
        BY <4>1
      <4> QED BY <1>6, <2>2, <4>2
    <3>2. \A i \in 1..m : i > a => i - a \in DOMAIN report
      <4>1. a \in Nat /\ b \in Nat /\ DOMAIN report = 1..b
        BY <1>6, <1>7, LenProperties
      <4> HIDE DEF a, b
      <4> QED BY <4>1 DEF m
    <3>3. \A i \in 1..(m + 1) : i > a /\ i <= m => i \in 1..m
      BY <1>9
    <3>4. ErrorMessages' = {}
      BY <1>9, <3>1, <3>2, <3>3 DEF ErrorMessages
    <3> QED BY <1>5, <2>1, <2>2, <3>4 DEF ErrorsAgree
  <2>3. CASE ~ok /\ ~request.silent
    <3>1. /\ a \in Nat /\ b \in Nat /\ DOMAIN report = 1..b /\ b \in 1..b
          /\ \A i \in 1..b : report[i].type = "error" <=> i = b
      BY <1>6, <1>7, <2>3, LenProperties
    <3>2. \A i \in 1..(m + 1) : i > a /\ i <= m => i - a \in 1..b /\ (i - a = b <=> i = m)
      <4> HIDE DEF a, b
      <4> QED BY <3>1 DEF m
    <3>3. m \in 1..(m + 1) /\ m > a
      <4> HIDE DEF a, b
      <4> QED BY <3>1 DEF m
    <3>4. \A i \in 1..(m + 1) : published'[i].type = "error" <=> i = m
      <4> HIDE DEF a, b
      <4> QED BY <1>9, <3>1, <3>2, <3>3
    <3>5. ErrorMessages' = {m}
      BY <1>9, <3>3, <3>4 DEF ErrorMessages
    <3>6. Len(published') - 1 = m
      BY <1>9
    <3> QED BY <1>5, <2>1, <2>3, <3>5, <3>6 DEF ErrorsAgree
  <2> QED BY <2>2, <2>3
<1>17. request.silent => \A i \in DOMAIN published' : published'[i].type \in Replies
  <2> SUFFICES ASSUME request.silent PROVE \A i \in DOMAIN published' : published'[i].type \in Replies
    OBVIOUS
  <2>1. published = <<>> /\ report = <<>>
    BY <1>2 DEF KernelInv, OutputIsOwn, report
  <2>2. m = 0
    BY <2>1 DEF m
  <2>3. Verdict(ok) \in Replies
    BY DEF Verdict, Replies
  <2>4. DOMAIN published' = {1} /\ published'[1].type = Verdict(ok)
    BY <1>9, <2>2
  <2> QED BY <2>3, <2>4
<1>18. AnswersAgree'
  BY <1>5, <1>15, <1>16, <1>17 DEF AnswersAgree
<1> QED BY <1>5, <1>10, <1>11, <1>12, <1>18 DEF KernelInv

LEMMA KernelInvHolds == KernelSpec => []KernelInv
<1>1. KernelInit => KernelInv
  <2> SUFFICES ASSUME KernelInit PROVE KernelInv
    OBVIOUS
  <2>1. /\ received = <<>> /\ published = <<>> /\ answering = FALSE /\ counter = 0
        /\ currentExecutionCounter = 0 /\ status = "ready" /\ ~Executing
    BY DEF KernelInit, PromiseInit, Executing
  <2>2. KernelTypeOK
    BY <2>1, EmptySeq DEF KernelTypeOK
  <2>3. DOMAIN received = {} /\ DOMAIN published = {}
    BY <2>1
  <2>4. InTurn /\ AnswersAgree
    BY <2>1, <2>3 DEF InTurn, Executions, AnswersAgree
  <2>5. SessionFollows
    BY <2>1 DEF SessionFollows
  <2>6. Cardinality(Loud(received)) = 0
    <3>1. Loud(received) = {}
      BY <2>3 DEF Loud
    <3> QED BY <3>1, FS_EmptySet
  <2>7. OutputIsOwn
    BY <2>1, <2>3, <2>6 DEF OutputIsOwn
  <2> QED BY <2>2, <2>4, <2>5, <2>7 DEF KernelInv
<1>2. KernelInv /\ [KernelNext]_kernelVars => KernelInv'
  <2> SUFFICES ASSUME KernelInv, [KernelNext]_kernelVars PROVE KernelInv'
    OBVIOUS
  <2>1. CASE \E s \in Sources, silent \in BOOLEAN : ExecuteRequest(s, silent)
    BY <2>1, ExecuteRequestKeeps
  <2>2. CASE LoadCell \/ EndCell \/ UNCHANGED kernelVars
    BY <2>2, SessionStepKeeps
  <2>3. CASE EmitOutput \/ EmitDisplay
    BY <2>3, EmitKeeps
  <2>4. CASE Answer
    BY <2>4, AnswerKeeps
  <2>5. CASE \E text \in Texts : \E cursorPosition \in -1..(Len(text) + 1) :
               CompleteRequest(text, cursorPosition)
    <3>1. AnswerAtOnce("complete") /\ UNCHANGED promiseVars
      BY <2>5 DEF CompleteRequest
    <3>2. "complete" \in RequestKinds \ {"execute", "inspect"}
      BY DEF RequestKinds
    <3> QED BY <3>1, <3>2, AnswerAtOnceKeeps
  <2>6. CASE InspectRequest
    BY <2>6, InspectRequestKeeps
  <2>7. CASE InspectAnswer
    BY <2>7, InspectAnswerKeeps
  <2>8. CASE (\E kind \in {"is_complete", "kernel_info"} : OtherRequest(kind)) \/ InterruptRequest
    <3>1. PICK kind \in {"is_complete", "kernel_info", "interrupt"} : OtherRequest(kind)
      BY <2>8 DEF InterruptRequest
    <3>2. AnswerAtOnce(kind) /\ UNCHANGED promiseVars
      BY <3>1 DEF OtherRequest
    <3>3. kind \in RequestKinds \ {"execute", "inspect"}
      BY DEF RequestKinds
    <3> QED BY <3>2, <3>3, AnswerAtOnceKeeps
  <2>9. CASE ShutdownRequest
    <3>1. AnswerAtOnce("shutdown") /\ Destroy
      BY <2>9 DEF ShutdownRequest
    <3>2. "shutdown" \in RequestKinds \ {"execute", "inspect"}
      BY DEF RequestKinds
    <3> QED BY <3>1, <3>2, AnswerAtOnceKeeps
  <2> QED BY <2>1, <2>2, <2>3, <2>4, <2>5, <2>6, <2>7, <2>8, <2>9 DEF KernelNext
<1> QED BY <1>1, <1>2, PTL DEF KernelSpec

LEMMA KernelInvAnswers == KernelInv => RequestsAreAnswered
<1> SUFFICES ASSUME KernelInv PROVE RequestsAreAnswered
  OBVIOUS
<1>1. {q \in Executions : ~received[q].silent} = Loud(received)
  BY DEF Executions, Loud
<1>2. \A i \in DOMAIN published : published[i].type = "result" =>
        published[i].counter = Cardinality(Loud(received))
  BY DEF KernelInv, OutputIsOwn
<1> QED BY <1>1, <1>2 DEF RequestsAreAnswered, KernelInv, InTurn, AnswersAgree

\* Every request that was received is answered once and last, with one verdict, for any
\* requests, cells, diagnostics and messages of the program (execute_request_impl and the
\* other handlers).
THEOREM EveryRequestIsAnswered == KernelSpec => []RequestsAreAnswered
<1>1. KernelInv => RequestsAreAnswered
  BY KernelInvAnswers
<1> QED BY <1>1, KernelInvHolds, PTL

-----------------------------------------------------------------------------
\* What the session keeps of a request that was answered, and of all of them.
Part(r) ==
  IF r.kind = "execute" /\ r.reply = "ok" THEN Declared(r.source) ELSE <<>>

Kept(requests) == [q \in DOMAIN requests |-> Part(requests[q])]

\* The execution in progress has succeeded, and its reply is still to come.
Completed == Executing /\ status = "ready" /\ outcome = "succeeded"

Unreplied == IF Completed THEN Declared(request.source) ELSE <<>>

VariablesAreReplied == variables = FlattenSeq(Kept(received)) \o Unreplied

\* The last cell that may have been recorded.
Recorded == IF status = "compiling" THEN submitted - 1 ELSE submitted

\* Tooling knows cells, and while a text is inspected perhaps that text.
IsHistory(h) ==
  /\ h \in Seq(1..Recorded) /\ IsInjective(h)
  /\ history = h \/ (answering /\ request.kind = "inspect" /\ history = Append(h, 0))

HistoryIsOfCells == submitted \in Nat /\ Recorded \in Nat /\ \E h \in Seq(Nat) : IsHistory(h)

SessionVariables == UNION {Range(Declared(s)) : s \in Sources}

LEMMA DeclaredIsSeq ==
  ASSUME NEW s \in Sources
  PROVE  Declared(s) \in Seq(SessionVariables)
<1>1. Len(s.vars) \in Nat
  BY KernelAssumption, LenProperties
<1> DEFINE n == Len(s.vars)
           d == Declared(s)
           value(i) == [name |-> s.vars[i].name, type |-> s.vars[i].type]
<1>2. d = [i \in 1..n |-> value(i)]
  BY DEF Declared
<1>3. DOMAIN d = 1..n /\ d = [i \in 1..n |-> d[i]]
  BY <1>2
<1>4. \A i \in 1..n : d[i] \in SessionVariables
  <2> HIDE DEF n
  <2>1. \A i \in 1..n : d[i] \in Range(d)
    <3> HIDE DEF d
    <3> QED BY <1>3 DEF Range
  <2> QED BY <2>1 DEF SessionVariables
<1>5. d \in [1..n -> SessionVariables]
  <2> HIDE DEF n, d
  <2> QED BY <1>3, <1>4
<1> QED BY <1>1, <1>5, SeqDef

SourcesKnown(requests) ==
  \A q \in DOMAIN requests : requests[q].kind = "execute" => requests[q].source \in Sources

LEMMA PartIsSeq ==
  ASSUME NEW r, r.kind = "execute" => r.source \in Sources
  PROVE  Part(r) \in Seq(SessionVariables)
BY DeclaredIsSeq, EmptySeq DEF Part

LEMMA KeptIsSeq ==
  ASSUME NEW S, NEW s \in Seq(S), SourcesKnown(s)
  PROVE  /\ Kept(s) \in Seq(Seq(SessionVariables))
         /\ Len(Kept(s)) = Len(s)
         /\ \A q \in 1..Len(s) : Kept(s)[q] = Part(s[q])
<1>1. Len(s) \in Nat /\ DOMAIN s = 1..Len(s)
  BY LenProperties
<1> DEFINE k == Kept(s)
           n == Len(s)
<1>2. k = [q \in 1..n |-> Part(s[q])]
  BY <1>1 DEF Kept
<1>3. \A q \in 1..n : k[q] = Part(s[q]) /\ Part(s[q]) \in Seq(SessionVariables)
  <2> HIDE DEF k
  <2> QED BY <1>1, <1>2, PartIsSeq DEF SourcesKnown
<1>4. k \in [1..n -> Seq(SessionVariables)]
  <2> HIDE DEF n, k
  <2> QED BY <1>2, <1>3
<1>5. k \in Seq(Seq(SessionVariables))
  BY <1>1, <1>4, SeqDef
<1>6. Len(k) = n
  <2>1. DOMAIN k = 1..n /\ DOMAIN k = 1..Len(k) /\ Len(k) \in Nat
    <3> HIDE DEF k, n
    <3> QED BY <1>4, <1>5, LenProperties
  <2> HIDE DEF k
  <2> QED BY <1>1, <2>1
<1> QED BY <1>3, <1>5, <1>6

LEMMA KeptOfAppend ==
  ASSUME NEW S, NEW s \in Seq(S), NEW r \in S, SourcesKnown(s),
         r.kind = "execute" => r.source \in Sources
  PROVE  /\ Kept(Append(s, r)) = Append(Kept(s), Part(r))
         /\ FlattenSeq(Kept(s)) \in Seq(SessionVariables)
         /\ FlattenSeq(Kept(Append(s, r))) = FlattenSeq(Kept(s)) \o Part(r)
<1> DEFINE t == Append(s, r)
           n == Len(s)
           V == SessionVariables
<1>1. /\ t \in Seq(S) /\ Len(t) = n + 1 /\ n \in Nat /\ t[n + 1] = r
      /\ DOMAIN s = 1..n /\ DOMAIN t = 1..(n + 1)
      /\ \A i \in 1..n : t[i] = s[i]
  BY AppendOfSeq
<1> HIDE DEF t, V
<1>2. SourcesKnown(t)
  BY <1>1 DEF SourcesKnown
<1>3. /\ Kept(t) \in Seq(Seq(V)) /\ Len(Kept(t)) = n + 1
      /\ \A q \in 1..(n + 1) : Kept(t)[q] = Part(t[q])
  BY <1>1, <1>2, KeptIsSeq DEF V
<1>4. /\ Kept(s) \in Seq(Seq(V)) /\ Len(Kept(s)) = n
      /\ \A q \in 1..n : Kept(s)[q] = Part(s[q])
  BY KeptIsSeq DEF V
<1>5. Part(r) \in Seq(V)
  BY PartIsSeq DEF V
<1> DEFINE u == Append(Kept(s), Part(r))
<1>6. /\ u \in Seq(Seq(V)) /\ Len(u) = n + 1 /\ u[n + 1] = Part(r)
      /\ \A i \in 1..n : u[i] = Kept(s)[i]
  BY <1>4, <1>5, AppendOfSeq
<1> HIDE DEF u
<1>7. \A q \in 1..(n + 1) : u[q] = Kept(t)[q]
  <2> HIDE DEF n
  <2>1. \A q \in 1..(n + 1) : q = n + 1 \/ q \in 1..n
    BY <1>1
  <2> QED BY <1>1, <1>3, <1>4, <1>6, <2>1
<1>8. u = Kept(t)
  BY <1>3, <1>6, <1>7, SeqEqual
<1>9. FlattenSeq(Kept(s)) \in Seq(V) /\ FlattenSeq(u) = FlattenSeq(Kept(s)) \o Part(r)
  BY <1>4, <1>5, FlattenOfAppend DEF u
<1> QED BY <1>8, <1>9 DEF t, u, V

\* What is kept when the last request gets its reply.
LEMMA KeptOfReply ==
  ASSUME NEW S, NEW s \in Seq(S), NEW t \in Seq(S), s # <<>>, Len(t) = Len(s),
         \A i \in 1..(Len(s) - 1) : t[i] = s[i],
         SourcesKnown(s), SourcesKnown(t), Part(s[Len(s)]) = <<>>
  PROVE  /\ FlattenSeq(Kept(s)) \in Seq(SessionVariables)
         /\ FlattenSeq(Kept(t)) = FlattenSeq(Kept(s)) \o Part(t[Len(s)])
<1>1. PICK u \in Seq(S) : \E x \in S : s = Append(u, x)
  BY SequenceEmptyOrAppend
<1>2. PICK x \in S : s = Append(u, x)
  BY <1>1
<1> DEFINE n == Len(u)
<1>3. /\ Len(s) = n + 1 /\ n \in Nat /\ s[n + 1] = x /\ DOMAIN u = 1..n
      /\ DOMAIN s = 1..(n + 1) /\ \A i \in 1..n : s[i] = u[i]
  BY <1>2, AppendOfSeq
<1>4. DOMAIN t = 1..(n + 1) /\ t[n + 1] \in S
  <2>1. n + 1 \in 1..Len(t)
    BY <1>3
  <2> QED BY <1>3, <2>1, LenProperties, ElementOfSeq
<1>5. t = Append(u, t[n + 1])
  <2> DEFINE v == Append(u, t[n + 1])
  <2>1. /\ v \in Seq(S) /\ Len(v) = n + 1 /\ v[n + 1] = t[n + 1]
        /\ \A i \in 1..n : v[i] = u[i]
    BY <1>4, AppendOfSeq
  <2>2. \A i \in 1..n : t[i] = s[i]
    <3>1. Len(s) - 1 = n
      BY <1>3
    <3> QED BY <3>1
  <2> HIDE DEF v
  <2>3. \A i \in 1..(n + 1) : v[i] = t[i]
    <3>1. \A i \in 1..(n + 1) : i = n + 1 \/ i \in 1..n
      BY <1>3
    <3> HIDE DEF n
    <3> QED BY <1>3, <2>1, <2>2, <3>1
  <2>4. Len(t) = n + 1
    BY <1>3
  <2>5. v = t
    <3> HIDE DEF n
    <3> QED BY <2>1, <2>3, <2>4, SeqEqual
  <2> QED BY <2>5 DEF v
<1>6. SourcesKnown(u)
  <2> HIDE DEF n
  <2>1. \A q \in 1..n : q \in 1..(n + 1) /\ s[q] = u[q]
    BY <1>3
  <2> QED BY <1>3, <2>1 DEF SourcesKnown
<1>7. /\ x.kind = "execute" => x.source \in Sources
      /\ t[n + 1].kind = "execute" => t[n + 1].source \in Sources
  <2>1. n + 1 \in 1..(n + 1)
    BY <1>3
  <2> HIDE DEF n
  <2> QED BY <1>3, <1>4, <2>1 DEF SourcesKnown
<1>8. /\ FlattenSeq(Kept(u)) \in Seq(SessionVariables)
      /\ FlattenSeq(Kept(s)) = FlattenSeq(Kept(u)) \o Part(x)
  BY <1>2, <1>6, <1>7, KeptOfAppend
<1>9. FlattenSeq(Kept(t)) = FlattenSeq(Kept(u)) \o Part(t[n + 1])
  <2> DEFINE y == t[n + 1]
  <2>1. y \in S /\ t = Append(u, y) /\ y.kind = "execute" => y.source \in Sources
    BY <1>4, <1>5, <1>7
  <2> HIDE DEF y
  <2>2. FlattenSeq(Kept(t)) = FlattenSeq(Kept(u)) \o Part(y)
    BY <1>4, <1>5, <1>6, <1>7, KeptOfAppend DEF y
  <2> QED BY <2>2 DEF y
<1>10. Part(x) = <<>>
  BY <1>3
<1>11. FlattenSeq(Kept(s)) = FlattenSeq(Kept(u))
  BY <1>8, <1>10, ConcatEmptySeq
<1> QED BY <1>3, <1>8, <1>9, <1>11

\* What the session's variables are while requests come and nothing is executed.
LEMMA RequestKeepsVariables ==
  ASSUME KernelInv, VariablesAreReplied, ~answering, NEW r \in KernelRequests,
         r.kind = "execute" => r.source \in Sources, r.reply = "ok" => r.kind # "execute",
         received' = Append(received, r), variables' = variables, ~Completed'
  PROVE  VariablesAreReplied'
<1>1. received \in Seq(KernelRequests) /\ SourcesKnown(received)
  BY DEF KernelInv, KernelTypeOK, InTurn, Executions, SourcesKnown
<1>2. Part(r) = <<>>
  BY DEF Part
<1>3. /\ FlattenSeq(Kept(received)) \in Seq(SessionVariables)
      /\ FlattenSeq(Kept(received')) = FlattenSeq(Kept(received)) \o <<>>
  BY <1>1, <1>2, KeptOfAppend
<1>4. Unreplied = <<>> /\ Unreplied' = <<>>
  BY DEF Unreplied, Completed, Executing
<1>5. FlattenSeq(Kept(received')) = FlattenSeq(Kept(received))
  BY <1>3, ConcatEmptySeq
<1> QED BY <1>4, <1>5 DEF VariablesAreReplied

LEMMA AnswerKeepsVariables ==
  ASSUME KernelInv, VariablesAreReplied, answering, NEW ok \in BOOLEAN,
         received' = Replied(ok), answering' = FALSE,
         variables' = variables, request.kind = "execute" => (ok <=> Completed)
  PROVE  VariablesAreReplied'
<1> DEFINE n == Len(received)
           r == received[n]
           v == Verdict(ok)
<1>1. /\ received \in Seq(KernelRequests) /\ received # <<>> /\ v \in Replies
      /\ SourcesKnown(received) /\ received' = [received EXCEPT ![n].reply = v]
  BY DEF KernelInv, KernelTypeOK, InTurn, Executions, SourcesKnown, Verdict, Replies,
     Replied
<1>2. n \in Nat \ {0} /\ n \in 1..n /\ DOMAIN received = 1..n
  BY <1>1, LenProperties, EmptySeq
<1> DEFINE t == [received EXCEPT ![n].reply = v]
<1> HIDE DEF v
<1>3. /\ t \in Seq(KernelRequests) /\ Len(t) = n /\ DOMAIN t = 1..n
      /\ \A i \in 1..n : /\ t[i].kind = received[i].kind
                         /\ t[i].source = received[i].source
                         /\ t[i].reply = IF i = n THEN v ELSE received[i].reply
  BY <1>1, RepliedRequests
<1>a. \A i \in 1..n : i # n => t[i] = received[i]
  BY <1>2
<1> HIDE DEF t, n
<1>b. \A i \in 1..(n - 1) : t[i] = received[i]
  <2>1. \A i \in 1..(n - 1) : i \in 1..n /\ i # n
    BY <1>2
  <2> QED BY <1>a, <2>1
<1>4. SourcesKnown(t)
  BY <1>1, <1>2, <1>3 DEF SourcesKnown
<1>5. received[n].reply = "none" /\ request = received[n]
  BY <1>2 DEF KernelInv, InTurn, request, Last, n
<1>6. Part(received[n]) = <<>>
  BY <1>5 DEF Part
<1>7. /\ FlattenSeq(Kept(received)) \in Seq(SessionVariables)
      /\ FlattenSeq(Kept(t)) = FlattenSeq(Kept(received)) \o Part(t[n])
  <2>1. Part(received[Len(received)]) = <<>> /\ Len(t) = Len(received)
        /\ \A i \in 1..(Len(received) - 1) : t[i] = received[i]
    BY <1>3, <1>6, <1>b DEF n
  <2> QED BY <1>1, <1>3, <1>4, <2>1, KeptOfReply DEF n
<1>8. Part(t[n]) = Unreplied
  <2>1. /\ t[n].kind = request.kind /\ t[n].source = request.source
        /\ t[n].reply = v /\ v = IF ok THEN "ok" ELSE "failed"
    BY <1>2, <1>3, <1>5 DEF v, Verdict
  <2>2. CASE request.kind = "execute"
    BY <2>1, <2>2 DEF Part, Unreplied
  <2>3. CASE request.kind # "execute"
    BY <2>1, <2>3 DEF Part, Unreplied, Completed, Executing
  <2> QED BY <2>2, <2>3
<1>9. FlattenSeq(Kept(t)) = variables
  BY <1>7, <1>8 DEF VariablesAreReplied
<1>10. Unreplied' = <<>>
  BY DEF Unreplied, Completed, Executing
<1>11. received' = t
  BY <1>1 DEF t
<1>12. variables \in Seq(SessionVariables)
  <2>1. Part(t[n]) \in Seq(SessionVariables)
    BY <1>2, <1>3, <1>4, PartIsSeq DEF SourcesKnown
  <2> QED BY <1>7, <1>9, <2>1, ConcatProperties
<1> QED BY <1>9, <1>10, <1>11, <1>12, ConcatEmptySeq DEF VariablesAreReplied

\* What the cell in progress does to the variables.
LEMMA SessionStepKeepsVariables ==
  ASSUME KernelInv, VariablesAreReplied, received' = received, answering' = answering,
         \/ Reject \/ Load \/ Complete \/ Raise \/ FailForGood
         \/ UNCHANGED promiseVars
  PROVE  VariablesAreReplied'
<1>1. request' = request /\ Executing' = Executing
  BY DEF request, Executing
<1>2. CASE UNCHANGED promiseVars
  BY <1>1, <1>2 DEF VariablesAreReplied, Unreplied, Completed, promiseVars
<1>3. CASE Complete
  <2>1. /\ Unreplied = <<>> /\ Executing /\ current = request.source
        /\ variables' = variables \o Declared(current)
    BY <1>3 DEF KernelInv, SessionFollows, Complete, Unreplied, Completed
  <2>2. Unreplied' = Declared(request.source)
    BY <1>1, <1>3, <2>1 DEF Unreplied, Completed, Complete, End
  <2>3. received \in Seq(KernelRequests) /\ SourcesKnown(received)
    BY DEF KernelInv, KernelTypeOK, InTurn, Executions, SourcesKnown
  <2>4. FlattenSeq(Kept(received)) \in Seq(SessionVariables)
    <3>1. Request("inspect") \in KernelRequests /\ Request("inspect").kind = "inspect"
      BY RequestsAreKernelRequests DEF RequestKinds
    <3> QED BY <2>3, <3>1, KeptOfAppend
  <2>5. variables = FlattenSeq(Kept(received))
    BY <2>1, <2>4, ConcatEmptySeq DEF VariablesAreReplied
  <2> QED BY <2>1, <2>2, <2>5 DEF VariablesAreReplied
<1>4. CASE Reject \/ Load \/ Raise \/ FailForGood
  <2>1. /\ status \in {"compiling", "running"} /\ variables' = variables
    BY <1>4 DEF Reject, Load, Raise, FailForGood
  <2>2. ~Completed
    BY <2>1 DEF Completed
  <2>3. ~Completed'
    BY <1>4 DEF Reject, Load, Raise, FailForGood, End, Completed
  <2> QED BY <2>1, <2>2, <2>3 DEF VariablesAreReplied, Unreplied
<1> QED BY <1>2, <1>3, <1>4

-----------------------------------------------------------------------------
\* A step that leaves the history alone, and may submit a cell.
LEMMA HistoryStays ==
  ASSUME KernelInv, HistoryIsOfCells, history' = history,
         ~(answering /\ request.kind = "inspect"),
         \/ submitted' = submitted /\ (status' = "compiling" => status = "compiling")
         \/ submitted' = submitted + 1 /\ status # "compiling"
  PROVE  HistoryIsOfCells'
<1>1. PICK h \in Seq(Nat) : IsHistory(h)
  BY DEF HistoryIsOfCells
<1>2. /\ history = h /\ IsInjective(h) /\ submitted \in Nat /\ Recorded \in Nat
      /\ h \in Seq(1..Recorded)
  BY <1>1 DEF IsHistory, HistoryIsOfCells
<1>3. submitted' \in Nat /\ Recorded' \in Nat /\ Recorded <= Recorded'
  BY <1>2 DEF Recorded
<1>4. h \in Seq(1..Recorded')
  <2>1. 1..Recorded \subseteq 1..Recorded'
    BY <1>2, <1>3
  <2> QED BY <1>2, <2>1, SeqMonotonic
<1>5. history' = h
  BY <1>2
<1>6. IsHistory(h)'
  BY <1>2, <1>4, <1>5 DEF IsHistory
<1> QED BY <1>3, <1>6 DEF HistoryIsOfCells

\* A cell that is committed is another one.
LEMMA LoadKeepsHistory ==
  ASSUME KernelInv, HistoryIsOfCells, LoadCell
  PROVE  HistoryIsOfCells'
<1>1. /\ status = "compiling" /\ status' = "running" /\ submitted' = submitted
      /\ request' = request /\ Executing /\ ~(answering /\ request.kind = "inspect")
      /\ history' = Append(history, submitted) \/ history' = history
  BY DEF LoadCell, Load, KernelInv, SessionFollows, Executing, requestVars, request
<1>2. CASE history' = history
  BY <1>1, <1>2, HistoryStays
<1>3. CASE history' = Append(history, submitted)
  <2>1. PICK h \in Seq(Nat) : IsHistory(h)
    BY DEF HistoryIsOfCells
  <2>2. /\ history = h /\ IsInjective(h) /\ submitted \in Nat
        /\ Recorded = submitted - 1 /\ Recorded \in Nat /\ h \in Seq(1..Recorded)
    BY <1>1, <2>1 DEF IsHistory, HistoryIsOfCells, Recorded
  <2>3. Recorded' = submitted
    BY <1>1 DEF Recorded
  <2>4. 1..Recorded \subseteq 1..submitted /\ submitted \in 1..submitted
    BY <2>2
  <2>5. h \in Seq(1..submitted)
    BY <2>2, <2>4, SeqMonotonic
  <2> DEFINE n == Len(h)
  <2>6. PICK g : g = Append(h, submitted)
    OBVIOUS
  <2>7. /\ g \in Seq(1..submitted) /\ Len(g) = n + 1 /\ n \in Nat
        /\ DOMAIN h = 1..n /\ DOMAIN g = 1..(n + 1) /\ g[n + 1] = submitted
        /\ \A i \in 1..n : g[i] = h[i]
    BY <2>4, <2>5, <2>6, AppendOfSeq
  <2>8. \A i \in 1..n : h[i] # submitted
    <3>1. \A i \in 1..n : h[i] \in 1..Recorded
      BY <2>2, ElementOfSeq
    <3> HIDE DEF n
    <3> QED BY <2>2, <3>1
  <2> HIDE DEF n
  <2>9. \A i \in 1..(n + 1) : i \in 1..n \/ i = n + 1
    BY <2>7
  <2>10. IsInjective(g)
    BY <2>2, <2>7, <2>8, <2>9 DEF IsInjective
  <2>11. g \in Seq(1..Recorded') /\ g \in Seq(Nat) /\ Recorded' \in Nat /\ submitted' \in Nat
    <3>1. 1..submitted \subseteq Nat
      OBVIOUS
    <3>2. g \in Seq(Nat)
      BY <2>7, <3>1, SeqMonotonic
    <3> QED BY <1>1, <2>2, <2>3, <2>7, <3>2
  <2>12. history' = g
    BY <1>3, <2>2, <2>6
  <2>13. IsHistory(g)'
    BY <2>10, <2>11, <2>12 DEF IsHistory
  <2> QED BY <2>11, <2>13 DEF HistoryIsOfCells
<1> QED BY <1>1, <1>2, <1>3

LEMMA InspectKeepsHistory ==
  ASSUME KernelInv, HistoryIsOfCells, InspectRequest
  PROVE  HistoryIsOfCells'
<1> DEFINE r == Request("inspect")
<1>1. /\ ~answering /\ received' = Append(received, r) /\ answering' = TRUE
      /\ history' = Append(history, 0) \/ history' = history
      /\ status' = status /\ submitted' = submitted
  BY DEF InspectRequest, CanReceive, promiseVars
<1>2. r \in KernelRequests /\ r.kind = "inspect"
  BY RequestsAreKernelRequests DEF RequestKinds
<1> HIDE DEF r
<1>3. request'.kind = "inspect"
  <2>1. received \in Seq(KernelRequests)
    BY DEF KernelInv, KernelTypeOK
  <2>2. Last(Append(received, r)) = r
    BY <1>2, <2>1, AppendOfSeq
  <2>3. request' = r
    BY <1>1, <2>2 DEF request
  <2> QED BY <1>2, <2>3
<1>4. PICK h \in Seq(Nat) : IsHistory(h)
  BY DEF HistoryIsOfCells
<1>5. /\ history = h /\ IsInjective(h) /\ h \in Seq(1..Recorded)
      /\ submitted \in Nat /\ Recorded \in Nat
  BY <1>1, <1>4 DEF IsHistory, HistoryIsOfCells
<1>6. Recorded' = Recorded
  BY <1>1 DEF Recorded
<1>7. history' = h \/ history' = Append(h, 0)
  BY <1>1, <1>5
<1>8. h \in Seq(1..Recorded')
  BY <1>5, <1>6
<1>9. IsHistory(h)'
  BY <1>1, <1>3, <1>5, <1>7, <1>8 DEF IsHistory
<1> QED BY <1>1, <1>5, <1>6, <1>9 DEF HistoryIsOfCells

\* The text that was inspected is removed.
LEMMA InspectAnswerKeepsHistory ==
  ASSUME KernelInv, HistoryIsOfCells, InspectAnswer
  PROVE  HistoryIsOfCells'
<1>1. /\ history' = IF TextParsed THEN Front(history) ELSE history
      /\ answering' = FALSE /\ status' = status /\ submitted' = submitted
  BY DEF InspectAnswer, promiseVars
<1>2. PICK h \in Seq(Nat) : IsHistory(h)
  BY DEF HistoryIsOfCells
<1>3. /\ h \in Seq(1..Recorded) /\ Len(h) \in Nat /\ IsInjective(h)
      /\ submitted \in Nat /\ Recorded \in Nat
  BY <1>2, LenProperties DEF IsHistory, HistoryIsOfCells
<1>4. history' = h
  <2>1. CASE history = h
    <3>1. h # <<>> => Last(h) \in 1..Recorded
      <4> SUFFICES ASSUME h # <<>> PROVE Last(h) \in 1..Recorded
        OBVIOUS
      <4>1. Len(h) \in 1..Len(h)
        BY <1>3, EmptySeq
      <4> QED BY <1>3, <4>1, ElementOfSeq DEF Last
    <3>2. 0 \notin 1..Recorded
      OBVIOUS
    <3> QED BY <1>1, <2>1, <3>1, <3>2 DEF TextParsed
  <2>2. CASE history = Append(h, 0)
    <3> DEFINE g == Append(h, 0)
               n == Len(h)
    <3>1. /\ g \in Seq(Nat) /\ g # <<>> /\ Len(g) = n + 1 /\ Last(g) = 0
          /\ \A i \in 1..n : g[i] = h[i]
      BY <1>3, AppendOfSeq
    <3> HIDE DEF g
    <3>2. history' = Front(g)
      BY <1>1, <2>2, <3>1 DEF TextParsed, g
    <3>3. Front(g) = SubSeq(g, 1, n)
      <4>1. Len(g) - 1 = n
        BY <1>3, <3>1
      <4> QED BY <4>1 DEF Front
    <3>4. SubSeq(g, 1, n) = [i \in 1..n |-> g[i]]
      BY <1>3, <3>1
    <3>5. h = [i \in 1..n |-> h[i]]
      BY <1>3, LenProperties
    <3>6. [i \in 1..n |-> g[i]] = [i \in 1..n |-> h[i]]
      BY <3>1
    <3> QED BY <3>2, <3>3, <3>4, <3>5, <3>6
  <2> QED BY <1>2, <2>1, <2>2 DEF IsHistory
<1>5. Recorded' = Recorded /\ h \in Seq(1..Recorded')
  BY <1>1, <1>3 DEF Recorded
<1>6. IsHistory(h)'
  BY <1>3, <1>4, <1>5 DEF IsHistory
<1> QED BY <1>1, <1>3, <1>5, <1>6 DEF HistoryIsOfCells

-----------------------------------------------------------------------------
RepliesInv == KernelInv /\ VariablesAreReplied /\ HistoryIsOfCells

\* A request that is answered in the step that receives it.
LEMMA AtOnceKeepsReplies ==
  ASSUME RepliesInv, NEW kind \in RequestKinds \ {"execute", "inspect"},
         AnswerAtOnce(kind), UNCHANGED promiseVars \/ Destroy
  PROVE  VariablesAreReplied' /\ HistoryIsOfCells'
<1> DEFINE r == [Request(kind) EXCEPT !.reply = "ok"]
<1>1. r \in KernelRequests /\ r.kind # "execute"
  BY RequestsAreKernelRequests
<1>2. /\ ~answering /\ answering' = answering /\ received' = Append(received, r)
      /\ history' = history /\ KernelInv /\ VariablesAreReplied /\ HistoryIsOfCells
  BY DEF AnswerAtOnce, CanReceive, RepliesInv
<1>3. /\ variables' = variables /\ submitted' = submitted
      /\ status' = "compiling" => status = "compiling"
  BY DEF promiseVars, Destroy
<1> HIDE DEF r
<1>4. ~Completed'
  BY <1>2 DEF Completed, Executing
<1>5. VariablesAreReplied'
  BY <1>1, <1>2, <1>3, <1>4, RequestKeepsVariables
<1>6. HistoryIsOfCells'
  BY <1>2, <1>3, HistoryStays
<1> QED BY <1>5, <1>6

LEMMA ExecuteKeepsReplies ==
  ASSUME RepliesInv, NEW s \in Sources, NEW silent \in BOOLEAN, ExecuteRequest(s, silent)
  PROVE  VariablesAreReplied' /\ HistoryIsOfCells'
<1> DEFINE r == Execution(s, silent)
<1>1. r \in KernelRequests /\ r.source \in Sources /\ r.reply = "none"
  BY RequestsAreKernelRequests
<1>2. /\ ~answering /\ received' = Append(received, r) /\ history' = history
      /\ KernelInv /\ VariablesAreReplied /\ HistoryIsOfCells
      /\ Submit(s) \/ RefuseForGood
  BY DEF ExecuteRequest, CanReceive, RepliesInv
<1> HIDE DEF r
<1>3. variables' = variables /\ status' # "ready"
  BY <1>2 DEF Submit, RefuseForGood
<1>4. ~Completed'
  BY <1>3 DEF Completed
<1>5. \/ submitted' = submitted /\ (status' = "compiling" => status = "compiling")
      \/ submitted' = submitted + 1 /\ status # "compiling"
  BY <1>2 DEF Submit, RefuseForGood
<1>6. VariablesAreReplied'
  BY <1>1, <1>2, <1>3, <1>4, RequestKeepsVariables
<1>7. HistoryIsOfCells'
  BY <1>2, <1>5, HistoryStays
<1> QED BY <1>6, <1>7

LEMMA InspectKeepsReplies ==
  ASSUME RepliesInv, InspectRequest
  PROVE  VariablesAreReplied'
<1> DEFINE r == Request("inspect")
<1>1. r \in KernelRequests /\ r.kind = "inspect" /\ r.reply = "none"
  BY RequestsAreKernelRequests DEF RequestKinds
<1>2. /\ ~answering /\ received' = Append(received, r) /\ variables' = variables
      /\ KernelInv /\ VariablesAreReplied
  BY DEF InspectRequest, CanReceive, RepliesInv, promiseVars
<1> HIDE DEF r
<1>3. request' = r
  <2>1. Last(Append(received, r)) = r
    BY <1>1, <1>2, AppendOfSeq DEF KernelInv, KernelTypeOK
  <2> QED BY <1>2, <2>1 DEF request
<1>4. ~Completed'
  BY <1>1, <1>3 DEF Completed, Executing
<1> QED BY <1>1, <1>2, <1>4, RequestKeepsVariables

LEMMA AnswerKeepsReplies ==
  ASSUME RepliesInv, Answer
  PROVE  VariablesAreReplied' /\ HistoryIsOfCells'
<1>1. /\ Executing /\ answering /\ request.kind = "execute" /\ Returned
      /\ received' = Replied(Succeeded) /\ answering' = FALSE /\ history' = history
      /\ variables' = variables /\ status' = status /\ submitted' = submitted
      /\ KernelInv /\ VariablesAreReplied /\ HistoryIsOfCells
  BY DEF Answer, Executing, promiseVars, RepliesInv
<1>2. "succeeded" \notin SessionFailures
  BY DEF SessionFailures
<1>3. Succeeded <=> Completed
  <2>1. status = "unusable" => outcome \in SessionFailures
    BY <1>1 DEF KernelInv, SessionFollows
  <2> QED BY <1>1, <1>2, <2>1 DEF Succeeded, Completed, Returned
<1>4. Succeeded \in BOOLEAN
  BY DEF Succeeded
<1> DEFINE ok == Succeeded
<1>5. ok \in BOOLEAN /\ received' = Replied(ok) /\ (ok <=> Completed)
  BY <1>1, <1>3, <1>4
<1> HIDE DEF ok
<1>6. VariablesAreReplied'
  BY <1>1, <1>5, AnswerKeepsVariables
<1>7. HistoryIsOfCells'
  BY <1>1, HistoryStays
<1> QED BY <1>6, <1>7

LEMMA SessionKeepsReplies ==
  ASSUME RepliesInv, LoadCell \/ EndCell \/ EmitOutput \/ EmitDisplay
  PROVE  VariablesAreReplied' /\ HistoryIsOfCells'
<1>1. /\ received' = received /\ answering' = answering
      /\ KernelInv /\ VariablesAreReplied /\ HistoryIsOfCells
  BY DEF LoadCell, EndCell, EmitOutput, EmitDisplay, Emit, requestVars, RepliesInv
<1>2. \/ Reject \/ Load \/ Complete \/ Raise \/ FailForGood
      \/ UNCHANGED promiseVars
  BY DEF LoadCell, EndCell, EmitOutput, EmitDisplay, Emit
<1>3. VariablesAreReplied'
  BY <1>1, <1>2, SessionStepKeepsVariables
<1>4. CASE LoadCell
  BY <1>1, <1>3, <1>4, LoadKeepsHistory
<1>5. CASE EndCell
  <2>1. /\ Executing /\ history' = history /\ submitted' = submitted
        /\ status' # "compiling"
    BY <1>5 DEF EndCell, Reject, Complete, Raise, FailForGood, End
  <2>2. ~(answering /\ request.kind = "inspect")
    BY <2>1 DEF Executing
  <2> QED BY <1>1, <1>3, <2>1, <2>2, HistoryStays
<1>6. CASE EmitOutput \/ EmitDisplay
  <2>1. /\ status = "running" /\ history' = history /\ submitted' = submitted
        /\ status' = status
    BY <1>6 DEF EmitOutput, EmitDisplay, Emit, promiseVars
  <2>2. ~(answering /\ request.kind = "inspect")
    BY <1>1, <2>1 DEF KernelInv, SessionFollows, Executing
  <2> QED BY <1>1, <1>3, <2>1, <2>2, HistoryStays
<1> QED BY <1>4, <1>5, <1>6

LEMMA RepliesInvHolds == KernelSpec => []RepliesInv
<1>1. KernelInit => VariablesAreReplied /\ HistoryIsOfCells
  <2> SUFFICES ASSUME KernelInit PROVE VariablesAreReplied /\ HistoryIsOfCells
    OBVIOUS
  <2>1. /\ received = <<>> /\ variables = <<>> /\ history = <<>> /\ submitted = 0
        /\ status = "ready" /\ outcome = "none"
    BY DEF KernelInit, PromiseInit
  <2>2. Kept(received) = <<>>
    <3>1. received \in Seq(KernelRequests) /\ Len(received) = 0
      BY <2>1, EmptySeq
    <3>2. SourcesKnown(received)
      <4>1. DOMAIN received = {}
        BY <2>1
      <4> QED BY <4>1 DEF SourcesKnown
    <3>3. /\ Kept(received) \in Seq(Seq(SessionVariables))
          /\ Len(Kept(received)) = Len(received)
      BY <3>1, <3>2, KeptIsSeq
    <3> QED BY <3>1, <3>3, EmptySeq
  <2>3. FlattenSeq(Kept(received)) = <<>>
    BY <2>2 DEF FlattenSeq
  <2>4. Unreplied = <<>>
    BY <2>1 DEF Unreplied, Completed
  <2>5. VariablesAreReplied
    <3>1. <<>> \in Seq(SessionVariables)
      BY EmptySeq
    <3> QED BY <2>1, <2>3, <2>4, <3>1, ConcatEmptySeq DEF VariablesAreReplied
  <2>6. IsHistory(history)
    <3>1. history \in Seq(1..Recorded) /\ DOMAIN history = {}
      BY <2>1, EmptySeq
    <3> QED BY <3>1 DEF IsHistory, IsInjective
  <2>7. submitted \in Nat /\ Recorded \in Nat /\ history \in Seq(Nat)
    BY <2>1, EmptySeq DEF Recorded
  <2> QED BY <2>5, <2>6, <2>7 DEF HistoryIsOfCells
<1>2. RepliesInv /\ [KernelNext]_kernelVars
        => VariablesAreReplied' /\ HistoryIsOfCells'
  <2> SUFFICES ASSUME RepliesInv, [KernelNext]_kernelVars
               PROVE  VariablesAreReplied' /\ HistoryIsOfCells'
    OBVIOUS
  <2>0. KernelInv /\ VariablesAreReplied /\ HistoryIsOfCells
    BY DEF RepliesInv
  <2>1. CASE \E s \in Sources, silent \in BOOLEAN : ExecuteRequest(s, silent)
    BY <2>1, ExecuteKeepsReplies
  <2>2. CASE LoadCell \/ EndCell \/ EmitOutput \/ EmitDisplay
    BY <2>2, SessionKeepsReplies
  <2>3. CASE Answer
    BY <2>3, AnswerKeepsReplies
  <2>4. CASE \E text \in Texts : \E cursorPosition \in -1..(Len(text) + 1) :
               CompleteRequest(text, cursorPosition)
    <3>1. AnswerAtOnce("complete") /\ UNCHANGED promiseVars
      BY <2>4 DEF CompleteRequest
    <3>2. "complete" \in RequestKinds \ {"execute", "inspect"}
      BY DEF RequestKinds
    <3> QED BY <3>1, <3>2, AtOnceKeepsReplies
  <2>5. CASE InspectRequest
    BY <2>0, <2>5, InspectKeepsReplies, InspectKeepsHistory
  <2>6. CASE InspectAnswer
    <3>1. /\ answering /\ request.kind = "inspect" /\ answering' = FALSE
          /\ received' = Replied(TRUE) /\ variables' = variables
      BY <2>6 DEF InspectAnswer, promiseVars
    <3>2. VariablesAreReplied'
      <4>1. PICK ok \in BOOLEAN : ok = TRUE
        OBVIOUS
      <4>2. received' = Replied(ok)
        BY <3>1, <4>1
      <4> QED BY <2>0, <3>1, <4>2, AnswerKeepsVariables
    <3> QED BY <2>0, <2>6, <3>2, InspectAnswerKeepsHistory
  <2>7. CASE (\E kind \in {"is_complete", "kernel_info"} : OtherRequest(kind)) \/ InterruptRequest
    <3>1. PICK kind \in {"is_complete", "kernel_info", "interrupt"} : OtherRequest(kind)
      BY <2>7 DEF InterruptRequest
    <3>2. AnswerAtOnce(kind) /\ UNCHANGED promiseVars
      BY <3>1 DEF OtherRequest
    <3>3. kind \in RequestKinds \ {"execute", "inspect"}
      BY DEF RequestKinds
    <3> QED BY <3>2, <3>3, AtOnceKeepsReplies
  <2>8. CASE ShutdownRequest
    <3>1. AnswerAtOnce("shutdown") /\ Destroy
      BY <2>8 DEF ShutdownRequest
    <3>2. "shutdown" \in RequestKinds \ {"execute", "inspect"}
      BY DEF RequestKinds
    <3> QED BY <3>1, <3>2, AtOnceKeepsReplies
  <2>9. CASE UNCHANGED kernelVars
    <3>1. /\ received' = received /\ answering' = answering /\ history' = history
          /\ submitted' = submitted /\ status' = status /\ request' = request
          /\ UNCHANGED promiseVars
      BY <2>9 DEF kernelVars, requestVars, promiseVars, request
    <3>2. VariablesAreReplied'
      BY <2>0, <3>1, SessionStepKeepsVariables
    <3>3. Recorded' = Recorded
      BY <3>1 DEF Recorded
    <3>4. PICK h \in Seq(Nat) : IsHistory(h)
      BY <2>0 DEF HistoryIsOfCells
    <3>5. IsHistory(h)'
      BY <3>1, <3>3, <3>4 DEF IsHistory
    <3> QED BY <2>0, <3>1, <3>2, <3>3, <3>5 DEF HistoryIsOfCells
  <2> QED BY <2>1, <2>2, <2>3, <2>4, <2>5, <2>6, <2>7, <2>8, <2>9 DEF KernelNext
<1> QED BY <1>1, <1>2, KernelInvHolds, PTL DEF KernelSpec, RepliesInv

LEMMA RepliesInvTells == RepliesInv => RepliesTell
<1> SUFFICES ASSUME RepliesInv, ~answering PROVE RepliesTell
  BY DEF RepliesTell
<1>1. /\ received \in Seq(KernelRequests) /\ SourcesKnown(received)
      /\ VariablesAreReplied /\ HistoryIsOfCells
  BY DEF RepliesInv, KernelInv, KernelTypeOK, InTurn, Executions, SourcesKnown
<1> DEFINE told == [q \in DOMAIN received |->
                      IF q \in Executions /\ received[q].reply = "ok"
                        THEN Declared(received[q].source) ELSE <<>>]
<1>2. told = Kept(received)
  BY DEF Kept, Part, Executions
<1> HIDE DEF told
<1>3. variables = FlattenSeq(Kept(received))
  <2>1. Unreplied = <<>>
    BY DEF Unreplied, Completed, Executing
  <2>2. FlattenSeq(Kept(received)) \in Seq(SessionVariables)
    <3>1. Request("inspect") \in KernelRequests /\ Request("inspect").kind = "inspect"
      BY RequestsAreKernelRequests DEF RequestKinds
    <3> QED BY <1>1, <3>1, KeptOfAppend
  <2> QED BY <1>1, <2>1, <2>2, ConcatEmptySeq DEF VariablesAreReplied
<1>4. PICK h \in Seq(Nat) : IsHistory(h)
  BY <1>1 DEF HistoryIsOfCells
<1>5. history = h /\ IsInjective(h) /\ h \in Seq(1..Recorded)
  BY <1>4 DEF IsHistory
<1>6. 1..Recorded \subseteq 1..submitted
  BY <1>1 DEF HistoryIsOfCells, Recorded
<1>7. \A i \in DOMAIN history : history[i] \in 1..submitted
  BY <1>5, <1>6, ElementOfSeq, LenProperties
<1>8. variables = FlattenSeq(told)
  BY <1>2, <1>3
<1> QED BY <1>5, <1>7, <1>8 DEF RepliesTell, told

\* Between requests a client that counts on the replies is right: the session has the
\* variables of the cells that were answered with ok, in their order, and of no others;
\* tooling knows each recorded cell once and no text that was only inspected
\* (execute_request_impl, ToolingState::record and inspect).
THEOREM RepliesAreTrue == KernelSpec => []RepliesTell
<1>1. RepliesInv => RepliesTell
  BY RepliesInvTells
<1> QED BY <1>1, RepliesInvHolds, PTL

-----------------------------------------------------------------------------
\* A number that is greater than the others is listed after them.
LEMMA InOrderGrows ==
  ASSUME NEW s \in Seq(Nat), NEW set, NEW x \in Nat, InOrder(s, set),
         \A y \in set : y < x
  PROVE  InOrder(Append(s, x), set \union {x})
<1> DEFINE n == Len(s)
<1>1. PICK t : t = Append(s, x)
  OBVIOUS
<1>2. /\ n \in Nat /\ DOMAIN s = 1..n /\ DOMAIN t = 1..(n + 1) /\ t[n + 1] = x
      /\ \A i \in 1..n : t[i] = s[i]
  BY <1>1, AppendOfSeq
<1> HIDE DEF n
<1>3. \A i \in 1..(n + 1) : i \in 1..n \/ i = n + 1
  BY <1>2
<1>4. \A i \in 1..n : i \in 1..(n + 1)
  BY <1>2
<1>5. n + 1 \in 1..(n + 1)
  BY <1>2
<1>6. \A i \in 1..n : s[i] \in set
  BY <1>2 DEF InOrder, Range
<1>7. Range(t) = set \union {x}
  BY <1>2, <1>3, <1>4, <1>5 DEF InOrder, Range
<1>8. ASSUME NEW i \in 1..(n + 1), NEW j \in 1..(n + 1), i < j
      PROVE  t[i] < t[j]
  <2>1. i \in 1..n
    BY <1>2, <1>8
  <2>2. CASE j = n + 1
    BY <1>2, <1>6, <2>1, <2>2
  <2>3. CASE j \in 1..n
    BY <1>2, <1>8, <2>1, <2>3 DEF InOrder
  <2> QED BY <1>3, <2>2, <2>3
<1> QED BY <1>1, <1>2, <1>7, <1>8 DEF InOrder

\* The option words up to a position, counted at the next one.
LEMMA OptionsCounted ==
  ASSUME NEW i \in Nat \ {0}
  PROVE  /\ OptionsUpTo(0) = 0
         /\ OptionsUpTo(i) \in Nat /\ OptionsUpTo(i - 1) \in Nat
         /\ argv[i] \notin Options => OptionsUpTo(i) = 0
         /\ argv[i] \in Options => OptionsUpTo(i) = OptionsUpTo(i - 1) + 1
<1> DEFINE run(n) == {j \in 1..n : \A k \in j..n : argv[k] \in Options}
<1>1. \A n \in Nat : IsFiniteSet(run(n)) /\ Cardinality(run(n)) \in Nat
  <2>1. \A n \in Nat : run(n) \subseteq 1..n /\ IsFiniteSet(1..n)
    BY FS_Interval
  <2>2. \A n \in Nat : IsFiniteSet(run(n))
    BY <2>1, FS_Subset
  <2> QED BY <2>2, FS_CardinalityType
<1>2. \A n \in Nat : OptionsUpTo(n) = Cardinality(run(n))
  BY DEF OptionsUpTo
<1>3. PICK p \in Nat : p = i - 1
  OBVIOUS
<1>4. i = p + 1 /\ i \in Nat
  BY <1>3
<1>5. OptionsUpTo(0) = 0
  <2>1. run(0) = {}
    OBVIOUS
  <2> QED BY <1>2, <2>1, FS_EmptySet
<1>6. argv[i] \notin Options => run(i) = {}
  <2>1. \A j \in 1..i : i \in j..i
    OBVIOUS
  <2> QED BY <2>1
<1>7. argv[i] \in Options => run(i) = run(p) \union {i}
  <2>1. \A j : j \in 1..i <=> j \in 1..p \/ j = i
    BY <1>4
  <2>2. \A j \in 1..p : \A k : k \in j..i <=> k \in j..p \/ k = i
    BY <1>4
  <2>3. \A k \in i..i : k = i
    OBVIOUS
  <2> QED BY <2>1, <2>2, <2>3
<1>8. i \notin run(p)
  BY <1>4
<1> HIDE DEF run
<1>9. OptionsUpTo(i) \in Nat /\ OptionsUpTo(p) \in Nat
  BY <1>1, <1>2, <1>4
<1>10. argv[i] \notin Options => OptionsUpTo(i) = 0
  BY <1>2, <1>4, <1>6, FS_EmptySet
<1>11. argv[i] \in Options => OptionsUpTo(i) = OptionsUpTo(p) + 1
  <2> SUFFICES ASSUME argv[i] \in Options PROVE OptionsUpTo(i) = OptionsUpTo(p) + 1
    OBVIOUS
  <2>1. Cardinality(run(p) \union {i}) = Cardinality(run(p)) + 1
    BY <1>1, <1>8, FS_AddElement
  <2> QED BY <1>2, <1>4, <1>7, <2>1
<1> QED BY <1>3, <1>5, <1>9, <1>10, <1>11

\* A word that follows none is no value, nor is one that follows another word or a
\* value; one that follows an option is.
LEMMA ValuesFollow ==
  ASSUME NEW i \in Nat \ {0}
  PROVE  /\ ~IsValue(1)
         /\ argv[i] \notin Options \/ IsValue(i) => ~IsValue(i + 1)
         /\ argv[i] \in Options /\ ~IsValue(i) => IsValue(i + 1)
<1>1. /\ OptionsUpTo(0) = 0 /\ OptionsUpTo(i) \in Nat /\ OptionsUpTo(i - 1) \in Nat
      /\ argv[i] \notin Options => OptionsUpTo(i) = 0
      /\ argv[i] \in Options => OptionsUpTo(i) = OptionsUpTo(i - 1) + 1
  BY OptionsCounted
<1>2. (i + 1) - 1 = i /\ i + 1 > 1
  OBVIOUS
<1>3. ~IsValue(1)
  BY DEF IsValue
<1>4. IsValue(i + 1) <=> OptionsUpTo(i) % 2 = 1
  BY <1>2 DEF IsValue
<1>5. i = 1 \/ i > 1
  OBVIOUS
<1>6. IsValue(i) <=> OptionsUpTo(i - 1) % 2 = 1
  <2>1. CASE i = 1
    <3>1. OptionsUpTo(i - 1) = 0
      BY <1>1, <2>1
    <3> QED BY <1>3, <2>1, <3>1
  <2>2. CASE i > 1
    BY <2>2 DEF IsValue
  <2> QED BY <1>5, <2>1, <2>2
<1> DEFINE before == OptionsUpTo(i - 1)
           upTo == OptionsUpTo(i)
<1>7. before \in Nat /\ upTo \in Nat
  BY <1>1
<1>8. CASE argv[i] \notin Options
  <2>1. upTo = 0
    BY <1>1, <1>8
  <2>2. 0 % 2 # 1
    OBVIOUS
  <2>3. upTo % 2 # 1
    BY <2>1, <2>2
  <2>4. ~IsValue(i + 1)
    BY <1>4, <2>3
  <2> QED BY <1>3, <1>8, <2>4
<1>9. CASE argv[i] \in Options
  <2>1. upTo = before + 1
    BY <1>1, <1>9
  <2>2. \A n \in Nat : (n + 1) % 2 = 1 <=> n % 2 # 1
    OBVIOUS
  <2>3. upTo % 2 = 1 <=> before % 2 # 1
    <3> HIDE DEF before, upTo
    <3>1. (before + 1) % 2 = 1 <=> before % 2 # 1
      BY <1>7, <2>2
    <3> QED BY <2>1, <3>1
  <2>4. IsValue(i + 1) <=> ~IsValue(i)
    <3> HIDE DEF before, upTo
    <3>1. (IsValue(i + 1) <=> upTo % 2 = 1) /\ (IsValue(i) <=> before % 2 = 1)
      BY <1>4, <1>6 DEF upTo, before
    <3> QED BY <2>3, <3>1
  <2> QED BY <1>3, <1>9, <2>4
<1> QED BY <1>8, <1>9

-----------------------------------------------------------------------------
KeptWords(n) == {i \in 1..n : argv[i] \notin Options /\ ~IsValue(i)}

\* The words that were read are kept, or are options with their values.
OptionsAreRead ==
  /\ argv \in Seq(Words) /\ readIndex \in 1..(Len(argv) + 1)
  /\ kept \in Seq(Nat) /\ InOrder(kept, KeptWords(readIndex - 1))
  /\ ~IsValue(readIndex)
  /\ pc \notin {"options", "exited"} => readIndex > Len(argv)

LEMMA ValuesStay ==
  ASSUME argv' = argv
  PROVE  \A i : IsValue(i)' = IsValue(i)
BY DEF IsValue, OptionsUpTo

LEMMA KeepArgumentKeeps ==
  ASSUME OptionsAreRead, KeepArgument
  PROVE  OptionsAreRead'
<1>1. /\ Len(argv) \in Nat /\ readIndex \in Nat \ {0} /\ readIndex <= Len(argv)
      /\ argv[readIndex] \notin Options /\ kept' = Append(kept, readIndex)
      /\ readIndex' = readIndex + 1 /\ argv' = argv /\ pc' = "options"
  BY LenProperties DEF OptionsAreRead, KeepArgument
<1> DEFINE r == readIndex
<1>2. ~IsValue(r) /\ ~IsValue(r + 1)
  BY <1>1, ValuesFollow DEF OptionsAreRead
<1>3. KeptWords(r) = KeptWords(r - 1) \union {r}
  <2>1. \A i : i \in 1..r <=> i \in 1..(r - 1) \/ i = r
    BY <1>1
  <2> QED BY <1>1, <1>2, <2>1 DEF KeptWords
<1>4. \A i \in KeptWords(r - 1) : i < r
  BY <1>1 DEF KeptWords
<1>5. InOrder(Append(kept, r), KeptWords(r))
  BY <1>1, <1>3, <1>4, InOrderGrows DEF OptionsAreRead
<1>6. kept' \in Seq(Nat)
  BY <1>1, AppendOfSeq DEF OptionsAreRead
<1>7. KeptWords(readIndex - 1)' = KeptWords(r)
  <2>1. (r + 1) - 1 = r
    BY <1>1
  <2>2. \A i : IsValue(i)' = IsValue(i)
    BY <1>1, ValuesStay
  <2> QED BY <1>1, <2>1, <2>2 DEF KeptWords
<1>8. ~IsValue(readIndex)'
  BY <1>1, <1>2 DEF IsValue, OptionsUpTo
<1>9. InOrder(kept, KeptWords(readIndex - 1))'
  BY <1>1, <1>5, <1>7 DEF InOrder
<1> QED BY <1>1, <1>6, <1>8, <1>9 DEF OptionsAreRead

LEMMA TakeOptionKeeps ==
  ASSUME OptionsAreRead, TakeOption
  PROVE  OptionsAreRead'
<1>1. /\ Len(argv) \in Nat /\ readIndex \in Nat \ {0} /\ readIndex < Len(argv)
      /\ argv[readIndex] \in Options /\ kept' = kept
      /\ readIndex' = readIndex + 2 /\ argv' = argv /\ pc' = "options"
  BY LenProperties DEF OptionsAreRead, TakeOption, PassValue
<1> DEFINE r == readIndex
<1>2. ~IsValue(r) /\ IsValue(r + 1) /\ ~IsValue(r + 2)
  <2>1. ~IsValue(r) /\ r \in Nat \ {0} /\ r + 1 \in Nat \ {0} /\ (r + 1) + 1 = r + 2
    BY <1>1 DEF OptionsAreRead
  <2>2. IsValue(r + 1)
    BY <1>1, <2>1, ValuesFollow
  <2>3. ~IsValue((r + 1) + 1)
    <3>1. PICK n \in Nat \ {0} : n = r + 1
      BY <2>1
    <3>2. ~IsValue(n + 1)
      BY <2>2, <3>1, ValuesFollow
    <3> QED BY <3>1, <3>2
  <2> QED BY <2>1, <2>2, <2>3
<1>3. KeptWords(r + 1) = KeptWords(r - 1)
  <2>1. \A i : i \in 1..(r + 1) <=> i \in 1..(r - 1) \/ i = r \/ i = r + 1
    BY <1>1
  <2> QED BY <1>1, <1>2, <2>1 DEF KeptWords
<1>4. KeptWords(readIndex - 1)' = KeptWords(r + 1)
  <2>1. (r + 2) - 1 = r + 1
    BY <1>1
  <2>2. \A i : IsValue(i)' = IsValue(i)
    BY <1>1, ValuesStay
  <2> QED BY <1>1, <2>1, <2>2 DEF KeptWords
<1>5. ~IsValue(readIndex)'
  BY <1>1, <1>2 DEF IsValue, OptionsUpTo
<1>6. InOrder(kept, KeptWords(readIndex - 1))'
  BY <1>1, <1>3, <1>4 DEF InOrder, OptionsAreRead
<1>7. readIndex' \in 1..(Len(argv') + 1)
  BY <1>1
<1> QED BY <1>1, <1>5, <1>6, <1>7 DEF OptionsAreRead

\* The steps that leave the options alone.
LEMMA OptionsStay ==
  ASSUME OptionsAreRead, UNCHANGED optionVars,
         \/ pc' \in {"options", "exited"}
         \/ pc \notin {"options", "exited"}
         \/ OptionsEnd
  PROVE  OptionsAreRead' /\ Interactive' = Interactive
<1>1. argv' = argv /\ readIndex' = readIndex /\ kept' = kept
  BY DEF optionVars
<1>2. \A i : IsValue(i)' = IsValue(i)
  BY <1>1, ValuesStay
<1>3. KeptWords(readIndex - 1)' = KeptWords(readIndex - 1)
  BY <1>1, <1>2 DEF KeptWords
<1>4. ~IsValue(readIndex)'
  BY <1>1 DEF IsValue, OptionsUpTo, OptionsAreRead
<1>5. pc' \notin {"options", "exited"} => readIndex > Len(argv)
  BY DEF OptionsAreRead, OptionsEnd
<1>6. OptionsAreRead'
  BY <1>1, <1>3, <1>4, <1>5 DEF OptionsAreRead, InOrder
<1> QED BY <1>1, <1>6 DEF Interactive, argc

LEMMA OptionsReadAreKept == OptionsAreRead => CommandIsKept
<1> SUFFICES ASSUME OptionsAreRead, pc \notin {"options", "exited"} PROVE CommandIsKept
  BY DEF CommandIsKept
<1>1. /\ argv \in Seq(Words) /\ readIndex \in 1..(Len(argv) + 1) /\ readIndex > Len(argv)
      /\ InOrder(kept, KeptWords(readIndex - 1))
  BY DEF OptionsAreRead
<1>2. readIndex - 1 = Len(argv) /\ DOMAIN argv = 1..Len(argv)
  BY <1>1, LenProperties
<1>3. KeptWords(readIndex - 1) = {i \in DOMAIN argv : argv[i] \notin Options /\ ~IsValue(i)}
  BY <1>2 DEF KeptWords
<1> QED BY <1>1, <1>3 DEF CommandIsKept

-----------------------------------------------------------------------------
Early == {"options", "dispatch", "kernel", "create"}

\* Nothing was read or executed.
Untouched ==
  /\ status = "ready" /\ outcome = "none"
  /\ line = 1 /\ cell = <<>> /\ executed = <<>>

\* The session is asked one thing at a time, and used until it is of no use.
SessionIsUsed ==
  /\ pc \in Early \union {"read", "source", "execute", "exited"}
  /\ pc # "exited" => exitStatus = -1
  /\ pc \in Early \/ (pc = "exited" /\ status # "closed") => Untouched
  /\ pc \in {"read", "source"} => status = "ready" /\ outcome \notin Infrastructure
  /\ pc = "execute" =>
       /\ status \in {"compiling", "running", "ready", "unusable"}
       /\ status = "ready" => outcome \notin Infrastructure
       /\ status = "unusable" => outcome \in Infrastructure
  /\ pc = "read" => Interactive
  /\ ~Interactive /\ pc = "source" => executed = <<>>
  /\ ~Interactive /\ pc = "execute" => Len(executed) = 1

\* How a step of the session ends a cell.
LEMMA SessionEnds ==
  ASSUME Load \/ Reject \/ Complete \/ Raise \/ FailForGood
  PROVE  /\ status' \in {"running", "ready", "unusable"}
         /\ status' = "ready" => outcome' \notin Infrastructure
         /\ status' = "unusable" => outcome' \in Infrastructure
<1>1. CASE Load
  BY <1>1 DEF Load
<1>2. CASE Reject
  <2>1. status' = "ready" /\ outcome' = "diagnostics"
    BY <1>2 DEF Reject, End
  <2>2. "diagnostics" \notin Infrastructure
    BY DEF Infrastructure
  <2> QED BY <2>1, <2>2
<1>3. CASE Complete
  <2>1. status' = "ready" /\ outcome' = "succeeded"
    BY <1>3 DEF Complete, End
  <2>2. "succeeded" \notin Infrastructure
    BY DEF Infrastructure
  <2> QED BY <2>1, <2>2
<1>4. CASE Raise
  BY <1>4, Zenon DEF Raise, End, Infrastructure
<1>5. CASE FailForGood
  BY <1>5, Zenon DEF FailForGood, End, Infrastructure
<1> QED BY <1>1, <1>2, <1>3, <1>4, <1>5

CommandPhase == SessionIsUsed /\ StatusTells

LEMMA EarlyKeepsPhase ==
  ASSUME CommandPhase, Interactive' = Interactive, UNCHANGED <<promiseVars, inputVars>>,
         \/ MissingValue \/ OptionsEnd \/ Dispatch \/ Kernel \/ Create
  PROVE  CommandPhase'
<1>1. pc \in Early /\ Untouched
  BY DEF CommandPhase, SessionIsUsed, MissingValue, OptionsEnd, Dispatch, Kernel, Create,
     Early
<1>2. Untouched'
  BY <1>1 DEF Untouched, promiseVars, inputVars
<1>3. /\ pc' \in Early \union {"read", "source", "exited"}
      /\ pc' # "exited" => exitStatus' = exitStatus
      /\ pc' = "read" => Interactive'
  BY DEF MissingValue, OptionsEnd, Dispatch, Kernel, Create, Early, Exit, Go
<1>4. "none" \notin Infrastructure
  BY DEF Infrastructure
<1>5. exitStatus = -1
  BY <1>1 DEF CommandPhase, SessionIsUsed, Early
<1>6. status' = "ready" /\ outcome' = "none" /\ executed' = <<>>
  BY <1>2 DEF Untouched
<1>7. SessionIsUsed'
  BY <1>2, <1>3, <1>4, <1>5, <1>6 DEF SessionIsUsed, Early
<1>8. StatusTells'
  BY <1>6 DEF StatusTells, HadSession
<1> QED BY <1>7, <1>8 DEF CommandPhase

LEMMA ReadKeepsPhase ==
  ASSUME CommandPhase, Interactive' = Interactive, ReadLine \/ EndOfInput
  PROVE  CommandPhase'
<1>1. /\ pc = "read" /\ Interactive /\ exitStatus = -1 /\ status = "ready"
      /\ outcome \notin Infrastructure
  BY DEF CommandPhase, SessionIsUsed, ReadLine, EndOfInput, Early
<1>2. CASE pc' \in {"read", "source"}
  <2>1. UNCHANGED promiseVars /\ exitStatus' = exitStatus
    BY <1>2 DEF ReadLine, EndOfInput, Leave, Exit, Go
  <2> QED BY <1>1, <1>2, <2>1 DEF CommandPhase, SessionIsUsed, StatusTells, HadSession,
          promiseVars, Early
<1>3. CASE pc' \notin {"read", "source"}
  <2>1. /\ pc' = "exited" /\ exitStatus' = 0 /\ status' = "closed" /\ outcome' = outcome
        /\ line' = line /\ input' = input /\ line > Len(input)
    BY <1>3 DEF ReadLine, EndOfInput, Leave, Exit, Go, Destroy
  <2>2. SessionIsUsed'
    BY <2>1 DEF SessionIsUsed, Early
  <2>3. StatusTells'
    BY <1>1, <2>1 DEF StatusTells
  <2> QED BY <2>2, <2>3 DEF CommandPhase
<1> QED BY <1>2, <1>3

LEMMA QuitKeepsPhase ==
  ASSUME CommandPhase, Interactive' = Interactive, Quit
  PROVE  CommandPhase'
<1>1. /\ pc = "source" /\ Interactive /\ Quits /\ outcome \notin Infrastructure
  BY DEF CommandPhase, SessionIsUsed, Quit
<1>2. /\ pc' = "exited" /\ exitStatus' = 0 /\ status' = "closed" /\ outcome' = outcome
      /\ cell' = cell /\ input' = input
  BY DEF Quit, Leave, Exit, Destroy, inputVars
<1>3. SessionIsUsed'
  BY <1>2 DEF SessionIsUsed, Early
<1>4. Quits'
  BY <1>1, <1>2 DEF Quits
<1>5. StatusTells'
  BY <1>1, <1>2, <1>4 DEF StatusTells
<1> QED BY <1>3, <1>5 DEF CommandPhase

LEMMA ExecuteCellKeepsPhase ==
  ASSUME CommandPhase, Interactive' = Interactive, ExecuteCell
  PROVE  CommandPhase'
<1>1. /\ pc = "source" /\ pc' = "execute" /\ exitStatus' = exitStatus /\ exitStatus = -1
      /\ status' = "compiling" /\ executed' = Append(executed, cell)
      /\ ~Interactive => executed = <<>>
  BY DEF CommandPhase, SessionIsUsed, ExecuteCell, Go, Submit, Early
<1>2. ~Interactive => Len(executed') = 1
  BY <1>1
<1>3. SessionIsUsed'
  BY <1>1, <1>2 DEF SessionIsUsed, Early
<1>4. StatusTells'
  BY <1>1 DEF StatusTells, HadSession
<1> QED BY <1>3, <1>4 DEF CommandPhase

LEMMA SessionStepKeepsPhase ==
  ASSUME CommandPhase, Interactive' = Interactive, SessionStep
  PROVE  CommandPhase'
<1>1. /\ pc = "execute" /\ pc' = pc /\ exitStatus' = exitStatus /\ exitStatus = -1
      /\ executed' = executed
  BY DEF CommandPhase, SessionIsUsed, SessionStep, inputVars, Early
<1>2. /\ status' \in {"running", "ready", "unusable"}
      /\ status' = "ready" => outcome' \notin Infrastructure
      /\ status' = "unusable" => outcome' \in Infrastructure
  BY SessionEnds DEF SessionStep
<1>3. SessionIsUsed'
  BY <1>1, <1>2 DEF CommandPhase, SessionIsUsed, Early
<1>4. StatusTells'
  BY <1>1 DEF StatusTells, HadSession
<1> QED BY <1>3, <1>4 DEF CommandPhase

LEMMA ExecutedKeepsPhase ==
  ASSUME CommandPhase, Interactive' = Interactive, SourceExecuted \/ CellExecuted
  PROVE  CommandPhase'
<1>1. /\ pc = "execute" /\ exitStatus = -1 /\ status \in {"ready", "unusable"}
      /\ status = "ready" => outcome \notin Infrastructure
      /\ status = "unusable" => outcome \in Infrastructure
      /\ ~Interactive => Len(executed) = 1
      /\ executed' = executed /\ outcome' = outcome
  BY DEF CommandPhase, SessionIsUsed, SourceExecuted, CellExecuted, SessionReturns, Early,
         Leave, Destroy, promiseVars
<1>2. CASE ~Interactive /\ Leave(Status)
  <2>1. pc' = "exited" /\ status' = "closed" /\ exitStatus' = Status
    BY <1>2 DEF Leave, Exit, Destroy
  <2>2. SessionIsUsed'
    BY <2>1 DEF SessionIsUsed, Early
  <2>3. exitStatus' # 2 /\ (exitStatus' = 0 <=> outcome = "succeeded")
    BY <2>1 DEF Status
  <2>4. StatusTells'
    BY <1>1, <1>2, <2>1, <2>3 DEF StatusTells
  <2> QED BY <2>2, <2>4 DEF CommandPhase
<1>3. CASE Interactive /\ outcome \in Infrastructure /\ Leave(1)
  <2>1. pc' = "exited" /\ status' = "closed" /\ exitStatus' = 1
    BY <1>3 DEF Leave, Exit, Destroy
  <2>2. SessionIsUsed'
    BY <2>1 DEF SessionIsUsed, Early
  <2>3. StatusTells'
    BY <1>1, <1>3, <2>1 DEF StatusTells
  <2> QED BY <2>2, <2>3 DEF CommandPhase
<1>4. CASE Interactive /\ outcome \notin Infrastructure /\ Go("read") /\ UNCHANGED promiseVars
  <2>1. pc' = "read" /\ exitStatus' = exitStatus /\ status' = status
    BY <1>4 DEF Go, promiseVars
  <2>2. SessionIsUsed'
    BY <1>1, <1>4, <2>1 DEF SessionIsUsed, Early
  <2>3. StatusTells'
    BY <1>1, <2>1 DEF StatusTells, HadSession
  <2> QED BY <2>2, <2>3 DEF CommandPhase
<1> QED BY <1>2, <1>3, <1>4 DEF SourceExecuted, CellExecuted

-----------------------------------------------------------------------------
Reading == pc \in {"read", "source"} \/ (pc = "exited" /\ Quits)

Known == executed \o Pending

Cells ==
  /\ executed \in Seq(Seq(Nat)) /\ cell \in Seq(Nat) /\ line \in Nat \ {0}
  /\ input \in Seq(Lines)

LEMMA RangeOfAppend ==
  ASSUME NEW S, NEW s \in Seq(S), NEW x \in S
  PROVE  Range(Append(s, x)) = Range(s) \union {x}
<1> DEFINE n == Len(s)
<1>1. PICK t : t = Append(s, x)
  OBVIOUS
<1>2. /\ DOMAIN t = 1..(n + 1) /\ n \in Nat /\ t[n + 1] = x /\ DOMAIN s = 1..n
      /\ \A i \in 1..n : t[i] = s[i]
  BY <1>1, AppendOfSeq
<1> HIDE DEF n
<1>3. /\ \A i \in 1..(n + 1) : i \in 1..n \/ i = n + 1
      /\ \A i \in 1..n : i \in 1..(n + 1)
      /\ n + 1 \in 1..(n + 1)
  BY <1>2
<1>4. Range(t) = Range(s) \union {x}
  BY <1>2, <1>3 DEF Range
<1> QED BY <1>1, <1>4

\* What the session was given, with what was read for it.
LEMMA KnownCells ==
  ASSUME Cells
  PROVE  /\ FlattenSeq(executed) \in Seq(Nat)
         /\ Reading => /\ Known = Append(executed, cell)
                       /\ FlattenSeq(Known) = FlattenSeq(executed) \o cell
                       /\ Range(Known) = Range(executed) \union {cell}
         /\ ~Reading => Known = executed
<1>1. executed \in Seq(Seq(Nat)) /\ cell \in Seq(Nat)
  BY DEF Cells
<1>2. /\ FlattenSeq(executed) \in Seq(Nat)
      /\ FlattenSeq(Append(executed, cell)) = FlattenSeq(executed) \o cell
  BY <1>1, FlattenOfAppend
<1>3. Range(Append(executed, cell)) = Range(executed) \union {cell}
  BY <1>1, RangeOfAppend
<1>4. Reading => Known = Append(executed, cell)
  <2>1. executed \o <<cell>> = Append(executed, cell)
    BY <1>1, AppendIsConcat
  <2> QED BY <2>1 DEF Known, Pending, Reading
<1>5. ~Reading => Known = executed
  BY <1>1, ConcatEmptySeq DEF Known, Pending, Reading
<1> QED BY <1>2, <1>3, <1>4, <1>5

\* The cells tell what was written, and what belongs together.
Told(numbers, cells) ==
  /\ InOrder(numbers, Written)
  /\ \A i, j \in Written : i < j =>
       (Together(i, j) <=> \E c \in cells : {i, j} \subseteq Range(c))

\* The phases of the REPL.
Begun == pc \in {"read", "source", "execute", "exited"} /\ Interactive

LEMMA ToldIsExecuted ==
  InputIsExecuted <=> (Begun => Told(FlattenSeq(Known), Range(Known)))
BY DEF InputIsExecuted, Begun, Told, Known

\* Cells without lines tell nothing.
LEMMA ToldAgain ==
  ASSUME NEW numbers, NEW cells, NEW more, Told(numbers, cells),
         cells \union {<<>>} = more \union {<<>>},
         input' = input, Written' = Written
  PROVE  Told(numbers, more)'
<1>1. \A i, j : Together(i, j)' = Together(i, j)
  BY DEF Together
<1>2. Range(<<>>) = {}
  <2>1. DOMAIN <<>> = {}
    OBVIOUS
  <2> QED BY <2>1 DEF Range
<1>3. \A i, j : (\E c \in cells : {i, j} \subseteq Range(c))
                <=> \E c \in more : {i, j} \subseteq Range(c)
  <2> TAKE i, j
  <2>1. \A c : {i, j} \subseteq Range(c) => c # <<>>
    BY <1>2
  <2>2. \A c : c # <<>> => (c \in cells <=> c \in more)
    OBVIOUS
  <2> QED BY <2>1, <2>2
<1>4. \A i, j \in Written' : i < j =>
        (Together(i, j)' <=> \E c \in more : {i, j} \subseteq Range(c))
  BY <1>1, <1>3 DEF Told
<1>5. InOrder(numbers, Written')
  BY DEF Told
<1> QED BY <1>4, <1>5 DEF Told

\* The cell that is being read has the lines since the last empty one; one that is
\* executed is followed by an empty line, or by the end.
CellFollows ==
  Interactive /\ line <= Len(input) =>
    /\ pc = "read" => \A i \in Written : i \in Range(cell) <=> Together(i, line - 1)
    /\ pc \in {"source", "execute"} => line > 1 /\ input[line - 1] = "empty"

CellsAreWritten == \A c \in Range(executed) \union {cell} : Range(c) \subseteq Written

InputInv == Cells /\ CellFollows /\ CellsAreWritten /\ InputIsExecuted

LEMMA ConcatOfAppend ==
  ASSUME NEW S, NEW s \in Seq(S), NEW t \in Seq(S), NEW x \in S
  PROVE  s \o Append(t, x) = Append(s \o t, x)
<1>0. <<x>> \in Seq(S)
  OBVIOUS
<1>1. PICK one \in Seq(S) : one = <<x>>
  BY <1>0
<1>2. Append(t, x) = t \o one
  BY <1>1, AppendIsConcat
<1>3. s \o t \in Seq(S)
  BY ConcatProperties
<1>4. Append(s \o t, x) = (s \o t) \o one
  BY <1>1, <1>3, AppendIsConcat
<1>5. (s \o t) \o one = s \o (t \o one)
  BY ConcatAssociative
<1> QED BY <1>2, <1>4, <1>5

\* A line of text is one more line of the cell.
LEMMA TextIsRead ==
  ASSUME InputInv, Interactive, Interactive', pc = "read", pc' = "read",
         line <= Len(input),
         input[line] # "empty", cell' = Append(cell, line), line' = line + 1,
         input' = input, executed' = executed
  PROVE  InputInv'
<1>1. /\ Cells /\ executed \in Seq(Seq(Nat)) /\ cell \in Seq(Nat) /\ line \in Nat \ {0}
      /\ Reading /\ Begun /\ Reading' /\ Begun'
  BY DEF InputInv, Cells, Reading, Begun
<1>2. cell' \in Seq(Nat) /\ Range(cell') = Range(cell) \union {line}
  BY <1>1, AppendOfSeq, RangeOfAppend
<1>3. Cells'
  BY <1>1, <1>2 DEF Cells
<1>4. /\ Written' = Written \union {line} /\ \A y \in Written : y \in Nat /\ y < line
      /\ \A y \in Written : input[y] # "empty"
  <2>1. \A y : y \in 1..(line' - 1) <=> y \in 1..(line - 1) \/ y = line
    BY <1>1
  <2> QED BY <1>1, <2>1 DEF Written
<1> DEFINE F == FlattenSeq(executed)
           numbers == F \o cell
           cells == Range(executed) \union {cell}
           cells1 == Range(executed) \union {cell'}
<1>5. /\ F \in Seq(Nat) /\ FlattenSeq(Known) = numbers /\ Range(Known) = cells
      /\ numbers \in Seq(Nat)
  BY <1>1, KnownCells, ConcatProperties
<1>6. FlattenSeq(Known') = F \o cell' /\ Range(Known') = cells1
  <2>1. Known' = Append(executed, cell')
    <3>1. executed' \o <<cell'>> = Append(executed, cell')
      BY <1>1, <1>2, AppendIsConcat
    <3> QED BY <1>1, <3>1 DEF Known, Pending, Reading
  <2>2. PICK last : last = cell'
    OBVIOUS
  <2>3. last \in Seq(Nat) /\ executed \in Seq(Seq(Nat))
    BY <1>1, <1>2, <2>2
  <2>4. FlattenSeq(Append(executed, last)) = F \o last
    BY <2>3, FlattenOfAppend
  <2>5. Range(Append(executed, last)) = Range(executed) \union {last}
    BY <2>3, RangeOfAppend
  <2> HIDE DEF F
  <2> QED BY <2>1, <2>2, <2>4, <2>5
<1>7. F \o cell' = Append(numbers, line)
  <2>1. PICK f \in Seq(Nat) : f = F
    BY <1>5
  <2>2. f \o Append(cell, line) = Append(f \o cell, line)
    <3>1. f \in Seq(Nat) /\ cell \in Seq(Nat) /\ line \in Nat
      BY <1>1, <2>1
    <3> HIDE DEF numbers, F, cells, cells1
    <3> QED BY <3>1, ConcatOfAppend
  <2> HIDE DEF F
  <2> QED BY <2>1, <2>2
<1>8. Told(numbers, cells)
  BY <1>1, <1>5, ToldIsExecuted DEF InputInv
<1>9. InOrder(Append(numbers, line), Written')
  <2>1. InOrder(numbers, Written) /\ line \in Nat
    BY <1>1, <1>8 DEF Told
  <2> HIDE DEF numbers
  <2> QED BY <1>4, <1>5, <2>1, InOrderGrows
<1>10. \A i, j : Together(i, j)' = Together(i, j)
  BY DEF Together
<1>11. \A c \in cells : Range(c) \subseteq Written /\ line \notin Range(c)
  BY <1>4 DEF InputInv, CellsAreWritten
<1>12. /\ \A i \in Written : Together(i, line) <=> i \in Range(cell)
       /\ Together(line, line)
  <2>1. \A i \in Written : \A k : k \in i..line <=> k \in i..(line - 1) \/ k = line
    BY <1>1, <1>4
  <2>2. \A i \in Written : Together(i, line) <=> Together(i, line - 1)
    BY <2>1 DEF Together
  <2>3. \A k \in line..line : k = line
    BY <1>1
  <2>4. Together(line, line)
    BY <2>3 DEF Together
  <2>5. \A i \in Written : i \in Range(cell) <=> Together(i, line - 1)
    BY DEF InputInv, CellFollows
  <2>6. \A i \in Written : Together(i, line) <=> i \in Range(cell)
    <3> TAKE i \in Written
    <3>1. (Together(i, line) <=> Together(i, line - 1))
          /\ (i \in Range(cell) <=> Together(i, line - 1))
      BY <2>2, <2>5
    <3> QED BY <3>1, Zenon
  <2> QED BY <2>4, <2>6
<1>13. ASSUME NEW i \in Written', NEW j \in Written', i < j
       PROVE  Together(i, j) <=> \E c \in cells1 : {i, j} \subseteq Range(c)
  <2>1. i \in Written
    BY <1>1, <1>4, <1>13
  <2>2. CASE j = line
    <3>1. (\E c \in cells1 : {i, j} \subseteq Range(c)) <=> i \in Range(cell)
      <4>1. \A c \in Range(executed) : ~({i, j} \subseteq Range(c))
        BY <1>11, <2>2
      <4>2. {i, j} \subseteq Range(cell') <=> i \in Range(cell)
        BY <1>2, <1>4, <2>1, <2>2
      <4> QED BY <4>1, <4>2
    <3> QED BY <1>12, <2>1, <2>2, <3>1
  <2>3. CASE j \in Written
    <3>1. i # line /\ j # line
      BY <1>1, <1>4, <2>1, <2>3
    <3>2. (\E c \in cells1 : {i, j} \subseteq Range(c))
          <=> \E c \in cells : {i, j} \subseteq Range(c)
      BY <1>2, <3>1
    <3>3. Together(i, j) <=> \E c \in cells : {i, j} \subseteq Range(c)
      BY <1>8, <1>13, <2>1, <2>3 DEF Told
    <3> QED BY <3>2, <3>3
  <2> QED BY <1>4, <2>2, <2>3
<1>14. Told(FlattenSeq(Known), Range(Known))'
  <2>1. InOrder(FlattenSeq(Known'), Written')
    BY <1>6, <1>7, <1>9
  <2>2. \A i, j \in Written' : i < j =>
          (Together(i, j)' <=> \E c \in Range(Known') : {i, j} \subseteq Range(c))
    BY <1>6, <1>10, <1>13
  <2> QED BY <2>1, <2>2 DEF Told
<1>15. InputIsExecuted'
  <2>1. (InputIsExecuted <=> (Begun => Told(FlattenSeq(Known), Range(Known))))'
    BY DEF InputIsExecuted, Begun, Told, Known
  <2> QED BY <1>14, <2>1
<1>16. CellsAreWritten'
  <2>1. \A c \in cells1 : Range(c) \subseteq Written'
    BY <1>2, <1>4, <1>11
  <2> QED BY <2>1 DEF CellsAreWritten
<1>17. CellFollows'
  <2>1. \A i \in Written' : i \in Range(cell') <=> Together(i, line)
    <3> TAKE i \in Written'
    <3>1. CASE i = line
      BY <1>2, <1>12, <3>1
    <3>2. CASE i \in Written
      <4>1. i # line
        BY <1>4, <3>2
      <4>2. i \in Range(cell') <=> i \in Range(cell)
        BY <1>2, <4>1
      <4> QED BY <1>12, <3>2, <4>2
    <3> QED BY <1>4, <3>1, <3>2
  <2>2. line' - 1 = line
    BY <1>1
  <2>3. \A i : Together(i, line - 1)' <=> Together(i, line)
    BY <2>2 DEF Together
  <2>4. \A i \in Written' : i \in Range(cell') <=> Together(i, line - 1)'
    BY <2>1, <2>3
  <2> QED BY <2>4 DEF CellFollows
<1> QED BY <1>3, <1>15, <1>16, <1>17 DEF InputInv

-----------------------------------------------------------------------------
\* A cell without lines makes no difference.
KnownTells ==
  /\ Reading => Known = Append(executed, cell)
  /\ ~Reading => Known = executed
  /\ cell = <<>> => /\ FlattenSeq(Known) = FlattenSeq(executed)
                    /\ Range(Known) \union {<<>>} = Range(executed) \union {<<>>}

LEMMA KnownCellsTell == Cells => KnownTells
<1> SUFFICES ASSUME Cells PROVE KnownTells
  OBVIOUS
<1>1. /\ FlattenSeq(executed) \in Seq(Nat)
      /\ Reading => /\ Known = Append(executed, cell)
                    /\ FlattenSeq(Known) = FlattenSeq(executed) \o cell
                    /\ Range(Known) = Range(executed) \union {cell}
      /\ ~Reading => Known = executed
  BY KnownCells
<1>2. FlattenSeq(executed) \o <<>> = FlattenSeq(executed)
  BY <1>1, ConcatEmptySeq
<1>3. cell = <<>> => FlattenSeq(Known) = FlattenSeq(executed)
  BY <1>1, <1>2
<1>4. cell = <<>> => Range(Known) \union {<<>>} = Range(executed) \union {<<>>}
  BY <1>1
<1> QED BY <1>1, <1>3, <1>4 DEF KnownTells

\* The steps that read nothing that is part of a cell.
LEMMA InputIsTold ==
  ASSUME InputInv, Interactive => Begun, Interactive' = Interactive,
         input' = input, Written' = Written,
         FlattenSeq(Known') = FlattenSeq(Known),
         Range(Known') \union {<<>>} = Range(Known) \union {<<>>}
  PROVE  InputIsExecuted'
<1> DEFINE numbers == FlattenSeq(Known)
           cells == Range(Known)
<1>1. Interactive => Told(numbers, cells)
  BY ToldIsExecuted DEF InputInv
<1>2. PICK list, set : list = FlattenSeq(Known') /\ set = Range(Known')
  OBVIOUS
<1>3. Interactive => Told(list, set)'
  <2>1. list = numbers /\ cells \union {<<>>} = set \union {<<>>}
    BY <1>2
  <2> HIDE DEF numbers, cells
  <2>2. Interactive => Told(list, cells)
    BY <1>1, <2>1
  <2> QED BY <2>1, <2>2, ToldAgain
<1>4. Interactive => Told(FlattenSeq(Known), Range(Known))'
  BY <1>2, <1>3 DEF Told
<1>5. (InputIsExecuted <=> (Begun => Told(FlattenSeq(Known), Range(Known))))'
  BY DEF InputIsExecuted, Begun, Told, Known
<1>6. Begun' => Interactive'
  BY DEF Begun
<1> QED BY <1>4, <1>5, <1>6

LEMMA CellsStayWritten ==
  ASSUME InputInv, Written' = Written,
         Range(executed') \union {cell'} \subseteq Range(executed) \union {cell, <<>>}
  PROVE  CellsAreWritten'
<1>1. Range(<<>>) = {}
  <2>1. DOMAIN <<>> = {}
    OBVIOUS
  <2> QED BY <2>1 DEF Range
<1> QED BY <1>1 DEF InputInv, CellsAreWritten

LEMMA ReadKeepsInput ==
  ASSUME InputInv, Interactive, Interactive', ReadLine
  PROVE  InputInv'
<1>1. /\ pc = "read" /\ line <= Len(input) /\ line' = line + 1 /\ input' = input
      /\ executed' = executed /\ Cells /\ line \in Nat \ {0} /\ Reading /\ Begun
  BY DEF ReadLine, InputInv, Cells, Reading, Begun
<1>2. CASE input[line] # "empty"
  BY <1>1, <1>2, TextIsRead DEF ReadLine, Go
<1>3. CASE input[line] = "empty"
  <2>1. cell' = cell /\ pc' = (IF cell = <<>> THEN "read" ELSE "source")
    BY <1>3 DEF ReadLine, Go
  <2>2. Written' = Written
    <3>1. \A y : y \in 1..(line' - 1) <=> y \in 1..(line - 1) \/ y = line
      BY <1>1
    <3> QED BY <1>1, <1>3, <3>1 DEF Written
  <2>3. Known' = Known
    BY <1>1, <2>1 DEF Known, Pending
  <2>4. InputIsExecuted'
    BY <1>1, <2>2, <2>3, InputIsTold
  <2>5. CellsAreWritten'
    BY <1>1, <2>1, <2>2, CellsStayWritten
  <2>6. Cells'
    BY <1>1, <2>1 DEF Cells
  <2>7. line' - 1 = line /\ line' > 1
    BY <1>1
  <2>8. CellFollows'
    <3>1. CASE cell = <<>>
      <4>1. \A i \in Written : line \in i..line
        BY <1>1 DEF Written
      <4>2. \A i \in Written' : ~Together(i, line - 1)'
        BY <1>1, <1>3, <2>2, <2>7, <4>1 DEF Together
      <4>3. Range(cell') = {}
        <5>1. DOMAIN cell' = {}
          BY <2>1, <3>1
        <5> QED BY <5>1 DEF Range
      <4> QED BY <2>1, <3>1, <4>2, <4>3 DEF CellFollows
    <3>2. CASE cell # <<>>
      BY <1>1, <1>3, <2>1, <2>7, <3>2 DEF CellFollows
    <3> QED BY <3>1, <3>2
  <2> QED BY <2>4, <2>5, <2>6, <2>8 DEF InputInv
<1> QED BY <1>2, <1>3

\* The lines that were read stay.
LEMMA LinesStay ==
  ASSUME line' = line, input' = input
  PROVE  /\ Written' = Written
         /\ \A i : Together(i, line - 1)' = Together(i, line - 1)
BY DEF Written, Together

LEMMA EndKeepsInput ==
  ASSUME InputInv, Interactive, Interactive', EndOfInput \/ Quit
  PROVE  InputInv'
<1>1. /\ pc \in {"read", "source"} /\ line' = line /\ input' = input /\ executed' = executed
      /\ Cells /\ Reading /\ Begun /\ cell' = cell
  BY DEF EndOfInput, Quit, InputInv, Reading, Begun, inputVars
<1>2. Cells' /\ Written' = Written
  BY <1>1, LinesStay DEF Cells
<1>3. KnownTells /\ KnownTells'
  BY <1>1, <1>2, KnownCellsTell, PTL
<1>4. \/ cell = <<>>
      \/ Reading'
  BY <1>1 DEF EndOfInput, NothingRead, Go, Quit, Leave, Exit, Reading, Quits
<1>5. FlattenSeq(Known') = FlattenSeq(Known)
      /\ Range(Known') \union {<<>>} = Range(Known) \union {<<>>}
  <2>1. CASE cell = <<>>
    <3>1. FlattenSeq(Known) = FlattenSeq(executed)
          /\ Range(Known) \union {<<>>} = Range(executed) \union {<<>>}
      BY <1>3, <2>1 DEF KnownTells
    <3>2. FlattenSeq(Known') = FlattenSeq(executed')
          /\ Range(Known') \union {<<>>} = Range(executed') \union {<<>>}
      BY <1>1, <1>3, <2>1 DEF KnownTells
    <3> QED BY <1>1, <3>1, <3>2
  <2>2. CASE Reading'
    <3>1. Known = Append(executed, cell) /\ Known' = Append(executed', cell')
      BY <1>1, <1>3, <2>2 DEF KnownTells
    <3> QED BY <1>1, <3>1
  <2> QED BY <1>4, <2>1, <2>2
<1>6. InputIsExecuted'
  BY <1>1, <1>2, <1>5, InputIsTold
<1>7. CellsAreWritten'
  BY <1>1, <1>2, CellsStayWritten
<1>8. CellFollows'
  <2>1. Len(input) \in Nat /\ line \in Nat
    BY <1>1, LenProperties DEF Cells
  <2>2. line > Len(input) \/ pc' = "exited"
    BY DEF EndOfInput, Quit, Leave, Exit
  <2> QED BY <1>1, <2>1, <2>2 DEF CellFollows
<1> QED BY <1>2, <1>6, <1>7, <1>8 DEF InputInv

LEMMA ExecuteCellKeepsInput ==
  ASSUME InputInv, Interactive' = Interactive, ExecuteCell
  PROVE  InputInv'
<1>1. /\ pc = "source" /\ pc' = "execute" /\ line' = line /\ input' = input /\ cell' = cell
      /\ executed' = Append(executed, cell) /\ Cells /\ Reading /\ ~Reading'
      /\ Interactive => Begun
  BY DEF ExecuteCell, InputInv, Go, Reading, Begun
<1>2. /\ executed' \in Seq(Seq(Nat)) /\ Range(executed') = Range(executed) \union {cell}
  BY <1>1, AppendOfSeq, RangeOfAppend DEF Cells
<1>3. Cells' /\ Written' = Written
  BY <1>1, <1>2, LinesStay DEF Cells
<1>4. KnownTells /\ KnownTells'
  BY <1>1, <1>3, KnownCellsTell, PTL
<1>5. Known' = Known
  BY <1>1, <1>4 DEF KnownTells
<1>6. InputIsExecuted'
  BY <1>1, <1>3, <1>5, InputIsTold
<1>7. CellsAreWritten'
  BY <1>1, <1>2, <1>3, CellsStayWritten
<1>8. CellFollows'
  BY <1>1 DEF CellFollows, InputInv
<1> QED BY <1>3, <1>6, <1>7, <1>8 DEF InputInv

LEMMA ExecutedKeepsInput ==
  ASSUME InputInv, Interactive' = Interactive, SourceExecuted \/ CellExecuted
  PROVE  InputInv'
<1>1. /\ pc = "execute" /\ line' = line /\ input' = input /\ cell' = <<>>
      /\ executed' = executed /\ Cells /\ ~Reading
      /\ Interactive => Begun
      /\ pc' \in {"read", "exited"}
  BY DEF SourceExecuted, CellExecuted, SessionReturns, InputInv, Go, Reading, Begun,
         Leave, Exit
<1>2. Cells' /\ Written' = Written /\ \A i : Together(i, line - 1)' = Together(i, line - 1)
  BY <1>1, LinesStay, EmptySeq DEF Cells
<1>3. KnownTells /\ KnownTells'
  BY <1>1, <1>2, KnownCellsTell, PTL
<1>4. FlattenSeq(Known') = FlattenSeq(Known)
      /\ Range(Known') \union {<<>>} = Range(Known) \union {<<>>}
  <2>1. Known = executed
    BY <1>1, <1>3 DEF KnownTells
  <2>2. FlattenSeq(Known') = FlattenSeq(executed')
        /\ Range(Known') \union {<<>>} = Range(executed') \union {<<>>}
    BY <1>1, <1>3 DEF KnownTells
  <2> QED BY <1>1, <2>1, <2>2
<1>5. InputIsExecuted'
  BY <1>1, <1>2, <1>4, InputIsTold
<1>6. CellsAreWritten'
  BY <1>1, <1>2, CellsStayWritten
<1>7. CellFollows'
  <2> SUFFICES ASSUME Interactive, line <= Len(input), pc' = "read"
               PROVE  \A i \in Written' : i \in Range(cell') <=> Together(i, line - 1)'
    BY <1>1 DEF CellFollows
  <2>1. line > 1 /\ input[line - 1] = "empty" /\ line \in Nat
    BY <1>1 DEF InputInv, CellFollows, Cells
  <2>2. \A i \in Written : line - 1 \in i..(line - 1)
    BY <2>1 DEF Written
  <2>3. \A i \in Written : ~Together(i, line - 1)
    BY <2>1, <2>2 DEF Together
  <2>4. Range(cell') = {}
    <3>1. DOMAIN cell' = {}
      BY <1>1
    <3> QED BY <3>1 DEF Range
  <2> QED BY <1>2, <2>3, <2>4
<1> QED BY <1>2, <1>5, <1>6, <1>7 DEF InputInv

\* What was not read yet.
LEMMA NothingKnown ==
  ASSUME line = 1, cell = <<>>, executed = <<>>, input \in Seq(Lines)
  PROVE  Cells /\ CellsAreWritten /\ InputIsExecuted /\ Written = {}
<1>1. Cells
  BY EmptySeq DEF Cells
<1>2. Range(<<>>) = {}
  <2>1. DOMAIN <<>> = {}
    OBVIOUS
  <2> QED BY <2>1 DEF Range
<1>3. CellsAreWritten /\ Written = {}
  BY <1>2 DEF CellsAreWritten, Written
<1>4. FlattenSeq(Known) = <<>>
  <2>1. KnownTells
    BY <1>1, KnownCellsTell
  <2>2. FlattenSeq(executed) = <<>>
    BY DEF FlattenSeq
  <2> QED BY <2>1, <2>2 DEF KnownTells
<1>5. Told(FlattenSeq(Known), Range(Known))
  <2>1. InOrder(<<>>, {})
    <3>1. DOMAIN <<>> = {}
      OBVIOUS
    <3> QED BY <1>2, <3>1 DEF InOrder
  <2> QED BY <1>3, <1>4, <2>1 DEF Told
<1> QED BY <1>1, <1>3, <1>5, ToldIsExecuted

NothingKnownYet ==
  line = 1 /\ cell = <<>> /\ executed = <<>> /\ input \in Seq(Lines)

LEMMA NothingIsTold ==
  NothingKnownYet => Cells /\ CellsAreWritten /\ InputIsExecuted /\ Written = {}
BY NothingKnown DEF NothingKnownYet

LEMMA EarlyKeepsInput ==
  ASSUME InputInv, SessionIsUsed, SessionIsUsed', UNCHANGED inputVars, pc \in Early,
         Interactive' => pc' \notin {"source", "execute"}
  PROVE  InputInv'
<1>1. NothingKnownYet'
  BY DEF SessionIsUsed, Untouched, inputVars, InputInv, Cells, NothingKnownYet
<1>2. (Cells /\ CellsAreWritten /\ InputIsExecuted /\ Written = {})'
  BY <1>1, NothingIsTold, PTL
<1>3. Interactive' => pc' \notin {"source", "execute"}
  OBVIOUS
<1>4. CellFollows'
  BY <1>2, <1>3 DEF CellFollows
<1> QED BY <1>2, <1>4 DEF InputInv

\* The steps that do nothing to the input.
LEMMA SameInput ==
  ASSUME InputInv, UNCHANGED inputVars, pc' = pc, Interactive' = Interactive
  PROVE  InputInv'
<1>1. /\ input' = input /\ line' = line /\ cell' = cell /\ executed' = executed
      /\ Cells /\ CellFollows /\ CellsAreWritten /\ InputIsExecuted
  BY DEF inputVars, InputInv
<1>2. Cells' /\ Written' = Written /\ \A i : Together(i, line - 1)' = Together(i, line - 1)
  BY <1>1, LinesStay DEF Cells
<1>3. CellFollows' /\ CellsAreWritten'
  BY <1>1, <1>2 DEF CellFollows, CellsAreWritten
<1>4. Pending' = Pending
  BY <1>1 DEF Pending, Quits
<1>5. \A i, j : Together(i, j)' = Together(i, j)
  BY <1>1 DEF Together
<1>6. InputIsExecuted'
  BY <1>1, <1>2, <1>4, <1>5 DEF InputIsExecuted
<1> QED BY <1>2, <1>3, <1>6 DEF InputInv

CommandInv == OptionsAreRead /\ SessionIsUsed /\ StatusTells /\ InputInv

LEMMA CommandInvHolds == CommandSpec => []CommandInv
<1>1. CommandInit => CommandInv
  <2> SUFFICES ASSUME CommandInit PROVE CommandInv
    OBVIOUS
  <2>1. /\ argv \in Seq(Words) /\ readIndex = 1 /\ kept = <<>> /\ pc = "options"
        /\ exitStatus = -1 /\ input \in Seq(Lines) /\ line = 1 /\ cell = <<>>
        /\ executed = <<>> /\ status = "ready" /\ outcome = "none"
    BY CommandAssumption DEF CommandInit, PromiseInit
  <2>2. OptionsAreRead
    <3>1. KeptWords(readIndex - 1) = {} /\ ~IsValue(readIndex)
      BY <2>1 DEF KeptWords, IsValue
    <3>2. InOrder(kept, {})
      <4>1. DOMAIN <<>> = {}
        OBVIOUS
      <4> QED BY <2>1, <4>1 DEF InOrder, Range
    <3>3. readIndex \in 1..(Len(argv) + 1)
      BY <2>1, LenProperties
    <3> QED BY <2>1, <3>1, <3>2, <3>3, EmptySeq DEF OptionsAreRead
  <2>3. SessionIsUsed
    BY <2>1 DEF SessionIsUsed, Untouched, Early
  <2>4. StatusTells
    BY <2>1 DEF StatusTells, HadSession
  <2>5. InputInv
    BY <2>1, NothingKnown DEF InputInv, CellFollows
  <2> QED BY <2>2, <2>3, <2>4, <2>5 DEF CommandInv
<1>2. CommandInv /\ [CommandNext]_commandVars => CommandInv'
  <2> SUFFICES ASSUME CommandInv, [CommandNext]_commandVars PROVE CommandInv'
    OBVIOUS
  <2>0. OptionsAreRead /\ SessionIsUsed /\ StatusTells /\ InputInv /\ CommandPhase
    BY DEF CommandInv, CommandPhase
  <2>1. CASE KeepArgument \/ TakeOption
    <3>1. OptionsAreRead'
      BY <2>0, <2>1, KeepArgumentKeeps, TakeOptionKeeps
    <3>2. /\ pc = "options" /\ pc' = pc /\ exitStatus' = exitStatus
          /\ UNCHANGED <<promiseVars, inputVars>>
      BY <2>1 DEF KeepArgument, TakeOption
    <3>3. SessionIsUsed'
      BY <2>0, <3>2 DEF SessionIsUsed, Untouched, promiseVars, inputVars, Early
    <3>4. StatusTells'
      BY <2>0, <3>2 DEF StatusTells, HadSession, SessionIsUsed, Early
    <3>5. InputInv'
      <4>1. pc' \notin {"source", "execute"} /\ pc \in Early
        BY <3>2 DEF Early
      <4> QED BY <2>0, <3>2, <3>3, <4>1, EarlyKeepsInput
    <3> QED BY <3>1, <3>3, <3>4, <3>5 DEF CommandInv
  <2>2. CASE MissingValue \/ OptionsEnd \/ Dispatch \/ Kernel \/ Create
    <3>1. UNCHANGED optionVars /\ UNCHANGED <<promiseVars, inputVars>> /\ pc \in Early
      BY <2>2 DEF MissingValue, OptionsEnd, Dispatch, Kernel, Create, Early
    <3>2. \/ pc' \in {"options", "exited"}
          \/ pc \notin {"options", "exited"}
          \/ OptionsEnd
      BY <2>2 DEF MissingValue, Exit, Dispatch, Kernel, Create
    <3>3. OptionsAreRead' /\ Interactive' = Interactive
      BY <2>0, <3>1, <3>2, OptionsStay
    <3>4. SessionIsUsed' /\ StatusTells'
      BY <2>0, <2>2, <3>1, <3>3, EarlyKeepsPhase DEF CommandPhase
    <3>5. InputInv'
      <4>1. Interactive' => pc' \notin {"source", "execute"}
        BY <2>2, <3>3 DEF MissingValue, OptionsEnd, Dispatch, Kernel, Create, Exit, Go
      <4> QED BY <2>0, <3>1, <3>4, <4>1, EarlyKeepsInput
    <3> QED BY <3>3, <3>4, <3>5 DEF CommandInv
  <2>3. CASE \/ EndOfInput \/ ReadLine \/ Quit \/ ExecuteCell \/ SessionStep
             \/ SourceExecuted \/ CellExecuted
    <3>1. UNCHANGED optionVars /\ pc \in {"read", "source", "execute"}
      BY <2>3 DEF EndOfInput, ReadLine, Quit, ExecuteCell, SessionStep, SourceExecuted,
                  CellExecuted, SessionReturns
    <3>2. OptionsAreRead' /\ Interactive' = Interactive
      BY <2>0, <3>1, OptionsStay
    <3>3. SessionIsUsed' /\ StatusTells'
      BY <2>0, <2>3, <3>2, ReadKeepsPhase, QuitKeepsPhase, ExecuteCellKeepsPhase,
         SessionStepKeepsPhase, ExecutedKeepsPhase DEF CommandPhase
    <3>4. InputInv'
      <4>1. pc = "read" => Interactive
        BY <2>0 DEF SessionIsUsed
      <4>2. CASE EndOfInput \/ Quit
        <5>1. Interactive
          BY <4>1, <4>2 DEF EndOfInput, Quit
        <5> QED BY <2>0, <3>2, <4>2, <5>1, EndKeepsInput
      <4>3. CASE ReadLine
        <5>1. Interactive
          BY <4>1, <4>3 DEF ReadLine
        <5> QED BY <2>0, <3>2, <4>3, <5>1, ReadKeepsInput
      <4>4. CASE ExecuteCell
        BY <2>0, <3>2, <4>4, ExecuteCellKeepsInput
      <4>5. CASE SessionStep
        <5>1. pc' = pc /\ UNCHANGED inputVars
          BY <4>5 DEF SessionStep
        <5> QED BY <2>0, <3>2, <5>1, SameInput
      <4>6. CASE SourceExecuted \/ CellExecuted
        BY <2>0, <3>2, <4>6, ExecutedKeepsInput
      <4> QED BY <2>3, <4>2, <4>3, <4>4, <4>5, <4>6
    <3> QED BY <3>2, <3>3, <3>4 DEF CommandInv
  <2>4. CASE UNCHANGED commandVars
    <3>1. /\ UNCHANGED optionVars /\ pc' = pc /\ exitStatus' = exitStatus
          /\ UNCHANGED <<promiseVars, inputVars>>
      BY <2>4 DEF commandVars
    <3>2. OptionsAreRead' /\ Interactive' = Interactive
      BY <2>0, <3>1, OptionsStay
    <3>3. SessionIsUsed'
      BY <2>0, <3>1, <3>2 DEF SessionIsUsed, Untouched, promiseVars, inputVars
    <3>4. StatusTells'
      BY <2>0, <3>1, <3>2 DEF StatusTells, HadSession, promiseVars, inputVars, Quits
    <3>5. InputInv'
      BY <2>0, <3>1, <3>2, SameInput
    <3> QED BY <3>2, <3>3, <3>4, <3>5 DEF CommandInv
  <2> QED BY <2>1, <2>2, <2>3, <2>4 DEF CommandNext
<1> QED BY <1>1, <1>2, PTL DEF CommandSpec

\* The REPL gives its session all of the text that it has read, line by line in its
\* order, with the empty lines between cells and nowhere else, for any input and any
\* options (readCell and runInteractive).
THEOREM InputReachesTheSession == CommandSpec => []InputIsExecuted
<1>1. CommandInv => InputIsExecuted
  BY DEF CommandInv, InputInv
<1> QED BY <1>1, CommandInvHolds, PTL

\* The command does what is left of its arguments when the options and their values
\* are taken out, and its status tells how that went, for any arguments and input
\* (extractSessionOptions, main, executeOne and runInteractive).
THEOREM CommandsAreDone == CommandSpec => []CommandIsDone
<1>1. CommandInv => CommandIsDone
  BY OptionsReadAreKept DEF CommandInv, CommandIsDone
<1> QED BY <1>1, CommandInvHolds, PTL

-----------------------------------------------------------------------------
(* Texts in UTF-8. *)

ByteKinds == {"word", "other", "lead", "tail"}

\* A character is one byte, or one that leads and others that follow it.
LEMMA BytesOfCharacter ==
  ASSUME NEW c \in Characters
  PROVE  /\ BytesOf[c] \in Seq(ByteKinds) /\ Len(BytesOf[c]) \in Nat
         /\ Len(BytesOf[c]) >= 1 /\ BytesOf[c][1] # "tail"
         /\ \A j \in 1..Len(BytesOf[c]) : j # 1 => BytesOf[c][j] = "tail"
         /\ c = "word" => Len(BytesOf[c]) = 1 /\ BytesOf[c][1] = "word"
         /\ c # "word" => BytesOf[c][Len(BytesOf[c])] # "word"
<1>1. /\ BytesOf["word"] = <<"word">> /\ BytesOf["other"] = <<"other">>
      /\ BytesOf["two"] = <<"lead", "tail">>
      /\ BytesOf["three"] = <<"lead", "tail", "tail">>
      /\ BytesOf["four"] = <<"lead", "tail", "tail", "tail">>
  <2>1. "word" \in Characters /\ "other" \in Characters
        /\ "two" \in Characters /\ "three" \in Characters /\ "four" \in Characters
    BY DEF Characters
  <2>2. /\ "word" # "other" /\ "word" # "two" /\ "word" # "three"
        /\ "other" # "two" /\ "other" # "three" /\ "two" # "three"
        /\ "word" # "four" /\ "other" # "four" /\ "two" # "four" /\ "three" # "four"
    OBVIOUS
  <2>3. BytesOf["word"] = <<"word">>
    BY <2>1, <2>2, Zenon DEF BytesOf
  <2>4. BytesOf["other"] = <<"other">>
    BY <2>1, <2>2, Zenon DEF BytesOf
  <2>5. BytesOf["two"] = <<"lead", "tail">>
    BY <2>1, <2>2, Zenon DEF BytesOf
  <2>6. BytesOf["three"] = <<"lead", "tail", "tail">>
    BY <2>1, <2>2, Zenon DEF BytesOf
  <2>7. BytesOf["four"] = <<"lead", "tail", "tail", "tail">>
    BY <2>1, <2>2, Zenon DEF BytesOf
  <2> QED BY <2>3, <2>4, <2>5, <2>6, <2>7
<1>2. CASE c = "word"
  <2>1. BytesOf[c] = <<"word">> /\ <<"word">> \in Seq(ByteKinds)
    BY <1>1, <1>2 DEF ByteKinds
  <2>2. Len(<<"word">>) = 1 /\ <<"word">>[1] = "word"
    OBVIOUS
  <2> QED BY <1>2, <2>1, <2>2
<1>3. CASE c = "other"
  <2>1. BytesOf[c] = <<"other">> /\ <<"other">> \in Seq(ByteKinds)
    BY <1>1, <1>3 DEF ByteKinds
  <2>2. Len(<<"other">>) = 1 /\ <<"other">>[1] = "other"
    OBVIOUS
  <2> QED BY <1>3, <2>1, <2>2
<1>4. CASE c = "two"
  <2>1. BytesOf[c] = <<"lead", "tail">> /\ <<"lead", "tail">> \in Seq(ByteKinds)
    BY <1>1, <1>4 DEF ByteKinds
  <2>2. /\ Len(<<"lead", "tail">>) = 2 /\ <<"lead", "tail">>[1] = "lead"
        /\ <<"lead", "tail">>[2] = "tail"
    OBVIOUS
  <2> QED BY <1>4, <2>1, <2>2
<1>5. CASE c = "three"
  <2>1. BytesOf[c] = <<"lead", "tail", "tail">> /\ <<"lead", "tail", "tail">> \in Seq(ByteKinds)
    BY <1>1, <1>5 DEF ByteKinds
  <2>2. /\ Len(<<"lead", "tail", "tail">>) = 3 /\ <<"lead", "tail", "tail">>[1] = "lead"
        /\ <<"lead", "tail", "tail">>[2] = "tail" /\ <<"lead", "tail", "tail">>[3] = "tail"
    OBVIOUS
  <2> QED BY <1>5, <2>1, <2>2
<1>6. CASE c = "four"
  <2>1. /\ BytesOf[c] = <<"lead", "tail", "tail", "tail">>
        /\ <<"lead", "tail", "tail", "tail">> \in Seq(ByteKinds)
    BY <1>1, <1>6 DEF ByteKinds
  <2>2. /\ Len(<<"lead", "tail", "tail", "tail">>) = 4
        /\ <<"lead", "tail", "tail", "tail">>[1] = "lead"
        /\ <<"lead", "tail", "tail", "tail">>[2] = "tail"
        /\ <<"lead", "tail", "tail", "tail">>[3] = "tail"
        /\ <<"lead", "tail", "tail", "tail">>[4] = "tail"
    OBVIOUS
  <2> QED BY <1>6, <2>1, <2>2
<1> QED BY <1>2, <1>3, <1>4, <1>5, <1>6 DEF Characters

\* Where the characters of a text end in its bytes.
Widths(text, bytes, w) ==
  /\ w \in [0..Len(text) -> Nat] /\ w[0] = 0 /\ w[Len(text)] = Len(bytes)
  /\ \A k \in 1..Len(text) :
       /\ w[k] = w[k - 1] + Len(BytesOf[text[k]])
       /\ \A j \in 1..Len(BytesOf[text[k]]) : bytes[w[k - 1] + j] = BytesOf[text[k]][j]

\* The characters end one after the other.
LEMMA WidthsRise ==
  ASSUME NEW text \in Seq(Characters), NEW bytes, NEW w, Widths(text, bytes, w)
  PROVE  /\ \A i, j \in 0..Len(text) : i < j => w[i] < w[j]
         /\ \A i \in 0..Len(text) : i <= w[i] /\ w[i] \in Nat
<1> DEFINE n == Len(text)
           Rises(j) == j <= w[j] /\ \A i \in 0..n : i < j => w[i] < w[j]
           Bad == {j \in 0..n : ~Rises(j)}
<1>1. /\ n \in Nat /\ w \in [0..n -> Nat] /\ w[0] = 0
      /\ \A k \in 1..n : w[k] = w[k - 1] + Len(BytesOf[text[k]])
  BY DEF Widths
<1>2. \A k \in 1..n : Len(BytesOf[text[k]]) \in Nat /\ Len(BytesOf[text[k]]) >= 1
  <2>1. \A k \in 1..n : text[k] \in Characters
    BY ElementOfSeq
  <2> QED BY <2>1, BytesOfCharacter
<1> HIDE DEF n
<1>3. SUFFICES ASSUME Bad # {} PROVE FALSE
  BY <1>1 DEF n
<1>4. PICK j \in Bad : \A k \in Bad : j <= k
  <2>1. Bad \in SUBSET Nat
    BY <1>1
  <2> HIDE DEF Bad
  <2> QED BY <1>3, <2>1, LeastOfSet
<1>5. j \in 0..n /\ ~Rises(j) /\ j # 0
  BY <1>1, <1>4
<1>6. PICK m \in 0..n : m = j - 1 /\ j \in 1..n
  BY <1>1, <1>5
<1>7. Rises(m)
  <2>1. m \notin Bad
    <3> HIDE DEF Bad
    <3>1. m < j /\ m \in Nat /\ j \in Nat
      BY <1>1, <1>6
    <3> QED BY <1>4, <3>1
  <2> QED BY <1>6, <2>1
<1>8. w[j] > w[m] /\ w[j] \in Nat /\ w[m] \in Nat
  <2>1. w[j] = w[m] + Len(BytesOf[text[j]])
    BY <1>1, <1>6
  <2>2. Len(BytesOf[text[j]]) \in Nat /\ Len(BytesOf[text[j]]) >= 1
    BY <1>2, <1>6
  <2>3. w[j] \in Nat /\ w[m] \in Nat
    BY <1>1, <1>6
  <2> QED BY <2>1, <2>2, <2>3
<1>9. \A i \in 0..n : i < j => w[i] < w[j]
  <2> SUFFICES ASSUME NEW i \in 0..n, i < j PROVE w[i] < w[j]
    OBVIOUS
  <2>1. i = m \/ i < m
    BY <1>1, <1>6
  <2>2. w[i] \in Nat
    BY <1>1
  <2> QED BY <1>7, <1>8, <2>1, <2>2
<1>10. j <= w[j]
  BY <1>1, <1>6, <1>7, <1>8
<1> QED BY <1>5, <1>9, <1>10

LEMMA BytesOfAppend ==
  ASSUME NEW text \in Seq(Characters), NEW c \in Characters
  PROVE  /\ Bytes(text) \in Seq(ByteKinds)
         /\ Bytes(Append(text, c)) = Bytes(text) \o BytesOf[c]
<1> DEFINE parts == [i \in DOMAIN text |-> BytesOf[text[i]]]
           more  == [i \in DOMAIN Append(text, c) |-> BytesOf[Append(text, c)[i]]]
<1>1. /\ Len(text) \in Nat /\ DOMAIN text = 1..Len(text)
      /\ DOMAIN Append(text, c) = 1..(Len(text) + 1)
      /\ Append(text, c)[Len(text) + 1] = c
      /\ \A i \in 1..Len(text) : Append(text, c)[i] = text[i] /\ text[i] \in Characters
  OBVIOUS
<1>2. parts \in Seq(Seq(ByteKinds)) /\ Len(parts) = Len(text)
  BY <1>1, BytesOfCharacter
<1>3. BytesOf[c] \in Seq(ByteKinds)
  BY BytesOfCharacter
<1>4. more = Append(parts, BytesOf[c])
  <2>1. /\ Append(parts, BytesOf[c]) \in Seq(Seq(ByteKinds))
        /\ Len(Append(parts, BytesOf[c])) = Len(text) + 1
        /\ \A i \in 1..Len(text) : Append(parts, BytesOf[c])[i] = parts[i]
        /\ Append(parts, BytesOf[c])[Len(text) + 1] = BytesOf[c]
    <3> HIDE DEF parts
    <3> QED BY <1>2, <1>3, AppendProperties
  <2>2. Append(parts, BytesOf[c])
          = [i \in 1..(Len(text) + 1) |-> Append(parts, BytesOf[c])[i]]
    <3> HIDE DEF parts
    <3> QED BY <2>1
  <2>3. \A i \in 1..(Len(text) + 1) : Append(parts, BytesOf[c])[i] = BytesOf[Append(text, c)[i]]
    <3>1. \A i \in 1..(Len(text) + 1) : i \in 1..Len(text) \/ i = Len(text) + 1
      BY <1>1
    <3>2. \A i \in 1..Len(text) : parts[i] = BytesOf[text[i]]
      BY <1>1
    <3> HIDE DEF parts
    <3> QED BY <1>1, <2>1, <3>1, <3>2
  <2> HIDE DEF parts
  <2> QED BY <1>1, <2>2, <2>3
<1>5. /\ FlattenSeq(parts) \in Seq(ByteKinds)
      /\ FlattenSeq(Append(parts, BytesOf[c])) = FlattenSeq(parts) \o BytesOf[c]
  <2> HIDE DEF parts
  <2> QED BY <1>2, <1>3, FlattenOfAppend
<1> QED BY <1>4, <1>5 DEF Bytes

LEMMA WidthsGrow ==
  ASSUME NEW text \in Seq(Characters), NEW c \in Characters,
         NEW w, Widths(text, Bytes(text), w)
  PROVE  /\ Bytes(Append(text, c)) \in Seq(ByteKinds)
         /\ \E v : Widths(Append(text, c), Bytes(Append(text, c)), v)
<1> DEFINE n == Len(text)
           more == Append(text, c)
           b == Bytes(text)
           d == BytesOf[c]
           v == [k \in 0..(n + 1) |-> IF k <= n THEN w[k] ELSE w[n] + Len(d)]
<1>1. b \in Seq(ByteKinds) /\ d \in Seq(ByteKinds) /\ Bytes(more) = b \o d
  BY BytesOfAppend, BytesOfCharacter
<1>2. /\ n \in Nat /\ Len(more) = n + 1 /\ more[n + 1] = c
      /\ \A i \in 1..n : more[i] = text[i]
  OBVIOUS
<1>3. /\ b \o d \in Seq(ByteKinds) /\ Len(b \o d) = Len(b) + Len(d)
      /\ Len(b) \in Nat /\ Len(d) \in Nat
      /\ \A i \in 1..(Len(b) + Len(d)) : (b \o d)[i] = IF i <= Len(b) THEN b[i] ELSE d[i - Len(b)]
  BY <1>1, ConcatProperties, LenProperties
<1>4. /\ w \in [0..n -> Nat] /\ w[0] = 0 /\ w[n] = Len(b)
      /\ \A k \in 1..n :
           /\ w[k] = w[k - 1] + Len(BytesOf[text[k]])
           /\ \A j \in 1..Len(BytesOf[text[k]]) : b[w[k - 1] + j] = BytesOf[text[k]][j]
  BY DEF Widths
<1>7. \A i, j \in 0..n : i < j => w[i] < w[j]
  BY WidthsRise
<1> HIDE DEF n, more, b, d
<1>5. /\ v \in [0..(n + 1) -> Nat] /\ v[0] = 0 /\ v[n + 1] = Len(b \o d)
      /\ \A k \in 0..n : v[k] = w[k]
  BY <1>2, <1>3, <1>4
<1>6. ASSUME NEW k \in 1..n
      PROVE  /\ v[k] = v[k - 1] + Len(BytesOf[more[k]])
             /\ \A j \in 1..Len(BytesOf[more[k]]) : (b \o d)[v[k - 1] + j] = BytesOf[more[k]][j]
  <2>1. v[k] = w[k] /\ v[k - 1] = w[k - 1] /\ more[k] = text[k]
    BY <1>2, <1>5
  <2>2. w[k] <= Len(b) /\ w[k] \in Nat /\ w[k - 1] \in Nat
    <3>1. k \in 0..n /\ n \in 0..n /\ (k < n \/ k = n) /\ k - 1 \in 0..n
      BY <1>2
    <3> QED BY <1>4, <1>7, <3>1
  <2>3. Len(BytesOf[text[k]]) \in Nat
    BY <1>2, BytesOfCharacter
  <2>4. w[k] = w[k - 1] + Len(BytesOf[text[k]])
    BY <1>4
  <2>5. ASSUME NEW j \in 1..Len(BytesOf[text[k]])
        PROVE  (b \o d)[w[k - 1] + j] = BytesOf[text[k]][j]
    <3>1. w[k - 1] + j \in 1..Len(b) /\ w[k - 1] + j \in 1..(Len(b) + Len(d))
          /\ w[k - 1] + j <= Len(b)
      <4>1. PICK p \in Nat, q \in Nat, r \in Nat :
              p = w[k - 1] /\ q = Len(BytesOf[text[k]]) /\ r = Len(b)
        BY <1>3, <2>2, <2>3
      <4>2. p + q <= r /\ j \in 1..q
        BY <2>2, <2>4, <4>1
      <4>3. p + j \in 1..r /\ p + j \in 1..(r + Len(d)) /\ p + j <= r
        BY <1>3, <4>2
      <4> QED BY <4>1, <4>3
    <3>2. (b \o d)[w[k - 1] + j] = b[w[k - 1] + j]
      BY <1>3, <3>1
    <3> QED BY <1>4, <3>2
  <2> QED BY <2>1, <2>4, <2>5
<1>8. /\ v[n + 1] = v[n] + Len(BytesOf[more[n + 1]])
      /\ \A j \in 1..Len(BytesOf[more[n + 1]]) :
           (b \o d)[v[n] + j] = BytesOf[more[n + 1]][j]
  <2>1. BytesOf[more[n + 1]] = d /\ v[n] = Len(b) /\ v[n + 1] = Len(b) + Len(d)
    BY <1>2, <1>3, <1>4, <1>5 DEF d
  <2>2. ASSUME NEW j \in 1..Len(d) PROVE (b \o d)[Len(b) + j] = d[j]
    <3>1. /\ Len(b) + j \in 1..(Len(b) + Len(d)) /\ ~(Len(b) + j <= Len(b))
          /\ Len(b) + j - Len(b) = j
      BY <1>3
    <3> QED BY <1>3, <3>1
  <2> HIDE DEF v
  <2> QED BY <2>1, <2>2
<1>9. \A k \in 1..(n + 1) : k \in 1..n \/ (k = n + 1 /\ k - 1 = n)
  BY <1>2
<1>10. \A k \in 1..(n + 1) :
         /\ v[k] = v[k - 1] + Len(BytesOf[more[k]])
         /\ \A j \in 1..Len(BytesOf[more[k]]) : (b \o d)[v[k - 1] + j] = BytesOf[more[k]][j]
  <2> HIDE DEF v
  <2> QED BY <1>6, <1>8, <1>9
<1>11. Widths(more, b \o d, v)
  <2> HIDE DEF v
  <2> QED BY <1>2, <1>5, <1>10 DEF Widths
<1>12. Bytes(more) = b \o d
  BY <1>1 DEF b, d
<1> QED BY <1>3, <1>11, <1>12 DEF more

LEMMA WidthsExist ==
  ASSUME NEW text \in Seq(Characters)
  PROVE  Bytes(text) \in Seq(ByteKinds) /\ \E w : Widths(text, Bytes(text), w)
<1> DEFINE Has(t) == Bytes(t) \in Seq(ByteKinds) /\ \E w : Widths(t, Bytes(t), w)
           Bad == {n \in Nat : \E t \in Seq(Characters) : Len(t) = n /\ ~Has(t)}
<1>1. SUFFICES ASSUME Bad # {} PROVE FALSE
  OBVIOUS
<1>2. PICK n \in Bad : \A k \in Bad : n <= k
  BY <1>1, LeastOfSet
<1>3. PICK t \in Seq(Characters) : Len(t) = n /\ ~Has(t)
  BY <1>2
<1>4. t # <<>>
  <2> SUFFICES ASSUME t = <<>> PROVE FALSE
    OBVIOUS
  <2>1. Bytes(t) = <<>>
    <3>1. [i \in DOMAIN t |-> BytesOf[t[i]]] = <<>>
      OBVIOUS
    <3> QED BY <3>1 DEF Bytes, FlattenSeq
  <2>2. Widths(t, <<>>, [k \in 0..0 |-> 0])
    BY DEF Widths
  <2>3. <<>> \in Seq(ByteKinds)
    OBVIOUS
  <2> QED BY <1>3, <2>1, <2>2, <2>3
<1>5. PICK u \in Seq(Characters), c \in Characters : t = Append(u, c)
  BY <1>4, SequenceEmptyOrAppend
<1>6. Len(u) \in Nat /\ n = Len(u) + 1
  BY <1>3, <1>5
<1>7. Len(u) \notin Bad
  <2> HIDE DEF Bad
  <2> QED BY <1>2, <1>6
<1>8. Has(u)
  BY <1>6, <1>7
<1>9. Has(t)
  BY <1>5, <1>8, WidthsGrow
<1> QED BY <1>3, <1>9

LEMMA LeastIs ==
  ASSUME NEW S, S \subseteq Nat, NEW x \in S, \A y \in S : x <= y
  PROVE  Min(S) = x
<1>1. \A y \in S : x <= y
  OBVIOUS
<1>2. \A z \in S : (\A y \in S : z <= y) => z = x
  OBVIOUS
<1> QED BY <1>1, <1>2 DEF Min

\* The first byte of a character is none that follows, the others are.
LEMMA LeadsAndTails ==
  ASSUME NEW text \in Seq(Characters), NEW bytes \in Seq(ByteKinds),
         NEW w, Widths(text, bytes, w), NEW k \in 1..Len(text), NEW m \in Nat, m = k - 1
  PROVE  /\ w[m] \in Nat /\ w[k] \in Nat /\ Len(bytes) \in Nat
         /\ w[m] < w[k] /\ w[k] <= Len(bytes)
         /\ k = Len(text) <=> w[k] = Len(bytes)
         /\ bytes[w[m] + 1] # "tail"
         /\ \A n \in Nat : w[m] + 1 < n /\ n <= w[k] => bytes[n] = "tail"
         /\ text[k] = "word" => w[k] = w[m] + 1 /\ bytes[w[k]] = "word"
         /\ text[k] # "word" => bytes[w[k]] # "word"
<1> DEFINE c == BytesOf[text[k]]
<1>1. /\ Len(text) \in Nat /\ m \in 0..Len(text) /\ k \in 0..Len(text) /\ m < k
      /\ Len(text) \in 0..Len(text) /\ (k < Len(text) \/ k = Len(text))
  BY LenProperties
<1>2. /\ w[m] \in Nat /\ w[k] \in Nat /\ w[m] < w[k] /\ w[Len(text)] = Len(bytes)
      /\ k < Len(text) => w[k] < w[Len(text)]
      /\ w[Len(text)] \in Nat
  BY <1>1, WidthsRise DEF Widths
<1>3. text[k] \in Characters
  BY ElementOfSeq
<1>4. /\ Len(c) \in Nat /\ Len(c) >= 1 /\ c[1] # "tail"
      /\ \A j \in 1..Len(c) : j # 1 => c[j] = "tail"
      /\ text[k] = "word" => Len(c) = 1 /\ c[1] = "word"
      /\ text[k] # "word" => c[Len(c)] # "word"
  BY <1>3, BytesOfCharacter
<1>5. w[k] = w[m] + Len(c) /\ \A j \in 1..Len(c) : bytes[w[m] + j] = c[j]
  BY DEF Widths
<1> HIDE DEF c
<1>6. 1 \in 1..Len(c) /\ Len(c) \in 1..Len(c)
  BY <1>4
<1>7. bytes[w[m] + 1] = c[1] /\ bytes[w[k]] = c[Len(c)]
  BY <1>5, <1>6
<1>8. ASSUME NEW n \in Nat, w[m] + 1 < n, n <= w[k] PROVE bytes[n] = "tail"
  <2>1. PICK j \in 1..Len(c) : n = w[m] + j /\ j # 1
    <3>1. n - w[m] \in 1..Len(c) /\ n = w[m] + (n - w[m]) /\ n - w[m] # 1
      <4>1. PICK p \in Nat, q \in Nat : p = w[m] /\ q = Len(c)
        BY <1>2, <1>4
      <4>2. p + 1 < n /\ n <= p + q
        BY <1>5, <1>8, <4>1
      <4>3. n - p \in 1..q /\ n = p + (n - p) /\ n - p # 1
        BY <4>2
      <4> QED BY <4>1, <4>3
    <3> QED BY <3>1
  <2> QED BY <1>4, <1>5, <2>1
<1>9. text[k] = "word" => w[k] = w[m] + 1 /\ bytes[w[k]] = "word"
  BY <1>4, <1>5, <1>7
<1>10. text[k] # "word" => bytes[w[k]] # "word"
  BY <1>4, <1>7
<1>11. w[k] <= Len(bytes) /\ (k = Len(text) <=> w[k] = Len(bytes))
  BY <1>1, <1>2
<1>12. Len(bytes) \in Nat
  BY LenProperties
<1> QED BY <1>2, <1>4, <1>7, <1>8, <1>9, <1>10, <1>11, <1>12

LEMMA FollowingIsNext ==
  ASSUME NEW text \in Seq(Characters), NEW bytes \in Seq(ByteKinds),
         NEW w, Widths(text, bytes, w), NEW k \in 1..Len(text), NEW m \in Nat, m = k - 1
  PROVE  Following(bytes, w[m]) = w[k]
<1> DEFINE later == (w[m] + 1)..Len(bytes)
           S == {n \in later : n = Len(bytes) \/ bytes[n + 1] # "tail"}
<1>1. /\ w[m] \in Nat /\ w[k] \in Nat /\ Len(bytes) \in Nat
      /\ w[m] < w[k] /\ w[k] <= Len(bytes)
      /\ \A n \in Nat : w[m] + 1 < n /\ n <= w[k] => bytes[n] = "tail"
      /\ k = Len(text) <=> w[k] = Len(bytes)
  BY LeadsAndTails
<1>2. w[k] = Len(bytes) \/ bytes[w[k] + 1] # "tail"
  <2>1. CASE k = Len(text)
    BY <1>1, <2>1
  <2>2. CASE k # Len(text)
    <3>1. PICK l \in 1..Len(text) : k = l - 1 /\ k \in Nat
      <4>1. Len(text) \in Nat
        BY LenProperties
      <4>2. k + 1 \in 1..Len(text) /\ k = k + 1 - 1
        BY <2>2, <4>1
      <4> QED BY <4>1, <4>2
    <3> QED BY <3>1, LeadsAndTails
  <2> QED BY <2>1, <2>2
<1>3. w[k] \in later /\ later # {}
  BY <1>1
<1>4. w[k] \in S /\ S \subseteq Nat
  BY <1>1, <1>2, <1>3
<1>5. \A n \in S : w[k] <= n
  <2> SUFFICES ASSUME NEW n \in S, n < w[k] PROVE FALSE
    BY <1>1
  <2>1. n \in Nat /\ n + 1 \in Nat /\ w[m] + 1 < n + 1 /\ n + 1 <= w[k] /\ n # Len(bytes)
    BY <1>1
  <2> QED BY <1>1, <2>1
<1>6. Min(S) = w[k]
  <2> HIDE DEF S
  <2> QED BY <1>4, <1>5, LeastIs
<1> QED BY <1>3, <1>6 DEF Following

\* The offset of a character by the function that utf8ByteOffset counts with.
LEMMA OffsetIsWidth ==
  ASSUME NEW text \in Seq(Characters), NEW bytes \in Seq(ByteKinds),
         NEW w, Widths(text, bytes, w), NEW p \in Int
  PROVE  utf8ByteOffset(bytes, p) = IF p <= 0 THEN 0 ELSE w[Least(p, Len(text))]
<1> DEFINE L == Len(text)
           N == Len(bytes)
           Counts(f) == f = [n \in 0..N |-> IF n = 0 THEN 0 ELSE Following(bytes, f[n - 1])]
           F == [n \in 0..N |-> IF n <= L THEN w[n] ELSE N]
           G == CHOOSE f : Counts(f)
<1>1. L \in Nat /\ N \in Nat /\ L \in 0..L /\ 0 \in 0..L
  BY LenProperties
<1>2. w[0] = 0 /\ w[L] = N /\ L <= w[L]
  BY <1>1, WidthsRise DEF Widths
<1>3. Following(bytes, N) = N
  <2>1. (N + 1)..N = {}
    BY <1>1
  <2> QED BY <2>1 DEF Following
<1>4. \A k \in 1..L : Following(bytes, w[k - 1]) = w[k]
  <2> SUFFICES ASSUME NEW k \in 1..L PROVE Following(bytes, w[k - 1]) = w[k]
    OBVIOUS
  <2>1. k - 1 \in Nat
    BY <1>1
  <2> QED BY <2>1, FollowingIsNext
<1> HIDE DEF L, N
<1>5. \A n \in 0..N : F[n] = IF n = 0 THEN 0 ELSE Following(bytes, F[n - 1])
  <2> SUFFICES ASSUME NEW n \in 0..N
               PROVE  F[n] = IF n = 0 THEN 0 ELSE Following(bytes, F[n - 1])
    OBVIOUS
  <2>1. CASE n = 0
    BY <1>1, <1>2, <2>1
  <2>2. CASE n \in 1..L
    <3>1. F[n] = w[n] /\ F[n - 1] = w[n - 1]
      BY <1>1, <2>2
    <3>2. n # 0
      BY <1>1, <2>2
    <3> HIDE DEF F
    <3> QED BY <1>4, <2>2, <3>1, <3>2
  <2>3. CASE n > L
    <3>1. F[n] = N /\ n # 0 /\ n - 1 \in 0..N /\ (n - 1 = L \/ n - 1 > L)
      BY <1>1, <2>3
    <3>2. F[n - 1] = N
      BY <1>1, <1>2, <3>1
    <3> HIDE DEF F
    <3> QED BY <1>3, <3>1, <3>2
  <2> QED BY <1>1, <2>1, <2>2, <2>3
<1>6. Counts(F)
  <2>1. F = [n \in 0..N |-> F[n]]
    OBVIOUS
  <2> HIDE DEF F
  <2> QED BY <1>5, <2>1
<1>7. Counts(G)
  <2> HIDE DEF F, Counts
  <2> QED BY <1>6
<1>8. \A n \in 0..N : G[n] = F[n]
  <2> DEFINE Bad == {n \in 0..N : G[n] # F[n]}
  <2>1. SUFFICES ASSUME Bad # {} PROVE FALSE
    OBVIOUS
  <2>2. PICK n \in Bad : \A k \in Bad : n <= k
    <3>1. Bad \in SUBSET Nat
      BY <1>1
    <3> HIDE DEF Bad
    <3> QED BY <2>1, <3>1, LeastOfSet
  <2>3. n \in 0..N /\ G[n] # F[n]
    BY <2>2
  <2>4. G[n] = IF n = 0 THEN 0 ELSE Following(bytes, G[n - 1])
    <3> HIDE DEF G
    <3> QED BY <1>7, <2>3
  <2>5. n # 0 => G[n - 1] = F[n - 1]
    <3> SUFFICES ASSUME n # 0 PROVE G[n - 1] = F[n - 1]
      OBVIOUS
    <3>1. n - 1 \in 0..N /\ ~(n <= n - 1)
      BY <1>1, <2>3
    <3>2. n - 1 \notin Bad
      <4> HIDE DEF Bad
      <4> QED BY <2>2, <3>1
    <3> HIDE DEF G, F
    <3> QED BY <3>1, <3>2
  <2>6. G[n] = F[n]
    <3> HIDE DEF G, F
    <3> QED BY <1>5, <2>3, <2>4, <2>5
  <2> QED BY <2>3, <2>6
<1>9. CASE p <= 0
  BY <1>9 DEF utf8ByteOffset
<1>10. CASE ~(p <= 0)
  <2>1. utf8ByteOffset(bytes, p) = G[Least(p, N)]
    BY <1>10, Zenon DEF utf8ByteOffset, N
  <2>2. Least(p, N) \in 0..N
    BY <1>1, <1>10 DEF Least
  <2>3. F[Least(p, N)] = w[Least(p, L)]
    <3>1. CASE p <= L
      <4>1. Least(p, N) = p /\ Least(p, L) = p /\ p \in 0..N
        BY <1>1, <1>2, <1>10, <3>1 DEF Least
      <4> QED BY <3>1, <4>1
    <3>2. CASE ~(p <= L)
      <4>1. Least(p, L) = L /\ w[L] = N
        BY <1>1, <1>2, <3>2 DEF Least
      <4>2. Least(p, N) = L \/ ~(Least(p, N) <= L)
        BY <1>1, <1>2, <1>10, <3>2 DEF Least
      <4>3. F[Least(p, N)] = N
        BY <1>1, <2>2, <4>1, <4>2
      <4> QED BY <4>1, <4>3
    <3> QED BY <3>1, <3>2
  <2> HIDE DEF G, F
  <2> QED BY <1>8, <1>10, <2>1, <2>2, <2>3 DEF L
<1> QED BY <1>9, <1>10

\* The characters of the first bytes are those whose first byte is among them.
LEMMA CharactersAreCounted ==
  ASSUME NEW text \in Seq(Characters), NEW bytes \in Seq(ByteKinds),
         NEW w, Widths(text, bytes, w), NEW k \in 0..Len(text)
  PROVE  utf8CharacterOffset(bytes, w[k]) = k
<1> DEFINE Heads(i) == {n \in 1..w[i] : bytes[n] # "tail"}
           Right(i) == IsFiniteSet(Heads(i)) /\ Cardinality(Heads(i)) = i
           Bad == {i \in 0..Len(text) : ~Right(i)}
<1>1. Len(text) \in Nat /\ w[0] = 0
  BY LenProperties DEF Widths
<1>2. Right(k)
  <2> SUFFICES ASSUME Bad # {} PROVE FALSE
    OBVIOUS
  <2>1. PICK i \in Bad : \A j \in Bad : i <= j
    <3>1. Bad \in SUBSET Nat
      BY <1>1
    <3> HIDE DEF Bad
    <3> QED BY <3>1, LeastOfSet
  <2>2. i \in 0..Len(text) /\ ~Right(i)
    BY <2>1
  <2>3. i # 0
    <3>1. Heads(0) = {}
      BY <1>1
    <3>2. Right(0)
      <4> HIDE DEF Heads
      <4> QED BY <3>1, FS_EmptySet
    <3> HIDE DEF Right
    <3> QED BY <2>2, <3>2
  <2>4. PICK m \in Nat : m = i - 1 /\ i \in 1..Len(text) /\ m \in 0..Len(text)
    BY <1>1, <2>2, <2>3
  <2>5. Right(m)
    <3>1. ~(i <= m)
      BY <1>1, <2>2, <2>4
    <3>2. m \notin Bad
      <4> HIDE DEF Bad
      <4> QED BY <2>1, <3>1
    <3> QED BY <2>4, <3>2
  <2>6. /\ w[m] \in Nat /\ w[i] \in Nat /\ w[m] < w[i] /\ bytes[w[m] + 1] # "tail"
        /\ \A n \in Nat : w[m] + 1 < n /\ n <= w[i] => bytes[n] = "tail"
    BY <2>4, LeadsAndTails
  <2>7. Heads(i) = Heads(m) \union {w[m] + 1}
    <3>1. \A n \in 1..w[i] : n \in 1..w[m] \/ n = w[m] + 1 \/ (n \in Nat /\ w[m] + 1 < n /\ n <= w[i])
      BY <2>6
    <3>2. w[m] + 1 \in 1..w[i] /\ \A n \in 1..w[m] : n \in 1..w[i]
      BY <2>6
    <3>3. \A n : n \in Heads(i) => n \in Heads(m) \/ n = w[m] + 1
      BY <2>6, <3>1
    <3>4. \A n : n \in Heads(m) \/ n = w[m] + 1 => n \in Heads(i)
      BY <2>6, <3>2
    <3> HIDE DEF Heads
    <3> QED BY <3>3, <3>4
  <2>8. w[m] + 1 \notin Heads(m)
    BY <2>6
  <2>9. Right(i)
    <3>1. IsFiniteSet(Heads(m)) /\ Cardinality(Heads(m)) = m /\ m + 1 = i
      BY <2>4, <2>5
    <3> DEFINE x == w[m] + 1
               Fewer == Heads(m)
    <3>2. IsFiniteSet(Fewer) /\ x \notin Fewer /\ Heads(i) = Fewer \union {x}
      BY <2>7, <2>8, <3>1
    <3>3. Cardinality(Fewer) = m
      BY <3>1
    <3> HIDE DEF Heads, x, Fewer
    <3>4. IsFiniteSet(Fewer \union {x}) /\ Cardinality(Fewer \union {x}) = Cardinality(Fewer) + 1
      BY <3>2, FS_AddElement
    <3>5. Cardinality(Heads(i)) = i
      BY <3>1, <3>2, <3>3, <3>4
    <3> QED BY <3>2, <3>4, <3>5
  <2> QED BY <2>2, <2>9
<1>3. Least(w[k], Len(bytes)) = w[k]
  <2>1. w[k] \in Nat /\ Len(bytes) \in Nat
    BY WidthsRise, LenProperties
  <2>2. k = Len(text) \/ k < Len(text)
    BY <1>1
  <2>3. w[k] <= Len(bytes)
    <3>1. Len(text) \in 0..Len(text) /\ w[Len(text)] = Len(bytes)
      BY <1>1 DEF Widths
    <3>2. k < Len(text) => w[k] < w[Len(text)]
      BY <3>1, WidthsRise
    <3> QED BY <2>1, <2>2, <3>1, <3>2
  <2> QED BY <2>1, <2>3 DEF Least
<1> QED BY <1>2, <1>3 DEF utf8CharacterOffset

\* The identifier that ends at a character ends there in the bytes as well.
LEMMA WordBegins ==
  ASSUME NEW text \in Seq(Characters), NEW bytes \in Seq(ByteKinds),
         NEW w, Widths(text, bytes, w), NEW e \in 0..Len(text)
  PROVE  LET s == Min({n \in 0..e : \A k \in (n + 1)..e : text[k] = "word"})
         IN  s \in 0..Len(text) /\ CursorStart(bytes, w[e]) = w[s]
<1> DEFINE Befores == {n \in 0..e : \A k \in (n + 1)..e : text[k] = "word"}
           Starts(c) == {n \in 0..c : \A k \in (n + 1)..c : bytes[k] = "word"}
<1>1. Len(text) \in Nat /\ e \in Nat /\ e <= Len(text)
  BY LenProperties
<1>2. Befores \in SUBSET Nat /\ e \in Befores
  BY <1>1
<1>3. PICK s \in Befores : \A n \in Befores : s <= n
  <2> HIDE DEF Befores
  <2> QED BY <1>2, LeastOfSet
<1>4. s \in 0..e /\ s \in Nat /\ \A k \in (s + 1)..e : text[k] = "word"
  BY <1>1, <1>3
<1>5. Min(Befores) = s
  <2>1. Befores \subseteq Nat
    BY <1>2
  <2> HIDE DEF Befores
  <2> QED BY <1>3, <2>1, LeastIs
<1>6. w[s] \in Nat /\ w[e] \in Nat /\ w[s] <= w[e]
  <2>1. s \in 0..Len(text) /\ (s = e \/ s < e)
    BY <1>1, <1>4
  <2>2. w[s] \in Nat /\ w[e] \in Nat /\ (s < e => w[s] < w[e])
    BY <2>1, WidthsRise
  <2> QED BY <2>1, <2>2
<1>7. w[s] \in Starts(w[e])
  <2> DEFINE Bad == {k \in s..e : \E n \in (w[s] + 1)..w[k] : bytes[n] # "word"}
  <2>1. Bad = {}
    <3> SUFFICES ASSUME Bad # {} PROVE FALSE
      OBVIOUS
    <3>1. PICK k \in Bad : \A j \in Bad : k <= j
      <4>1. Bad \in SUBSET Nat
        BY <1>1, <1>4
      <4> HIDE DEF Bad
      <4> QED BY <4>1, LeastOfSet
    <3>2. PICK n \in (w[s] + 1)..w[k] : bytes[n] # "word"
      BY <3>1
    <3>3. k # s
      BY <1>6, <3>2
    <3>4. PICK m \in Nat : m = k - 1 /\ k \in 1..Len(text) /\ k \in (s + 1)..e /\ m \in s..e
      BY <1>1, <1>4, <3>1, <3>3
    <3>5. m \notin Bad
      <4>1. ~(k <= m)
        BY <1>1, <1>4, <3>4
      <4> HIDE DEF Bad
      <4> QED BY <3>1, <4>1
    <3>6. w[m] \in Nat /\ w[k] = w[m] + 1 /\ bytes[w[k]] = "word"
      <4>1. text[k] = "word"
        BY <1>4, <3>4
      <4> QED BY <3>4, <4>1, LeadsAndTails
    <3>7. n = w[k] \/ n \in (w[s] + 1)..w[m]
      BY <1>6, <3>2, <3>6
    <3> QED BY <3>2, <3>4, <3>5, <3>6, <3>7
  <2>2. e \in s..e
    BY <1>1, <1>4
  <2>3. \A n \in (w[s] + 1)..w[e] : bytes[n] = "word"
    BY <2>1, <2>2
  <2> QED BY <1>6, <2>3
<1>8. \A n \in Starts(w[e]) : w[s] <= n
  <2> SUFFICES ASSUME NEW n \in Starts(w[e]), n < w[s] PROVE FALSE
    BY <1>6
  <2>1. n \in Nat /\ w[s] \in (n + 1)..w[e]
    BY <1>6
  <2>2. bytes[w[s]] = "word"
    BY <2>1
  <2>3. s # 0
    BY <2>1 DEF Widths
  <2>4. PICK m \in Nat : m = s - 1 /\ s \in 1..Len(text)
    BY <1>1, <1>4, <2>3
  <2>5. text[s] = "word"
    BY <2>2, <2>4, LeadsAndTails
  <2>6. m \in Befores
    <3>1. m \in 0..e /\ \A k \in (m + 1)..e : k = s \/ k \in (s + 1)..e
      BY <1>1, <1>4, <2>4
    <3> QED BY <1>4, <2>5, <3>1
  <2>7. ~(s <= m)
    BY <1>4, <2>4
  <2> HIDE DEF Befores
  <2> QED BY <1>3, <2>6, <2>7
<1>9. Min(Starts(w[e])) = w[s]
  <2>1. Starts(w[e]) \subseteq Nat
    BY <1>6
  <2> HIDE DEF Starts
  <2> QED BY <1>7, <1>8, <2>1, LeastIs
<1>10. CursorStart(bytes, w[e]) = w[s]
  BY <1>9 DEF CursorStart
<1>11. s \in 0..Len(text)
  BY <1>1, <1>4
<1> QED BY <1>5, <1>10, <1>11

\* What CompletesTheWord says of an answer.
CompletesWord(c) ==
  /\ c.end = IF c.cursor < 0 THEN 0 ELSE Least(c.cursor, Len(c.text))
  /\ c.start = Min({n \in 0..c.end : \A k \in (n + 1)..c.end : c.text[k] = "word"})

LEMMA NothingCompleted == CompletesWord(NoCompletion)
<1> DEFINE none == <<>>
           S == {n \in 0..0 : \A k \in (n + 1)..0 : none[k] = "word"}
<1>1. Len(none) = 0 /\ Least(0, Len(none)) = 0
  BY DEF Least
<1>2. 0 \in S /\ S \subseteq Nat /\ \A n \in S : 0 <= n
  OBVIOUS
<1>3. Min(S) = 0
  <2> HIDE DEF S
  <2> QED BY <1>2, LeastIs
<1>4. NoCompletion.end = 0 /\ NoCompletion.start = 0 /\ NoCompletion.cursor = 0
      /\ NoCompletion.text = none
  BY DEF NoCompletion
<1> HIDE DEF none
<1>5. NoCompletion.end = IF NoCompletion.cursor < 0 THEN 0
                         ELSE Least(NoCompletion.cursor, Len(NoCompletion.text))
  BY <1>1, <1>4
<1>6. NoCompletion.start =
        Min({n \in 0..NoCompletion.end :
               \A k \in (n + 1)..NoCompletion.end : NoCompletion.text[k] = "word"})
  BY <1>3, <1>4
<1> QED BY <1>5, <1>6 DEF CompletesWord

LEMMA CompletedExactly ==
  ASSUME NEW text \in Seq(Characters), NEW p \in Int
  PROVE  LET bytes == Bytes(text)
             cursor == utf8ByteOffset(bytes, p)
         IN  CompletesWord([text |-> text, cursor |-> p,
               start |-> utf8CharacterOffset(bytes, CursorStart(bytes, cursor)),
               end |-> utf8CharacterOffset(bytes, cursor)])
<1> DEFINE bytes == Bytes(text)
           cursor == utf8ByteOffset(bytes, p)
           e == IF p < 0 THEN 0 ELSE Least(p, Len(text))
           s == Min({n \in 0..e : \A k \in (n + 1)..e : text[k] = "word"})
           c == [text |-> text, cursor |-> p,
                 start |-> utf8CharacterOffset(bytes, CursorStart(bytes, cursor)),
                 end |-> utf8CharacterOffset(bytes, cursor)]
<1>1. bytes \in Seq(ByteKinds) /\ \E w : Widths(text, bytes, w)
  BY WidthsExist
<1>2. PICK w : Widths(text, bytes, w)
  BY <1>1
<1>3. Len(text) \in Nat
  BY LenProperties
<1>4. e \in 0..Len(text) /\ (p <= 0 => e = 0) /\ (~(p <= 0) => e = Least(p, Len(text)))
  BY <1>3 DEF Least
<1>5. w[0] = 0
  BY <1>2 DEF Widths
<1> HIDE DEF bytes, e
<1>6. cursor = w[e]
  BY <1>1, <1>2, <1>4, <1>5, OffsetIsWidth
<1>7. s \in 0..Len(text) /\ CursorStart(bytes, w[e]) = w[s]
  BY <1>1, <1>2, <1>4, WordBegins
<1> HIDE DEF cursor, s
<1>8. c.text = text /\ c.cursor = p /\ c.end = e /\ c.start = s
  BY <1>1, <1>2, <1>4, <1>6, <1>7, CharactersAreCounted
<1> HIDE DEF c
<1>9. CompletesWord(c)
  BY <1>8 DEF CompletesWord, e, s
<1> QED BY <1>9 DEF c, cursor, bytes

\* Completion replaces the identifier that ends at the cursor, counted in
\* characters, for any text, cursor and cells (complete_request_impl and
\* ToolingState::complete).
THEOREM CompletionIsExact == KernelSpec => []CompletesTheWord
<1> DEFINE Inv == CompletesWord(completion)
<1>1. KernelInit => Inv
  BY NothingCompleted DEF KernelInit
<1>2. Inv /\ [KernelNext]_kernelVars => Inv'
  <2> SUFFICES ASSUME CompletesWord(completion), [KernelNext]_kernelVars
               PROVE  CompletesWord(completion')
    OBVIOUS
  <2>1. ASSUME completion' = completion \/ completion' = NoCompletion
        PROVE  CompletesWord(completion')
    BY <2>1, NothingCompleted
  <2>2. CASE \E s \in Sources, silent \in BOOLEAN : ExecuteRequest(s, silent)
    BY <2>1, <2>2 DEF ExecuteRequest
  <2>3. CASE LoadCell \/ EndCell \/ Answer
    BY <2>1, <2>3 DEF LoadCell, EndCell, Answer
  <2>4. CASE EmitOutput \/ EmitDisplay
    BY <2>1, <2>4 DEF EmitOutput, EmitDisplay, Emit
  <2>5. ASSUME NEW text \in Texts, NEW p \in -1..(Len(text) + 1), CompleteRequest(text, p)
        PROVE  CompletesWord(completion')
    <3>1. text \in Seq(Characters) /\ p \in Int
      <4>1. text \in Seq(Characters)
        BY KernelAssumption
      <4>2. Len(text) \in Nat
        BY <4>1, LenProperties
      <4> QED BY <4>1, <4>2
    <3> QED BY <2>5, <3>1, CompletedExactly DEF CompleteRequest
  <2>6. CASE InspectRequest \/ InspectAnswer
    BY <2>1, <2>6 DEF InspectRequest, InspectAnswer
  <2>7. CASE \/ \E kind \in {"is_complete", "kernel_info"} : OtherRequest(kind)
             \/ InterruptRequest \/ ShutdownRequest
    BY <2>1, <2>7 DEF OtherRequest, InterruptRequest, ShutdownRequest
  <2>8. CASE UNCHANGED kernelVars
    BY <2>1, <2>8 DEF kernelVars
  <2> QED BY <2>2, <2>3, <2>4, <2>5, <2>6, <2>7, <2>8 DEF KernelNext
<1>3. Inv => CompletesTheWord
  BY DEF CompletesWord, CompletesTheWord
<1> HIDE DEF Inv
<1> QED BY <1>1, <1>2, <1>3, PTL DEF KernelSpec
=============================================================================

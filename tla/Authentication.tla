--------------------------- MODULE Authentication ---------------------------
(***************************************************************************)
(* HmacSha256Authentication of src/transport/BoringSSLAuthentication.cpp:  *)
(* the threads of the kernel's server sign and verify messages with one    *)
(* HMAC context. A lock guard holds the mutex for a whole signature, also  *)
(* when a call of BoringSSL fails and signBuffers throws.                  *)
(*                                                                         *)
(* A digest is what was given to the context since it was initialised: two *)
(* texts have different digests.                                           *)
(***************************************************************************)
EXTENDS Naturals, Sequences

CONSTANTS
  Threads,   \* the threads that sign and verify
  Messages,  \* the buffers of a message: sequences
  Nobody     \* holds the mutex when it is free

ASSUME AuthenticationAssumption == Nobody \notin Threads

Buffers == UNION {{m[k] : k \in DOMAIN m} : m \in Messages}

ASSUME MessagesAssumption == Messages \subseteq Seq(Buffers)

VARIABLES
  mutex,    \* who holds it
  context,  \* what the HMAC context has been given
  call,     \* what each thread does
  answer    \* the last thing that a thread was given

signingVars == <<mutex, context, call, answer>>

Idle == [pc |-> "idle"]

Nothing == [what |-> "nothing"]

SigningInit ==
  /\ mutex = Nobody /\ context = <<>>
  /\ call = [t \in Threads |-> Idle] /\ answer = Nothing

\* sign_impl and verify_impl: the signature that is verified is one of a message.
Sign(t, message) ==
  /\ call[t].pc = "idle"
  /\ call' = [call EXCEPT ![t] = [pc |-> "lock", message |-> message,
                                  verifies |-> FALSE, given |-> 0]]
  /\ answer' = Nothing /\ UNCHANGED <<mutex, context>>

Verify(t, message, signature) ==
  /\ call[t].pc = "idle"
  /\ call' = [call EXCEPT ![t] = [pc |-> "lock", message |-> message,
                                  verifies |-> TRUE, given |-> 0,
                                  signature |-> signature]]
  /\ answer' = Nothing /\ UNCHANGED <<mutex, context>>

-----------------------------------------------------------------------------
(* signBuffers *)

\* Fault: a thread that only verifies takes no lock.
FreeOrVerifying(t) == mutex = Nobody \/ call[t].verifies

Free(t) == mutex = Nobody

Lock(t) ==
  /\ call[t].pc = "lock" /\ Free(t)
  /\ mutex' = t /\ call' = [call EXCEPT ![t].pc = "init"]
  /\ answer' = Nothing /\ UNCHANGED context

Cleared == <<>>

HMACInit(t) ==
  /\ call[t].pc = "init" /\ context' = Cleared
  /\ call' = [call EXCEPT ![t].pc = "update"]
  /\ answer' = Nothing /\ UNCHANGED mutex

HMACUpdate(t) ==
  /\ call[t].pc = "update" /\ call[t].given < Len(call[t].message)
  /\ context' = Append(context, call[t].message[call[t].given + 1])
  /\ call' = [call EXCEPT ![t].given = @ + 1]
  /\ answer' = Nothing /\ UNCHANGED mutex

\* Fault: the mutex is released where the digest is returned only.
Held == mutex

Released == Nobody

\* HMAC_Final, and the return. The context can be used after another HMAC_Init_ex.
HMACFinal(t) ==
  /\ call[t].pc = "update" /\ call[t].given = Len(call[t].message)
  /\ answer' = IF call[t].verifies
                 THEN [what |-> "verdict", message |-> call[t].message,
                       signature |-> call[t].signature,
                       matches |-> call[t].signature = context]
                 ELSE [what |-> "signature", message |-> call[t].message,
                       digest |-> context]
  /\ mutex' = Nobody /\ call' = [call EXCEPT ![t] = Idle]
  /\ UNCHANGED context

\* A call of BoringSSL fails.
Throw(t) ==
  /\ call[t].pc \in {"init", "update"}
  /\ answer' = [what |-> "error"]
  /\ mutex' = Released /\ call' = [call EXCEPT ![t] = Idle]
  /\ UNCHANGED context

Step(t) == HMACInit(t) \/ HMACUpdate(t) \/ HMACFinal(t)

SigningNext ==
  \E t \in Threads :
    \/ \E message \in Messages : Sign(t, message)
    \/ \E message, signature \in Messages : Verify(t, message, signature)
    \/ Lock(t) \/ Step(t) \/ Throw(t)

SigningSpec == SigningInit /\ [][SigningNext]_signingVars

\* Threads run, and one that waits for the mutex is not passed over for ever.
LiveSigningSpec ==
  SigningSpec /\ \A t \in Threads : /\ SF_signingVars(Lock(t))
                                  /\ WF_signingVars(Step(t) \/ Throw(t))

-----------------------------------------------------------------------------
(* Properties. *)

\* A signature covers the buffers of its own message in their order, and nothing that
\* another thread signs at the time or that was left by a call that failed; what is
\* verified is compared with such a signature.
SignaturesAreOwn ==
  /\ answer.what = "signature" => answer.digest = answer.message
  /\ answer.what = "verdict" =>
       (answer.matches <=> answer.signature = answer.message)

\* Every signature is given or refused, also after others have failed.
SigningEnds == \A t \in Threads : call[t].pc = "lock" ~> call[t].pc = "idle"
=============================================================================

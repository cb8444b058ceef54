--------------------------- MODULE JupyterKernel ----------------------------
(***************************************************************************)
(* src/kernel/MojoInterpreter.cpp: the Jupyter kernel, a client of the     *)
(* session that SessionPromise describes. The session's steps are those of *)
(* the promise; the kernel adds the requests it answers, the messages it   *)
(* publishes, and the history of the session that completion and           *)
(* inspection work on (ToolingState of src/compiler/InteractiveParser.cpp).*)
(*                                                                         *)
(* The kernel has one thread: a request is received when the one before it *)
(* has been answered, an interrupt as well. xeus, which is external, gives *)
(* the execution counter, and counts requests that are not silent. No call *)
(* of the session or of xeus throws.                                       *)
(***************************************************************************)
EXTENDS SessionPromise, Integers, SequencesExt

CONSTANTS
  Texts,           \* what completion is asked for: sequences of characters
  MaxRequests,     \* bound: requests
  MaxMessages,     \* bound: what the program prints and displays for a request
  MaxDiagnostics   \* bound: the diagnostics of a cell

\* A character of an identifier, another of ASCII, and those of two, three and four
\* bytes in UTF-8.
Characters == {"word", "other", "two", "three", "four"}

ASSUME KernelAssumption ==
  /\ Texts \subseteq Seq(Characters)
  /\ \A s \in Sources : s.vars \in Seq(Range(s.vars))
  /\ MaxRequests \in Nat /\ MaxMessages \in Nat /\ MaxDiagnostics \in Nat

VARIABLES
  received,                 \* the requests with their replies, the last one may be
                            \* in progress
  answering,                \* a request is in progress
  counter,                  \* the execution counter of xeus
  outputEnabled,            \* MojoInterpreter: what cells print is published
  currentExecutionCounter,  \* and the counter of the results of this cell
  published,                \* the messages about the last request
  completion,               \* what the last request asked to complete, and the
                            \* answer to it
  history                   \* the cells, by number, that tooling knows; 0 is the
                            \* text that is being inspected

requestVars == <<received, answering>>
outputVars == <<counter, outputEnabled, currentExecutionCounter>>
kernelVars == <<promiseVars, requestVars, outputVars, published, completion, history>>

NoCompletion == [text |-> <<>>, cursor |-> 0, start |-> 0, end |-> 0]

KernelInit ==
  /\ PromiseInit
  /\ received = <<>> /\ answering = FALSE /\ counter = 0
  /\ outputEnabled = TRUE /\ currentExecutionCounter = 0
  /\ published = <<>> /\ completion = NoCompletion /\ history = <<>>

Request(kind) == [kind |-> kind, silent |-> FALSE, source |-> NoCell, reply |-> "none"]

Execution(s, silent) == [kind |-> "execute", silent |-> silent, source |-> s, reply |-> "none"]

request == Last(received)

Message(type, number) == [type |-> type, counter |-> number]

Executing == answering /\ request.kind = "execute"

-----------------------------------------------------------------------------
(* execute_request_impl, up to the call of the session; the call. *)

CanReceive == ~answering /\ status # "closed" /\ Len(received) < MaxRequests

ExecuteRequest(s, silent) ==
  /\ CanReceive
  /\ received' = Append(received, Execution(s, silent)) /\ answering' = TRUE
  /\ counter' = counter + (IF silent THEN 0 ELSE 1)
  /\ outputEnabled' = ~silent /\ currentExecutionCounter' = counter'
  /\ Submit(s) \/ RefuseForGood
  /\ completion' = NoCompletion /\ published' = <<>>
  /\ UNCHANGED history

\* record, at the commit of a cell: it may not parse without its wrapper.
LoadCell ==
  /\ Load
  /\ \/ history' = Append(history, submitted)
     \/ UNCHANGED history
  /\ UNCHANGED <<requestVars, outputVars, published, completion>>

EndCell ==
  /\ Executing
  /\ Reject \/ Complete \/ Raise \/ FailForGood
  /\ UNCHANGED <<requestVars, outputVars, published, completion, history>>

\* Fault: silence concerns what the program prints.
DisplayEnabled == TRUE

Enabled == outputEnabled

Emit(message, enabled) ==
  /\ status = "running" /\ Len(published) < MaxMessages
  /\ published' = IF enabled THEN Append(published, message) ELSE published
  /\ UNCHANGED <<promiseVars, requestVars, outputVars, completion, history>>

EmitOutput == \E type \in {"stdout", "stderr"} : Emit(Message(type, 0), outputEnabled)

EmitDisplay ==
  \/ Emit(Message("display", 0), Enabled)
  \/ Emit(Message("result", currentExecutionCounter), Enabled)

-----------------------------------------------------------------------------
(* execute_request_impl, after the session has returned. *)

SessionFailures == {"unusable", "jit failure", "crashed", "uninitialized"}

Diagnostics(n) == [i \in 1..n |-> Message("stderr", 0)]

Errors == <<Message("error", 0)>>

Report(n) ==
  CASE outcome \in SessionFailures \union {"diagnostics"} -> Errors
    [] outcome = "runtime error" -> Diagnostics(n) \o Errors
    [] outcome = "succeeded" -> Diagnostics(n)

\* Fault: the reply tells whether the session can go on.
SucceededOrRaised == outcome \in {"succeeded", "runtime error"}

Succeeded == outcome = "succeeded"

Verdict(ok) == IF ok THEN "ok" ELSE "failed"

Reply(ok) == Message(Verdict(ok), 0)

Replied(ok) == [received EXCEPT ![Len(received)].reply = Verdict(ok)]

\* Fault: the request that makes the session unusable is not answered.
ReturnedUsable == status = "ready"

Returned == status \in {"ready", "unusable"}

Answer ==
  /\ Executing /\ Returned
  /\ outputEnabled' = TRUE /\ answering' = FALSE
  /\ \E n \in 0..MaxDiagnostics :
       published' = published \o (IF request.silent THEN <<>> ELSE Report(n))
                              \o <<Reply(Succeeded)>>
  /\ received' = Replied(Succeeded)
  /\ UNCHANGED <<promiseVars, counter, currentExecutionCounter,
                 completion, history>>

-----------------------------------------------------------------------------
(* Texts in UTF-8: what the kernel and the session do with offsets. *)

BytesOf == [character \in Characters |->
              CASE character = "word" -> <<"word">>
                [] character = "other" -> <<"other">>
                [] character = "two" -> <<"lead", "tail">>
                [] character = "three" -> <<"lead", "tail", "tail">>
                [] character = "four" -> <<"lead", "tail", "tail", "tail">>]

Bytes(text) == FlattenSeq([i \in DOMAIN text |-> BytesOf[text[i]]])

Least(a, b) == IF a <= b THEN a ELSE b

\* The offset of the character that follows the one at an offset.
Following(bytes, offset) ==
  LET later == (offset + 1)..Len(bytes)
  IN  IF later = {} THEN offset
      ELSE Min({n \in later : n = Len(bytes) \/ bytes[n + 1] # "tail"})

\* Fault: the offset is one of bytes.
ByteOffset(bytes, characterOffset) ==
  IF characterOffset <= 0 THEN 0 ELSE Least(characterOffset, Len(bytes))

utf8ByteOffset(bytes, characterOffset) ==
  LET offset[n \in 0..Len(bytes)] ==
        IF n = 0 THEN 0 ELSE Following(bytes, offset[n - 1])
  IN  IF characterOffset <= 0 THEN 0
      ELSE offset[Least(characterOffset, Len(bytes))]

utf8CharacterOffset(bytes, byteOffset) ==
  Cardinality({n \in 1..Least(byteOffset, Len(bytes)) : bytes[n] # "tail"})

\* ToolingState::complete: the identifier that ends at the cursor.
CursorStart(bytes, cursor) ==
  Min({n \in 0..cursor : \A k \in (n + 1)..cursor : bytes[k] = "word"})

-----------------------------------------------------------------------------
(* The other requests. *)

\* The request is answered in the step that receives it.
AnswerAtOnce(kind) ==
  /\ CanReceive
  /\ received' = Append(received, [Request(kind) EXCEPT !.reply = "ok"])
  /\ published' = <<Reply(TRUE)>>
  /\ UNCHANGED <<answering, outputVars, history>>

CompleteRequest(text, cursorPosition) ==
  /\ AnswerAtOnce("complete")
  /\ LET bytes == Bytes(text)
         cursor == utf8ByteOffset(bytes, cursorPosition)
     IN  completion' =
           [text |-> text, cursor |-> cursorPosition,
            start |-> utf8CharacterOffset(bytes, CursorStart(bytes, cursor)),
            end |-> utf8CharacterOffset(bytes, cursor)]
  /\ UNCHANGED promiseVars

\* ToolingState::inspect: a text that parses is part of the history until its
\* references have been looked up.
InspectRequest ==
  /\ CanReceive /\ answering' = TRUE
  /\ received' = Append(received, Request("inspect"))
  /\ completion' = NoCompletion /\ published' = <<>>
  /\ \/ history' = Append(history, 0)
     \/ UNCHANGED history
  /\ UNCHANGED <<promiseVars, outputVars>>

TextParsed == history # <<>> /\ Last(history) = 0

InspectAnswer ==
  /\ answering /\ request.kind = "inspect"
  /\ history' = IF TextParsed THEN Front(history) ELSE history
  /\ answering' = FALSE /\ published' = <<Reply(TRUE)>> /\ received' = Replied(TRUE)
  /\ UNCHANGED <<promiseVars, outputVars, completion>>

\* is_complete (TokenScans), kernel_info.
OtherRequest(kind) ==
  /\ AnswerAtOnce(kind) /\ completion' = NoCompletion
  /\ UNCHANGED promiseVars

\* An interrupt is answered and stops nothing.
InterruptRequest == OtherRequest("interrupt")

\* xeus ends the kernel when it has replied, and the session with it.
ShutdownRequest ==
  /\ AnswerAtOnce("shutdown") /\ completion' = NoCompletion
  /\ Destroy

KernelNext ==
  \/ \E s \in Sources, silent \in BOOLEAN : ExecuteRequest(s, silent)
  \/ LoadCell \/ EndCell \/ EmitOutput \/ EmitDisplay \/ Answer
  \/ \E text \in Texts : \E cursorPosition \in -1..(Len(text) + 1) :
       CompleteRequest(text, cursorPosition)
  \/ InspectRequest \/ InspectAnswer
  \/ \E kind \in {"is_complete", "kernel_info"} : OtherRequest(kind)
  \/ InterruptRequest \/ ShutdownRequest

KernelSpec == KernelInit /\ [][KernelNext]_kernelVars

\* The compiler comes to an end, and so do the cells: an interrupt would not stop
\* one that does not.
LiveKernelSpec ==
  KernelSpec /\ WF_kernelVars(LoadCell) /\ WF_kernelVars(EndCell)
             /\ WF_kernelVars(Answer) /\ WF_kernelVars(InspectAnswer)

-----------------------------------------------------------------------------
(* Properties. *)

Replies == {"ok", "failed"}

ErrorMessages == {i \in DOMAIN published : published[i].type = "error"}

\* The reply is the last message, and the only reply.
OneReply ==
  /\ published # <<>> /\ Last(published).type = request.reply
  /\ \A i \in DOMAIN Front(published) : published[i].type \notin Replies

\* One error is published if the reply tells of one, after all that was printed.
ErrorsAgree ==
  /\ request.reply = "failed" /\ ~request.silent =>
       ErrorMessages = {Len(published) - 1}
  /\ request.reply = "ok" \/ request.silent => ErrorMessages = {}

Executions == {q \in DOMAIN received : received[q].kind = "execute"}

\* Every request is answered once, when all that it publishes has been, with the
\* same verdict in its reply and in its messages. A silent one publishes nothing
\* else; results carry the number of the execution among those that are not silent.
RequestsAreAnswered ==
  /\ \A q \in DOMAIN received :
       received[q].reply = "none" <=> answering /\ q = Len(received)
  /\ received # <<>> /\ ~answering => OneReply /\ ErrorsAgree
  /\ received # <<>> /\ request.silent =>
       \A i \in DOMAIN published : published[i].type \in Replies
  /\ \A i \in DOMAIN published : published[i].type = "result" =>
       published[i].counter = Cardinality({q \in Executions : ~received[q].silent})

\* A client that counts on a reply is right: between requests the session has the
\* variables of the cells that were answered with ok, and of no others, and its
\* tooling knows cells only, none twice.
RepliesTell ==
  ~answering =>
    /\ variables = FlattenSeq([q \in DOMAIN received |->
                                 IF q \in Executions /\ received[q].reply = "ok"
                                   THEN Declared(received[q].source) ELSE <<>>])
    /\ \A i \in DOMAIN history : history[i] \in 1..submitted
    /\ IsInjective(history)

\* Completion replaces the identifier that ends at the cursor, counted in
\* characters, wherever the cursor is and whatever the text before it is made of.
CompletesTheWord ==
  LET text == completion.text
  IN  /\ completion.end = IF completion.cursor < 0 THEN 0
                          ELSE Least(completion.cursor, Len(text))
      /\ completion.start =
           Min({n \in 0..completion.end :
                  \A k \in (n + 1)..completion.end : text[k] = "word"})

\* A request that was received is answered.
RequestsEnd == answering ~> ~answering
=============================================================================

------------------------------ MODULE DifyStream ------------------------------
(***************************************************************************)
(* One call of DifyBusinessOrchestrator: the request, and either the       *)
(* frames of the provider's event stream turned into orchestration events  *)
(* or, when execute asks for a blocking response, the one body (otherwise  *)
(* execute collects the events of a stream).  The consumer pulls: the      *)
(* adapter handles a frame when the next event is asked for.               *)
(*                                                                         *)
(* The frames come in any order and carry any conversation id.  Of the     *)
(* text only the amount is kept.                                           *)
(***************************************************************************)
EXTENDS Integers, Sequences, SequencesExt

CONSTANTS
    Conversations,    \* conversation ids of the provider
    NoConversation,   \* the field is missing; the turn has no binding
    Sources,          \* identities of sources (id ?? url ?? title)
    MaxAnswer,        \* how much text an answer may have (8 MiB)
    MaxFrames         \* bound: the frames of a stream

ASSUME MaxAnswerAssumption == MaxAnswer \in Nat /\ MaxFrames \in Nat
ASSUME BindingAssumption == NoConversation \notin Conversations

VARIABLES
    signal,   \* the caller's signal: "none", "abort" or "timeout"
    stream    \* the call

streamVars == <<signal, stream>>

Ended == {"completed", "failed", "returned"}
NoResult == [answer |-> 0, sources |-> <<>>]

StreamInit ==
    /\ signal = "none"
    /\ \E bound \in Conversations \cup {NoConversation}, blocking \in BOOLEAN :
          stream = [phase        |-> "idle",
                    blocking     |-> blocking,        \* the response mode
                    bound        |-> bound,           \* input.providerConversationId
                    conversation |-> NoConversation,  \* conversationId
                    answer       |-> 0,
                    agent        |-> FALSE,           \* sawAgentMessage
                    workflow     |-> FALSE,           \* sawWorkflowStarted
                    pending      |-> FALSE,           \* pendingWorkflowResult is set
                    broken       |-> FALSE,           \* sawWorkflowFailure
                    result       |-> NoResult,
                    deltas       |-> 0,               \* the delta events emitted
                    emitted      |-> <<>>,            \* the source events emitted
                    status       |-> "NONE",          \* lastStatus
                    error        |-> "NONE",
                    frames       |-> 0,
                    additive     |-> TRUE,            \* of what the provider wrote
                    ids          |-> {}]              \* the ids of the frames handled

SignalFires ==
    /\ signal = "none"
    /\ signal' \in {"abort", "timeout"}
    /\ UNCHANGED stream

Throw(s, code) == [s EXCEPT !.phase = "failed", !.error = code]

(* mapDifyTransportError of an error that is no RuntimeError.              *)
TransportCode ==
    CASE signal = "abort"   -> "ABORTED"
      [] signal = "timeout" -> "PROVIDER_TIMEOUT"
      [] OTHER              -> "PROVIDER_UNAVAILABLE"

(* mapDifyHttpError: the classes of status codes it tells apart.           *)
Statuses == {"408", "429", "5xx", "credentials", "other"}
HttpCode(status) ==
    CASE status = "408"                   -> "PROVIDER_TIMEOUT"
      [] status = "429"                   -> "PROVIDER_RATE_LIMITED"
      [] status \in {"5xx", "credentials"} -> "PROVIDER_UNAVAILABLE"
      [] OTHER                            -> "ORCHESTRATION_FAILED"

-----------------------------------------------------------------------------
(* request                                                                 *)

(* The signal is looked at first; the user, the files or the body may not  *)
(* do (VALIDATION_ERROR, validateDifyFiles).                               *)
Send ==
    /\ stream.phase = "idle"
    /\ IF signal # "none"
         THEN stream' = Throw(stream, TransportCode)
         ELSE \/ \E code \in {"VALIDATION_ERROR", "PROVIDER_INVALID_RESPONSE"} :
                    stream' = Throw(stream, code)
              \/ stream' = [stream EXCEPT !.phase = "asking"]
    /\ UNCHANGED signal

(* The answer's head arrives: an error status, whose body is read before   *)
(* the signal is looked at again, a media type of the other mode or no     *)
(* body, or what was asked for.                                            *)
Respond ==
    /\ stream.phase = "asking"
    /\ \/ \E status \in Statuses :
             stream' = Throw(stream, IF signal # "none" THEN TransportCode ELSE HttpCode(status))
       \/ stream' = Throw(stream, "PROVIDER_INVALID_RESPONSE")
       \/ stream' = [stream EXCEPT !.phase = IF stream.blocking THEN "body" ELSE "reading"]
    /\ UNCHANGED signal

(* The connection is lost: fetch rejects, or reading the body does.        *)
Lose ==
    /\ stream.phase \in {"asking", "reading", "body"}
    /\ stream' = Throw(stream, TransportCode)
    /\ UNCHANGED signal

(* Mutant: the signal is looked at only when a frame has arrived.          *)
CancelBetweenFrames ==
    /\ signal # "none"
    /\ stream.phase = "asking"
    /\ stream' = Throw(stream, TransportCode)
    /\ UNCHANGED signal

(* fetch and the body it returned reject as soon as the signal fires.      *)
Cancel ==
    /\ signal # "none"
    /\ stream.phase \in {"asking", "reading", "body"}
    /\ stream' = Throw(stream, TransportCode)
    /\ UNCHANGED signal

-----------------------------------------------------------------------------
(* The conversation of a response                                          *)

(* Mutant: the ids of two frames are not compared.                         *)
MismatchOfBoundOnly(s, id) ==
    id # NoConversation /\ s.bound \notin {NoConversation, id}

(* observeConversationId and assertConversationBinding throw.              *)
Mismatch(s, id) ==
    /\ id # NoConversation
    /\ s.conversation \notin {NoConversation, id} \/ s.bound \notin {NoConversation, id}

Observed(s, id) ==
    IF id = NoConversation THEN s
    ELSE [s EXCEPT !.conversation = id, !.ids = @ \cup {id}]

(* execute: the whole body has been read, whatever the signal does then.   *)
(* It is too long or does not normalize, or it has a result.  There are no *)
(* events to compare the answer with: it is not kept.                      *)
ReadBody ==
    /\ stream.phase = "body"
    /\ \/ stream' = Throw(stream, "PROVIDER_INVALID_RESPONSE")
       \/ \E id \in Conversations :
             stream' = IF Mismatch(stream, id)
                         THEN Throw(stream, "PROVIDER_INVALID_RESPONSE")
                         ELSE [Observed(stream, id) EXCEPT !.phase = "completed"]
    /\ UNCHANGED signal

-----------------------------------------------------------------------------
(* The frames                                                              *)

(* A message that follows the pieces of an agent closes them.              *)
Closes(s, kind) == kind = "message" /\ s.agent

(* What the provider has written stays additive: a closing message repeats *)
(* the pieces emitted, and no text comes after a message_end.              *)
StaysAdditive(s, kind, amount) ==
    /\ s.additive
    /\ IF Closes(s, kind) THEN amount = s.deltas ELSE s.pending => amount = 0

(* Mutant: the closing message of an agent is one more piece of text.      *)
AfterTextAdding(s, kind, amount) ==
    [s EXCEPT !.answer   = @ + amount,
              !.deltas   = IF Closes(s, kind) THEN @ ELSE @ + amount,
              !.agent    = @ \/ kind = "agent_message",
              !.additive = StaysAdditive(s, kind, amount)]

(* A piece of text, possibly empty, is emitted and added to the answer;    *)
(* the closing message replaces it, whatever it says.                      *)
AfterText(s, kind, amount) ==
    IF Closes(s, kind)
      THEN [s EXCEPT !.answer = amount, !.additive = StaysAdditive(s, kind, amount)]
      ELSE [s EXCEPT !.answer   = @ + amount,
                     !.deltas   = @ + amount,
                     !.agent    = @ \/ kind = "agent_message",
                     !.additive = StaysAdditive(s, kind, amount)]

(* The length of the answer is looked at when its piece has been emitted.  *)
Checked(s) ==
    IF s.answer > MaxAnswer THEN Throw(s, "PROVIDER_INVALID_RESPONSE") ELSE s

(* normalizeDifySources: the first source of each identity.                *)
Distinct(list) ==
    FoldLeft(LAMBDA kept, source : IF \E i \in DOMAIN kept : kept[i] = source
                                     THEN kept ELSE Append(kept, source), <<>>, list)

(* message_end: the result needs a conversation id, and waits for the      *)
(* workflow if one was started.                                            *)
AfterEnd(s, list) ==
    IF s.conversation = NoConversation
      THEN Throw(s, "PROVIDER_INVALID_RESPONSE")
      ELSE LET result == [answer |-> s.answer, sources |-> Distinct(list)]
           IN  IF s.workflow THEN [s EXCEPT !.pending = TRUE, !.result = result]
                             ELSE [s EXCEPT !.phase = "finishing", !.result = result]

(* What a frame makes of the call.  A workflow_finished is no status event *)
(* and ends the stream only when the result is there already.              *)
After(s, kind, amount, list) ==
    CASE kind = "workflow_started"              -> [s EXCEPT !.workflow = TRUE]
      [] kind = "workflow_failed"               -> [s EXCEPT !.broken = TRUE]
      [] kind = "workflow_succeeded"            -> IF s.pending
                                                     THEN [s EXCEPT !.phase = "finishing"] ELSE s
      [] kind \in {"message", "agent_message"}  -> AfterText(s, kind, amount)
      [] kind = "message_end"                   -> AfterEnd(s, list)
      [] kind = "paused"                        -> Throw(s, "ORCHESTRATION_FAILED")
      [] kind = "replaced"                      -> Throw(s, "PROVIDER_INVALID_RESPONSE")
      [] OTHER                                  -> s

(* stream.statusMapping of the default profile.                            *)
StatusOf(kind, last) ==
    CASE kind = "workflow_started"             -> "Processing request"
      [] kind \in {"message", "agent_message"} -> "Preparing response"
      [] OTHER                                 -> last

(* An event has been emitted: the generator is suspended at its yield.     *)
Yields(before, next) ==
    next.phase = "reading" /\ (next.status # before.status \/ next.deltas # before.deltas)

Texts == {"message", "agent_message"}
FrameKinds == Texts \cup {"workflow_started", "workflow_failed", "workflow_succeeded",
                          "message_end", "paused", "replaced", "ping"}

(* What the provider may send: a piece of text or none, a closing message  *)
(* that says less than its pieces, the same or more; and with a            *)
(* message_end its sources.                                                *)
Amounts(kind) ==
    IF Closes(stream, kind) THEN 0 .. stream.deltas + 1
    ELSE IF kind \in Texts THEN {0, 1} ELSE {0}
SourceLists(kind) ==
    {<<>>} \cup (IF kind = "message_end" THEN Sources \X Sources ELSE {})

(* What a frame of this kind and conversation makes of the call.           *)
Handled(kind, id, amount, list) ==
    LET sent   == [stream EXCEPT !.frames = @ + 1]
        seen   == [Observed(sent, id) EXCEPT !.status = StatusOf(kind, @)]
        next   == After(seen, kind, amount, list)
    IN  IF signal # "none" THEN Throw(sent, TransportCode)
        ELSE IF Mismatch(sent, id) THEN Throw(sent, "PROVIDER_INVALID_RESPONSE")
        ELSE IF Yields(stream, next) THEN [next EXCEPT !.phase = "suspended"]
        ELSE Checked(next)

Frame ==
    /\ stream.phase = "reading"
    /\ stream.frames < MaxFrames
    /\ \E kind \in FrameKinds, id \in Conversations \cup {NoConversation} :
       \E amount \in Amounts(kind), list \in SourceLists(kind) :
          stream' = Handled(kind, id, amount, list)
    /\ UNCHANGED signal

(* An error event; a frame that is no event at all, or whose text, sources *)
(* or status do not normalize.                                             *)
BadFrame ==
    /\ stream.phase = "reading"
    /\ \/ signal # "none" /\ stream' = Throw(stream, TransportCode)
       \/ /\ signal = "none"
          /\ \E code \in {"PROVIDER_INVALID_RESPONSE"} \cup {HttpCode(s) : s \in Statuses} :
                stream' = Throw(stream, code)
    /\ UNCHANGED signal

(* The body ends before the stream has completed.                          *)
EndOfBody ==
    /\ stream.phase = "reading"
    /\ stream' = Throw(stream, IF stream.broken THEN "ORCHESTRATION_FAILED"
                                                ELSE "PROVIDER_INVALID_RESPONSE")
    /\ UNCHANGED signal

-----------------------------------------------------------------------------
(* The consumer                                                            *)

(* completedEvents: the sources one by one, then the result.               *)
Emit ==
    /\ stream.phase = "finishing"
    /\ LET n == Len(stream.emitted)
       IN  stream' = IF n < Len(stream.result.sources)
                       THEN [stream EXCEPT !.emitted = Append(@, stream.result.sources[n + 1])]
                       ELSE [stream EXCEPT !.phase = "completed"]
    /\ UNCHANGED signal

(* The consumer asks for the next event.                                   *)
Pull ==
    /\ stream.phase = "suspended"
    /\ stream' = Checked([stream EXCEPT !.phase = "reading"])
    /\ UNCHANGED signal

(* It leaves the loop; a generator that is reading is not interrupted.     *)
Return ==
    /\ stream.phase \in {"suspended", "finishing"}
    /\ stream' = [stream EXCEPT !.phase = "returned"]
    /\ UNCHANGED signal

StreamNext ==
    \/ SignalFires \/ Send \/ Respond \/ Lose \/ Cancel \/ ReadBody
    \/ Frame \/ BadFrame \/ EndOfBody
    \/ Emit \/ Pull \/ Return

-----------------------------------------------------------------------------
(* The adapter keeps the contract of orchestration events, whatever frames *)
(* come: the sources of the result are those emitted, each once and after  *)
(* the deltas, and nothing follows the end.  The answer of the result is   *)
(* the text of the deltas if the provider writes none after a message_end  *)
(* and closes an agent's pieces, if it does, with the same text (stream,   *)
(* completedEvents).                                                       *)
Contract == INSTANCE EventStream
    WITH deltas   <- stream.deltas,
         sources  <- stream.emitted,
         outcome  <- CASE stream.phase = "completed"              -> "completed"
                       [] stream.phase \in {"failed", "returned"} -> "failed"
                       [] OTHER                                   -> "open",
         result   <- IF stream.phase = "completed" THEN stream.result ELSE NoResult,
         additive <- stream.additive
StreamContract == Contract!EventSpec

(* The result of a stream belongs to one conversation: the one every frame *)
(* named that named one, and the one the turn is bound to                  *)
(* (observeConversationId, assertConversationBinding).                     *)
OneConversation ==
    stream.phase \in {"finishing", "completed"} =>
        /\ stream.ids = {stream.conversation}
        /\ stream.bound \in {NoConversation, stream.conversation}

=============================================================================

------------------------------ MODULE ChatStream ------------------------------
(***************************************************************************)
(* POST /api/v1/chat/stream from the request to the last byte of the       *)
(* answer: TurnRunner.stream, whose guards decide what of the provider's   *)
(* stream may be shown and when, and the route that writes the events.     *)
(* The route pulls: the generator is suspended while an event is written.  *)
(*                                                                         *)
(* A text is a sequence of pieces: two deltas may carry a credential       *)
(* between them.  Preparing and committing are TurnLifecycle's; here they  *)
(* work or fail.                                                           *)
(***************************************************************************)
EXTENDS GuardPipeline

CONSTANTS
    Sessions,    \* session ids
    None,        \* no session
    MaxPieces    \* bound: deltas and sources of one turn

ASSUME NoneAssumption == None \notin Sessions /\ MaxPieces \in Nat

VARIABLES
    guards,   \* the output guard: "off", "default" or "injected"
    turn,     \* the generator
    reply     \* the response

chatVars == <<guards, turn, reply>>

Started == [type |-> "turn.started"]
Status == [type |-> "status.changed"]
Delta(text) == [type |-> "assistant.delta", text |-> text]
Source(kind) == [type |-> "source.added", source |-> kind]
Completed(session, answer) ==
    [type |-> "turn.completed", session |-> session, text |-> answer]
Failed(code) == [type |-> "turn.failed", code |-> code]

Terminal(event) == event.type \in {"turn.completed", "turn.failed"}
IsText(event) == event.type \in {"assistant.delta", "turn.completed"}
IsDelta(event) == event.type = "assistant.delta"
IsSource(event) == event.type = "source.added"

(* concatenatedDeltaText.                                                  *)
TextOf(events) ==
    FoldLeft(LAMBDA text, event : IF IsDelta(event) THEN text \o event.text ELSE text,
             <<>>, events)

ClosedTurn == [stage |-> "closed", session |-> None, aborted |-> FALSE, content |-> <<>>,
               answer |-> <<>>, queue |-> <<>>, code |-> "NONE", committed |-> FALSE]
NoReply == [sent |-> <<>>, open |-> FALSE, ended |-> FALSE]

ChatInit ==
    /\ guards \in {"off", "default", "injected"}
    /\ turn = ClosedTurn
    /\ reply = NoReply

Guarding == guards # "off"                            \* config.guards.output

(* openEventStream, and the first event of the generator.                  *)
Open(session) ==
    /\ turn' = [ClosedTurn EXCEPT !.stage = "preparing", !.session = session]
    /\ reply' = [sent |-> <<Started>>, open |-> TRUE, ended |-> FALSE]

-----------------------------------------------------------------------------
(* streamChat: one event of the generator, which continues as t.  Nothing  *)
(* is written to a response that is gone, and the loop ends; the public    *)
(* schema may refuse what the runtime says of the turn.                    *)

Write(t, event) ==
    \/ /\ ~ reply.open
       /\ turn' = ClosedTurn
       /\ UNCHANGED reply
    \/ /\ reply.open
       /\ turn' = IF Terminal(event) THEN ClosedTurn ELSE t
       /\ reply' = [reply EXCEPT !.sent = Append(@, event), !.ended = Terminal(event)]
    \/ /\ reply.open /\ event.type \notin {"turn.started", "turn.failed"}
       /\ turn' = ClosedTurn
       /\ reply' = [reply EXCEPT !.sent = Append(@, Failed("OTHER")), !.ended = TRUE]

(* Mutant: an error of the generator only ends the response.               *)
ThrowSilently ==
    /\ turn' = ClosedTurn
    /\ reply' = IF reply.open THEN [reply EXCEPT !.ended = TRUE] ELSE reply

(* The generator throws: an observability port failed.                     *)
Throw ==
    /\ turn' = ClosedTurn
    /\ reply' = IF reply.open
                  THEN [reply EXCEPT !.sent = Append(@, Failed("OTHER")), !.ended = TRUE]
                  ELSE reply

(* The signal of the turn fires.  It is looked at until the commit, and    *)
(* nothing the turn has produced is used any more.                         *)
Aborted(t) ==
    IF t.stage \in {"preparing", "streaming", "guarding", "committing"}
      THEN [ClosedTurn EXCEPT !.stage = t.stage, !.session = t.session, !.aborted = TRUE]
      ELSE t

(* The response closes before it was ended (createRequestAbortContext): a  *)
(* generator that is suspended at an event is left there.                  *)
Hangup == IF turn.stage = "releasing" THEN ClosedTurn ELSE Aborted(turn)

(* The session is aborted or reset by another request.                     *)
AbortSession ==
    /\ turn' = Aborted(turn)
    /\ UNCHANGED <<guards, reply>>

-----------------------------------------------------------------------------
(* TurnRunner.stream                                                       *)

(* What the turn has produced is dropped.                                  *)
Failing(code) ==
    [ClosedTurn EXCEPT !.stage = "failing", !.session = turn.session, !.code = code]

(* register, guardInput, prepare.                                          *)
Prepare ==
    /\ turn.stage = "preparing"
    /\ \/ ~ turn.aborted /\ turn' = [turn EXCEPT !.stage = "streaming"]
       \/ \E code \in {"SESSION_NOT_FOUND", "OTHER"} : turn' = Failing(code)
    /\ UNCHANGED <<guards, reply>>

StatusEvent ==
    /\ turn.stage = "streaming" /\ ~ turn.aborted
    /\ Len(reply.sent) < 2 /\ turn.content = <<>>     \* bound: one status event
    /\ Write(turn, Status)
    /\ UNCHANGED guards

(* A delta or a source: held back when there is an output guard.  Bound:   *)
(* without one, texts and sources are all alike.                           *)
ContentEvent ==
    /\ turn.stage = "streaming" /\ ~ turn.aborted
    /\ Len(turn.content) < MaxPieces
    /\ \E event \in IF Guarding
                      THEN {Delta(<<p>>) : p \in Pieces}
                             \cup {Source(kind) : kind \in {"clean", "unsafe"}}
                      ELSE {Delta(<<"head">>), Source("clean")} :
          LET next == [turn EXCEPT !.content = Append(@, event)]
          IN  IF Guarding
                THEN turn' = next /\ UNCHANGED reply
                ELSE Write(next, event)
    /\ UNCHANGED guards

(* The result.  Its answer need not be the text of the deltas, which       *)
(* matters to the guard only.                                              *)
ResultEvent ==
    /\ turn.stage = "streaming" /\ ~ turn.aborted
    /\ \E answer \in {TextOf(turn.content)}
                      \cup (IF Guarding THEN {<<"head">>} ELSE {}) :
          turn' = [turn EXCEPT !.stage = "guarding", !.answer = answer]
    /\ UNCHANGED <<guards, reply>>

(* The provider fails, says something invalid or stops without a result,   *)
(* or throwIfAborted does.                                                 *)
ProviderFails ==
    /\ turn.stage = "streaming"
    /\ turn' = Failing("OTHER")
    /\ UNCHANGED <<guards, reply>>

(* What guardOutputText may return for a text: the text, a sanitized one,  *)
(* or nothing when the pipeline blocks it.                                 *)
Guarded(text) ==
    {v.text : v \in {w \in Evaluate(guards, text) : w.action # "BLOCK"}}

(* Mutant: the answer stands for the deltas, whatever they are.            *)
GuardedDeltasUnread(answer) ==
    IF TextOf(turn.content) = turn.answer THEN {answer} ELSE {TextOf(turn.content)}

(* guardedDeltaText.                                                       *)
GuardedDeltas(answer) ==
    IF TextOf(turn.content) = turn.answer THEN {answer} ELSE Guarded(TextOf(turn.content))

(* The buffered content as it is released: a sanitized text takes the      *)
(* place of the first delta.                                               *)
Released(text) ==
    IF text = TextOf(turn.content) THEN turn.content
    ELSE LET first == SelectInSeq(turn.content, IsDelta)
             Held(i) == IsSource(turn.content[i]) \/ i = first
             Shown(i) == IF i = first THEN Delta(text) ELSE turn.content[i]
         IN  FoldLeft(LAMBDA kept, i : IF Held(i) THEN Append(kept, Shown(i)) ELSE kept,
                      <<>>, [i \in 1 .. Len(turn.content) |-> i])

Approve ==
    /\ turn.stage = "guarding" /\ ~ turn.aborted
    /\ IF Guarding
         THEN /\ Source("unsafe") \notin ToSet(turn.content)      \* guardStructuredOutput
              /\ \E answer \in Guarded(turn.answer) : \E text \in GuardedDeltas(answer) :
                    turn' = [turn EXCEPT !.stage = "committing", !.content = <<>>,
                                         !.answer = answer, !.queue = Released(text)]
         ELSE turn' = [turn EXCEPT !.stage = "committing", !.content = <<>>]
    /\ UNCHANGED <<guards, reply>>

(* The guard blocks the answer, the deltas, a source, a follow-up or a     *)
(* context patch, or the signal fired while it was asked.                  *)
Block ==
    /\ turn.stage = "guarding"
    /\ Guarding \/ turn.aborted
    /\ turn' = Failing("OTHER")
    /\ UNCHANGED <<guards, reply>>

CommitFails ==
    /\ turn.stage = "committing"
    /\ turn' = Failing("OTHER")
    /\ UNCHANGED <<guards, reply>>

(* commitTurn: after it nothing looks at the signal any more.  The         *)
(* observer that is told of the commit may throw.                          *)
Commit ==
    /\ turn.stage = "committing" /\ ~ turn.aborted
    /\ \/ /\ turn' = [turn EXCEPT !.stage = "releasing", !.committed = TRUE, !.answer = <<>>,
                                  !.queue = Append(@, Completed(turn.session, turn.answer))]
          /\ UNCHANGED reply
       \/ Throw
    /\ UNCHANGED guards

Release ==
    /\ turn.stage = "releasing"
    /\ Write([turn EXCEPT !.queue = Tail(@)], Head(turn.queue))
    /\ UNCHANGED guards

(* recordFailure and turn.failed; the observer may throw instead.          *)
Fail ==
    /\ turn.stage = "failing"
    /\ Write(turn, Failed(turn.code)) \/ Throw
    /\ UNCHANGED guards

Proceed ==
    \/ Prepare \/ StatusEvent \/ ContentEvent \/ ResultEvent \/ ProviderFails
    \/ Approve \/ Block \/ CommitFails \/ Release \/ Fail

ChatStep == Commit \/ Proceed

-----------------------------------------------------------------------------
(* A response that was read to its end holds exactly one terminal event,   *)
(* and no event follows a terminal one (streamChat, sendStreamFailure).    *)
OneTerminalEvent ==
    /\ \A i \in DOMAIN reply.sent :
          /\ reply.sent[i] = Started <=> i = 1
          /\ Terminal(reply.sent[i]) => i = Len(reply.sent)
    /\ reply.ended <=> reply.sent # <<>> /\ Terminal(Last(reply.sent))

(* With an output guard nothing of an answer leaves the server before the  *)
(* whole answer was approved and its turn committed, and what leaves then  *)
(* shows nothing the guard objects to, not even across deltas or in the    *)
(* answer of the result (docs/security.md:35).                             *)
NothingUnguarded ==
    Guarding =>
        /\ (\E i \in DOMAIN reply.sent : IsSource(reply.sent[i]) \/ IsText(reply.sent[i]))
             => turn.committed \/ turn.stage = "closed"
        /\ ~ HasCredential(TextOf(reply.sent))
        /\ \A i \in DOMAIN reply.sent :
              /\ IsSource(reply.sent[i]) => reply.sent[i].source = "clean"
              /\ IsText(reply.sent[i]) =>
                    ~ HasCredential(reply.sent[i].text) /\ ~ HasLeak(reply.sent[i].text)

=============================================================================

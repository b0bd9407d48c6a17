------------------------------ MODULE DemoClient ------------------------------
(***************************************************************************)
(* The demo web client (App.tsx, conversation-cache.ts) in front of the    *)
(* chat stream: the conversation on the screen, the request it waits for,  *)
(* the recovery of a saved conversation, and the cache the browser keeps.  *)
(* One tab; what is typed into the composer is not followed.               *)
(*                                                                         *)
(* Of a list of messages only the sessions that answers in it are from are *)
(* kept, so any list may be one the cache's limits refuse.                 *)
(***************************************************************************)
EXTENDS ChatStream

VARIABLES
    stored,     \* the server's store: the sessions with a turn
    screen,     \* the conversation on the screen
    request,    \* the request it waits for
    recovery,   \* the recovery of the conversation
    late,       \* what the last overtaken recovery may still answer
    cache,      \* cacheRef
    disk,       \* localStorage
    saving      \* cachePersistenceEnabled

clientVars == <<screen, request, recovery, late, cache, disk, saving>>
demoVars == <<chatVars, stored, clientVars>>

NoRequest == [running |-> FALSE, session |-> None, done |-> FALSE]
Idle == [state |-> "idle", current |-> None]
EmptyCache == [active |-> None, saved |-> << >>]

Known(c) == DOMAIN c.saved
HasToken(c, session) == session \in Known(c) /\ c.saved[session].token

-----------------------------------------------------------------------------
(* conversation-cache.ts                                                   *)

(* saveConversationCache: the storage may refuse, which only warns.        *)
Saved(next) == {next, disk}

ApplyCache(next) ==
    /\ cache' = next
    /\ disk' \in IF saving THEN Saved(next) ELSE {disk}

(* The conversation as it is saved: without a new token it keeps its own.  *)
Upsert(session, messages, token) ==
    [active |-> session,
     saved  |-> [s \in Known(cache) \cup {session} |->
                   IF s = session THEN [messages |-> messages,
                                        token    |-> token \/ HasToken(cache, session)]
                                  ELSE cache.saved[s]]]

(* upsertCachedConversation: the schema refuses a cache with too many      *)
(* conversations or messages, and then everything stays as it is.          *)
Persist(session, messages, token) ==
    ApplyCache(Upsert(session, messages, token)) \/ UNCHANGED <<cache, disk>>

(* activateCachedConversation.                                             *)
Activate(session) == [cache EXCEPT !.active = session]

-----------------------------------------------------------------------------
(* recoverConversation.  "current" is what the operation recovers whose    *)
(* number is recoverySequence.                                             *)

(* The number moves on.  The operation that had it is aborted, but its     *)
(* answer may be there already.  Bound: only the last one's is.            *)
Overtake == late' = IF recovery.current = None THEN late ELSE recovery.current

(* The selected conversation is recovered if it has a token.               *)
Recover(session) ==
    IF HasToken(cache, session)
      THEN [state |-> "recovering", current |-> session]
      ELSE Idle

(* The restored conversation replaces the one on the screen.               *)
Restored ==
    /\ recovery.current # None
    /\ LET s == recovery.current
       IN  /\ s \in stored
           /\ screen' = [session |-> s, messages |-> {s}]
           /\ Persist(s, {s}, TRUE)
    /\ recovery' = Idle
    /\ UNCHANGED <<chatVars, stored, request, late, saving>>

(* The server refuses, cannot be reached, or names another session.        *)
NotRestored ==
    /\ recovery.current # None
    /\ recovery' = [state |-> "failed", current |-> None]
    /\ UNCHANGED <<chatVars, stored, screen, request, late, cache, disk, saving>>

(* Mutant: the number is not looked at when an answer has come.            *)
LateAnswerShown ==
    /\ late \in stored
    /\ screen' = [session |-> late, messages |-> {late}]
    /\ Persist(late, {late}, TRUE)
    /\ recovery' = [recovery EXCEPT !.state = "idle"]
    /\ late' = None
    /\ UNCHANGED <<chatVars, stored, request, saving>>

(* An overtaken operation settles, with the restored conversation or not:  *)
(* its number is not recoverySequence any more, and it does nothing.       *)
LateAnswer ==
    /\ late # None
    /\ late' = None
    /\ UNCHANGED <<chatVars, stored, screen, request, recovery, cache, disk, saving>>

(* Mutant: the timer only aborts the operation, which then ends silently.  *)
TimeoutAborting ==
    /\ recovery.current # None
    /\ recovery' = [recovery EXCEPT !.current = None]
    /\ Overtake
    /\ UNCHANGED <<chatVars, stored, screen, request, cache, disk, saving>>

(* The timer of thirty seconds.                                            *)
Timeout ==
    /\ recovery.current # None
    /\ recovery' = [state |-> "failed", current |-> None]
    /\ Overtake
    /\ UNCHANGED <<chatVars, stored, screen, request, cache, disk, saving>>

-----------------------------------------------------------------------------
(* runRequest                                                              *)

(* Send, or Retry after a failure.  The server gives a request without a   *)
(* session a new id.  Bound: one turn is on the server at a time.          *)
Submit ==
    /\ ~ request.running /\ recovery.state = "idle"
    /\ turn.stage = "closed"
    /\ \E s \in IF screen.session = None THEN Sessions \ stored ELSE {screen.session} : Open(s)
    /\ request' = [running |-> TRUE, session |-> screen.session, done |-> FALSE]
    /\ UNCHANGED <<guards, stored, screen, recovery, late, cache, disk, saving>>

(* The events before the terminal one change only the text on the screen;  *)
(* here they have been read when it is.                                    *)
Receives(type) ==
    /\ request.running /\ reply.open /\ ~ request.done
    /\ reply.ended /\ Last(reply.sent).type = type

(* turn.completed: the session becomes the conversation's, and is saved;   *)
(* the answer carries a token when the provider's conversation is bound.   *)
ReceiveCompleted ==
    /\ Receives("turn.completed")
    /\ request' = [request EXCEPT !.done = TRUE]
    /\ LET s == Last(reply.sent).session
           messages == screen.messages \cup {s}
       IN  /\ screen' = [screen EXCEPT !.session = s, !.messages = messages]
           /\ \E token \in BOOLEAN : Persist(s, messages, token)
    /\ UNCHANGED <<chatVars, stored, recovery, late, saving>>

(* The request is over: its response has been read, or is closed before it *)
(* was ended (createRequestAbortContext).                                  *)
EndRequest ==
    /\ request' = NoRequest
    /\ reply' = NoReply
    /\ turn' = Hangup
    /\ UNCHANGED <<guards, stored>>

Finish ==
    /\ request.running /\ request.done /\ reply.open
    /\ EndRequest
    /\ UNCHANGED <<screen, recovery, late, cache, disk, saving>>

(* The error of a request; what has been shown of the answer stays.  A     *)
(* request can be repeated, and its conversation may be gone.              *)
RequestFails(code) ==
    /\ recovery' = IF code = "SESSION_NOT_FOUND" /\ request.session # None
                     THEN [recovery EXCEPT !.state = "failed"] ELSE recovery
    /\ EndRequest
    /\ UNCHANGED <<screen, late, cache, disk, saving>>

ReceiveFailed == Receives("turn.failed") /\ RequestFails(Last(reply.sent).code)

(* The connection is lost, whatever has been received.                     *)
ConnectionLost == request.running /\ RequestFails("OTHER")

(* handleStop: the request rejects with an AbortError, and what is there   *)
(* of the conversation is saved.                                           *)
Stop ==
    /\ request.running
    /\ EndRequest
    /\ IF request.session = None THEN UNCHANGED <<cache, disk>>
       ELSE Persist(request.session, screen.messages, FALSE)
    /\ UNCHANGED <<screen, recovery, late, saving>>

-----------------------------------------------------------------------------
(* The other buttons, and the page itself                                  *)

(* handleNewConversation.                                                  *)
New ==
    /\ ~ request.running
    /\ recovery' = Idle /\ Overtake
    /\ screen' = [session |-> None, messages |-> {}]
    /\ ApplyCache(Activate(None))
    /\ UNCHANGED <<chatVars, stored, request, saving>>

(* handleSelectConversation.                                               *)
Select ==
    /\ ~ request.running
    /\ \E s \in Known(cache) :
          /\ recovery' = Recover(s)
          /\ screen' = [session |-> s, messages |-> cache.saved[s].messages]
          /\ ApplyCache(Activate(s))
    /\ Overtake
    /\ UNCHANGED <<chatVars, stored, request, saving>>

(* handleRetryRecovery: Retry recovery, Refresh history.                   *)
RetryRecovery ==
    /\ ~ request.running /\ recovery.state # "recovering"
    /\ HasToken(cache, screen.session)
    /\ recovery' = Recover(screen.session) /\ Overtake
    /\ UNCHANGED <<chatVars, stored, screen, request, cache, disk, saving>>

(* Mutant: a cache that could not be loaded is saved all the same.         *)
LoadSaving(c, readable) ==
    /\ cache' = c
    /\ saving' = TRUE
    /\ LET s == c.active
       IN  /\ screen' = [session |-> s,
                         messages |-> IF s = None THEN {} ELSE c.saved[s].messages]
           /\ recovery' = IF HasToken(c, s)
                            THEN [state |-> "recovering", current |-> s] ELSE Idle

(* The page is loaded: what loadConversationCache returns, or nothing when *)
(* the storage cannot be read, which is then not written any more.         *)
Load(c, readable) ==
    /\ cache' = c
    /\ saving' = readable
    /\ LET s == c.active
       IN  /\ screen' = [session |-> s,
                         messages |-> IF s = None THEN {} ELSE c.saved[s].messages]
           /\ recovery' = IF HasToken(c, s)
                            THEN [state |-> "recovering", current |-> s] ELSE Idle

Reload ==
    /\ Load(disk, TRUE) \/ Load(EmptyCache, FALSE)
    /\ EndRequest /\ late' = None
    /\ UNCHANGED disk

-----------------------------------------------------------------------------
(* What the server does: its commit is the store's next turn.              *)
Serve ==
    /\ UNCHANGED clientVars
    /\ \/ Commit /\ stored' = stored \cup {turn.session}
       \/ (Proceed \/ AbortSession) /\ UNCHANGED stored

(* Some conversations are there already, and the browser has saved them,   *)
(* with a token or without.                                                *)
DemoInit ==
    /\ ChatInit
    /\ \E known \in SUBSET Sessions, bound \in SUBSET Sessions :
          /\ bound \subseteq known
          /\ stored = known
          /\ cache = [active |-> None,
                      saved  |-> [s \in known |-> [messages |-> {s}, token |-> s \in bound]]]
    /\ disk = cache /\ saving = TRUE
    /\ screen = [session |-> None, messages |-> {}]
    /\ request = NoRequest /\ recovery = Idle /\ late = None

ClientStep ==
    \/ Submit \/ ReceiveCompleted \/ ReceiveFailed \/ Finish
    \/ ConnectionLost \/ Stop
    \/ Restored \/ NotRestored \/ LateAnswer \/ Timeout
    \/ New \/ Select \/ RetryRecovery \/ Reload

DemoNext == Serve \/ ClientStep

DemoSpec == DemoInit /\ [][DemoNext]_demoVars

(* The server's own steps and the reading of an open response go on.  The  *)
(* timer fires unless the recovery it belongs to is left: the user does    *)
(* not switch conversations for ever.  A request and a recovery are never  *)
(* there at once (Submit), so one condition is enough for both.  Answers   *)
(* to a recovery need not come.                                            *)
FairDemoSpec ==
    /\ DemoSpec
    /\ WF_demoVars(Serve)
    /\ WF_demoVars(ReceiveCompleted \/ ReceiveFailed \/ Finish \/ Timeout)

-----------------------------------------------------------------------------
(* The answers on the screen, and those saved under a session, are of that *)
(* session, and the recovery whose answer will be shown is of the          *)
(* conversation on the screen: a late one replaces nothing                 *)
(* (recoverySequence, docs/history-hardening-review.md).                   *)
ScreenIsOneConversation ==
    /\ screen.messages \subseteq {screen.session}
    /\ \A s \in Known(cache) : cache.saved[s].messages \subseteq {s}
    /\ recovery.current \in {None, screen.session}
    /\ cache.active \in {None, screen.session}
    /\ request.running => request.session \in {None, screen.session}

(* A saved conversation is never lost from the storage, and neither is the *)
(* token that recovers it: not by a turn without a token, by a recovery,   *)
(* by a full storage, or by a page that could not read it                  *)
(* (persistConversation, cachePersistenceEnabled).                         *)
SavedConversationsStay ==
    [][\A s \in Known(disk) :
          s \in Known(disk') /\ (disk.saved[s].token => disk'.saved[s].token)]_disk

(* A recovery ends even if the server never answers it, and a request      *)
(* ends.  When a recovery has failed the composer stays disabled until it  *)
(* is tried again or the conversation is left (recoverConversation's       *)
(* timer, runRequest, composerDisabled).                                   *)
RecoveriesEnd ==
    /\ []<>(recovery.state # "recovering")
    /\ []<>(~ request.running)

=============================================================================

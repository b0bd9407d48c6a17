---------------------------- MODULE TurnLifecycle ----------------------------
(***************************************************************************)
(* ChatRuntime's turns: TurnRunner.run and TurnRunner.stream over one      *)
(* RuntimeStore, with the compaction each turn performs before it calls    *)
(* the provider, abortSession, resetSession and the client's own signal.   *)
(*                                                                         *)
(* The code is single threaded and yields at each await, so an action is   *)
(* the code between two awaits of one asynchronous operation.  Reading the *)
(* store and acting on what was read are one action where nothing but the  *)
(* abort signal could come between: the check after the await sees it.     *)
(* chat and stream follow the same path; stream yields turn.started before *)
(* it registers, so its turns may pause in "announced", which a chat turn   *)
(* passes through at once.                                                 *)
(***************************************************************************)
EXTENDS RuntimeStore

CONSTANTS
    Sessions,         \* session ids
    Resets,           \* identities of resetSession calls
    RecentMessages,   \* messages compaction never touches
    Threshold,        \* messages that trigger a compaction
    Faults,           \* which dependencies may fail: "store", "ack", "observer"
    GivesUp,          \* the turns whose caller's signal may fire
    MayAbort          \* the sessions abortSession may be called for

ASSUME RecentMessagesAssumption == RecentMessages \in Nat
ASSUME ThresholdAssumption == Threshold \in Nat \ {0}
ASSUME FaultsAssumption == Faults \subseteq {"store", "ack", "observer"}
ASSUME AbortsAssumption == GivesUp \subseteq Turns /\ MayAbort \subseteq Sessions

VARIABLES
    sessions,      \* the store: what it holds for each session id
    failedTurns,   \* the store: the turns recorded as failed
    turn,          \* the turns in flight and their outcomes
    reset          \* the resetSession calls in flight and their outcomes

vars == <<sessions, failedTurns, turn, reset>>

Errors == {"NONE", "ABORTED", "INPUT_BLOCKED", "OUTPUT_BLOCKED", "PROVIDER_ERROR",
           "SESSION_NOT_FOUND", "CONTEXT_INVALID", "SESSION_CONFLICT",
           "DATABASE_ERROR", "INTERNAL_ERROR"}

(***************************************************************************)
(* Where a turn is.  A turn is registered in the ActiveTurnRegistry from   *)
(* register to scope.close, in the phases of Registered.                   *)
(***************************************************************************)
BeforeCommit == {"guarding", "loading", "compacting", "summarizing", "reloading",
                 "orchestrating", "answered"}
Registered == BeforeCommit \cup {"committing", "committed", "failing"}
Ended      == {"completed", "failed", "unrecorded"}
Phases     == {"idle", "announced"} \cup Registered \cup Ended

TurnState ==
    [phase        : Phases,
     session      : Sessions,
     user         : Users,
     parent       : BOOLEAN,    \* the caller's signal is aborted
     signal       : BOOLEAN,    \* the turn's own signal is aborted
     loaded       : Aggregate,  \* the aggregate the turn is prepared from
     older        : Aggregate,  \* the aggregate its compaction loaded
     candidates   : SUBSET Message,  \* the messages its compaction takes
     compacted    : BOOLEAN,    \* its compaction was committed
     conversation : Conversations \cup {NoConversation},
     error        : Errors]

ResetPhases == {"idle", "reading", "writing", "confirming", "done", "rejected"}

ResetState ==
    [phase : ResetPhases, session : Sessions, expected : Nat, reported : Nat]

IsRegistered(t, s) == turn[t].session = s /\ turn[t].phase \in Registered

-----------------------------------------------------------------------------
(* Starting a turn                                                         *)

(* No aggregate: prepare and commit hold theirs only while they run.       *)
Nothing == AggregateOf(NoSession)

Init ==
    /\ sessions = [s \in Sessions |-> NoSession]
    /\ failedTurns = {}
    /\ turn \in [Turns -> {[phase |-> "idle", session |-> s, user |-> u,
                            parent |-> FALSE, signal |-> FALSE,
                            loaded |-> Nothing,
                            older |-> Nothing,
                            candidates |-> {}, compacted |-> FALSE,
                            conversation |-> NoConversation,
                            error |-> "NONE"] : s \in Sessions, u \in Users}]
    /\ reset \in [Resets -> {[phase |-> "idle", session |-> s,
                              expected |-> 0, reported |-> 0] : s \in Sessions}]

(* The turn continues in another phase.                                    *)
Goto(t, phase) == turn' = [turn EXCEPT ![t].phase = phase]

(* The catch block: an aborted signal turns every error into ABORTED.      *)
Fail(t, error) ==
    turn' = [turn EXCEPT ![t].phase = "failing",
                         ![t].error = IF turn[t].signal THEN "ABORTED" ELSE error,
                         ![t].loaded = Nothing,
                         ![t].older = Nothing]

Begin(t) ==
    /\ turn[t].phase = "idle"
    /\ Goto(t, "announced")
    /\ UNCHANGED <<sessions, failedTurns, reset>>

(* register links the caller's signal: if it is aborted already, so is the *)
(* turn's, and the throwIfAborted that follows fails the turn.             *)
Register(t) ==
    /\ turn[t].phase = "announced"
    /\ turn' = [turn EXCEPT
                  ![t].signal = turn[t].parent,
                  ![t].phase = IF turn[t].parent THEN "failing" ELSE "guarding",
                  ![t].error = IF turn[t].parent THEN "ABORTED" ELSE @]
    /\ UNCHANGED <<sessions, failedTurns, reset>>

GuardInput(t) ==
    /\ turn[t].phase = "guarding"
    /\ \/ ~turn[t].signal /\ Goto(t, "loading")
       \/ \E e \in {"INPUT_BLOCKED", "PROVIDER_ERROR"} : Fail(t, e)
    /\ UNCHANGED <<sessions, failedTurns, reset>>

-----------------------------------------------------------------------------
(* prepare: load the aggregate, compact, load it again                     *)

(* validateOwnedAggregate                                                  *)
Rejection(aggregate, user) ==
    IF aggregate.owner # user THEN "SESSION_NOT_FOUND"
    ELSE IF aggregate.context.revision # aggregate.revision THEN "CONTEXT_INVALID"
    ELSE "NONE"

(* The aggregate is good for the turn, which is prepared from it and goes  *)
(* on in the given phase; or it is not and the turn fails.                 *)
PrepareFrom(t, aggregate, phase) ==
    LET rejection == Rejection(aggregate, turn[t].user)
    IN  \/ /\ turn[t].signal \/ rejection # "NONE"
           /\ Fail(t, rejection)
        \/ /\ ~turn[t].signal /\ rejection = "NONE"
           /\ turn' = [turn EXCEPT ![t].loaded = aggregate, ![t].phase = phase]

(* A missing session gives the default context at revision 0.              *)
Load(t) ==
    /\ turn[t].phase = "loading"
    /\ LET aggregate == AggregateOf(sessions[turn[t].session])
       IN  \/ /\ Exists(aggregate)
              /\ PrepareFrom(t, aggregate, "compacting")
           \/ /\ ~Exists(aggregate)
              /\ IF turn[t].signal
                   THEN Fail(t, "ABORTED")
                   ELSE turn' = [turn EXCEPT ![t].loaded = aggregate,
                                             ![t].phase = "orchestrating"]
    /\ UNCHANGED <<sessions, failedTurns, reset>>

(* Mutant: the recent window is one message short.                         *)
CandidatesOneTooMany(aggregate) ==
    {m \in aggregate.messages :
        Cardinality({k \in aggregate.messages : k.at > m.at}) >= RecentMessages - 1}

(* selectCompactionCandidates: all but the newest RecentMessages.          *)
Candidates(aggregate) ==
    {m \in aggregate.messages :
        Cardinality({k \in aggregate.messages : k.at > m.at}) >= RecentMessages}

(* The service loads an aggregate of its own.  The message count reaching  *)
(* the threshold triggers a compaction; so may the estimated tokens, which *)
(* depend on the texts.  With no trigger or no candidate it is skipped,    *)
(* and the turn keeps the aggregate it loaded first.                       *)
Compact(t) ==
    /\ turn[t].phase = "compacting"
    /\ LET older      == AggregateOf(sessions[turn[t].session])
           candidates == Candidates(older)
       IN  \/ turn[t].signal /\ Fail(t, "ABORTED")
           \/ /\ ~turn[t].signal
              /\ Cardinality(older.messages) < Threshold \/ candidates = {}
              /\ Goto(t, "orchestrating")
           \/ /\ ~turn[t].signal
              /\ candidates # {}
              /\ turn' = [turn EXCEPT ![t].older = older,
                                      ![t].candidates = candidates,
                                      ![t].phase = "summarizing"]
    /\ UNCHANGED <<sessions, failedTurns, reset>>

(* Mutant: the previous summary is not handed to the provider.             *)
SummaryWithoutPrevious(t) == turn[t].candidates

(* What the provider's summary covers: the previous one and the candidates. *)
Summary(t) == turn[t].older.summary \cup turn[t].candidates

(* The summary arrives and is committed at the revision the service loaded. *)
CommitCompaction(t) ==
    /\ turn[t].phase = "summarizing"
    /\ ~turn[t].signal
    /\ LET s == turn[t].session
           c == turn[t].candidates
       IN  \/ /\ CompactionAccepted(sessions[s], turn[t].older.revision, c)
              /\ sessions' = [sessions EXCEPT ![s] = Compacted(@, Summary(t), c)]
              /\ turn' = [turn EXCEPT ![t].compacted = TRUE,
                                      ![t].older = Nothing,
                                      ![t].phase = "reloading"]
           \/ /\ ~CompactionAccepted(sessions[s], turn[t].older.revision, c)
              /\ Fail(t, "SESSION_CONFLICT")
              /\ UNCHANGED sessions
    /\ UNCHANGED <<failedTurns, reset>>

(* The compaction is stored but its acknowledgement is lost.               *)
CompactionUnacknowledged(t) ==
    /\ "ack" \in Faults
    /\ turn[t].phase = "summarizing"
    /\ ~turn[t].signal
    /\ LET s == turn[t].session
           c == turn[t].candidates
       IN  /\ CompactionAccepted(sessions[s], turn[t].older.revision, c)
           /\ sessions' = [sessions EXCEPT ![s] = Compacted(@, Summary(t), c)]
    /\ Fail(t, "DATABASE_ERROR")
    /\ UNCHANGED <<failedTurns, reset>>

(* The provider of summaries fails or answers an aborted turn.             *)
SummaryFails(t) ==
    /\ turn[t].phase = "summarizing"
    /\ Fail(t, "PROVIDER_ERROR")
    /\ UNCHANGED <<sessions, failedTurns, reset>>

Reload(t) ==
    /\ turn[t].phase = "reloading"
    /\ PrepareFrom(t, AggregateOf(sessions[turn[t].session]), "orchestrating")
    /\ UNCHANGED <<sessions, failedTurns, reset>>

-----------------------------------------------------------------------------
(* The provider's answer and the commit                                    *)

(* Mutant: the binding of the session is not passed on.                    *)
AnswerUnbound(t) ==
    /\ turn[t].phase = "orchestrating"
    /\ LET fresh == Conversations \ {turn[u].conversation : u \in Turns}
       IN  \E c \in fresh \cup {NoConversation} :
              turn' = [turn EXCEPT ![t].conversation = c, ![t].phase = "answered"]
    /\ UNCHANGED <<sessions, failedTurns, reset>>

(* A turn prepared with a binding passes it on, and the adapter accepts no *)
(* other conversation; without one the provider opens a new conversation,   *)
(* or, for an orchestrator that has none, names none.                      *)
Answer(t) ==
    /\ turn[t].phase = "orchestrating"
    /\ LET bound == turn[t].loaded.binding
           fresh == Conversations \ {turn[u].conversation : u \in Turns}
       IN  \E c \in IF bound = NoConversation THEN fresh \cup {NoConversation}
                                              ELSE {bound} :
              turn' = [turn EXCEPT ![t].conversation = c, ![t].phase = "answered"]
    /\ UNCHANGED <<sessions, failedTurns, reset>>

ProviderFails(t) ==
    /\ turn[t].phase = "orchestrating"
    /\ Fail(t, "PROVIDER_ERROR")
    /\ UNCHANGED <<sessions, failedTurns, reset>>

(* Mutant: commitTurn is called without the last check of the signal.      *)
GuardOutputNoCheck(t) ==
    /\ turn[t].phase = "answered"
    /\ Goto(t, "committing")
    /\ UNCHANGED <<sessions, failedTurns, reset>>

(* The output guards, the merge of the context patch, the resume token and *)
(* the last throwIfAborted: either one of them fails, or commitTurn is      *)
(* called.  That call is the irreversible boundary.                        *)
GuardOutput(t) ==
    /\ turn[t].phase = "answered"
    /\ \/ ~turn[t].signal /\ Goto(t, "committing")
       \/ \E e \in {"OUTPUT_BLOCKED", "PROVIDER_ERROR", "CONTEXT_INVALID",
                  "INTERNAL_ERROR"} : Fail(t, e)
    /\ UNCHANGED <<sessions, failedTurns, reset>>

StoreTurn(t) ==
    LET s == turn[t].session
        next == MergedContext(turn[t].loaded.context, t)
    IN  /\ CommitAccepted(sessions[s], turn[t].loaded.context.revision, turn[t].user)
        /\ sessions' = [sessions EXCEPT
              ![s] = Committed(@, t, turn[t].user, next, turn[t].conversation)]

CommitTurn(t) ==
    /\ turn[t].phase = "committing"
    /\ StoreTurn(t)
    /\ turn' = [turn EXCEPT ![t].phase = "committed", ![t].loaded = Nothing]
    /\ UNCHANGED <<failedTurns, reset>>

(* Mutant: a conflicting commit is tried again as it is.                   *)
CommitConflictRetried(t) ==
    /\ turn[t].phase = "committing"
    /\ ~CommitAccepted(sessions[turn[t].session], turn[t].loaded.context.revision,
                       turn[t].user)
    /\ Goto(t, "committing")
    /\ UNCHANGED <<sessions, failedTurns, reset>>

CommitConflict(t) ==
    /\ turn[t].phase = "committing"
    /\ ~CommitAccepted(sessions[turn[t].session], turn[t].loaded.context.revision,
                       turn[t].user)
    /\ Fail(t, "SESSION_CONFLICT")
    /\ UNCHANGED <<sessions, failedTurns, reset>>

(* The transaction commits but its acknowledgement is lost.                *)
CommitUnacknowledged(t) ==
    /\ "ack" \in Faults
    /\ turn[t].phase = "committing"
    /\ StoreTurn(t)
    /\ Fail(t, "DATABASE_ERROR")
    /\ UNCHANGED <<failedTurns, reset>>

(* observer.turnCompleted, and the response reaches the caller.            *)
Complete(t) ==
    /\ turn[t].phase = "committed"
    /\ Goto(t, "completed")
    /\ UNCHANGED <<sessions, failedTurns, reset>>

-----------------------------------------------------------------------------
(* Failing                                                                 *)

(* A call of the store rejects and has had no effect.                      *)
StoreFails(t) ==
    /\ "store" \in Faults
    /\ turn[t].phase \in {"loading", "compacting", "summarizing", "reloading", "committing"}
    /\ Fail(t, "DATABASE_ERROR")
    /\ UNCHANGED <<sessions, failedTurns, reset>>

(* Mutant: the row of the turn is overwritten.                             *)
RecordFailureOverwriting(t) ==
    /\ turn[t].phase = "failing"
    /\ failedTurns' = failedTurns \cup {t}
    /\ Goto(t, "failed")
    /\ UNCHANGED <<sessions, reset>>

(* recordFailedTurn; if that fails too, the caller gets DATABASE_ERROR.  A *)
(* turn id has one row of turns, so the row of a commit whose              *)
(* acknowledgement was lost refuses the row of its failure.                *)
RecordFailure(t) ==
    /\ turn[t].phase = "failing"
    /\ LET stored   == t \in sessions[turn[t].session].completed
           Rejected == turn' = [turn EXCEPT ![t].phase = "failed",
                                            ![t].error = "DATABASE_ERROR"]
       IN  \/ /\ ~stored
              /\ failedTurns' = failedTurns \cup {t}
              /\ \/ Goto(t, "failed")
                 \/ "ack" \in Faults /\ Rejected
           \/ /\ stored \/ "store" \in Faults
              /\ Rejected
              /\ UNCHANGED failedTurns
    /\ UNCHANGED <<sessions, reset>>

(* An observability port throws: the error leaves run or stream as it is,   *)
(* and nothing is recorded about the turn.                                 *)
ObserverFails(t) ==
    /\ "observer" \in Faults
    /\ turn[t].phase \in {"announced", "guarding", "reloading", "orchestrating",
                          "answered", "committed", "failing"}
    /\ turn' = [turn EXCEPT ![t].phase = "unrecorded", ![t].loaded = Nothing]
    /\ UNCHANGED <<sessions, failedTurns, reset>>

(* The consumer of a stream stops at an event: the generator returns from  *)
(* the yield, only scope.close runs, and nothing is recorded.              *)
Abandon(t) ==
    /\ t \in GivesUp
    /\ turn[t].phase \in {"announced", "orchestrating", "committed"}
    /\ turn' = [turn EXCEPT ![t].phase = "unrecorded", ![t].loaded = Nothing]
    /\ UNCHANGED <<sessions, failedTurns, reset>>

-----------------------------------------------------------------------------
(* Aborting and resetting                                                  *)

(* ActiveTurnRegistry.abort                                                *)
AbortAll(s) ==
    [t \in Turns |-> IF IsRegistered(t, s) THEN [turn[t] EXCEPT !.signal = TRUE]
                                           ELSE turn[t]]

AbortSession(s) ==
    /\ s \in MayAbort
    /\ \E t \in Turns : IsRegistered(t, s)
    /\ turn' = AbortAll(s)
    /\ UNCHANGED <<sessions, failedTurns, reset>>

(* The caller's signal fires: the client disconnected or gave up.          *)
ParentAbort(t) ==
    /\ t \in GivesUp
    /\ turn[t].phase \in {"announced"} \cup Registered
    /\ turn' = [turn EXCEPT ![t].parent = TRUE,
                            ![t].signal = @ \/ turn[t].phase \in Registered]
    /\ UNCHANGED <<sessions, failedTurns, reset>>

ResetBegin(r) ==
    /\ reset[r].phase = "idle"
    /\ turn' = AbortAll(reset[r].session)
    /\ reset' = [reset EXCEPT ![r].phase = "reading"]
    /\ UNCHANGED <<sessions, failedTurns>>

ResetRead(r) ==
    /\ reset[r].phase = "reading"
    /\ LET stored == sessions[reset[r].session]
       IN  reset' = [reset EXCEPT
                       ![r].expected = stored.revision,
                       ![r].phase = IF Exists(stored) THEN "writing" ELSE "rejected"]
    /\ UNCHANGED <<sessions, failedTurns, turn>>

ResetWrite(r) ==
    /\ reset[r].phase = "writing"
    /\ LET s == reset[r].session
       IN  \/ /\ ResetAccepted(sessions[s], reset[r].expected)
              /\ sessions' = [sessions EXCEPT ![s] = WasReset(@)]
              /\ reset' = [reset EXCEPT ![r].phase = "confirming"]
           \/ /\ ~ResetAccepted(sessions[s], reset[r].expected)
              /\ reset' = [reset EXCEPT ![r].phase = "rejected"]
              /\ UNCHANGED sessions
    /\ UNCHANGED <<failedTurns, turn>>

(* A call of the store rejects, with no effect or unacknowledged, or the   *)
(* observer of the reset throws.                                           *)
ResetFails(r) ==
    /\ \/ /\ "store" \in Faults
          /\ reset[r].phase \in {"reading", "writing", "confirming"}
          /\ UNCHANGED sessions
       \/ /\ "observer" \in Faults
          /\ reset[r].phase = "confirming"
          /\ UNCHANGED sessions
       \/ /\ "ack" \in Faults
          /\ reset[r].phase = "writing"
          /\ ResetAccepted(sessions[reset[r].session], reset[r].expected)
          /\ sessions' = [sessions EXCEPT ![reset[r].session] = WasReset(@)]
    /\ reset' = [reset EXCEPT ![r].phase = "rejected"]
    /\ UNCHANGED <<failedTurns, turn>>

ResetConfirm(r) ==
    /\ reset[r].phase = "confirming"
    /\ reset' = [reset EXCEPT ![r].phase = "done",
                              ![r].reported = sessions[reset[r].session].revision]
    /\ UNCHANGED <<sessions, failedTurns, turn>>

-----------------------------------------------------------------------------
(* The code's own steps, which the event loop runs once they can run; the  *)
(* provider and the store answer every call, well or badly.                *)
TurnRuns(t) ==
    \/ Register(t) \/ GuardInput(t)
    \/ Load(t) \/ Compact(t) \/ CommitCompaction(t) \/ SummaryFails(t) \/ Reload(t)
    \/ Answer(t) \/ ProviderFails(t) \/ GuardOutput(t)
    \/ CommitTurn(t) \/ CommitConflict(t) \/ Complete(t) \/ RecordFailure(t)

ResetRuns(r) == ResetRead(r) \/ ResetWrite(r) \/ ResetConfirm(r)

(* Faults of the store and of the observability ports: nothing depends on  *)
(* their happening.                                                        *)
TurnFaults(t) ==
    \/ CompactionUnacknowledged(t) \/ CommitUnacknowledged(t)
    \/ StoreFails(t) \/ ObserverFails(t)

TurnStep(t) == TurnRuns(t) \/ TurnFaults(t)
ResetStep(r) == ResetRuns(r) \/ ResetFails(r)

Next ==
    \/ \E t \in Turns : Begin(t) \/ TurnStep(t) \/ ParentAbort(t) \/ Abandon(t)
    \/ \E s \in Sessions : AbortSession(s)
    \/ \E r \in Resets : ResetBegin(r) \/ ResetStep(r)

Spec == Init /\ [][Next]_vars

Fairness ==
    /\ \A t \in Turns : WF_vars(TurnRuns(t))
    /\ \A r \in Resets : WF_vars(ResetRuns(r))

FairSpec == Spec /\ Fairness

-----------------------------------------------------------------------------
(* Correctness                                                             *)

(* Every variable has its type, and what the store holds is well formed.   *)
TypeOK ==
    /\ sessions \in [Sessions -> StoredSession]
    /\ failedTurns \subseteq Turns
    /\ turn \in [Turns -> TurnState]
    /\ reset \in [Resets -> ResetState]
    /\ \A s \in Sessions : WellFormed(sessions[s])

(* A turn that began from an aggregate finds the same conversation stored. *)
SameView(aggregate, stored) ==
    /\ aggregate.status = stored.status
    /\ aggregate.owner = stored.owner
    /\ aggregate.context = stored.context
    /\ aggregate.binding = stored.binding
    /\ aggregate.summary \cup aggregate.messages = stored.messages

Commits(t) ==
    t \in sessions'[turn[t].session].completed \ sessions[turn[t].session].completed

(* A turn is committed onto exactly the session it was prepared from: the  *)
(* same history (summarised or not), context, binding, status and owner,   *)
(* whatever other turns, compactions and resets did in between             *)
(* (commitTurn's expectedRevision).                                        *)
CommitSeesItsSnapshot ==
    [][\A t \in Turns :
        Commits(t) => SameView(turn[t].loaded, sessions[turn[t].session])]_vars

(* No context update is lost: the context of a session contains the patch  *)
(* of each turn of its history and no other, and its revision is the       *)
(* session's, without which every later turn fails with CONTEXT_INVALID.   *)
ContextKeepsEveryCommit ==
    \A s \in Sessions :
        /\ sessions[s].context.applied = {m.turn : m \in sessions[s].messages}
        /\ sessions[s].context.revision = sessions[s].revision

(* The stored summary covers exactly the messages marked compacted, those  *)
(* loadSessionAggregate leaves out: what compactions took out of a session *)
(* is in its summary, whichever of them raced, and nothing that is still   *)
(* loaded is.  Which of the loaded messages a turn hands on is no part of  *)
(* this: MemoryContextBuilder takes the newest recentMessages.             *)
SummaryCoversCompacted ==
    \A s \in Sessions : sessions[s].summary = sessions[s].compacted

(* Compaction takes the oldest messages and never one of the newest        *)
(* RecentMessages (selectCompactionCandidates), whoever commits meanwhile. *)
CompactionKeepsRecent ==
    \A s \in Sessions : \A m \in sessions[s].compacted :
        /\ Cardinality({k \in sessions[s].messages : k.at > m.at}) >= RecentMessages
        /\ \A k \in sessions[s].messages \ sessions[s].compacted : m.at < k.at

(* No message is summarised by two compactions: of two concurrent ones     *)
(* that take the same messages, one is committed (commitCompaction).       *)
OneCompactionWins ==
    \A t, u \in Turns :
        t # u /\ turn[t].compacted /\ turn[u].compacted
            => turn[t].candidates \cap turn[u].candidates = {}

(* What the caller is told agrees with the store: a completed turn is      *)
(* stored; one that failed with any code but DATABASE_ERROR, ABORTED       *)
(* included, left no trace in its session; none is recorded as both.       *)
OutcomeMatchesStore ==
    \A t \in Turns :
        LET stored == t \in sessions[turn[t].session].completed
        IN  /\ turn[t].phase \in {"committed", "completed"} => stored
            /\ turn[t].phase = "failed" /\ turn[t].error # "DATABASE_ERROR" => ~stored
            /\ t \in failedTurns => ~stored

(* Abort wins over everything before the irreversible boundary: a turn     *)
(* whose signal is aborted before it calls commitTurn is never stored,     *)
(* whichever await it was at.                                              *)
AbortWins ==
    \A t \in Turns :
        [](turn[t].signal /\ turn[t].phase \in BeforeCommit
            => [](t \notin sessions[turn[t].session].completed))

(* The conversation a session is bound to is never replaced by another:    *)
(* only a reset removes it.                                                *)
BindingNeverRebound ==
    [][\A s \in Sessions :
        sessions[s].binding # NoConversation =>
            sessions'[s].binding \in {sessions[s].binding, NoConversation}]_vars

(***************************************************************************)
(* The ledger the store implements: summaries and revisions are invisible  *)
(* in it.  A turn's reading is the aggregate it is prepared from.          *)
(***************************************************************************)
HoldsSnapshot == {"compacting", "summarizing", "reloading", "orchestrating",
                  "answered", "committing"}

Entry(aggregate) ==
    [owner        |-> aggregate.owner,
     turns        |-> {m.turn : m \in aggregate.summary \cup aggregate.messages},
     conversation |-> aggregate.binding]

Ledger == INSTANCE SessionLedger WITH
    Unread  <- NoUser,
    ledger  <- [s \in Sessions |-> Entry(AggregateOf(sessions[s]))],
    reading <- [t \in Turns |-> IF turn[t].phase \in HoldsSnapshot
                                  THEN Entry(turn[t].loaded) ELSE NoUser],
    home    <- [t \in Turns |-> turn[t].session]

(* Turns on a session are serialisable: each commit is an append to the    *)
(* very ledger entry the turn read, and compaction changes no entry        *)
(* (commitTurn, commitCompaction, resetSession).                           *)
LedgerSpec == Ledger!Spec

(* Every turn that was started ends, and so does every reset, whatever     *)
(* conflicts, aborts and faults of the store they meet: neither is tried   *)
(* again (TurnRunner.run, resetSession).                                   *)
TurnsAndResetsEnd ==
    /\ \A t \in Turns : turn[t].phase # "idle" ~> turn[t].phase \in Ended
    /\ \A r \in Resets : reset[r].phase # "idle" ~> reset[r].phase \in {"done", "rejected"}

-----------------------------------------------------------------------------
(* The inductive invariant behind the safety properties                    *)

(* The aggregate a turn is prepared from is as old as its revision, and    *)
(* while that is the revision of the session it is the stored session.     *)
SnapshotsAreCurrent ==
    \A t \in Turns : turn[t].phase \in HoldsSnapshot =>
        LET stored == sessions[turn[t].session]
            loaded == turn[t].loaded
        IN  /\ loaded.context.revision = loaded.revision
            /\ loaded.revision <= stored.revision
            /\ loaded.revision = stored.revision => SameView(loaded, stored)

(* While a compaction waits for its summary, and no turn and no reset has  *)
(* changed the session, either nothing was compacted since it loaded the   *)
(* session, or messages it took were, and the store will refuse it.        *)
CompactionsAreCurrent ==
    \A t \in Turns : turn[t].phase = "summarizing" =>
        LET stored == sessions[turn[t].session]
            older  == turn[t].older
        IN  /\ turn[t].candidates = Candidates(older)
            /\ turn[t].candidates # {}
            /\ older.revision <= stored.revision
            /\ older.revision = stored.revision =>
                  \/ /\ older.summary = stored.compacted
                     /\ older.messages = stored.messages \ stored.compacted
                  \/ turn[t].candidates \cap stored.compacted # {}

LifecycleInv ==
    /\ TypeOK
    /\ ContextKeepsEveryCommit
    /\ SummaryCoversCompacted
    /\ SnapshotsAreCurrent
    /\ CompactionsAreCurrent

=============================================================================

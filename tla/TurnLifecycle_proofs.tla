------------------------ MODULE TurnLifecycle_proofs ------------------------
(***************************************************************************)
(* Proofs about the turns of TurnLifecycle, for any number of turns,       *)
(* resets, sessions and users.                                             *)
(***************************************************************************)
EXTENDS TurnLifecycle, RuntimeStore_proofs

-----------------------------------------------------------------------------
(* Types                                                                   *)

(* No aggregate is an aggregate.                                           *)
LEMMA NothingType == Nothing \in Aggregate
  BY AggregateOfType, NoSessionWellFormed DEF Nothing

(* A turn that goes on in another phase keeps its type.                    *)
LEMMA GotoType ==
    ASSUME turn \in [Turns -> TurnState], NEW t \in Turns,
           NEW phase \in Phases, Goto(t, phase)
    PROVE  turn' \in [Turns -> TurnState]
  BY DEF Goto, TurnState

(* A turn that fails keeps its type.                                       *)
LEMMA FailType ==
    ASSUME turn \in [Turns -> TurnState], NEW t \in Turns,
           NEW e \in Errors, Fail(t, e)
    PROVE  turn' \in [Turns -> TurnState]
  <1>1. "failing" \in Phases /\ "ABORTED" \in Errors
    BY DEF Phases, Registered, Errors
  <1> DEFINE new == [turn[t] EXCEPT !.phase = "failing",
                                    !.error = IF turn[t].signal THEN "ABORTED" ELSE e,
                                    !.loaded = Nothing,
                                    !.older = Nothing]
  <1>2. turn' = [turn EXCEPT ![t] = new]
    BY DEF Fail
  <1>3. new \in TurnState
    BY <1>1, NothingType DEF TurnState
  <1>4. QED  BY <1>2, <1>3

(* A turn that is prepared from an aggregate keeps its type.               *)
LEMMA PrepareFromType ==
    ASSUME turn \in [Turns -> TurnState], NEW t \in Turns,
           NEW aggregate \in Aggregate, NEW phase \in Phases,
           PrepareFrom(t, aggregate, phase)
    PROVE  turn' \in [Turns -> TurnState]
  <1>1. Rejection(aggregate, turn[t].user) \in Errors
    BY DEF Rejection, Errors
  <1>2. CASE Fail(t, Rejection(aggregate, turn[t].user))
    BY <1>1, <1>2, FailType
  <1>3. CASE turn' = [turn EXCEPT ![t].loaded = aggregate, ![t].phase = phase]
    <2> DEFINE new == [turn[t] EXCEPT !.loaded = aggregate, !.phase = phase]
    <2>1. turn' = [turn EXCEPT ![t] = new]
      BY <1>3
    <2>2. new \in TurnState
      BY DEF TurnState
    <2>3. QED  BY <2>1, <2>2
  <1>4. QED  BY <1>2, <1>3 DEF PrepareFrom

(* Aborting every turn of a session changes no type.                       *)
LEMMA AbortAllType ==
    ASSUME turn \in [Turns -> TurnState], NEW s \in Sessions
    PROVE  AbortAll(s) \in [Turns -> TurnState]
  BY DEF AbortAll, TurnState

(* Candidates are messages of the aggregate.                               *)
LEMMA CandidatesType ==
    ASSUME NEW aggregate \in Aggregate
    PROVE  Candidates(aggregate) \in SUBSET Message
  BY DEF Candidates, Aggregate

(* A session written by the store keeps the others as they are.            *)
LEMMA WriteType ==
    ASSUME sessions \in [Sessions -> StoredSession],
           \A s \in Sessions : WellFormed(sessions[s]),
           NEW s \in Sessions, NEW written \in StoredSession,
           WellFormed(written), sessions' = [sessions EXCEPT ![s] = written]
    PROVE  /\ sessions' \in [Sessions -> StoredSession]
           /\ \A x \in Sessions : WellFormed(sessions'[x])
  OBVIOUS

(* Storing a turn keeps every session well formed.                         *)
LEMMA StoreTurnType ==
    ASSUME TypeOK, NEW t \in Turns, StoreTurn(t)
    PROVE  /\ sessions' \in [Sessions -> StoredSession]
           /\ \A s \in Sessions : WellFormed(sessions'[s])
  <1> DEFINE s == turn[t].session
             next == MergedContext(turn[t].loaded.context, t)
             written == Committed(sessions[s], t, turn[t].user, next,
                                  turn[t].conversation)
  <1>1. /\ s \in Sessions
        /\ turn[t].user \in Users
        /\ turn[t].conversation \in Conversations \cup {NoConversation}
        /\ turn[t].loaded.context \in Context
    BY DEF TypeOK, TurnState, Aggregate
  <1>2. next \in Context
    BY <1>1, MergedContextType
  <1>3. written \in StoredSession /\ WellFormed(written)
    BY <1>1, <1>2, CommittedWellFormed DEF TypeOK
  <1>4. sessions' = [sessions EXCEPT ![s] = written]
    BY DEF StoreTurn
  <1>5. QED  BY <1>1, <1>3, <1>4, WriteType DEF TypeOK

(* Storing a compaction keeps every session well formed.                   *)
LEMMA StoreCompactionType ==
    ASSUME TypeOK, NEW t \in Turns,
           CompactionAccepted(sessions[turn[t].session], turn[t].older.revision,
                              turn[t].candidates),
           sessions' = [sessions EXCEPT ![turn[t].session] =
                          Compacted(@, Summary(t), turn[t].candidates)]
    PROVE  /\ sessions' \in [Sessions -> StoredSession]
           /\ \A s \in Sessions : WellFormed(sessions'[s])
  <1> DEFINE s == turn[t].session
             written == Compacted(sessions[s], Summary(t), turn[t].candidates)
  <1>1. /\ s \in Sessions
        /\ turn[t].older \in Aggregate
        /\ turn[t].candidates \in SUBSET Message
    BY DEF TypeOK, TurnState
  <1>2. Summary(t) \in SUBSET Message /\ turn[t].older.revision \in Nat
    BY <1>1 DEF Summary, Aggregate
  <1>3. written \in StoredSession /\ WellFormed(written)
    BY <1>1, <1>2, CompactedWellFormed DEF TypeOK
  <1>4. sessions' = [sessions EXCEPT ![s] = written]
    OBVIOUS
  <1>5. QED  BY <1>1, <1>3, <1>4, WriteType DEF TypeOK

(* A step that only moves a turn need only keep the type of turn.          *)
LEMMA TurnStepType ==
    ASSUME TypeOK, turn' \in [Turns -> TurnState],
           UNCHANGED <<sessions, failedTurns, reset>>
    PROVE  TypeOK'
  BY DEF TypeOK

(* A step that only moves a reset need only keep the type of reset.        *)
LEMMA ResetStepType ==
    ASSUME TypeOK, reset' \in [Resets -> ResetState],
           UNCHANGED <<sessions, failedTurns, turn>>
    PROVE  TypeOK'
  BY DEF TypeOK

(* The initial state is typed.                                             *)
LEMMA TypeOKInit == Init => TypeOK
  <1> SUFFICES ASSUME Init PROVE TypeOK
    OBVIOUS
  <1>1. sessions \in [Sessions -> StoredSession]
    BY NoSessionWellFormed DEF Init
  <1>2. \A s \in Sessions : WellFormed(sessions[s])
    BY NoSessionWellFormed DEF Init
  <1>3. turn \in [Turns -> TurnState]
    <2> DEFINE idle(s, u) == [phase |-> "idle", session |-> s, user |-> u,
                              parent |-> FALSE, signal |-> FALSE,
                              loaded |-> Nothing, older |-> Nothing,
                              candidates |-> {}, compacted |-> FALSE,
                              conversation |-> NoConversation, error |-> "NONE"]
    <2>1. "idle" \in Phases /\ "NONE" \in Errors
      BY DEF Phases, Errors
    <2>2. \A s \in Sessions, u \in Users : idle(s, u) \in TurnState
      BY <2>1, NothingType DEF TurnState
    <2>3. turn \in [Turns -> {idle(s, u) : s \in Sessions, u \in Users}]
      BY DEF Init
    <2> HIDE DEF idle
    <2>4. {idle(s, u) : s \in Sessions, u \in Users} \subseteq TurnState
      BY <2>2
    <2>5. QED  BY <2>3, <2>4
  <1>4. reset \in [Resets -> ResetState]
    BY DEF Init, ResetState, ResetPhases
  <1>5. QED  BY <1>1, <1>2, <1>3, <1>4 DEF Init, TypeOK

(* Every action of a turn keeps the types.                                 *)
LEMMA TypeOKTurn ==
    ASSUME TypeOK, NEW t \in Turns,
           Begin(t) \/ TurnStep(t) \/ ParentAbort(t) \/ Abandon(t)
    PROVE  TypeOK'
  <1> USE DEF TypeOK
  <1>1. CASE Begin(t)
    <2>1. "announced" \in Phases
      BY DEF Phases
    <2>2. QED  BY <1>1, <2>1, GotoType, TurnStepType DEF Begin
  <1>2. CASE Register(t)
    <2> DEFINE new == [turn[t] EXCEPT
                         !.signal = turn[t].parent,
                         !.phase = IF turn[t].parent THEN "failing" ELSE "guarding",
                         !.error = IF turn[t].parent THEN "ABORTED" ELSE @]
    <2>1. {"failing", "guarding"} \subseteq Phases /\ "ABORTED" \in Errors
      BY DEF Phases, Registered, BeforeCommit, Errors
    <2>2. turn' = [turn EXCEPT ![t] = new]
      BY <1>2 DEF Register
    <2>3. new \in TurnState
      BY <2>1 DEF TurnState
    <2>4. QED  BY <1>2, <2>2, <2>3, TurnStepType DEF Register
  <1>3. CASE GuardInput(t)
    <2>1. "loading" \in Phases /\ {"INPUT_BLOCKED", "PROVIDER_ERROR"} \subseteq Errors
      BY DEF Phases, Registered, BeforeCommit, Errors
    <2>2. QED  BY <1>3, <2>1, GotoType, FailType, TurnStepType DEF GuardInput
  <1>4. CASE Load(t)
    <2> DEFINE aggregate == AggregateOf(sessions[turn[t].session])
               new == [turn[t] EXCEPT !.loaded = aggregate, !.phase = "orchestrating"]
    <2>1. aggregate \in Aggregate
      BY AggregateOfType DEF TurnState
    <2>2. {"compacting", "orchestrating"} \subseteq Phases /\ "ABORTED" \in Errors
      BY DEF Phases, Registered, BeforeCommit, Errors
    <2>3. CASE PrepareFrom(t, aggregate, "compacting")
      BY <1>4, <2>1, <2>2, <2>3, PrepareFromType, TurnStepType DEF Load
    <2>4. CASE Fail(t, "ABORTED")
      BY <1>4, <2>2, <2>4, FailType, TurnStepType DEF Load
    <2>5. CASE turn' = [turn EXCEPT ![t].loaded = aggregate,
                                    ![t].phase = "orchestrating"]
      <3>1. turn' = [turn EXCEPT ![t] = new]
        BY <2>5
      <3>2. new \in TurnState
        BY <2>1, <2>2 DEF TurnState
      <3>3. QED  BY <1>4, <3>1, <3>2, TurnStepType DEF Load
    <2>6. QED  BY <1>4, <2>3, <2>4, <2>5 DEF Load
  <1>5. CASE Compact(t)
    <2> DEFINE older == AggregateOf(sessions[turn[t].session])
               new == [turn[t] EXCEPT !.older = older,
                                      !.candidates = Candidates(older),
                                      !.phase = "summarizing"]
    <2>1. older \in Aggregate
      BY AggregateOfType DEF TurnState
    <2>2. Candidates(older) \in SUBSET Message
      BY <2>1, CandidatesType
    <2>3. {"orchestrating", "summarizing"} \subseteq Phases /\ "ABORTED" \in Errors
      BY DEF Phases, Registered, BeforeCommit, Errors
    <2>4. CASE Fail(t, "ABORTED")
      BY <1>5, <2>3, <2>4, FailType, TurnStepType DEF Compact
    <2>5. CASE Goto(t, "orchestrating")
      BY <1>5, <2>3, <2>5, GotoType, TurnStepType DEF Compact
    <2>6. CASE turn' = [turn EXCEPT ![t].older = older,
                                    ![t].candidates = Candidates(older),
                                    ![t].phase = "summarizing"]
      <3>1. turn' = [turn EXCEPT ![t] = new]
        BY <2>6
      <3>2. new \in TurnState
        BY <2>1, <2>2, <2>3 DEF TurnState
      <3>3. QED  BY <1>5, <3>1, <3>2, TurnStepType DEF Compact
    <2>7. QED  BY <1>5, <2>4, <2>5, <2>6 DEF Compact
  <1>6. CASE CommitCompaction(t)
    <2> DEFINE new == [turn[t] EXCEPT !.compacted = TRUE, !.older = Nothing,
                                      !.phase = "reloading"]
    <2>1. "reloading" \in Phases /\ "SESSION_CONFLICT" \in Errors
      BY DEF Phases, Registered, BeforeCommit, Errors
    <2>2. CASE CompactionAccepted(sessions[turn[t].session], turn[t].older.revision,
                                  turn[t].candidates)
      <3>1. sessions' = [sessions EXCEPT ![turn[t].session] =
                           Compacted(@, Summary(t), turn[t].candidates)]
        BY <1>6, <2>2 DEF CommitCompaction
      <3>2. turn' = [turn EXCEPT ![t] = new]
        BY <1>6, <2>2 DEF CommitCompaction
      <3>3. new \in TurnState
        BY <2>1, NothingType DEF TurnState
      <3>4. QED  BY <1>6, <2>2, <3>1, <3>2, <3>3, StoreCompactionType
                 DEF CommitCompaction
    <2>3. CASE ~CompactionAccepted(sessions[turn[t].session], turn[t].older.revision,
                                   turn[t].candidates)
      BY <1>6, <2>1, <2>3, FailType, TurnStepType DEF CommitCompaction
    <2>4. QED  BY <2>2, <2>3
  <1>7. CASE CompactionUnacknowledged(t)
    <2>1. "DATABASE_ERROR" \in Errors
      BY DEF Errors
    <2>2. turn' \in [Turns -> TurnState]
      BY <1>7, <2>1, FailType DEF CompactionUnacknowledged
    <2>3. QED  BY <1>7, <2>2, StoreCompactionType DEF CompactionUnacknowledged
  <1>8. CASE SummaryFails(t) \/ ProviderFails(t)
    <2>1. "PROVIDER_ERROR" \in Errors
      BY DEF Errors
    <2>2. QED  BY <1>8, <2>1, FailType, TurnStepType DEF SummaryFails, ProviderFails
  <1>9. CASE Reload(t)
    <2>1. AggregateOf(sessions[turn[t].session]) \in Aggregate
      BY AggregateOfType DEF TurnState
    <2>2. "orchestrating" \in Phases
      BY DEF Phases, Registered, BeforeCommit
    <2>3. QED  BY <1>9, <2>1, <2>2, PrepareFromType, TurnStepType DEF Reload
  <1>10. CASE Answer(t)
    <2>1. PICK c \in Conversations \cup {NoConversation} :
            turn' = [turn EXCEPT ![t].conversation = c, ![t].phase = "answered"]
      <3>1. turn[t].loaded.binding \in Conversations \cup {NoConversation}
        BY DEF TurnState, Aggregate
      <3>2. QED  BY <1>10, <3>1 DEF Answer
    <2> DEFINE new == [turn[t] EXCEPT !.conversation = c, !.phase = "answered"]
    <2>2. turn' = [turn EXCEPT ![t] = new]
      BY <2>1
    <2>3. new \in TurnState
      BY ZenonT(30) DEF TurnState, Phases, Registered, BeforeCommit
    <2>4. QED  BY <1>10, <2>2, <2>3, TurnStepType DEF Answer
  <1>11. CASE GuardOutput(t)
    <2>1. /\ "committing" \in Phases
          /\ {"OUTPUT_BLOCKED", "PROVIDER_ERROR", "CONTEXT_INVALID",
              "INTERNAL_ERROR"} \subseteq Errors
      BY DEF Phases, Registered, Errors
    <2>2. QED  BY <1>11, <2>1, GotoType, FailType, TurnStepType DEF GuardOutput
  <1>12. CASE CommitTurn(t)
    <2> DEFINE new == [turn[t] EXCEPT !.phase = "committed", !.loaded = Nothing]
    <2>1. turn' = [turn EXCEPT ![t] = new]
      BY <1>12 DEF CommitTurn
    <2>2. new \in TurnState
      BY NothingType, ZenonT(30) DEF TurnState, Phases, Registered
    <2>3. QED  BY <1>12, <2>1, <2>2, StoreTurnType DEF CommitTurn
  <1>13. CASE CommitConflict(t) \/ StoreFails(t)
    <2>1. {"SESSION_CONFLICT", "DATABASE_ERROR"} \subseteq Errors
      BY DEF Errors
    <2>2. QED  BY <1>13, <2>1, FailType, TurnStepType DEF CommitConflict, StoreFails
  <1>14. CASE CommitUnacknowledged(t)
    <2>1. "DATABASE_ERROR" \in Errors
      BY DEF Errors
    <2>2. turn' \in [Turns -> TurnState]
      BY <1>14, <2>1, FailType DEF CommitUnacknowledged
    <2>3. QED  BY <1>14, <2>2, StoreTurnType DEF CommitUnacknowledged
  <1>15. CASE Complete(t)
    <2>1. "completed" \in Phases
      BY DEF Phases, Ended
    <2>2. QED  BY <1>15, <2>1, GotoType, TurnStepType DEF Complete
  <1>16. CASE RecordFailure(t)
    <2> DEFINE new == [turn[t] EXCEPT !.phase = "failed", !.error = "DATABASE_ERROR"]
    <2>1. "failed" \in Phases /\ "DATABASE_ERROR" \in Errors
      BY DEF Phases, Ended, Errors
    <2>2. new \in TurnState
      BY <2>1 DEF TurnState
    <2>3. turn' \in [Turns -> TurnState]
      <3>1. CASE Goto(t, "failed")
        BY <2>1, <3>1, GotoType
      <3>2. CASE turn' = [turn EXCEPT ![t].phase = "failed",
                                      ![t].error = "DATABASE_ERROR"]
        <4>1. turn' = [turn EXCEPT ![t] = new]
          BY <3>2
        <4>2. QED  BY <2>2, <4>1
      <3>3. QED  BY <1>16, <3>1, <3>2 DEF RecordFailure
    <2>4. QED  BY <1>16, <2>3 DEF RecordFailure
  <1>17. CASE ObserverFails(t) \/ Abandon(t)
    <2> DEFINE new == [turn[t] EXCEPT !.phase = "unrecorded", !.loaded = Nothing]
    <2>1. turn' = [turn EXCEPT ![t] = new]
      BY <1>17 DEF ObserverFails, Abandon
    <2>2. new \in TurnState
      BY NothingType, ZenonT(30) DEF TurnState, Phases, Ended
    <2>3. QED  BY <1>17, <2>1, <2>2, TurnStepType DEF ObserverFails, Abandon
  <1>18. CASE ParentAbort(t)
    <2> DEFINE new == [turn[t] EXCEPT !.parent = TRUE,
                         !.signal = @ \/ turn[t].phase \in Registered]
    <2>1. turn' = [turn EXCEPT ![t] = new]
      BY <1>18 DEF ParentAbort
    <2>2. new \in TurnState
      BY DEF TurnState
    <2>3. QED  BY <1>18, <2>1, <2>2, TurnStepType DEF ParentAbort
  <1>19. QED
    BY <1>1, <1>2, <1>3, <1>4, <1>5, <1>6, <1>7, <1>8, <1>9, <1>10, <1>11, <1>12,
       <1>13, <1>14, <1>15, <1>16, <1>17, <1>18
    DEF TurnStep, TurnRuns, TurnFaults

(* Every step keeps the types.                                             *)
LEMMA TypeOKStep == TypeOK /\ [Next]_vars => TypeOK'
  <1> SUFFICES ASSUME TypeOK, [Next]_vars PROVE TypeOK'
    OBVIOUS
  <1>1. CASE \E t \in Turns :
               Begin(t) \/ TurnStep(t) \/ ParentAbort(t) \/ Abandon(t)
    BY <1>1, TypeOKTurn
  <1>2. ASSUME NEW s \in Sessions, AbortSession(s)
        PROVE  TypeOK'
    BY <1>2, AbortAllType, TurnStepType DEF AbortSession, TypeOK
  <1>3. ASSUME NEW r \in Resets, ResetBegin(r)
        PROVE  TypeOK'
    <2>1. reset' \in [Resets -> ResetState]
      BY <1>3 DEF ResetBegin, TypeOK, ResetState, ResetPhases
    <2>2. turn' \in [Turns -> TurnState]
      BY <1>3, AbortAllType DEF ResetBegin, TypeOK, ResetState
    <2>3. QED  BY <1>3, <2>1, <2>2 DEF ResetBegin, TypeOK
  <1>4. ASSUME NEW r \in Resets, ResetRead(r)
        PROVE  TypeOK'
    <2> DEFINE stored == sessions[reset[r].session]
               new == [reset[r] EXCEPT
                         !.expected = stored.revision,
                         !.phase = IF Exists(stored) THEN "writing" ELSE "rejected"]
    <2>1. reset' = [reset EXCEPT ![r] = new]
      BY <1>4 DEF ResetRead
    <2>2. new \in ResetState
      BY DEF TypeOK, ResetState, ResetPhases, StoredSession
    <2>3. QED  BY <1>4, <2>1, <2>2, ResetStepType DEF ResetRead, TypeOK
  <1>5. ASSUME NEW r \in Resets, ResetWrite(r) \/ ResetFails(r)
        PROVE  TypeOK'
    <2> DEFINE s == reset[r].session
    <2>1. s \in Sessions
      BY DEF TypeOK, ResetState
    <2>2. reset' \in [Resets -> ResetState]
      BY <1>5 DEF ResetWrite, ResetFails, TypeOK, ResetState, ResetPhases
    <2>3. \/ sessions' = [sessions EXCEPT ![s] = WasReset(sessions[s])]
          \/ sessions' = sessions
      BY <1>5 DEF ResetWrite, ResetFails
    <2>4. WasReset(sessions[s]) \in StoredSession /\ WellFormed(WasReset(sessions[s]))
      BY <2>1, WasResetWellFormed DEF TypeOK
    <2>5. /\ sessions' \in [Sessions -> StoredSession]
          /\ \A x \in Sessions : WellFormed(sessions'[x])
      BY <2>1, <2>3, <2>4, WriteType DEF TypeOK
    <2>6. QED  BY <1>5, <2>2, <2>5 DEF ResetWrite, ResetFails, TypeOK
  <1>6. ASSUME NEW r \in Resets, ResetConfirm(r)
        PROVE  TypeOK'
    <2> DEFINE new == [reset[r] EXCEPT !.phase = "done",
                         !.reported = sessions[reset[r].session].revision]
    <2>1. reset' = [reset EXCEPT ![r] = new]
      BY <1>6 DEF ResetConfirm
    <2>2. new \in ResetState
      BY DEF TypeOK, ResetState, ResetPhases, StoredSession
    <2>3. QED  BY <1>6, <2>1, <2>2, ResetStepType DEF ResetConfirm, TypeOK
  <1>7. CASE UNCHANGED vars
    BY <1>7 DEF vars, TypeOK
  <1>8. QED
    BY <1>1, <1>2, <1>3, <1>4, <1>5, <1>6, <1>7 DEF Next, ResetStep, ResetRuns

(* Type correctness: in every run the store's sessions are well formed and *)
(* each turn and each reset is in a state of its protocol.                 *)
THEOREM TypeCorrect == Spec => []TypeOK
  BY TypeOKInit, TypeOKStep, PTL DEF Spec

-----------------------------------------------------------------------------
(* How a step changes the store and the turns                              *)

StoresTurn(t) == turn[t].phase = "committing" /\ StoreTurn(t)

StoresCompaction(t) ==
    /\ turn[t].phase = "summarizing"
    /\ CompactionAccepted(sessions[turn[t].session], turn[t].older.revision,
                          turn[t].candidates)
    /\ sessions' = [sessions EXCEPT ![turn[t].session] =
                      Compacted(@, Summary(t), turn[t].candidates)]

StoresReset(s) ==
    Exists(sessions[s]) /\ sessions' = [sessions EXCEPT ![s] = WasReset(@)]

(* What the step of a turn writes to the store.                            *)
LEMMA TurnWrites ==
    ASSUME NEW t \in Turns,
           Begin(t) \/ TurnStep(t) \/ ParentAbort(t) \/ Abandon(t)
    PROVE  sessions' = sessions \/ StoresTurn(t) \/ StoresCompaction(t)
  <1>1. CASE CommitTurn(t) \/ CommitUnacknowledged(t)
    BY <1>1 DEF CommitTurn, CommitUnacknowledged, StoresTurn
  <1>2. CASE CommitCompaction(t) \/ CompactionUnacknowledged(t)
    BY <1>2 DEF CommitCompaction, CompactionUnacknowledged, StoresCompaction
  <1>3. CASE Begin(t) \/ Register(t) \/ GuardInput(t) \/ Load(t) \/ Compact(t)
    BY <1>3 DEF Begin, Register, GuardInput, Load, Compact
  <1>4. CASE SummaryFails(t) \/ Reload(t) \/ Answer(t) \/ ProviderFails(t)
    BY <1>4 DEF SummaryFails, Reload, Answer, ProviderFails
  <1>5. CASE GuardOutput(t) \/ CommitConflict(t) \/ Complete(t) \/ StoreFails(t)
    BY <1>5 DEF GuardOutput, CommitConflict, Complete, StoreFails
  <1>6. CASE RecordFailure(t) \/ ObserverFails(t) \/ ParentAbort(t) \/ Abandon(t)
    BY <1>6 DEF RecordFailure, ObserverFails, ParentAbort, Abandon
  <1>7. QED  BY <1>1, <1>2, <1>3, <1>4, <1>5, <1>6 DEF TurnStep, TurnRuns, TurnFaults

(* The store is written by a commit, by a compaction and by a reset only.  *)
LEMMA StoreStep ==
    ASSUME TypeOK, [Next]_vars
    PROVE  \/ sessions' = sessions
           \/ \E t \in Turns : StoresTurn(t)
           \/ \E t \in Turns : StoresCompaction(t)
           \/ \E s \in Sessions : StoresReset(s)
  <1>1. CASE UNCHANGED vars
    BY <1>1 DEF vars
  <1>2. ASSUME NEW t \in Turns,
               Begin(t) \/ TurnStep(t) \/ ParentAbort(t) \/ Abandon(t)
        PROVE  sessions' = sessions \/ StoresTurn(t) \/ StoresCompaction(t)
    BY <1>2, TurnWrites
  <1>3. ASSUME NEW s \in Sessions, AbortSession(s)
        PROVE  sessions' = sessions
    BY <1>3 DEF AbortSession
  <1>4. ASSUME NEW r \in Resets, ResetBegin(r) \/ ResetStep(r)
        PROVE  sessions' = sessions \/ StoresReset(reset[r].session)
    BY <1>4 DEF ResetBegin, ResetStep, ResetRuns, ResetRead, ResetWrite, ResetFails,
                ResetConfirm, StoresReset, ResetAccepted
  <1>5. \A r \in Resets : reset[r].session \in Sessions
    BY DEF TypeOK, ResetState
  <1>6. QED  BY <1>1, <1>2, <1>3, <1>4, <1>5 DEF Next

(* A turn keeps the snapshot it holds, or lets it go, or takes the stored  *)
(* session, which the same step does not change, as its new one.           *)
KeepsSnapshot(u) ==
    turn'[u].phase \in HoldsSnapshot =>
        turn[u].phase \in HoldsSnapshot /\ turn'[u].loaded = turn[u].loaded

TakesSnapshot(u) ==
    LET stored == sessions[turn[u].session]
    IN  /\ sessions' = sessions
        /\ turn'[u].loaded = AggregateOf(stored)
        /\ stored.context.revision = stored.revision
        /\ Exists(stored) => stored.owner = turn[u].user

(* A turn keeps the aggregate and the candidates of its compaction, or     *)
(* ends the compaction, or takes those of the stored session.              *)
KeepsCompaction(u) ==
    turn'[u].phase = "summarizing" =>
        /\ turn[u].phase = "summarizing"
        /\ turn'[u].older = turn[u].older
        /\ turn'[u].candidates = turn[u].candidates

TakesCompaction(u) ==
    /\ sessions' = sessions
    /\ turn'[u].older = AggregateOf(sessions[turn[u].session])
    /\ turn'[u].candidates = Candidates(turn'[u].older)
    /\ turn'[u].candidates # {}

Moves(u) ==
    /\ turn'[u].session = turn[u].session
    /\ KeepsSnapshot(u) \/ TakesSnapshot(u)
    /\ KeepsCompaction(u) \/ TakesCompaction(u)

(* A turn that does not move keeps all of it.                              *)
LEMMA StillMoves ==
    ASSUME NEW u \in Turns, turn'[u] = turn[u]
    PROVE  Moves(u)
  BY DEF Moves, KeepsSnapshot, KeepsCompaction

(* A turn that fails lets its snapshot go.                                 *)
LEMMA FailMoves ==
    ASSUME TypeOK, NEW t \in Turns, NEW e, Fail(t, e), NEW u \in Turns
    PROVE  Moves(u)
  <1>1. CASE u = t
    <2>1. turn'[u].phase = "failing" /\ turn'[u].session = turn[u].session
      BY <1>1 DEF Fail, TypeOK, TurnState
    <2>2. QED  BY <2>1 DEF Moves, KeepsSnapshot, KeepsCompaction, HoldsSnapshot
  <1>2. CASE u # t
    BY <1>2, StillMoves DEF Fail, TypeOK
  <1>3. QED  BY <1>1, <1>2

(* A turn that goes on to a phase without a snapshot, or from one phase    *)
(* with the snapshot to another, keeps it.                                 *)
LEMMA GotoMoves ==
    ASSUME TypeOK, NEW t \in Turns, NEW phase, Goto(t, phase), phase # "summarizing",
           phase \in HoldsSnapshot => turn[t].phase \in HoldsSnapshot,
           NEW u \in Turns
    PROVE  Moves(u)
  <1>1. CASE u = t
    <2>1. /\ turn'[u].phase = phase
          /\ turn'[u].session = turn[u].session
          /\ turn'[u].loaded = turn[u].loaded
      BY <1>1 DEF Goto, TypeOK, TurnState
    <2>2. QED  BY <1>1, <2>1 DEF Moves, KeepsSnapshot, KeepsCompaction
  <1>2. CASE u # t
    BY <1>2, StillMoves DEF Goto, TypeOK
  <1>3. QED  BY <1>1, <1>2

(* A turn that is prepared from the stored session takes it as snapshot.   *)
LEMMA PrepareMoves ==
    ASSUME TypeOK, NEW t \in Turns, NEW phase, phase # "summarizing",
           PrepareFrom(t, AggregateOf(sessions[turn[t].session]), phase),
           sessions' = sessions, NEW u \in Turns
    PROVE  Moves(u)
  <1> DEFINE stored == sessions[turn[t].session]
             aggregate == AggregateOf(stored)
  <1>1. CASE Fail(t, Rejection(aggregate, turn[t].user))
    BY <1>1, FailMoves
  <1>2. CASE /\ Rejection(aggregate, turn[t].user) = "NONE"
             /\ turn' = [turn EXCEPT ![t].loaded = aggregate, ![t].phase = phase]
    <2>1. stored.context.revision = stored.revision /\ stored.owner = turn[t].user
      BY <1>2 DEF Rejection, AggregateOf
    <2>2. CASE u = t
      <3>1. /\ turn'[u].phase = phase
            /\ turn'[u].session = turn[u].session
            /\ turn'[u].loaded = aggregate
        BY <1>2, <2>2 DEF TypeOK, TurnState
      <3>2. QED  BY <2>1, <2>2, <3>1 DEF Moves, TakesSnapshot, KeepsCompaction
    <2>3. CASE u # t
      BY <1>2, <2>3, StillMoves DEF TypeOK
    <2>4. QED  BY <2>2, <2>3
  <1>3. QED  BY <1>1, <1>2 DEF PrepareFrom

(* Signals change no turn's snapshot.                                      *)
LEMMA AbortMoves ==
    ASSUME TypeOK, NEW s \in Sessions, turn' = AbortAll(s), NEW u \in Turns
    PROVE  Moves(u)
  <1>1. turn'[u] = turn[u] \/ turn'[u] = [turn[u] EXCEPT !.signal = TRUE]
    BY DEF AbortAll
  <1>2. /\ turn'[u].phase = turn[u].phase
        /\ turn'[u].session = turn[u].session
        /\ turn'[u].loaded = turn[u].loaded
        /\ turn'[u].older = turn[u].older
        /\ turn'[u].candidates = turn[u].candidates
    BY <1>1 DEF TypeOK, TurnState
  <1>3. QED  BY <1>2 DEF Moves, KeepsSnapshot, KeepsCompaction

(* Every action of a turn keeps, takes or lets go what the turns hold.     *)
LEMMA TurnMoves ==
    ASSUME TypeOK, NEW t \in Turns,
           Begin(t) \/ TurnStep(t) \/ ParentAbort(t) \/ Abandon(t), NEW u \in Turns
    PROVE  Moves(u)
  <1>1. CASE \E e : Fail(t, e)
    BY <1>1, FailMoves
  <1>2. CASE Begin(t) \/ GuardInput(t) \/ GuardOutput(t) \/ Complete(t)
    BY <1>1, <1>2, GotoMoves DEF Begin, GuardInput, GuardOutput, Complete, HoldsSnapshot
  <1>3. CASE Register(t)
    <2>1. CASE u = t
      <3>1. /\ turn'[u].phase \in {"failing", "guarding"}
            /\ turn'[u].session = turn[u].session
        BY <1>3, <2>1 DEF Register, TypeOK, TurnState
      <3>2. QED  BY <3>1 DEF Moves, KeepsSnapshot, KeepsCompaction, HoldsSnapshot
    <2>2. CASE u # t
      BY <1>3, <2>2, StillMoves DEF Register, TypeOK
    <2>3. QED  BY <2>1, <2>2
  <1>4. CASE Load(t)
    <2> DEFINE stored == sessions[turn[t].session]
    <2>1. CASE /\ Exists(AggregateOf(stored))
               /\ PrepareFrom(t, AggregateOf(stored), "compacting")
      BY <1>4, <2>1, PrepareMoves DEF Load
    <2>2. CASE Fail(t, "ABORTED")
      BY <1>1, <2>2
    <2>3. CASE /\ ~Exists(AggregateOf(stored))
               /\ turn' = [turn EXCEPT ![t].loaded = AggregateOf(stored),
                                       ![t].phase = "orchestrating"]
      <3>1. sessions' = sessions
        BY <1>4 DEF Load
      <3>2. stored.context.revision = stored.revision /\ ~Exists(stored)
        <4>1. stored = NoSession
          BY <2>3 DEF AggregateOf, Exists, TypeOK, WellFormed, TurnState
        <4>2. QED  BY <4>1 DEF Exists, NoSession, DefaultContext
      <3>3. CASE u = t
        <4>1. /\ turn'[u].phase = "orchestrating"
              /\ turn'[u].session = turn[u].session
              /\ turn'[u].loaded = AggregateOf(stored)
          BY <2>3, <3>3 DEF TypeOK, TurnState
        <4>2. QED  BY <3>1, <3>2, <3>3, <4>1 DEF Moves, TakesSnapshot, KeepsCompaction
      <3>4. CASE u # t
        BY <2>3, <3>4, StillMoves DEF TypeOK
      <3>5. QED  BY <3>3, <3>4
    <2>4. QED  BY <1>4, <2>1, <2>2, <2>3 DEF Load
  <1>5. CASE Compact(t)
    <2> DEFINE older == AggregateOf(sessions[turn[t].session])
    <2>1. CASE Goto(t, "orchestrating")
      BY <1>5, <2>1, GotoMoves DEF Compact, HoldsSnapshot
    <2>2. CASE /\ Candidates(older) # {}
               /\ turn' = [turn EXCEPT ![t].older = older,
                                       ![t].candidates = Candidates(older),
                                       ![t].phase = "summarizing"]
      <3>1. sessions' = sessions /\ turn[t].phase \in HoldsSnapshot
        BY <1>5 DEF Compact, HoldsSnapshot
      <3>2. CASE u = t
        <4>1. /\ turn'[u].session = turn[u].session
              /\ turn'[u].loaded = turn[u].loaded
              /\ turn'[u].older = older
              /\ turn'[u].candidates = Candidates(older)
          BY <2>2, <3>2 DEF TypeOK, TurnState
        <4>2. KeepsSnapshot(u)
          BY <3>1, <3>2, <4>1 DEF KeepsSnapshot
        <4>3. TakesCompaction(u)
          BY <2>2, <3>1, <3>2, <4>1 DEF TakesCompaction
        <4>4. QED  BY <4>1, <4>2, <4>3 DEF Moves
      <3>3. CASE u # t
        BY <2>2, <3>3, StillMoves DEF TypeOK
      <3>4. QED  BY <3>2, <3>3
    <2>3. QED  BY <1>1, <1>5, <2>1, <2>2 DEF Compact
  <1>6. CASE CommitCompaction(t) \/ CompactionUnacknowledged(t)
    <2>1. CASE turn' = [turn EXCEPT ![t].compacted = TRUE, ![t].older = Nothing,
                                    ![t].phase = "reloading"]
      <3>1. turn[t].phase \in HoldsSnapshot
        BY <1>6 DEF CommitCompaction, CompactionUnacknowledged, HoldsSnapshot
      <3>2. CASE u = t
        <4>1. /\ turn'[u].phase = "reloading"
              /\ turn'[u].session = turn[u].session
              /\ turn'[u].loaded = turn[u].loaded
          BY <2>1, <3>2 DEF TypeOK, TurnState
        <4>2. QED  BY <3>1, <3>2, <4>1 DEF Moves, KeepsSnapshot, KeepsCompaction
      <3>3. CASE u # t
        BY <2>1, <3>3, StillMoves DEF TypeOK
      <3>4. QED  BY <3>2, <3>3
    <2>2. QED  BY <1>1, <1>6, <2>1 DEF CommitCompaction, CompactionUnacknowledged
  <1>7. CASE SummaryFails(t) \/ ProviderFails(t) \/ StoreFails(t)
    BY <1>1, <1>7 DEF SummaryFails, ProviderFails, StoreFails
  <1>8. CASE Reload(t)
    BY <1>8, PrepareMoves DEF Reload
  <1>9. CASE Answer(t)
    <2>1. PICK c : turn' = [turn EXCEPT ![t].conversation = c, ![t].phase = "answered"]
      BY <1>9 DEF Answer
    <2>2. turn[t].phase \in HoldsSnapshot
      BY <1>9 DEF Answer, HoldsSnapshot
    <2>3. CASE u = t
      <3>1. /\ turn'[u].phase = "answered"
            /\ turn'[u].session = turn[u].session
            /\ turn'[u].loaded = turn[u].loaded
        BY <2>1, <2>3 DEF TypeOK, TurnState
      <3>2. QED  BY <2>2, <2>3, <3>1 DEF Moves, KeepsSnapshot, KeepsCompaction
    <2>4. CASE u # t
      BY <2>1, <2>4, StillMoves DEF TypeOK
    <2>5. QED  BY <2>3, <2>4
  <1>10. CASE CommitTurn(t) \/ ObserverFails(t) \/ Abandon(t)
    <2>1. PICK phase \in {"committed", "unrecorded"} :
            turn' = [turn EXCEPT ![t].phase = phase, ![t].loaded = Nothing]
      BY <1>10 DEF CommitTurn, ObserverFails, Abandon
    <2>2. CASE u = t
      <3>1. turn'[u].phase = phase /\ turn'[u].session = turn[u].session
        BY <2>1, <2>2 DEF TypeOK, TurnState
      <3>2. QED  BY <3>1 DEF Moves, KeepsSnapshot, KeepsCompaction, HoldsSnapshot
    <2>3. CASE u # t
      BY <2>1, <2>3, StillMoves DEF TypeOK
    <2>4. QED  BY <2>2, <2>3
  <1>11. CASE CommitConflict(t) \/ CommitUnacknowledged(t)
    BY <1>1, <1>11 DEF CommitConflict, CommitUnacknowledged
  <1>12. CASE RecordFailure(t)
    <2>1. CASE Goto(t, "failed")
      BY <2>1, GotoMoves DEF HoldsSnapshot
    <2>2. CASE turn' = [turn EXCEPT ![t].phase = "failed", ![t].error = "DATABASE_ERROR"]
      <3>1. CASE u = t
        <4>1. turn'[u].phase = "failed" /\ turn'[u].session = turn[u].session
          BY <2>2, <3>1 DEF TypeOK, TurnState
        <4>2. QED  BY <4>1 DEF Moves, KeepsSnapshot, KeepsCompaction, HoldsSnapshot
      <3>2. CASE u # t
        BY <2>2, <3>2, StillMoves DEF TypeOK
      <3>3. QED  BY <3>1, <3>2
    <2>3. QED  BY <1>12, <2>1, <2>2 DEF RecordFailure
  <1>13. CASE ParentAbort(t)
    <2>1. turn' = [turn EXCEPT ![t] = [turn[t] EXCEPT !.parent = TRUE,
                     !.signal = @ \/ turn[t].phase \in Registered]]
      BY <1>13 DEF ParentAbort
    <2>2. CASE u = t
      <3>1. /\ turn'[u].phase = turn[u].phase
            /\ turn'[u].session = turn[u].session
            /\ turn'[u].loaded = turn[u].loaded
            /\ turn'[u].older = turn[u].older
            /\ turn'[u].candidates = turn[u].candidates
        BY <2>1, <2>2 DEF TypeOK, TurnState
      <3>2. QED  BY <3>1 DEF Moves, KeepsSnapshot, KeepsCompaction
    <2>3. CASE u # t
      BY <2>1, <2>3, StillMoves DEF TypeOK
    <2>4. QED  BY <2>2, <2>3
  <1>14. QED
    BY <1>2, <1>3, <1>4, <1>5, <1>6, <1>7, <1>8, <1>9, <1>10, <1>11, <1>12, <1>13
    DEF TurnStep, TurnRuns, TurnFaults

(* So does every step.                                                     *)
LEMMA EveryStepMoves ==
    ASSUME TypeOK, [Next]_vars, NEW u \in Turns
    PROVE  Moves(u)
  <1>1. ASSUME NEW s \in Sessions, AbortSession(s)
        PROVE  Moves(u)
    BY <1>1, AbortMoves DEF AbortSession
  <1>2. ASSUME NEW r \in Resets, ResetBegin(r)
        PROVE  Moves(u)
    BY <1>2, AbortMoves DEF ResetBegin, TypeOK, ResetState
  <1>3. ASSUME NEW r \in Resets, ResetStep(r)
        PROVE  Moves(u)
    BY <1>3, StillMoves DEF ResetStep, ResetRuns, ResetRead, ResetWrite, ResetFails,
                          ResetConfirm
  <1>4. CASE UNCHANGED vars
    BY <1>4, StillMoves DEF vars
  <1>5. QED  BY <1>1, <1>2, <1>3, <1>4, TurnMoves DEF Next

-----------------------------------------------------------------------------
(* The inductive invariant                                                 *)

(* A stored session changes under its revision by a compaction only, which *)
(* takes all the messages a compaction may take.                           *)
Advances(old, new) ==
    \/ new.revision > old.revision
    \/ /\ new.revision = old.revision
       /\ new.status = old.status
       /\ new.owner = old.owner
       /\ new.context = old.context
       /\ new.binding = old.binding
       /\ new.messages = old.messages
       /\ new.completed = old.completed
       /\ \/ new.compacted = old.compacted
          \/ new.compacted = old.compacted \cup Candidates(AggregateOf(old))

(* What the compactions alone depend on, and every part of it on the other. *)
CompactionInv == TypeOK /\ SummaryCoversCompacted /\ CompactionsAreCurrent

(* A turn that is about to be stored, and whose commit the store accepts,  *)
(* was prepared from the session it is stored into.                        *)
LEMMA StoredTurnSeesItsSnapshot ==
    ASSUME LifecycleInv, NEW t \in Turns, StoresTurn(t)
    PROVE  SameView(turn[t].loaded, sessions[turn[t].session])
  <1>1. turn[t].phase \in HoldsSnapshot
    BY DEF StoresTurn, HoldsSnapshot
  <1>2. sessions[turn[t].session].revision = turn[t].loaded.context.revision
    BY DEF StoresTurn, StoreTurn, CommitAccepted
  <1>3. QED  BY <1>1, <1>2 DEF LifecycleInv, SnapshotsAreCurrent

(* A compaction the store accepts was computed from the session as it is.  *)
LEMMA StoredCompactionIsCurrent ==
    ASSUME CompactionInv, NEW t \in Turns, StoresCompaction(t)
    PROVE  LET stored == sessions[turn[t].session]
           IN  /\ turn[t].candidates = Candidates(AggregateOf(stored))
               /\ Summary(t) = stored.compacted \cup turn[t].candidates
  <1> DEFINE stored == sessions[turn[t].session]
             older == turn[t].older
  <1>1. /\ turn[t].candidates = Candidates(older)
        /\ older.revision = stored.revision
        /\ turn[t].candidates \cap stored.compacted = {}
    BY DEF StoresCompaction, CompactionAccepted, CompactionInv, CompactionsAreCurrent
  <1>2. /\ older.summary = stored.compacted
        /\ older.messages = stored.messages \ stored.compacted
    BY <1>1 DEF StoresCompaction, CompactionInv, CompactionsAreCurrent
  <1>3. Candidates(older) = Candidates(AggregateOf(stored))
    BY <1>2 DEF Candidates, AggregateOf
  <1>4. QED  BY <1>1, <1>2, <1>3 DEF Summary

(* Every step advances every session.                                      *)
LEMMA StoreAdvances ==
    ASSUME CompactionInv, [Next]_vars, NEW s \in Sessions
    PROVE  Advances(sessions[s], sessions'[s])
  <1> USE DEF CompactionInv
  <1>1. CASE sessions'[s] = sessions[s]
    BY <1>1 DEF Advances
  <1>2. ASSUME NEW t \in Turns, StoresTurn(t), s = turn[t].session
        PROVE  Advances(sessions[s], sessions'[s])
    <2> DEFINE next == MergedContext(turn[t].loaded.context, t)
    <2>1. /\ turn[t].loaded.context \in Context
          /\ sessions[s].revision = turn[t].loaded.context.revision
      BY <1>2 DEF StoresTurn, StoreTurn, CommitAccepted, TypeOK, TurnState, Aggregate
    <2>2. next.revision = sessions[s].revision + 1
      BY <2>1, MergedContextType
    <2>3. sessions'[s] = Committed(sessions[s], t, turn[t].user, next,
                                   turn[t].conversation)
      BY <1>2 DEF StoresTurn, StoreTurn, TypeOK
    <2>4. sessions'[s].revision = next.revision
      BY <2>3 DEF Committed, TypeOK, StoredSession
    <2>5. sessions[s].revision \in Nat
      BY DEF TypeOK, StoredSession
    <2>6. QED  BY <2>2, <2>4, <2>5 DEF Advances
  <1>3. ASSUME NEW t \in Turns, StoresCompaction(t), s = turn[t].session
        PROVE  Advances(sessions[s], sessions'[s])
    <2>1. sessions'[s] = Compacted(sessions[s], Summary(t), turn[t].candidates)
      BY <1>3 DEF StoresCompaction, TypeOK
    <2>2. /\ sessions'[s].revision = sessions[s].revision
          /\ sessions'[s].status = sessions[s].status
          /\ sessions'[s].owner = sessions[s].owner
          /\ sessions'[s].context = sessions[s].context
          /\ sessions'[s].binding = sessions[s].binding
          /\ sessions'[s].messages = sessions[s].messages
          /\ sessions'[s].completed = sessions[s].completed
          /\ sessions'[s].compacted = sessions[s].compacted \cup turn[t].candidates
      BY <2>1 DEF Compacted, TypeOK, StoredSession
    <2>3. turn[t].candidates = Candidates(AggregateOf(sessions[s]))
      BY <1>3, StoredCompactionIsCurrent
    <2>4. QED  BY <2>2, <2>3 DEF Advances
  <1>4. CASE StoresReset(s)
    <2>1. sessions'[s] = WasReset(sessions[s])
      BY <1>4 DEF StoresReset, TypeOK
    <2>2. /\ sessions'[s].revision = sessions[s].revision + 1
          /\ sessions[s].revision \in Nat
      BY <2>1 DEF WasReset, TypeOK, StoredSession
    <2>3. QED  BY <2>2 DEF Advances
  <1>5. ASSUME NEW t \in Turns, StoresTurn(t) \/ StoresCompaction(t),
               s # turn[t].session
        PROVE  sessions'[s] = sessions[s]
    BY <1>5 DEF StoresTurn, StoreTurn, StoresCompaction, TypeOK
  <1>6. ASSUME NEW x \in Sessions, StoresReset(x), s # x
        PROVE  sessions'[s] = sessions[s]
    BY <1>6 DEF StoresReset, TypeOK
  <1>7. QED  BY <1>1, <1>2, <1>3, <1>4, <1>5, <1>6, StoreStep

(* What a turn loads is the stored session, seen whole.                    *)
LEMMA LoadedView ==
    ASSUME TypeOK, SummaryCoversCompacted, NEW s \in Sessions
    PROVE  SameView(AggregateOf(sessions[s]), sessions[s])
  <1>1. /\ sessions[s].summary = sessions[s].compacted
        /\ sessions[s].compacted \subseteq sessions[s].messages
    BY DEF SummaryCoversCompacted, TypeOK, WellFormed
  <1>2. QED  BY <1>1 DEF SameView, AggregateOf

(* The snapshots stay current.                                             *)
LEMMA SnapshotsStep ==
    ASSUME LifecycleInv, [Next]_vars, TypeOK'
    PROVE  SnapshotsAreCurrent'
  <1> SUFFICES ASSUME NEW u \in Turns, turn'[u].phase \in HoldsSnapshot
               PROVE  LET stored == sessions'[turn'[u].session]
                          loaded == turn'[u].loaded
                      IN  /\ loaded.context.revision = loaded.revision
                          /\ loaded.revision <= stored.revision
                          /\ loaded.revision = stored.revision => SameView(loaded, stored)
    BY DEF SnapshotsAreCurrent
  <1> DEFINE s == turn[u].session
             old == sessions[s]
             new == sessions'[s]
  <1>1. s \in Sessions /\ turn'[u].session = s
    BY EveryStepMoves DEF Moves, LifecycleInv, TypeOK, TurnState
  <1>2. /\ old \in StoredSession
        /\ new \in StoredSession
        /\ turn[u].loaded \in Aggregate
    BY <1>1 DEF LifecycleInv, TypeOK, TurnState
  <1>3. CASE KeepsSnapshot(u)
    <2> DEFINE loaded == turn[u].loaded
    <2>1. turn'[u].loaded = loaded /\ turn[u].phase \in HoldsSnapshot
      BY <1>3 DEF KeepsSnapshot
    <2>2. /\ loaded.context.revision = loaded.revision
          /\ loaded.revision <= old.revision
          /\ loaded.revision = old.revision => SameView(loaded, old)
      BY <2>1 DEF LifecycleInv, SnapshotsAreCurrent
    <2>3. Advances(old, new)
      BY <1>1, StoreAdvances DEF LifecycleInv, CompactionInv
    <2>4. loaded.revision \in Nat /\ old.revision \in Nat /\ new.revision \in Nat
      BY <1>2 DEF Aggregate, StoredSession
    <2>5. loaded.revision <= new.revision
      BY <2>2, <2>3, <2>4 DEF Advances
    <2>6. ASSUME loaded.revision = new.revision
          PROVE  SameView(loaded, new)
      <3>1. /\ loaded.revision = old.revision
            /\ ~(new.revision > old.revision)
        BY <2>2, <2>3, <2>4, <2>6 DEF Advances
      <3>2. QED  BY <2>2, <2>3, <3>1 DEF Advances, SameView
    <2>7. QED  BY <1>1, <2>1, <2>2, <2>5, <2>6
  <1>4. CASE TakesSnapshot(u)
    <2>1. /\ sessions' = sessions
          /\ turn'[u].loaded = AggregateOf(old)
          /\ old.context.revision = old.revision
      BY <1>4 DEF TakesSnapshot
    <2>2. SameView(AggregateOf(old), old)
      BY <1>1, LoadedView DEF LifecycleInv
    <2>3. /\ AggregateOf(old).revision = old.revision
          /\ AggregateOf(old).context = old.context
      BY DEF AggregateOf
    <2>4. old.revision <= old.revision
      BY <1>2 DEF StoredSession
    <2>5. QED  BY <1>1, <2>1, <2>2, <2>3, <2>4
  <1>5. QED  BY <1>3, <1>4, EveryStepMoves DEF Moves, LifecycleInv

(* The compactions that wait for their summaries stay current.             *)
LEMMA CompactionsStep ==
    ASSUME CompactionInv, [Next]_vars, TypeOK'
    PROVE  CompactionsAreCurrent'
  <1> SUFFICES ASSUME NEW u \in Turns, turn'[u].phase = "summarizing"
               PROVE  LET stored == sessions'[turn'[u].session]
                          older  == turn'[u].older
                      IN  /\ turn'[u].candidates = Candidates(older)
                          /\ turn'[u].candidates # {}
                          /\ older.revision <= stored.revision
                          /\ older.revision = stored.revision =>
                                \/ /\ older.summary = stored.compacted
                                   /\ older.messages = stored.messages \ stored.compacted
                                \/ turn'[u].candidates \cap stored.compacted # {}
    BY DEF CompactionsAreCurrent, Candidates
  <1> DEFINE s == turn[u].session
             old == sessions[s]
             new == sessions'[s]
  <1>1. s \in Sessions /\ turn'[u].session = s
    BY EveryStepMoves DEF Moves, CompactionInv, TypeOK, TurnState
  <1>2. /\ old \in StoredSession
        /\ new \in StoredSession
        /\ turn[u].older \in Aggregate
    BY <1>1 DEF CompactionInv, TypeOK, TurnState
  <1>3. CASE KeepsCompaction(u)
    <2> DEFINE older == turn[u].older
               taken == turn[u].candidates
    <2>1. /\ turn[u].phase = "summarizing"
          /\ turn'[u].older = older
          /\ turn'[u].candidates = taken
      BY <1>3 DEF KeepsCompaction
    <2>2. /\ taken = Candidates(older)
          /\ taken # {}
          /\ older.revision <= old.revision
          /\ older.revision = old.revision =>
                \/ /\ older.summary = old.compacted
                   /\ older.messages = old.messages \ old.compacted
                \/ taken \cap old.compacted # {}
      BY <2>1 DEF CompactionInv, CompactionsAreCurrent
    <2>3. Advances(old, new)
      BY <1>1, StoreAdvances
    <2>4. older.revision \in Nat /\ old.revision \in Nat /\ new.revision \in Nat
      BY <1>2 DEF Aggregate, StoredSession
    <2>5. older.revision <= new.revision
      BY <2>2, <2>3, <2>4 DEF Advances
    <2>6. ASSUME older.revision = new.revision
          PROVE  \/ /\ older.summary = new.compacted
                    /\ older.messages = new.messages \ new.compacted
                 \/ taken \cap new.compacted # {}
      <3>1. /\ older.revision = old.revision
            /\ new.messages = old.messages
            /\ \/ new.compacted = old.compacted
               \/ new.compacted = old.compacted \cup Candidates(AggregateOf(old))
        BY <2>2, <2>3, <2>4, <2>6, SMTT(20) DEF Advances
      <3>2. CASE taken \cap old.compacted # {}
        BY <3>1, <3>2
      <3>3. CASE /\ older.summary = old.compacted
                 /\ older.messages = old.messages \ old.compacted
        <4>1. Candidates(older) = Candidates(AggregateOf(old))
          BY <3>3 DEF Candidates, AggregateOf
        <4>2. QED  BY <2>2, <3>1, <3>3, <4>1
      <3>4. QED  BY <2>2, <3>1, <3>2, <3>3
    <2>7. QED  BY <1>1, <2>1, <2>2, <2>5, <2>6
  <1>4. CASE TakesCompaction(u)
    <2>1. /\ sessions' = sessions
          /\ turn'[u].older = AggregateOf(old)
          /\ turn'[u].candidates = Candidates(turn'[u].older)
          /\ turn'[u].candidates # {}
      BY <1>4 DEF TakesCompaction
    <2>2. /\ AggregateOf(old).revision = old.revision
          /\ AggregateOf(old).summary = old.compacted
          /\ AggregateOf(old).messages = old.messages \ old.compacted
      BY <1>1 DEF AggregateOf, CompactionInv, SummaryCoversCompacted
    <2>3. old.revision <= old.revision
      BY <1>2 DEF StoredSession
    <2>4. QED  BY <1>1, <2>1, <2>2, <2>3
  <1>5. QED  BY <1>3, <1>4, EveryStepMoves DEF Moves, CompactionInv

(* Summaries stand for the compacted messages after every step.            *)
LEMMA SummaryStep ==
    ASSUME CompactionInv, [Next]_vars
    PROVE  SummaryCoversCompacted'
  <1> USE DEF CompactionInv
  <1> SUFFICES ASSUME NEW s \in Sessions
               PROVE  sessions'[s].summary = sessions'[s].compacted
    BY DEF SummaryCoversCompacted
  <1> DEFINE old == sessions[s]
             new == sessions'[s]
  <1>1. old \in StoredSession /\ old.summary = old.compacted
    BY DEF TypeOK, SummaryCoversCompacted
  <1>2. ASSUME NEW t \in Turns, StoresTurn(t), s = turn[t].session
        PROVE  new.summary = new.compacted
    <2> DEFINE next == MergedContext(turn[t].loaded.context, t)
    <2>1. new = Committed(old, t, turn[t].user, next, turn[t].conversation)
      BY <1>2 DEF StoresTurn, StoreTurn, TypeOK
    <2>2. new.summary = old.summary /\ new.compacted = old.compacted
      BY <1>1, <2>1 DEF Committed, StoredSession
    <2>3. QED  BY <1>1, <2>2
  <1>3. ASSUME NEW t \in Turns, StoresCompaction(t), s = turn[t].session
        PROVE  new.summary = new.compacted
    <2>1. new = Compacted(old, Summary(t), turn[t].candidates)
      BY <1>3 DEF StoresCompaction, TypeOK
    <2>2. /\ new.summary = Summary(t)
          /\ new.compacted = old.compacted \cup turn[t].candidates
      BY <1>1, <2>1 DEF Compacted, StoredSession
    <2>3. Summary(t) = old.compacted \cup turn[t].candidates
      BY <1>3, StoredCompactionIsCurrent
    <2>4. QED  BY <2>2, <2>3
  <1>4. CASE StoresReset(s)
    <2>1. new = WasReset(old)
      BY <1>4 DEF StoresReset, TypeOK
    <2>2. QED  BY <1>1, <2>1 DEF WasReset, StoredSession
  <1>5. ASSUME NEW t \in Turns, StoresTurn(t) \/ StoresCompaction(t),
               s # turn[t].session
        PROVE  new = old
    BY <1>5 DEF StoresTurn, StoreTurn, StoresCompaction, TypeOK
  <1>6. ASSUME NEW x \in Sessions, StoresReset(x), s # x
        PROVE  new = old
    BY <1>6 DEF StoresReset, TypeOK
  <1>7. QED  BY <1>1, <1>2, <1>3, <1>4, <1>5, <1>6, StoreStep

(* Contexts agree with the messages after every step.                      *)
LEMMA StoreInvariantsStep ==
    ASSUME LifecycleInv, [Next]_vars, NEW s \in Sessions
    PROVE  /\ sessions'[s].context.applied = {m.turn : m \in sessions'[s].messages}
           /\ sessions'[s].context.revision = sessions'[s].revision
  <1> USE DEF LifecycleInv
  <1> DEFINE old == sessions[s]
             new == sessions'[s]
  <1>1. /\ old \in StoredSession
        /\ old.context.applied = {m.turn : m \in old.messages}
        /\ old.context.revision = old.revision
    BY DEF TypeOK, ContextKeepsEveryCommit
  <1>2. CASE new = old
    BY <1>1, <1>2
  <1>3. ASSUME NEW t \in Turns, StoresTurn(t), s = turn[t].session
        PROVE  /\ new.context.applied = {m.turn : m \in new.messages}
               /\ new.context.revision = new.revision
    <2> DEFINE next == MergedContext(turn[t].loaded.context, t)
               added == TurnMessages(t, Cardinality(old.messages))
    <2>1. new = Committed(old, t, turn[t].user, next, turn[t].conversation)
      BY <1>3 DEF StoresTurn, StoreTurn, TypeOK
    <2>2. /\ new.context = next
          /\ new.revision = next.revision
          /\ new.messages = old.messages \cup added
      BY <1>1, <2>1 DEF Committed, StoredSession
    <2>3. turn[t].loaded.context = old.context
      BY <1>3, StoredTurnSeesItsSnapshot DEF SameView
    <2>4. next.applied = old.context.applied \cup {t}
      BY <2>3 DEF MergedContext
    <2>5. Cardinality(old.messages) \in Nat
      BY FS_CardinalityType DEF TypeOK, WellFormed
    <2>6. {m.turn : m \in added} = {t}
      BY <2>5, TurnMessagesType
    <2>7. {m.turn : m \in old.messages \cup added} =
             {m.turn : m \in old.messages} \cup {m.turn : m \in added}
      OBVIOUS
    <2>8. QED  BY <1>1, <2>2, <2>4, <2>6, <2>7
  <1>4. ASSUME NEW t \in Turns, StoresCompaction(t), s = turn[t].session
        PROVE  /\ new.context.applied = {m.turn : m \in new.messages}
               /\ new.context.revision = new.revision
    <2>1. new = Compacted(old, Summary(t), turn[t].candidates)
      BY <1>4 DEF StoresCompaction, TypeOK
    <2>2. /\ new.context = old.context
          /\ new.revision = old.revision
          /\ new.messages = old.messages
      BY <1>1, <2>1 DEF Compacted, StoredSession
    <2>3. QED  BY <1>1, <2>2
  <1>5. CASE StoresReset(s)
    <2>1. new = WasReset(old)
      BY <1>5 DEF StoresReset, TypeOK
    <2>2. /\ new.context = DefaultContext(old.revision + 1)
          /\ new.revision = old.revision + 1
          /\ new.messages = {}
      BY <1>1, <2>1 DEF WasReset, StoredSession
    <2>3. /\ new.context.applied = {}
          /\ new.context.revision = old.revision + 1
      BY <2>2 DEF DefaultContext
    <2>4. {m.turn : m \in new.messages} = {}
      BY <2>2
    <2>5. QED  BY <2>2, <2>3, <2>4
  <1>6. ASSUME NEW t \in Turns, StoresTurn(t) \/ StoresCompaction(t),
               s # turn[t].session
        PROVE  new = old
    BY <1>6 DEF StoresTurn, StoreTurn, StoresCompaction, TypeOK
  <1>7. ASSUME NEW x \in Sessions, StoresReset(x), s # x
        PROVE  new = old
    BY <1>7 DEF StoresReset, TypeOK
  <1>8. QED  BY <1>2, <1>3, <1>4, <1>5, <1>6, <1>7, StoreStep

(* The inductive invariant holds initially.                                *)
LEMMA LifecycleInit == Init => LifecycleInv
  <1> SUFFICES ASSUME Init PROVE LifecycleInv
    OBVIOUS
  <1>1. TypeOK
    BY TypeOKInit
  <1>2. ContextKeepsEveryCommit /\ SummaryCoversCompacted
    <2>1. \A s \in Sessions : sessions[s] = NoSession
      BY DEF Init
    <2>2. {m.turn : m \in {}} = {}
      OBVIOUS
    <2>3. QED
      BY <2>1, <2>2 DEF NoSession, DefaultContext, ContextKeepsEveryCommit,
                        SummaryCoversCompacted
  <1>3. \A t \in Turns : turn[t].phase = "idle"
    <2>1. ASSUME NEW t \in Turns
          PROVE  turn[t].phase = "idle"
      BY DEF Init
    <2>2. QED  BY <2>1
  <1>4. SnapshotsAreCurrent /\ CompactionsAreCurrent
    BY <1>3 DEF SnapshotsAreCurrent, CompactionsAreCurrent, HoldsSnapshot
  <1>5. QED  BY <1>1, <1>2, <1>4 DEF LifecycleInv

(* Every step keeps the inductive invariant.                               *)
LEMMA LifecycleStep == LifecycleInv /\ [Next]_vars => LifecycleInv'
  <1> SUFFICES ASSUME LifecycleInv, [Next]_vars PROVE LifecycleInv'
    OBVIOUS
  <1>1. TypeOK'
    BY TypeOKStep DEF LifecycleInv
  <1>2. ContextKeepsEveryCommit' /\ SummaryCoversCompacted'
    BY StoreInvariantsStep, SummaryStep
    DEF ContextKeepsEveryCommit, LifecycleInv, CompactionInv
  <1>3. SnapshotsAreCurrent' /\ CompactionsAreCurrent'
    BY <1>1, SnapshotsStep, CompactionsStep DEF LifecycleInv, CompactionInv
  <1>4. QED  BY <1>1, <1>2, <1>3 DEF LifecycleInv

(* The inductive invariant holds in every run.                             *)
THEOREM LifecycleInvariant == Spec => []LifecycleInv
  BY LifecycleInit, LifecycleStep, PTL DEF Spec

-----------------------------------------------------------------------------
(* What follows                                                            *)

(* No context update is ever lost: the context of each session holds the   *)
(* patch of every turn of its history and of no other, at the session's    *)
(* own revision (mergeContextPatch, commitTurn, resetSession).             *)
THEOREM ContextComplete == Spec => []ContextKeepsEveryCommit
  BY LifecycleInvariant, PTL DEF LifecycleInv

(* The stored summary always covers exactly the messages marked compacted, *)
(* which loading leaves out, however many compactions run at once          *)
(* (commitCompaction, loadSessionAggregate).                               *)
THEOREM SummaryComplete == Spec => []SummaryCoversCompacted
  BY LifecycleInvariant, PTL DEF LifecycleInv

(* Only a commit adds to the turns of a session, and it adds its own.      *)
LEMMA OnlyCommitsComplete ==
    ASSUME TypeOK, [Next]_vars, NEW t \in Turns, Commits(t)
    PROVE  StoresTurn(t)
  <1> DEFINE s == turn[t].session
  <1>1. s \in Sessions /\ sessions[s] \in StoredSession
    BY DEF TypeOK, TurnState
  <1>2. t \in sessions'[s].completed /\ t \notin sessions[s].completed
    BY DEF Commits
  <1>3. ASSUME NEW u \in Turns, StoresTurn(u)
        PROVE  u = t
    <2>1. \/ sessions'[s] = sessions[s]
          \/ \E user, next, conversation :
                sessions'[s] = Committed(sessions[s], u, user, next, conversation)
      BY <1>1, <1>3 DEF StoresTurn, StoreTurn, TypeOK
    <2>2. \/ sessions'[s] = sessions[s]
          \/ sessions'[s].completed = sessions[s].completed \cup {u}
      BY <1>1, <2>1 DEF Committed, StoredSession
    <2>3. QED  BY <1>2, <2>2
  <1>4. ASSUME NEW u \in Turns, StoresCompaction(u)
        PROVE  FALSE
    BY <1>1, <1>2, <1>4 DEF StoresCompaction, Compacted, TypeOK, StoredSession
  <1>5. ASSUME NEW x \in Sessions, StoresReset(x)
        PROVE  FALSE
    BY <1>1, <1>2, <1>5 DEF StoresReset, WasReset, TypeOK, StoredSession
  <1>6. QED  BY <1>2, <1>3, <1>4, <1>5, StoreStep

(* A turn is committed onto exactly the session it was prepared from:      *)
(* optimistic concurrency makes the turns of a session serialisable, with  *)
(* any number of turns, resets, compactions, aborts and faults (commitTurn *)
(* with the expectedRevision of the prepared context).                     *)
THEOREM CommitIsSerializable == Spec => CommitSeesItsSnapshot
  <1>1. LifecycleInv /\ [Next]_vars =>
          [\A t \in Turns :
             Commits(t) => SameView(turn[t].loaded, sessions[turn[t].session])]_vars
    BY OnlyCommitsComplete, StoredTurnSeesItsSnapshot DEF LifecycleInv
  <1>2. QED  BY <1>1, LifecycleInvariant, PTL DEF Spec, CommitSeesItsSnapshot

-----------------------------------------------------------------------------
(* How a turn proceeds                                                     *)

(* A turn is one of those its session has recorded as completed.           *)
StoredIn(t) == t \in sessions[turn[t].session].completed

BeforeCompaction == {"idle", "announced", "guarding", "loading", "compacting", "summarizing"}

(* A turn that another one's step, a reset or a signal leaves where it is. *)
Rests(u) ==
    /\ turn'[u].phase = turn[u].phase
    /\ turn'[u].error = turn[u].error
    /\ turn'[u].loaded = turn[u].loaded
    /\ turn'[u].candidates = turn[u].candidates
    /\ turn'[u].compacted = turn[u].compacted
    /\ turn'[u].conversation = turn[u].conversation
    /\ turn[u].signal => turn'[u].signal

(* What the step of a turn may do to it: to what its compaction took, on   *)
(* its way to the commit, after the commit and to its signal.              *)
Progresses(u) ==
    LET from == turn[u].phase
        to   == turn'[u].phase
    IN  /\ turn'[u].candidates = turn[u].candidates \/ from = "compacting"
        /\ turn'[u].compacted = turn[u].compacted \/ StoresCompaction(u)
        /\ to \in BeforeCompaction =>
              from \in BeforeCompaction /\ turn'[u].compacted = turn[u].compacted
        /\ to = "answered" =>
              /\ from = "orchestrating"
              /\ turn'[u].loaded = turn[u].loaded
              /\ turn[u].loaded.binding \in {NoConversation, turn'[u].conversation}
        /\ to = "committing" =>
              /\ from = "answered" /\ ~turn[u].signal
              /\ turn'[u].loaded = turn[u].loaded
              /\ turn'[u].conversation = turn[u].conversation
        /\ to = "committed" => StoresTurn(u)
        /\ to = "completed" => from = "committed"
        /\ to = "failed" =>
              from = "failing" /\ (StoredIn(u) => turn'[u].error = "DATABASE_ERROR")
        /\ from \in BeforeCommit => to \in BeforeCommit \cup {"committing", "failing", "unrecorded"}
        /\ from = "committing" => to \in {"committed", "failing"}
        /\ from = "committed" => to \in {"completed", "unrecorded"}
        /\ from = "failing" => to \in {"failed", "unrecorded"}
        /\ from \notin Ended
        /\ from \in Registered => turn'[u].signal = turn[u].signal

(* The fields of a turn that a step has not touched.                       *)
LEMMA UntouchedRests ==
    ASSUME NEW u \in Turns, turn'[u] = turn[u]
    PROVE  Rests(u)
  BY DEF Rests

(* A turn that fails progresses.                                           *)
LEMMA FailProgresses ==
    ASSUME TypeOK, NEW t \in Turns, NEW e, Fail(t, e),
           turn[t].phase \in BeforeCommit \cup {"committing"}
    PROVE  Progresses(t)
  <1>1. /\ turn'[t].phase = "failing"
        /\ turn'[t].candidates = turn[t].candidates
        /\ turn'[t].compacted = turn[t].compacted
        /\ turn'[t].signal = turn[t].signal
    BY DEF Fail, TypeOK, TurnState
  <1>2. QED  BY <1>1 DEF Progresses, BeforeCommit, BeforeCompaction, Ended

(* So does one that goes on to the next phase.                             *)
LEMMA GotoProgresses ==
    ASSUME TypeOK, NEW t \in Turns, NEW phase, Goto(t, phase),
           \/ turn[t].phase = "idle" /\ phase = "announced"
           \/ turn[t].phase = "guarding" /\ phase = "loading"
           \/ turn[t].phase = "compacting" /\ phase = "orchestrating"
           \/ turn[t].phase = "answered" /\ ~turn[t].signal /\ phase = "committing"
           \/ turn[t].phase = "committed" /\ phase = "completed"
           \/ turn[t].phase = "failing" /\ ~StoredIn(t) /\ phase = "failed"
    PROVE  Progresses(t)
  <1>1. /\ turn'[t].phase = phase
        /\ turn'[t].candidates = turn[t].candidates
        /\ turn'[t].compacted = turn[t].compacted
        /\ turn'[t].loaded = turn[t].loaded
        /\ turn'[t].conversation = turn[t].conversation
        /\ turn'[t].signal = turn[t].signal
    BY DEF Goto, TypeOK, TurnState
  <1>2. QED  BY <1>1 DEF Progresses, BeforeCommit, BeforeCompaction, Ended

(* So does one that is prepared from an aggregate.                         *)
LEMMA PrepareProgresses ==
    ASSUME TypeOK, NEW t \in Turns, NEW aggregate, NEW phase, PrepareFrom(t, aggregate, phase),
           \/ turn[t].phase = "loading" /\ phase = "compacting"
           \/ turn[t].phase = "reloading" /\ phase = "orchestrating"
    PROVE  Progresses(t)
  <1>1. CASE Fail(t, Rejection(aggregate, turn[t].user))
    BY <1>1, FailProgresses DEF BeforeCommit
  <1>2. CASE turn' = [turn EXCEPT ![t].loaded = aggregate, ![t].phase = phase]
    <2>1. /\ turn'[t].phase = phase
          /\ turn'[t].candidates = turn[t].candidates
          /\ turn'[t].compacted = turn[t].compacted
          /\ turn'[t].signal = turn[t].signal
      BY <1>2 DEF TypeOK, TurnState
    <2>2. QED  BY <2>1 DEF Progresses, BeforeCommit, BeforeCompaction, Ended
  <1>3. QED  BY <1>1, <1>2 DEF PrepareFrom

(* Every action of a turn makes it progress.                               *)
LEMMA TurnProgresses ==
    ASSUME TypeOK, NEW t \in Turns,
           Begin(t) \/ TurnStep(t) \/ Abandon(t)
    PROVE  Progresses(t)
  <1> USE DEF BeforeCommit
  <1>1. CASE Begin(t) \/ Complete(t)
    BY <1>1, GotoProgresses DEF Begin, Complete
  <1>2. CASE Register(t)
    <2>1. /\ turn[t].phase = "announced"
          /\ turn'[t].phase \in {"failing", "guarding"}
          /\ turn'[t].candidates = turn[t].candidates
          /\ turn'[t].compacted = turn[t].compacted
      BY <1>2 DEF Register, TypeOK, TurnState
    <2>2. QED  BY <2>1 DEF Progresses, BeforeCompaction, Registered, Ended
  <1>3. CASE GuardInput(t) \/ GuardOutput(t)
    BY <1>3, FailProgresses, GotoProgresses DEF GuardInput, GuardOutput
  <1>4. CASE Load(t)
    <2> DEFINE aggregate == AggregateOf(sessions[turn[t].session])
    <2>1. turn[t].phase = "loading"
      BY <1>4 DEF Load
    <2>2. CASE PrepareFrom(t, aggregate, "compacting")
      BY <2>1, <2>2, PrepareProgresses
    <2>3. CASE Fail(t, "ABORTED")
      BY <2>1, <2>3, FailProgresses
    <2>4. CASE turn' = [turn EXCEPT ![t].loaded = aggregate, ![t].phase = "orchestrating"]
      <3>1. /\ turn'[t].phase = "orchestrating"
            /\ turn'[t].candidates = turn[t].candidates
            /\ turn'[t].compacted = turn[t].compacted
            /\ turn'[t].signal = turn[t].signal
        BY <2>4 DEF TypeOK, TurnState
      <3>2. QED  BY <2>1, <3>1 DEF Progresses, BeforeCompaction, Ended
    <2>5. QED  BY <1>4, <2>2, <2>3, <2>4 DEF Load
  <1>5. CASE Compact(t)
    <2> DEFINE older == AggregateOf(sessions[turn[t].session])
    <2>1. turn[t].phase = "compacting"
      BY <1>5 DEF Compact
    <2>2. CASE Fail(t, "ABORTED")
      BY <2>1, <2>2, FailProgresses
    <2>3. CASE Goto(t, "orchestrating")
      BY <2>1, <2>3, GotoProgresses
    <2>4. CASE turn' = [turn EXCEPT ![t].older = older, ![t].candidates = Candidates(older),
                                    ![t].phase = "summarizing"]
      <3>1. /\ turn'[t].phase = "summarizing"
            /\ turn'[t].compacted = turn[t].compacted
            /\ turn'[t].signal = turn[t].signal
        BY <2>4 DEF TypeOK, TurnState
      <3>2. QED  BY <2>1, <3>1 DEF Progresses, BeforeCompaction, Ended
    <2>5. QED  BY <1>5, <2>2, <2>3, <2>4 DEF Compact
  <1>6. CASE CommitCompaction(t)
    <2>1. turn[t].phase = "summarizing"
      BY <1>6 DEF CommitCompaction
    <2>2. CASE Fail(t, "SESSION_CONFLICT")
      BY <2>1, <2>2, FailProgresses
    <2>3. CASE /\ StoresCompaction(t)
               /\ turn' = [turn EXCEPT ![t].compacted = TRUE, ![t].older = Nothing,
                                       ![t].phase = "reloading"]
      <3>1. /\ turn'[t].phase = "reloading"
            /\ turn'[t].candidates = turn[t].candidates
            /\ turn'[t].signal = turn[t].signal
        BY <2>3 DEF TypeOK, TurnState
      <3>2. QED  BY <2>1, <2>3, <3>1 DEF Progresses, BeforeCompaction, Ended
    <2>4. QED  BY <1>6, <2>2, <2>3 DEF CommitCompaction, StoresCompaction
  <1>7. CASE \/ CompactionUnacknowledged(t) \/ SummaryFails(t) \/ ProviderFails(t)
             \/ CommitConflict(t) \/ CommitUnacknowledged(t) \/ StoreFails(t)
    BY <1>7, FailProgresses DEF CompactionUnacknowledged, SummaryFails, ProviderFails,
                                CommitConflict, CommitUnacknowledged, StoreFails
  <1>8. CASE Reload(t)
    BY <1>8, PrepareProgresses DEF Reload
  <1>9. CASE Answer(t)
    <2> DEFINE bound == turn[t].loaded.binding
               fresh == Conversations \ {turn[u].conversation : u \in Turns}
               offered == IF bound = NoConversation THEN fresh \cup {NoConversation}
                                                    ELSE {bound}
    <2>1. PICK c \in offered :
                 turn' = [turn EXCEPT ![t].conversation = c, ![t].phase = "answered"]
      BY <1>9 DEF Answer
    <2>0. bound \in {NoConversation, c}
      BY <2>1
    <2> HIDE DEF offered, fresh
    <2>2. turn[t].phase = "orchestrating"
      BY <1>9 DEF Answer
    <2>3. /\ turn'[t].phase = "answered"
          /\ turn'[t].conversation = c
          /\ turn'[t].candidates = turn[t].candidates
          /\ turn'[t].compacted = turn[t].compacted
          /\ turn'[t].loaded = turn[t].loaded
          /\ turn'[t].signal = turn[t].signal
      BY <2>1 DEF TypeOK, TurnState
    <2>4. QED  BY <2>0, <2>2, <2>3 DEF Progresses, BeforeCompaction, Ended
  <1>10. CASE CommitTurn(t)
    <2>1. turn[t].phase = "committing" /\ StoresTurn(t)
      BY <1>10 DEF CommitTurn, StoresTurn
    <2>2. /\ turn'[t].phase = "committed"
          /\ turn'[t].candidates = turn[t].candidates
          /\ turn'[t].compacted = turn[t].compacted
          /\ turn'[t].signal = turn[t].signal
      BY <1>10 DEF CommitTurn, TypeOK, TurnState
    <2>3. QED  BY <2>1, <2>2 DEF Progresses, BeforeCompaction, Ended
  <1>11. CASE ObserverFails(t) \/ Abandon(t)
    <2>1. turn[t].phase \in {"announced"} \cup BeforeCommit \cup {"committed", "failing"}
      BY <1>11 DEF ObserverFails, Abandon
    <2>2. /\ turn'[t].phase = "unrecorded"
          /\ turn'[t].candidates = turn[t].candidates
          /\ turn'[t].compacted = turn[t].compacted
          /\ turn'[t].signal = turn[t].signal
      BY <1>11 DEF ObserverFails, Abandon, TypeOK, TurnState
    <2>3. QED  BY <2>1, <2>2 DEF Progresses, BeforeCompaction, Ended
  <1>12. CASE RecordFailure(t)
    <2>1. turn[t].phase = "failing"
      BY <1>12 DEF RecordFailure
    <2>2. CASE Goto(t, "failed") /\ ~StoredIn(t)
      BY <2>1, <2>2, GotoProgresses
    <2>3. CASE turn' = [turn EXCEPT ![t].phase = "failed", ![t].error = "DATABASE_ERROR"]
      <3>1. /\ turn'[t].phase = "failed"
            /\ turn'[t].error = "DATABASE_ERROR"
            /\ turn'[t].candidates = turn[t].candidates
            /\ turn'[t].compacted = turn[t].compacted
            /\ turn'[t].signal = turn[t].signal
        BY <2>3 DEF TypeOK, TurnState
      <3>2. QED  BY <2>1, <3>1 DEF Progresses, BeforeCompaction, Ended
    <2>4. QED  BY <1>12, <2>2, <2>3 DEF RecordFailure, StoredIn
  <1>13. QED
    BY <1>1, <1>2, <1>3, <1>4, <1>5, <1>6, <1>7, <1>8, <1>9, <1>10, <1>11, <1>12
    DEF TurnStep, TurnRuns, TurnFaults

(* The others rest.                                                        *)
LEMMA OthersRest ==
    ASSUME TypeOK, NEW t \in Turns, Begin(t) \/ TurnStep(t) \/ Abandon(t),
           NEW u \in Turns, u # t
    PROVE  Rests(u)
  <1>1. \A e : Fail(t, e) => turn'[u] = turn[u]
    BY DEF Fail, TypeOK
  <1>2. \A phase : Goto(t, phase) => turn'[u] = turn[u]
    BY DEF Goto, TypeOK
  <1>3. \A aggregate, phase : PrepareFrom(t, aggregate, phase) => turn'[u] = turn[u]
    BY <1>1 DEF PrepareFrom, TypeOK
  <1>4. CASE Begin(t) \/ Register(t) \/ GuardInput(t) \/ Load(t)
    BY <1>1, <1>2, <1>3, <1>4, UntouchedRests DEF Begin, Register, GuardInput, Load, TypeOK
  <1>5. CASE \/ Compact(t) \/ CommitCompaction(t) \/ CompactionUnacknowledged(t)
             \/ SummaryFails(t) \/ Reload(t)
    BY <1>1, <1>2, <1>3, <1>5, UntouchedRests
    DEF Compact, CommitCompaction, CompactionUnacknowledged, SummaryFails, Reload, TypeOK
  <1>6. CASE Answer(t) \/ ProviderFails(t) \/ GuardOutput(t)
    BY <1>1, <1>2, <1>6, UntouchedRests DEF Answer, ProviderFails, GuardOutput, TypeOK
  <1>7. CASE \/ CommitTurn(t) \/ CommitConflict(t) \/ CommitUnacknowledged(t)
             \/ Complete(t)
    BY <1>1, <1>2, <1>7, UntouchedRests
    DEF CommitTurn, CommitConflict, CommitUnacknowledged, Complete, TypeOK
  <1>8. CASE StoreFails(t) \/ RecordFailure(t) \/ ObserverFails(t) \/ Abandon(t)
    BY <1>1, <1>2, <1>8, UntouchedRests
    DEF StoreFails, RecordFailure, ObserverFails, Abandon, TypeOK
  <1>9. QED
    BY <1>4, <1>5, <1>6, <1>7, <1>8 DEF TurnStep, TurnRuns, TurnFaults

(* A signal stops no turn by itself.                                       *)
LEMMA SignalsRest ==
    ASSUME TypeOK, NEW u \in Turns,
           \/ \E s \in Sessions : turn' = AbortAll(s)
           \/ \E t \in Turns : ParentAbort(t)
    PROVE  Rests(u)
  <1>1. ASSUME NEW s \in Sessions, turn' = AbortAll(s)
        PROVE  Rests(u)
    <2>1. turn'[u] = turn[u] \/ turn'[u] = [turn[u] EXCEPT !.signal = TRUE]
      BY <1>1 DEF AbortAll
    <2>2. turn[u] \in TurnState
      BY DEF TypeOK
    <2>3. QED  BY <2>1, <2>2 DEF Rests, TurnState
  <1>2. ASSUME NEW t \in Turns, ParentAbort(t)
        PROVE  Rests(u)
    <2> DEFINE new == [turn[t] EXCEPT !.parent = TRUE,
                                      !.signal = @ \/ turn[t].phase \in Registered]
    <2>1. turn' = [turn EXCEPT ![t] = new]
      BY <1>2 DEF ParentAbort
    <2>2. turn[t] \in TurnState
      BY DEF TypeOK
    <2>3. CASE u = t
      <3>1. turn'[u] = new
        BY <2>1, <2>3 DEF TypeOK
      <3>2. QED  BY <2>2, <2>3, <3>1 DEF Rests, TurnState
    <2>4. CASE u # t
      BY <2>1, <2>4, UntouchedRests DEF TypeOK
    <2>5. QED  BY <2>3, <2>4
  <1>3. QED  BY <1>1, <1>2

(* A failure is recorded of a turn that is not stored.                     *)
RecordsFailure(t) ==
    /\ failedTurns' = failedTurns \cup {t}
    /\ turn'[t].phase = "failed"
    /\ ~StoredIn(t)
    /\ sessions' = sessions

(* What the step of a turn records of failures.                            *)
LEMMA TurnRecords ==
    ASSUME TypeOK, NEW t \in Turns,
           Begin(t) \/ TurnStep(t) \/ ParentAbort(t) \/ Abandon(t)
    PROVE  failedTurns' = failedTurns \/ RecordsFailure(t)
  <1>1. CASE RecordFailure(t)
    <2>1. turn'[t].phase = "failed"
      BY <1>1 DEF RecordFailure, Goto, TypeOK, TurnState
    <2>2. QED  BY <1>1, <2>1 DEF RecordFailure, RecordsFailure, StoredIn
  <1>2. CASE \/ CommitTurn(t) \/ CommitUnacknowledged(t) \/ CommitCompaction(t)
             \/ CompactionUnacknowledged(t)
    BY <1>2 DEF CommitTurn, CommitUnacknowledged, CommitCompaction, CompactionUnacknowledged
  <1>3. CASE Begin(t) \/ Register(t) \/ GuardInput(t) \/ Load(t) \/ Compact(t)
    BY <1>3 DEF Begin, Register, GuardInput, Load, Compact
  <1>4. CASE SummaryFails(t) \/ Reload(t) \/ Answer(t) \/ ProviderFails(t)
    BY <1>4 DEF SummaryFails, Reload, Answer, ProviderFails
  <1>5. CASE GuardOutput(t) \/ CommitConflict(t) \/ Complete(t) \/ StoreFails(t)
    BY <1>5 DEF GuardOutput, CommitConflict, Complete, StoreFails
  <1>6. CASE ObserverFails(t) \/ ParentAbort(t) \/ Abandon(t)
    BY <1>6 DEF ObserverFails, ParentAbort, Abandon
  <1>7. QED  BY <1>1, <1>2, <1>3, <1>4, <1>5, <1>6 DEF TurnStep, TurnRuns, TurnFaults

(* A step is that of one turn, the others resting, or it moves none.       *)
TurnTakesStep(t) ==
    /\ Progresses(t)
    /\ \A u \in Turns \ {t} : Rests(u)
    /\ sessions' = sessions \/ StoresTurn(t) \/ StoresCompaction(t)
    /\ failedTurns' = failedTurns \/ RecordsFailure(t)

TurnsRest ==
    /\ \A u \in Turns : Rests(u)
    /\ sessions' = sessions \/ \E s \in Sessions : StoresReset(s)
    /\ failedTurns' = failedTurns

(* Every step is the step of one turn or moves none.                       *)
LEMMA EveryStepProgresses ==
    ASSUME TypeOK, [Next]_vars
    PROVE  TurnsRest \/ \E t \in Turns : TurnTakesStep(t)
  <1>1. CASE UNCHANGED vars
    BY <1>1, UntouchedRests DEF vars, TurnsRest
  <1>2. ASSUME NEW t \in Turns, Begin(t) \/ TurnStep(t) \/ Abandon(t)
        PROVE  TurnTakesStep(t)
    BY <1>2, TurnProgresses, OthersRest, TurnWrites, TurnRecords DEF TurnTakesStep
  <1>3. ASSUME NEW t \in Turns, ParentAbort(t)
        PROVE  TurnsRest
    BY <1>3, SignalsRest DEF ParentAbort, TurnsRest
  <1>4. ASSUME NEW s \in Sessions, AbortSession(s)
        PROVE  TurnsRest
    BY <1>4, SignalsRest DEF AbortSession, TurnsRest
  <1>5. ASSUME NEW r \in Resets, ResetBegin(r)
        PROVE  TurnsRest
    <2>1. reset[r].session \in Sessions
      BY DEF TypeOK, ResetState
    <2>2. QED  BY <1>5, <2>1, SignalsRest DEF ResetBegin, TurnsRest
  <1>6. ASSUME NEW r \in Resets, ResetStep(r)
        PROVE  TurnsRest
    <2>1. UNCHANGED <<turn, failedTurns>>
      BY <1>6 DEF ResetStep, ResetRuns, ResetRead, ResetWrite, ResetFails, ResetConfirm
    <2>2. sessions' = sessions \/ StoresReset(reset[r].session)
      BY <1>6 DEF ResetStep, ResetRuns, ResetRead, ResetWrite, ResetFails, ResetConfirm,
                  StoresReset, ResetAccepted
    <2>3. reset[r].session \in Sessions
      BY DEF TypeOK, ResetState
    <2>4. QED  BY <2>1, <2>2, <2>3, UntouchedRests DEF TurnsRest
  <1>7. QED  BY <1>1, <1>2, <1>3, <1>4, <1>5, <1>6 DEF Next

-----------------------------------------------------------------------------
(* What each write makes of the session                                    *)

(* A commit adds the turn, its two messages and its binding.               *)
LEMMA StoredTurnSession ==
    ASSUME TypeOK, NEW t \in Turns, StoresTurn(t)
    PROVE  LET s == turn[t].session
               old == sessions[s]
               new == sessions'[s]
           IN  /\ s \in Sessions
               /\ \A x \in Sessions : x # s => sessions'[x] = sessions[x]
               /\ new.status = "ACTIVE"
               /\ new.owner = turn[t].user
               /\ new.completed = old.completed \cup {t}
               /\ new.messages = old.messages \cup TurnMessages(t, Cardinality(old.messages))
               /\ new.compacted = old.compacted
               /\ new.summary = old.summary
               /\ new.binding = IF turn[t].conversation = NoConversation
                                  THEN old.binding ELSE turn[t].conversation
  <1> DEFINE s == turn[t].session
             old == sessions[s]
             next == MergedContext(turn[t].loaded.context, t)
             written == Committed(old, t, turn[t].user, next, turn[t].conversation)
  <1>1. s \in Sessions /\ old \in StoredSession
    BY DEF TypeOK, TurnState
  <1>2. sessions' = [sessions EXCEPT ![s] = written]
    BY DEF StoresTurn, StoreTurn
  <1>3. sessions'[s] = written /\ \A x \in Sessions : x # s => sessions'[x] = sessions[x]
    BY <1>1, <1>2 DEF TypeOK
  <1>4. /\ written.status = "ACTIVE"
        /\ written.owner = turn[t].user
        /\ written.completed = old.completed \cup {t}
        /\ written.messages = old.messages \cup TurnMessages(t, Cardinality(old.messages))
        /\ written.compacted = old.compacted
        /\ written.summary = old.summary
        /\ written.binding = IF turn[t].conversation = NoConversation
                               THEN old.binding ELSE turn[t].conversation
    BY <1>1 DEF Committed, StoredSession
  <1>5. QED  BY <1>1, <1>3, <1>4

(* A compaction changes the summary and the compacted messages only.       *)
LEMMA StoredCompactionSession ==
    ASSUME TypeOK, NEW t \in Turns, StoresCompaction(t)
    PROVE  LET s == turn[t].session
               old == sessions[s]
               new == sessions'[s]
           IN  /\ s \in Sessions
               /\ \A x \in Sessions : x # s => sessions'[x] = sessions[x]
               /\ new.status = old.status
               /\ new.owner = old.owner
               /\ new.completed = old.completed
               /\ new.messages = old.messages
               /\ new.compacted = old.compacted \cup turn[t].candidates
               /\ new.binding = old.binding
               /\ turn[t].candidates \subseteq old.messages \ old.compacted
  <1> DEFINE s == turn[t].session
             old == sessions[s]
             written == Compacted(old, Summary(t), turn[t].candidates)
  <1>1. s \in Sessions /\ old \in StoredSession
    BY DEF TypeOK, TurnState
  <1>2. sessions'[s] = written /\ \A x \in Sessions : x # s => sessions'[x] = sessions[x]
    BY <1>1 DEF StoresCompaction, TypeOK
  <1>3. /\ written.status = old.status
        /\ written.owner = old.owner
        /\ written.completed = old.completed
        /\ written.messages = old.messages
        /\ written.compacted = old.compacted \cup turn[t].candidates
        /\ written.binding = old.binding
    BY <1>1 DEF Compacted, StoredSession
  <1>4. turn[t].candidates \subseteq old.messages \ old.compacted
    BY DEF StoresCompaction, CompactionAccepted
  <1>5. QED  BY <1>1, <1>2, <1>3, <1>4

(* A reset forgets the messages and the binding, not the owner and not     *)
(* which turns completed.                                                  *)
LEMMA StoredResetSession ==
    ASSUME TypeOK, NEW s \in Sessions, StoresReset(s)
    PROVE  LET old == sessions[s]
               new == sessions'[s]
           IN  /\ \A x \in Sessions : x # s => sessions'[x] = sessions[x]
               /\ Exists(old)
               /\ new.status = "RESET"
               /\ new.owner = old.owner
               /\ new.completed = old.completed
               /\ new.messages = {}
               /\ new.compacted = {}
               /\ new.summary = {}
               /\ new.binding = NoConversation
  <1> DEFINE old == sessions[s]
             written == WasReset(old)
  <1>1. old \in StoredSession
    BY DEF TypeOK
  <1>2. sessions'[s] = written /\ \A x \in Sessions : x # s => sessions'[x] = sessions[x]
    BY DEF StoresReset, TypeOK
  <1>3. /\ written.status = "RESET"
        /\ written.owner = old.owner
        /\ written.completed = old.completed
        /\ written.messages = {}
        /\ written.compacted = {}
        /\ written.summary = {}
        /\ written.binding = NoConversation
    BY <1>1 DEF WasReset, StoredSession
  <1>4. QED  BY <1>2, <1>3 DEF StoresReset

-----------------------------------------------------------------------------
(* The history of a session                                                *)

(* An existing session is owned; the turns it records as completed are     *)
(* turns of this session; its messages are theirs, and numbered.           *)
HistorySound(s, stored) ==
    /\ Exists(stored) => stored.owner # NoUser
    /\ \A t \in stored.completed : turn[t].session = s
    /\ \A m \in stored.messages :
          m.turn \in stored.completed /\ m.at <= Cardinality(stored.messages)

HistoryInv == \A s \in Sessions : HistorySound(s, sessions[s])

(* Every step keeps the histories sound.                                   *)
LEMMA HistoryStep ==
    ASSUME LifecycleInv, HistoryInv, [Next]_vars
    PROVE  HistoryInv'
  <1> SUFFICES ASSUME NEW s \in Sessions
               PROVE  HistorySound(s, sessions[s])'
    BY DEF HistoryInv
  <1> DEFINE old == sessions[s]
             new == sessions'[s]
  <1>1. /\ Exists(old) => old.owner # NoUser
        /\ \A t \in old.completed : turn[t].session = s
        /\ \A m \in old.messages :
              m.turn \in old.completed /\ m.at <= Cardinality(old.messages)
    BY DEF HistoryInv, HistorySound
  <1>2. TypeOK /\ \A t \in Turns : turn'[t].session = turn[t].session
    BY EveryStepMoves DEF Moves, LifecycleInv
  <1>3. old \in StoredSession /\ IsFiniteSet(old.messages)
    BY <1>2 DEF TypeOK, WellFormed
  <1>4. old.completed \subseteq Turns /\ old.messages \in SUBSET Message
    BY <1>3 DEF StoredSession
  <1>5. CASE new = old
    BY <1>1, <1>2, <1>4, <1>5 DEF HistorySound
  <1>6. ASSUME NEW t \in Turns, StoresTurn(t), s = turn[t].session
        PROVE  HistorySound(s, sessions[s])'
    <2>1. /\ new.owner = turn[t].user
          /\ new.completed = old.completed \cup {t}
          /\ new.messages = old.messages \cup TurnMessages(t, Cardinality(old.messages))
      BY <1>2, <1>6, StoredTurnSession
    <2>2. turn[t].user # NoUser
      BY <1>2, NoUserAssumption DEF TypeOK, TurnState
    <2>3. /\ Cardinality(old.messages) \in Nat
          /\ Cardinality(new.messages) = Cardinality(old.messages) + 2
          /\ \A m \in TurnMessages(t, Cardinality(old.messages)) :
                /\ m.turn = t
                /\ m.at \in {Cardinality(old.messages) + 1, Cardinality(old.messages) + 2}
      BY <1>1, <1>3, <1>4, <2>1, AddedMessages
    <2>4. ASSUME NEW m \in new.messages
          PROVE  m.turn \in new.completed /\ m.at <= Cardinality(new.messages)
      <3>1. CASE m \in old.messages
        <4>1. m.at \in Nat
          BY <1>4, <3>1 DEF Message
        <4>2. QED  BY <1>1, <2>1, <2>3, <3>1, <4>1
      <3>2. CASE m \in TurnMessages(t, Cardinality(old.messages))
        BY <2>1, <2>3, <3>2
      <3>3. QED  BY <2>1, <3>1, <3>2
    <2>5. \A u \in new.completed : turn'[u].session = s
      BY <1>1, <1>2, <1>4, <1>6, <2>1
    <2>6. QED  BY <2>1, <2>2, <2>4, <2>5 DEF HistorySound
  <1>7. ASSUME NEW t \in Turns, StoresCompaction(t), s = turn[t].session
        PROVE  HistorySound(s, sessions[s])'
    <2>1. /\ new.status = old.status
          /\ new.owner = old.owner
          /\ new.completed = old.completed
          /\ new.messages = old.messages
      BY <1>2, <1>7, StoredCompactionSession
    <2>2. QED  BY <1>1, <1>2, <1>4, <2>1 DEF HistorySound, Exists
  <1>8. CASE StoresReset(s)
    <2>1. /\ Exists(old)
          /\ new.owner = old.owner
          /\ new.completed = old.completed
          /\ new.messages = {}
      BY <1>2, <1>8, StoredResetSession
    <2>2. QED  BY <1>1, <1>2, <1>4, <2>1 DEF HistorySound
  <1>9. QED
    BY <1>2, <1>5, <1>6, <1>7, <1>8, StoreStep, StoredTurnSession, StoredCompactionSession,
       StoredResetSession

-----------------------------------------------------------------------------
(* What becomes of a turn                                                  *)

(* Where a stored turn, a turn told to be completed and a turn recorded as *)
(* failed are.                                                             *)
OutcomeSound(t) ==
    /\ StoredIn(t) =>
          \/ turn[t].phase \in {"committed", "failing", "completed", "unrecorded"}
          \/ turn[t].phase = "failed" /\ turn[t].error = "DATABASE_ERROR"
    /\ turn[t].phase \in {"committed", "completed"} => StoredIn(t)
    /\ t \in failedTurns => turn[t].phase = "failed" /\ ~StoredIn(t)

OutcomeInv == \A t \in Turns : OutcomeSound(t)

(* A turn becomes stored by its own commit and stays so.                   *)
LEMMA StoredStep ==
    ASSUME LifecycleInv, [Next]_vars, NEW u \in Turns
    PROVE  /\ StoredIn(u) => StoredIn(u)'
           /\ StoredIn(u)' /\ ~StoredIn(u) => StoresTurn(u) /\ Progresses(u)
           /\ StoresTurn(u) => StoredIn(u)'
  <1> DEFINE s == turn[u].session
             old == sessions[s]
             new == sessions'[s]
  <1>1. TypeOK /\ turn'[u].session = s /\ s \in Sessions
    BY EveryStepMoves DEF Moves, LifecycleInv, TypeOK, TurnState
  <1>2. \/ new.completed = old.completed
        \/ \E t \in Turns : StoresTurn(t) /\ new.completed = old.completed \cup {t}
    BY <1>1, StoreStep, StoredTurnSession, StoredCompactionSession, StoredResetSession
  <1>3. StoredIn(u) => StoredIn(u)'
    BY <1>1, <1>2 DEF StoredIn
  <1>4. StoresTurn(u) => StoredIn(u)'
    BY <1>1, StoredTurnSession DEF StoredIn
  <1>5. ASSUME StoredIn(u)', ~StoredIn(u)
        PROVE  StoresTurn(u) /\ Progresses(u)
    <2>1. u \in new.completed /\ u \notin old.completed
      BY <1>1, <1>5 DEF StoredIn
    <2>2. ASSUME NEW t \in Turns, StoresTurn(t)
          PROVE  u = t
      BY <1>1, <2>1, <2>2, StoredTurnSession
    <2>3. ASSUME NEW t \in Turns, StoresCompaction(t)
          PROVE  FALSE
      BY <1>1, <2>1, <2>3, StoredCompactionSession
    <2>4. ASSUME NEW x \in Sessions, StoresReset(x)
          PROVE  FALSE
      BY <1>1, <2>1, <2>4, StoredResetSession
    <2>5. sessions' # sessions
      BY <2>1
    <2>6. ~TurnsRest
      BY <2>4, <2>5 DEF TurnsRest
    <2>7. PICK t \in Turns : TurnTakesStep(t)
      BY <1>1, <2>6, EveryStepProgresses
    <2>8. StoresTurn(t)
      BY <2>3, <2>5, <2>7 DEF TurnTakesStep
    <2>9. QED  BY <2>2, <2>7, <2>8 DEF TurnTakesStep
  <1>6. QED  BY <1>3, <1>4, <1>5

(* Every step keeps the outcomes sound.                                    *)
LEMMA OutcomeStep ==
    ASSUME LifecycleInv, OutcomeInv, [Next]_vars
    PROVE  OutcomeInv'
  <1> SUFFICES ASSUME NEW u \in Turns
               PROVE  OutcomeSound(u)'
    BY DEF OutcomeInv
  <1>1. OutcomeSound(u) /\ TypeOK
    BY DEF OutcomeInv, LifecycleInv
  <1>2. /\ StoredIn(u) => StoredIn(u)'
        /\ StoredIn(u)' /\ ~StoredIn(u) => StoresTurn(u) /\ Progresses(u)
        /\ StoresTurn(u) => StoredIn(u)'
    BY StoredStep
  <1>3. Rests(u) \/ Progresses(u)
    BY <1>1, EveryStepProgresses DEF TurnsRest, TurnTakesStep
  <1>4. \/ failedTurns' = failedTurns
        \/ failedTurns' = failedTurns \cup {u} /\ RecordsFailure(u)
        \/ \E t \in Turns \ {u} : failedTurns' = failedTurns \cup {t}
    BY <1>1, EveryStepProgresses DEF TurnsRest, TurnTakesStep, RecordsFailure
  <1>5. turn'[u].session = turn[u].session
    BY EveryStepMoves DEF Moves, LifecycleInv
  <1>6. RecordsFailure(u) => turn'[u].phase = "failed" /\ ~StoredIn(u)'
    BY <1>5 DEF RecordsFailure, StoredIn
  <1>7. u \in failedTurns => Rests(u)
    BY <1>1, <1>3 DEF OutcomeSound, Progresses, Ended
  <1>8. u \in failedTurns' => turn'[u].phase = "failed" /\ ~StoredIn(u)'
    <2>1. CASE u \in failedTurns
      <3>1. turn[u].phase = "failed" /\ ~StoredIn(u)
        BY <1>1, <2>1 DEF OutcomeSound
      <3>2. ~StoredIn(u)'
        BY <1>2, <3>1 DEF StoresTurn
      <3>3. QED  BY <1>7, <2>1, <3>1, <3>2 DEF Rests
    <2>2. CASE u \notin failedTurns
      BY <1>4, <1>6, <2>2
    <2>3. QED  BY <2>1, <2>2
  <1>9. turn'[u].phase \in {"committed", "completed"} => StoredIn(u)'
    <2>1. CASE Rests(u)
      BY <1>1, <1>2, <2>1 DEF Rests, OutcomeSound
    <2>2. CASE Progresses(u)
      BY <1>1, <1>2, <2>2 DEF Progresses, OutcomeSound
    <2>3. QED  BY <1>3, <2>1, <2>2
  <1>10. StoredIn(u)' =>
            \/ turn'[u].phase \in {"committed", "failing", "completed", "unrecorded"}
            \/ turn'[u].phase = "failed" /\ turn'[u].error = "DATABASE_ERROR"
    <2>1. CASE StoredIn(u)
      <3>1. CASE Rests(u)
        BY <1>1, <2>1, <3>1 DEF Rests, OutcomeSound
      <3>2. CASE Progresses(u)
        BY <1>1, <2>1, <3>2 DEF Progresses, OutcomeSound, Ended
      <3>3. QED  BY <1>3, <3>1, <3>2
    <2>2. CASE ~StoredIn(u)
      BY <1>2, <2>2 DEF Progresses, StoresTurn
    <2>3. QED  BY <2>1, <2>2
  <1>11. QED  BY <1>8, <1>9, <1>10 DEF OutcomeSound

-----------------------------------------------------------------------------
(* Compactions                                                             *)

(* A turn that has committed a compaction is past it, and the messages it  *)
(* took are compacted or gone for good.                                    *)
SpentSound(t) ==
    LET stored == sessions[turn[t].session]
    IN  turn[t].compacted =>
            /\ turn[t].phase \notin BeforeCompaction
            /\ \A m \in turn[t].candidates :
                  /\ m.turn \in stored.completed
                  /\ m \in stored.messages => m \in stored.compacted

SpentInv == \A t \in Turns : SpentSound(t)

(* A turn that is compacted after a step was so before, or the step is its *)
(* compaction; the messages it takes are the same.                         *)
LEMMA CompactedStep ==
    ASSUME TypeOK, SpentInv, [Next]_vars, NEW u \in Turns, turn'[u].compacted
    PROVE  /\ turn'[u].candidates = turn[u].candidates
           /\ turn'[u].phase \notin BeforeCompaction
           /\ turn[u].compacted \/ (TurnTakesStep(u) /\ StoresCompaction(u))
  <1>1. turn[u].compacted => turn[u].phase \notin BeforeCompaction
    BY DEF SpentInv, SpentSound
  <1>2. CASE Rests(u)
    BY <1>1, <1>2 DEF Rests
  <1>3. CASE TurnTakesStep(u)
    <2>1. /\ turn'[u].candidates = turn[u].candidates \/ turn[u].phase = "compacting"
          /\ turn'[u].compacted = turn[u].compacted \/ StoresCompaction(u)
          /\ turn'[u].phase \in BeforeCompaction =>
                turn[u].phase \in BeforeCompaction /\ turn'[u].compacted = turn[u].compacted
      BY <1>3 DEF TurnTakesStep, Progresses
    <2>2. StoresCompaction(u) => turn[u].phase = "summarizing"
      BY DEF StoresCompaction
    <2>3. "compacting" \in BeforeCompaction
      BY DEF BeforeCompaction
    <2>4. QED  BY <1>1, <1>3, <2>1, <2>2, <2>3
  <1>4. QED  BY <1>2, <1>3, EveryStepProgresses DEF TurnsRest, TurnTakesStep

(* Every step keeps the committed compactions sound.                       *)
LEMMA SpentStep ==
    ASSUME LifecycleInv, HistoryInv, OutcomeInv, SpentInv, [Next]_vars
    PROVE  SpentInv'
  <1> SUFFICES ASSUME NEW u \in Turns, turn'[u].compacted
               PROVE  LET stored == sessions'[turn'[u].session]
                      IN  /\ turn'[u].phase \notin BeforeCompaction
                          /\ \A m \in turn'[u].candidates :
                                /\ m.turn \in stored.completed
                                /\ m \in stored.messages => m \in stored.compacted
    BY DEF SpentInv, SpentSound
  <1> DEFINE s == turn[u].session
             old == sessions[s]
             new == sessions'[s]
  <1>1. TypeOK /\ s \in Sessions /\ turn'[u].session = s
    BY EveryStepMoves DEF Moves, LifecycleInv, TypeOK, TurnState
  <1>2. /\ turn'[u].candidates = turn[u].candidates
        /\ turn'[u].phase \notin BeforeCompaction
        /\ turn[u].compacted \/ StoresCompaction(u)
    BY <1>1, CompactedStep
  <1>3. ASSUME NEW m \in turn[u].candidates
        PROVE  m.turn \in new.completed /\ (m \in new.messages => m \in new.compacted)
    <2>1. CASE StoresCompaction(u)
      <3>1. /\ new.completed = old.completed
            /\ new.compacted = old.compacted \cup turn[u].candidates
            /\ m \in old.messages
        BY <1>1, <2>1, StoredCompactionSession
      <3>2. m.turn \in old.completed
        BY <1>1, <3>1 DEF HistoryInv, HistorySound
      <3>3. QED  BY <3>1, <3>2
    <2>2. CASE turn[u].compacted
      <3>1. m.turn \in old.completed /\ (m \in old.messages => m \in old.compacted)
        BY <2>2 DEF SpentInv, SpentSound
      <3>2. CASE new = old
        BY <3>1, <3>2
      <3>3. ASSUME NEW t \in Turns, StoresTurn(t), s = turn[t].session
            PROVE  m.turn \in new.completed /\ (m \in new.messages => m \in new.compacted)
        <4>1. /\ new.completed = old.completed \cup {t}
              /\ new.messages = old.messages \cup TurnMessages(t, Cardinality(old.messages))
              /\ new.compacted = old.compacted
          BY <1>1, <3>3, StoredTurnSession
        <4>2. t \notin old.completed
          BY <3>3 DEF OutcomeInv, OutcomeSound, StoredIn, StoresTurn
        <4>3. Cardinality(old.messages) \in Nat
          BY <1>1, FS_CardinalityType DEF TypeOK, WellFormed
        <4>4. \A k \in TurnMessages(t, Cardinality(old.messages)) : k.turn = t
          BY <4>3, TurnMessagesType
        <4>5. QED  BY <3>1, <4>1, <4>2, <4>4
      <3>4. ASSUME NEW t \in Turns, StoresCompaction(t), s = turn[t].session
            PROVE  m.turn \in new.completed /\ (m \in new.messages => m \in new.compacted)
        <4>1. /\ new.completed = old.completed
              /\ new.messages = old.messages
              /\ new.compacted = old.compacted \cup turn[t].candidates
          BY <1>1, <3>4, StoredCompactionSession
        <4>2. QED  BY <3>1, <4>1
      <3>5. CASE StoresReset(s)
        <4>1. new.completed = old.completed /\ new.messages = {}
          BY <1>1, <3>5, StoredResetSession
        <4>2. QED  BY <3>1, <4>1
      <3>6. QED
        BY <1>1, <3>2, <3>3, <3>4, <3>5, StoreStep, StoredTurnSession,
           StoredCompactionSession, StoredResetSession
    <2>3. QED  BY <1>2, <2>1, <2>2
  <1>4. QED  BY <1>1, <1>2, <1>3

(* Two compactions take different messages.                                *)
LEMMA CompactionsStayApart ==
    ASSUME LifecycleInv, HistoryInv, SpentInv, OneCompactionWins, [Next]_vars
    PROVE  OneCompactionWins'
  <1>1. TypeOK
    BY DEF LifecycleInv
  <1>2. ASSUME NEW t \in Turns, NEW u \in Turns, t # u,
               StoresCompaction(t), turn[u].compacted
        PROVE  turn[t].candidates \cap turn[u].candidates = {}
    <2> SUFFICES ASSUME NEW m \in turn[t].candidates, m \in turn[u].candidates
                 PROVE  FALSE
      OBVIOUS
    <2>1. /\ turn[t].session \in Sessions
          /\ turn[u].session \in Sessions
      BY <1>1 DEF TypeOK, TurnState
    <2>2. /\ m \in sessions[turn[t].session].messages
          /\ m \notin sessions[turn[t].session].compacted
      BY <1>1, <1>2, StoredCompactionSession
    <2>3. /\ m.turn \in sessions[turn[u].session].completed
          /\ m \in sessions[turn[u].session].messages =>
                m \in sessions[turn[u].session].compacted
      BY <1>2 DEF SpentInv, SpentSound
    <2>4. m.turn \in sessions[turn[t].session].completed
      BY <2>1, <2>2 DEF HistoryInv, HistorySound
    <2>5. turn[t].session = turn[u].session
      BY <2>1, <2>3, <2>4 DEF HistoryInv, HistorySound
    <2>6. QED  BY <2>2, <2>3, <2>5
  <1>3. ASSUME NEW t \in Turns, NEW u \in Turns, t # u,
               turn'[t].compacted, turn'[u].compacted
        PROVE  turn'[t].candidates \cap turn'[u].candidates = {}
    <2>1. /\ turn'[t].candidates = turn[t].candidates
          /\ turn'[u].candidates = turn[u].candidates
          /\ turn[t].compacted \/ (TurnTakesStep(t) /\ StoresCompaction(t))
          /\ turn[u].compacted \/ (TurnTakesStep(u) /\ StoresCompaction(u))
      BY <1>1, <1>3, CompactedStep
    <2>2. TurnTakesStep(t) => turn'[u].compacted = turn[u].compacted
      BY <1>3 DEF TurnTakesStep, Rests
    <2>3. turn[t].compacted \/ turn[u].compacted
      BY <1>3, <2>1, <2>2
    <2>4. CASE turn[t].compacted /\ turn[u].compacted
      BY <1>3, <2>1, <2>4 DEF OneCompactionWins
    <2>5. CASE turn[t].compacted /\ StoresCompaction(u)
      BY <1>2, <1>3, <2>1, <2>5
    <2>6. CASE StoresCompaction(t) /\ turn[u].compacted
      BY <1>2, <1>3, <2>1, <2>6
    <2>7. QED  BY <2>1, <2>3, <2>4, <2>5, <2>6
  <1>4. QED  BY <1>3 DEF OneCompactionWins

(* The messages newer than a position.                                     *)
Newer(S, at) == {k \in S : k.at > at}

(* A larger set of messages has at least as many newer than an earlier     *)
(* position.                                                               *)
LEMMA NewerGrows ==
    ASSUME NEW T \in SUBSET Message, IsFiniteSet(T), NEW S \in SUBSET T,
           NEW a \in Nat, NEW b \in Nat, a <= b
    PROVE  /\ Cardinality(Newer(S, b)) \in Nat
           /\ Cardinality(Newer(T, a)) \in Nat
           /\ Cardinality(Newer(S, b)) <= Cardinality(Newer(T, a))
  <1>1. Newer(S, b) \subseteq Newer(T, a)
    BY DEF Newer, Message
  <1>2. IsFiniteSet(Newer(T, a))
    BY FS_Subset DEF Newer
  <1>3. IsFiniteSet(Newer(S, b)) /\ Cardinality(Newer(S, b)) <= Cardinality(Newer(T, a))
    BY <1>1, <1>2, FS_Subset
  <1>4. QED  BY <1>2, <1>3, FS_CardinalityType

(* The compacted messages of a session are its oldest, and enough are left. *)
RecentKept(stored) ==
    \A m \in stored.compacted :
        /\ Cardinality(Newer(stored.messages, m.at)) >= RecentMessages
        /\ \A k \in stored.messages \ stored.compacted : m.at < k.at

(* CompactionKeepsRecent says so of every session.                         *)
LEMMA RecentKeptEverywhere ==
    CompactionKeepsRecent <=> \A s \in Sessions : RecentKept(sessions[s])
  BY DEF CompactionKeepsRecent, RecentKept, Newer

(* Commits only add newer messages and compactions take the oldest.        *)
LEMMA RecentStep ==
    ASSUME LifecycleInv, HistoryInv, CompactionKeepsRecent, [Next]_vars
    PROVE  CompactionKeepsRecent'
  <1> SUFFICES ASSUME NEW s \in Sessions
               PROVE  RecentKept(sessions'[s])
    BY DEF CompactionKeepsRecent, RecentKept, Newer
  <1> DEFINE old == sessions[s]
             new == sessions'[s]
  <1>1. TypeOK /\ RecentKept(old)
    BY RecentKeptEverywhere DEF LifecycleInv
  <1>2. /\ IsFiniteSet(old.messages)
        /\ old.messages \in SUBSET Message
        /\ old.compacted \subseteq old.messages
        /\ \A m \in old.messages : m.at \in Nat /\ m.at <= Cardinality(old.messages)
    BY <1>1 DEF TypeOK, WellFormed, StoredSession, Message, HistoryInv, HistorySound
  <1>3. CASE new = old
    BY <1>1, <1>3
  <1>4. ASSUME NEW t \in Turns, StoresTurn(t), s = turn[t].session
        PROVE  RecentKept(new)
    <2> DEFINE n == Cardinality(old.messages)
               added == TurnMessages(t, n)
    <2>1. new.messages = old.messages \cup added /\ new.compacted = old.compacted
      BY <1>1, <1>4, StoredTurnSession
    <2>2. /\ n \in Nat
          /\ IsFiniteSet(old.messages \cup added)
          /\ \A k \in added : k.at \in {n + 1, n + 2}
      BY <1>2, AddedMessages
    <2>3. added \subseteq Message
      BY <2>2, TurnMessagesType
    <2>4. ASSUME NEW m \in new.compacted
          PROVE  Cardinality(Newer(new.messages, m.at)) >= RecentMessages
      <3>1. m.at \in Nat
        BY <1>2, <2>1
      <3>2. Cardinality(Newer(old.messages, m.at)) >= RecentMessages
        BY <1>1, <2>1 DEF RecentKept
      <3>3. /\ Cardinality(Newer(old.messages, m.at)) \in Nat
            /\ Cardinality(Newer(new.messages, m.at)) \in Nat
            /\ Cardinality(Newer(old.messages, m.at)) <= Cardinality(Newer(new.messages, m.at))
        BY <1>2, <2>1, <2>2, <2>3, <3>1, NewerGrows
      <3>4. QED  BY <3>2, <3>3, RecentMessagesAssumption
    <2>5. ASSUME NEW m \in new.compacted, NEW k \in new.messages \ new.compacted
          PROVE  m.at < k.at
      <3>1. m \in old.messages /\ m.at \in Nat /\ m.at <= n
        BY <1>2, <2>1
      <3>2. CASE k \in old.messages
        BY <1>1, <2>1, <3>2 DEF RecentKept
      <3>3. CASE k \in added
        BY <2>2, <3>1, <3>3
      <3>4. QED  BY <2>1, <3>2, <3>3
    <2>6. QED  BY <2>4, <2>5 DEF RecentKept
  <1>5. ASSUME NEW t \in Turns, StoresCompaction(t), s = turn[t].session
        PROVE  RecentKept(new)
    <2> DEFINE left == old.messages \ old.compacted
               taken == turn[t].candidates
    <2>1. new.messages = old.messages /\ new.compacted = old.compacted \cup taken
      BY <1>1, <1>5, StoredCompactionSession
    <2>2. taken = {m \in left : Cardinality(Newer(left, m.at)) >= RecentMessages}
      <3>1. taken = Candidates(AggregateOf(old))
        BY <1>5, StoredCompactionIsCurrent DEF LifecycleInv, CompactionInv
      <3>2. AggregateOf(old).messages = left
        BY DEF AggregateOf
      <3>3. QED  BY <3>1, <3>2 DEF Candidates, Newer
    <2>3. ASSUME NEW m \in taken
          PROVE  Cardinality(Newer(old.messages, m.at)) >= RecentMessages
      <3>1. m \in left /\ m.at \in Nat /\ Cardinality(Newer(left, m.at)) >= RecentMessages
        BY <1>2, <2>2
      <3>2. /\ Cardinality(Newer(left, m.at)) \in Nat
            /\ Cardinality(Newer(old.messages, m.at)) \in Nat
            /\ Cardinality(Newer(left, m.at)) <= Cardinality(Newer(old.messages, m.at))
        BY <1>2, <3>1, NewerGrows
      <3>3. QED  BY <3>1, <3>2, RecentMessagesAssumption
    <2>4. ASSUME NEW m \in taken, NEW k \in left \ taken
          PROVE  m.at < k.at
      <3>1. m \in left /\ m.at \in Nat /\ k.at \in Nat
        BY <1>2, <2>2
      <3>2. IsFiniteSet(left) /\ left \in SUBSET Message
        BY <1>2, FS_Subset
      <3>3. /\ Cardinality(Newer(left, m.at)) >= RecentMessages
            /\ ~(Cardinality(Newer(left, k.at)) >= RecentMessages)
        BY <2>2
      <3>4. SUFFICES ASSUME k.at <= m.at PROVE FALSE
        BY <3>1
      <3>5. /\ Cardinality(Newer(left, m.at)) \in Nat
            /\ Cardinality(Newer(left, k.at)) \in Nat
            /\ Cardinality(Newer(left, m.at)) <= Cardinality(Newer(left, k.at))
        BY <3>1, <3>2, <3>4, NewerGrows
      <3>6. QED  BY <3>3, <3>5, RecentMessagesAssumption
    <2>5. ASSUME NEW m \in new.compacted
          PROVE  /\ Cardinality(Newer(new.messages, m.at)) >= RecentMessages
                 /\ \A k \in new.messages \ new.compacted : m.at < k.at
      <3>1. CASE m \in old.compacted
        BY <1>1, <2>1, <3>1 DEF RecentKept
      <3>2. CASE m \in taken
        BY <2>1, <2>3, <2>4, <3>2
      <3>3. QED  BY <2>1, <3>1, <3>2
    <2>6. QED  BY <2>5 DEF RecentKept
  <1>6. CASE StoresReset(s)
    <2>1. new.compacted = {}
      BY <1>1, <1>6, StoredResetSession
    <2>2. QED  BY <2>1 DEF RecentKept
  <1>7. QED
    BY <1>1, <1>3, <1>4, <1>5, <1>6, StoreStep, StoredTurnSession, StoredCompactionSession,
       StoredResetSession

-----------------------------------------------------------------------------
(* The answer of a turn that is bound to a conversation is of this one.    *)
AnswersInv ==
    \A t \in Turns : turn[t].phase \in {"answered", "committing"} =>
        turn[t].loaded.binding \in {NoConversation, turn[t].conversation}

(* Every step keeps the answers bound.                                     *)
LEMMA AnswersStep ==
    ASSUME TypeOK, AnswersInv, [Next]_vars
    PROVE  AnswersInv'
  <1> SUFFICES ASSUME NEW u \in Turns, turn'[u].phase \in {"answered", "committing"}
               PROVE  turn'[u].loaded.binding \in {NoConversation, turn'[u].conversation}
    BY DEF AnswersInv
  <1>1. CASE Rests(u)
    BY <1>1 DEF Rests, AnswersInv
  <1>2. CASE Progresses(u)
    BY <1>2 DEF Progresses, AnswersInv
  <1>3. QED  BY <1>1, <1>2, EveryStepProgresses DEF TurnsRest, TurnTakesStep

-----------------------------------------------------------------------------
(* All of it                                                               *)

TurnsInv ==
    /\ LifecycleInv
    /\ HistoryInv
    /\ OutcomeInv
    /\ SpentInv
    /\ OneCompactionWins
    /\ CompactionKeepsRecent
    /\ AnswersInv

(* The invariant holds initially.                                          *)
LEMMA TurnsInit == Init => TurnsInv
  <1> SUFFICES ASSUME Init PROVE TurnsInv
    OBVIOUS
  <1>1. LifecycleInv
    BY LifecycleInit
  <1>2. \A s \in Sessions : sessions[s] = NoSession
    BY DEF Init
  <1>3. \A t \in Turns : turn[t].phase = "idle" /\ ~turn[t].compacted
    <2>1. ASSUME NEW t \in Turns
          PROVE  turn[t].phase = "idle" /\ ~turn[t].compacted
      BY DEF Init
    <2>2. QED  BY <2>1
  <1>4. /\ ~Exists(NoSession)
        /\ NoSession.messages = {}
        /\ NoSession.compacted = {}
        /\ NoSession.completed = {}
    BY DEF Exists, NoSession
  <1>5. HistoryInv /\ CompactionKeepsRecent
    BY <1>2, <1>4 DEF HistoryInv, HistorySound, CompactionKeepsRecent
  <1>6. \A t \in Turns : ~StoredIn(t)
    BY <1>1, <1>2, <1>4 DEF StoredIn, LifecycleInv, TypeOK, TurnState
  <1>7. OutcomeInv
    BY <1>3, <1>6 DEF Init, OutcomeInv, OutcomeSound
  <1>8. SpentInv /\ OneCompactionWins /\ AnswersInv
    BY <1>3 DEF SpentInv, SpentSound, OneCompactionWins, AnswersInv
  <1>9. QED  BY <1>1, <1>5, <1>7, <1>8 DEF TurnsInv

(* The invariant holds in every run.                                       *)
LEMMA TurnsInvariant == Spec => []TurnsInv
  <1>1. TurnsInv /\ [Next]_vars => TurnsInv'
    <2> SUFFICES ASSUME TurnsInv, [Next]_vars PROVE TurnsInv'
      OBVIOUS
    <2>1. /\ LifecycleInv /\ TypeOK /\ HistoryInv /\ OutcomeInv /\ SpentInv
          /\ OneCompactionWins /\ CompactionKeepsRecent /\ AnswersInv
      BY DEF TurnsInv, LifecycleInv
    <2>2. LifecycleInv' /\ HistoryInv' /\ OutcomeInv' /\ SpentInv'
      BY <2>1, LifecycleStep, HistoryStep, OutcomeStep, SpentStep
    <2>3. OneCompactionWins' /\ CompactionKeepsRecent' /\ AnswersInv'
      BY <2>1, CompactionsStayApart, RecentStep, AnswersStep
    <2>4. QED  BY <2>2, <2>3 DEF TurnsInv
  <1>2. QED  BY <1>1, TurnsInit, PTL DEF Spec

(* No message is ever summarised by two compactions, whichever turns       *)
(* compact a session concurrently and whatever is reset meanwhile          *)
(* (commitCompaction refuses ids that are compacted already).              *)
THEOREM CompactionsAreDisjoint == Spec => []OneCompactionWins
  BY TurnsInvariant, PTL DEF TurnsInv

(* Compaction always takes the oldest messages and leaves the newest       *)
(* RecentMessages, whoever commits meanwhile (selectCompactionCandidates). *)
THEOREM RecentMessagesStay == Spec => []CompactionKeepsRecent
  BY TurnsInvariant, PTL DEF TurnsInv

(* What the caller is told always agrees with the store: a completed turn  *)
(* is stored, a failed one left no trace unless the store itself failed,   *)
(* and no turn is recorded as both (commitTurn, recordFailedTurn).         *)
THEOREM OutcomesAreTrue == Spec => []OutcomeMatchesStore
  <1>1. TurnsInv => OutcomeMatchesStore
    BY DEF TurnsInv, OutcomeInv, OutcomeSound, OutcomeMatchesStore, StoredIn
  <1>2. QED  BY <1>1, TurnsInvariant, PTL

-----------------------------------------------------------------------------
(* Aborting                                                                *)

(* A turn that was aborted before its commit is on its way to its failure. *)
Doomed(t) ==
    /\ turn[t].signal
    /\ turn[t].phase \in BeforeCommit \cup {"failing", "failed", "unrecorded"}
    /\ ~StoredIn(t)

(* A doomed turn stays doomed.                                             *)
LEMMA DoomedStays ==
    ASSUME TurnsInv, [Next]_vars, NEW t \in Turns, Doomed(t)
    PROVE  Doomed(t)'
  <1>1. LifecycleInv /\ TypeOK
    BY DEF TurnsInv, LifecycleInv
  <1>2. ~StoredIn(t)'
    BY <1>1, StoredStep DEF Doomed, StoresTurn, BeforeCommit
  <1>3. CASE Rests(t)
    BY <1>2, <1>3 DEF Rests, Doomed
  <1>4. CASE Progresses(t)
    BY <1>2, <1>4 DEF Progresses, Doomed, BeforeCommit, Registered, Ended
  <1>5. QED  BY <1>1, <1>3, <1>4, EveryStepProgresses DEF TurnsRest, TurnTakesStep

(* A turn aborted before it calls commitTurn is never stored, at whichever *)
(* await the abort found it (the throwIfAborted after each await).         *)
THEOREM AbortPrevails == Spec => AbortWins
  <1>1. SUFFICES ASSUME NEW t \in Turns
                 PROVE  Spec => [](turn[t].signal /\ turn[t].phase \in BeforeCommit
                                   => [](t \notin sessions[turn[t].session].completed))
    BY DEF AbortWins
  <1>2. TurnsInv /\ turn[t].signal /\ turn[t].phase \in BeforeCommit => Doomed(t)
    BY DEF TurnsInv, OutcomeInv, OutcomeSound, Doomed, BeforeCommit
  <1>3. TurnsInv /\ [Next]_vars /\ Doomed(t) => Doomed(t)'
    BY DoomedStays
  <1>4. Doomed(t) => t \notin sessions[turn[t].session].completed
    BY DEF Doomed, StoredIn
  <1>5. QED  BY <1>2, <1>3, <1>4, TurnsInvariant, PTL DEF Spec

-----------------------------------------------------------------------------
(* The ledger                                                              *)

(* The ledger, the readings and the homes the store stands for.            *)
Entries  == [s \in Sessions |-> Entry(AggregateOf(sessions[s]))]
Readings == [t \in Turns |-> IF turn[t].phase \in HoldsSnapshot
                               THEN Entry(turn[t].loaded) ELSE NoUser]
Homes    == [t \in Turns |-> turn[t].session]

(* The actions of the ledger, seen through the instance.                   *)
LEMMA LedgerNames ==
    /\ Ledger!Init <=>
          /\ Entries = [s \in Sessions |-> [owner |-> NoUser, turns |-> {},
                                            conversation |-> NoConversation]]
          /\ Readings = [t \in Turns |-> NoUser]
          /\ Homes \in [Turns -> Sessions]
    /\ \A t \in Turns :
          /\ Ledger!Read(t) <=>
                /\ Readings' = [Readings EXCEPT ![t] = Entries[Homes[t]]]
                /\ Entries' = Entries /\ Homes' = Homes
          /\ Ledger!Leave(t) <=>
                /\ Readings' = [Readings EXCEPT ![t] = NoUser]
                /\ Entries' = Entries /\ Homes' = Homes
          /\ Ledger!Append(t) <=>
                /\ Readings[t] = Entries[Homes[t]]
                /\ \E user \in Users, conversation \in Conversations \cup {NoConversation} :
                      /\ Readings[t].owner \in {NoUser, user}
                      /\ Readings[t].conversation \in {NoConversation, conversation}
                      /\ Entries' = [Entries EXCEPT ![Homes[t]] =
                                       [owner        |-> user,
                                        turns        |-> Readings[t].turns \cup {t},
                                        conversation |-> conversation]]
                /\ Readings' = [Readings EXCEPT ![t] = NoUser]
                /\ Homes' = Homes
    /\ \A s \in Sessions :
          Ledger!Clear(s) <=>
                /\ Entries[s].owner # NoUser
                /\ Entries' = [Entries EXCEPT ![s].turns = {},
                                              ![s].conversation = NoConversation]
                /\ Readings' = Readings /\ Homes' = Homes
    /\ UNCHANGED Ledger!ledgerVars <=>
          Entries' = Entries /\ Readings' = Readings /\ Homes' = Homes
  <1>1. Ledger!Init <=>
          /\ Entries = [s \in Sessions |-> [owner |-> NoUser, turns |-> {},
                                            conversation |-> NoConversation]]
          /\ Readings = [t \in Turns |-> NoUser]
          /\ Homes \in [Turns -> Sessions]
    BY DEF Ledger!Init, Ledger!NoEntry, Entries, Readings, Homes
  <1>2. ASSUME NEW t \in Turns
        PROVE  Ledger!Read(t) <=>
                /\ Readings' = [Readings EXCEPT ![t] = Entries[Homes[t]]]
                /\ Entries' = Entries /\ Homes' = Homes
    BY DEF Ledger!Read, Entries, Readings, Homes
  <1>3. ASSUME NEW t \in Turns
        PROVE  Ledger!Leave(t) <=>
                /\ Readings' = [Readings EXCEPT ![t] = NoUser]
                /\ Entries' = Entries /\ Homes' = Homes
    BY DEF Ledger!Leave, Entries, Readings, Homes
  <1>4. ASSUME NEW t \in Turns
        PROVE  Ledger!Append(t) <=>
                /\ Readings[t] = Entries[Homes[t]]
                /\ \E user \in Users, conversation \in Conversations \cup {NoConversation} :
                      /\ Readings[t].owner \in {NoUser, user}
                      /\ Readings[t].conversation \in {NoConversation, conversation}
                      /\ Entries' = [Entries EXCEPT ![Homes[t]] =
                                       [owner        |-> user,
                                        turns        |-> Readings[t].turns \cup {t},
                                        conversation |-> conversation]]
                /\ Readings' = [Readings EXCEPT ![t] = NoUser]
                /\ Homes' = Homes
    BY DEF Ledger!Append, Entries, Readings, Homes
  <1>5. ASSUME NEW s \in Sessions
        PROVE  Ledger!Clear(s) <=>
                /\ Entries[s].owner # NoUser
                /\ Entries' = [Entries EXCEPT ![s].turns = {},
                                              ![s].conversation = NoConversation]
                /\ Readings' = Readings /\ Homes' = Homes
    BY DEF Ledger!Clear, Entries, Readings, Homes
  <1>6. UNCHANGED Ledger!ledgerVars <=>
          Entries' = Entries /\ Readings' = Readings /\ Homes' = Homes
    BY DEF Ledger!ledgerVars, Entries, Readings, Homes
  <1>7. QED  BY <1>1, <1>2, <1>3, <1>4, <1>5, <1>6

(* The entry of a session: its owner, the turns of its messages, whether   *)
(* summarised or not, and its binding.                                     *)
StoredEntry(stored) ==
    [owner        |-> stored.owner,
     turns        |-> {m.turn : m \in stored.messages},
     conversation |-> stored.binding]

(* The entry of what a turn loads is that of the stored session.           *)
LEMMA EntryOfStored ==
    ASSUME NEW stored, stored.summary = stored.compacted,
           stored.compacted \subseteq stored.messages
    PROVE  Entry(AggregateOf(stored)) = StoredEntry(stored)
  <1>1. AggregateOf(stored).summary \cup AggregateOf(stored).messages = stored.messages
    BY DEF AggregateOf
  <1>2. /\ AggregateOf(stored).owner = stored.owner
        /\ AggregateOf(stored).binding = stored.binding
    BY DEF AggregateOf
  <1>3. QED  BY <1>1, <1>2 DEF Entry, StoredEntry

(* The ledger holds the entries of the stored sessions, before and after a *)
(* step.                                                                   *)
LEMMA LedgerEntries ==
    ASSUME NEW s \in Sessions
    PROVE  /\ TurnsInv  => Entries[s] = StoredEntry(sessions[s])
           /\ TurnsInv' => Entries'[s] = StoredEntry(sessions'[s])
  <1>1. ASSUME TurnsInv
        PROVE  Entries[s] = StoredEntry(sessions[s])
    <2>1. /\ sessions[s].summary = sessions[s].compacted
          /\ sessions[s].compacted \subseteq sessions[s].messages
      BY <1>1 DEF TurnsInv, LifecycleInv, SummaryCoversCompacted, TypeOK, WellFormed
    <2>2. QED  BY <2>1, EntryOfStored DEF Entries
  <1>2. ASSUME TurnsInv'
        PROVE  Entries'[s] = StoredEntry(sessions'[s])
    <2>1. /\ sessions'[s].summary = sessions'[s].compacted
          /\ sessions'[s].compacted \subseteq sessions'[s].messages
      BY <1>2 DEF TurnsInv, LifecycleInv, SummaryCoversCompacted, TypeOK, WellFormed
    <2>2. QED  BY <2>1, EntryOfStored DEF Entries
  <1>3. QED  BY <1>1, <1>2

(* A turn that rests keeps its reading.                                    *)
LEMMA ReadingRests ==
    ASSUME NEW u \in Turns, Rests(u)
    PROVE  Readings'[u] = Readings[u]
  BY DEF Readings, Rests

(* No turn changes its session.                                            *)
LEMMA HomesStay ==
    ASSUME LifecycleInv, [Next]_vars
    PROVE  Homes' = Homes
  BY EveryStepMoves DEF Moves, Homes, LifecycleInv

(* What the step of a turn may do to its reading.                          *)
LEMMA ReadingStep ==
    ASSUME LifecycleInv, [Next]_vars, NEW t \in Turns, TurnTakesStep(t)
    PROVE  \/ Readings' = Readings
           \/ Readings' = [Readings EXCEPT ![t] = NoUser]
           \/ /\ sessions' = sessions
              /\ Readings' = [Readings EXCEPT ![t] = Entries[Homes[t]]]
  <1>1. /\ Readings \in [Turns -> {Readings[u] : u \in Turns}]
        /\ DOMAIN Readings' = Turns
        /\ Readings' = [u \in Turns |-> Readings'[u]]
    BY DEF Readings
  <1>2. \A u \in Turns \ {t} : Readings'[u] = Readings[u]
    BY ReadingRests DEF TurnTakesStep
  <1>3. \A v : Readings'[t] = v => Readings' = [Readings EXCEPT ![t] = v]
    BY <1>1, <1>2
  <1>4. turn[t].session \in Sessions /\ Homes[t] = turn[t].session
    BY DEF LifecycleInv, TypeOK, TurnState, Homes
  <1>5. CASE turn'[t].phase \notin HoldsSnapshot
    <2>1. Readings'[t] = NoUser
      BY <1>5 DEF Readings
    <2>2. QED  BY <1>3, <2>1
  <1>6. CASE turn'[t].phase \in HoldsSnapshot /\ KeepsSnapshot(t)
    <2>1. Readings'[t] = Readings[t]
      BY <1>6 DEF KeepsSnapshot, Readings
    <2>2. Readings' = [Readings EXCEPT ![t] = Readings[t]]
      BY <1>3, <2>1
    <2>3. [Readings EXCEPT ![t] = Readings[t]] = Readings
      BY <1>1
    <2>4. QED  BY <2>2, <2>3
  <1>7. CASE turn'[t].phase \in HoldsSnapshot /\ TakesSnapshot(t)
    <2>1. /\ sessions' = sessions
          /\ turn'[t].loaded = AggregateOf(sessions[turn[t].session])
      BY <1>7 DEF TakesSnapshot
    <2>2. Readings'[t] = Entries[Homes[t]]
      BY <1>4, <1>7, <2>1 DEF Readings, Entries
    <2>3. QED  BY <1>3, <2>1, <2>2
  <1>8. QED  BY <1>5, <1>6, <1>7, EveryStepMoves DEF Moves, LifecycleInv

(* A commit appends the turn to the entry it has read.                     *)
LEMMA CommitAppends ==
    ASSUME TurnsInv, TurnsInv', [Next]_vars, NEW t \in Turns, TurnTakesStep(t), StoresTurn(t)
    PROVE  Ledger!Append(t)
  <1> DEFINE s == turn[t].session
             old == sessions[s]
             new == sessions'[s]
             conversation == new.binding
  <1>1. /\ LifecycleInv /\ TypeOK /\ SummaryCoversCompacted
        /\ TypeOK' /\ SummaryCoversCompacted'
    BY DEF TurnsInv, LifecycleInv
  <1>2. /\ s \in Sessions
        /\ Homes[t] = s
        /\ turn[t].user \in Users
        /\ new \in StoredSession
    BY <1>1 DEF TypeOK, TurnState, Homes
  <1>3. /\ \A x \in Sessions : x # s => sessions'[x] = sessions[x]
        /\ new.owner = turn[t].user
        /\ new.messages = old.messages \cup TurnMessages(t, Cardinality(old.messages))
        /\ new.binding = IF turn[t].conversation = NoConversation
                           THEN old.binding ELSE turn[t].conversation
    BY <1>1, StoredTurnSession
  <1>4. turn[t].phase = "committing" /\ SameView(turn[t].loaded, old)
    BY <1>1, StoredTurnSeesItsSnapshot DEF StoresTurn
  <1>5. Readings[t] = StoredEntry(old)
    <2>1. Readings[t] = Entry(turn[t].loaded)
      BY <1>4 DEF Readings, HoldsSnapshot
    <2>2. Entry(turn[t].loaded) = StoredEntry(old)
      BY <1>4 DEF SameView, Entry, StoredEntry
    <2>3. QED  BY <2>1, <2>2
  <1>6. Readings[t] = Entries[Homes[t]]
    BY <1>2, <1>5, LedgerEntries
  <1>7. Readings[t].owner \in {NoUser, turn[t].user}
    <2>1. CommitAccepted(old, turn[t].loaded.context.revision, turn[t].user)
      BY DEF StoresTurn, StoreTurn
    <2>2. old.owner = turn[t].user \/ ~Exists(old)
      BY <2>1 DEF CommitAccepted
    <2>3. ~Exists(old) => old.owner = NoUser
      BY <1>1, <1>2 DEF TypeOK, WellFormed, NoSession
    <2>4. QED  BY <1>5, <2>2, <2>3 DEF StoredEntry
  <1>8. /\ Readings[t].conversation \in {NoConversation, conversation}
        /\ conversation \in Conversations \cup {NoConversation}
    <2>1. turn[t].loaded.binding \in {NoConversation, turn[t].conversation}
      BY <1>4 DEF TurnsInv, AnswersInv
    <2>2. turn[t].loaded.binding = old.binding
      BY <1>4 DEF SameView
    <2>3. QED  BY <1>2, <1>3, <1>5, <2>1, <2>2 DEF StoredEntry, StoredSession
  <1>9. StoredEntry(new) = [owner        |-> turn[t].user,
                            turns        |-> Readings[t].turns \cup {t},
                            conversation |-> conversation]
    <2>1. Cardinality(old.messages) \in Nat
      BY <1>1, <1>2, FS_CardinalityType DEF TypeOK, WellFormed
    <2>2. {m.turn : m \in TurnMessages(t, Cardinality(old.messages))} = {t}
      BY <2>1, TurnMessagesType
    <2> DEFINE added == TurnMessages(t, Cardinality(old.messages))
    <2> HIDE DEF added
    <2>3. {m.turn : m \in old.messages \cup added}
             = {m.turn : m \in old.messages} \cup {m.turn : m \in added}
      OBVIOUS
    <2>4. {m.turn : m \in new.messages} = Readings[t].turns \cup {t}
      BY <1>3, <1>5, <2>2, <2>3 DEF StoredEntry, added
    <2>5. QED  BY <1>3, <2>4 DEF StoredEntry
  <1>10. Entries' = [Entries EXCEPT ![Homes[t]] =
                       [owner        |-> turn[t].user,
                        turns        |-> Readings[t].turns \cup {t},
                        conversation |-> conversation]]
    <2>1. Entries'[s] = StoredEntry(new)
      BY <1>2, LedgerEntries
    <2>2. \A x \in Sessions : x # s => Entries'[x] = Entries[x]
      BY <1>3 DEF Entries
    <2>3. /\ Entries = [x \in Sessions |-> Entries[x]]
          /\ Entries' = [x \in Sessions |-> Entries'[x]]
      BY DEF Entries
    <2>4. QED  BY <1>2, <1>9, <2>1, <2>2, <2>3
  <1>11. Readings' = [Readings EXCEPT ![t] = NoUser]
    <2>1. turn'[t].phase \in {"committed", "failing"}
      BY <1>4 DEF TurnTakesStep, Progresses
    <2>2. Readings'[t] = NoUser
      BY <2>1 DEF Readings, HoldsSnapshot
    <2>3. \A u \in Turns \ {t} : Readings'[u] = Readings[u]
      BY ReadingRests DEF TurnTakesStep
    <2>4. /\ Readings = [u \in Turns |-> Readings[u]]
          /\ Readings' = [u \in Turns |-> Readings'[u]]
      BY DEF Readings
    <2>5. QED  BY <2>2, <2>3, <2>4, ZenonT(30)
  <1>12. Homes' = Homes
    BY <1>1, HomesStay
  <1>13. \E user \in Users, k \in Conversations \cup {NoConversation} :
            /\ Readings[t].owner \in {NoUser, user}
            /\ Readings[t].conversation \in {NoConversation, k}
            /\ Entries' = [Entries EXCEPT ![Homes[t]] =
                             [owner        |-> user,
                              turns        |-> Readings[t].turns \cup {t},
                              conversation |-> k]]
    BY <1>2, <1>7, <1>8, <1>10
  <1>14. QED  BY <1>6, <1>11, <1>12, <1>13, LedgerNames

(* A reset clears the entry of its session.                                *)
LEMMA ResetClears ==
    ASSUME TurnsInv, TurnsInv', [Next]_vars, NEW s \in Sessions, TurnsRest, StoresReset(s)
    PROVE  Ledger!Clear(s)
  <1> DEFINE old == sessions[s]
             new == sessions'[s]
  <1>1. /\ LifecycleInv /\ TypeOK /\ SummaryCoversCompacted
        /\ TypeOK' /\ SummaryCoversCompacted'
    BY DEF TurnsInv, LifecycleInv
  <1>2. /\ \A x \in Sessions : x # s => sessions'[x] = sessions[x]
        /\ Exists(old)
        /\ new.owner = old.owner
        /\ new.messages = {}
        /\ new.binding = NoConversation
    BY <1>1, StoredResetSession
  <1>3. Entries[s] = StoredEntry(old) /\ Entries'[s] = StoredEntry(new)
    BY LedgerEntries
  <1>4. Entries[s].owner # NoUser
    BY <1>2, <1>3 DEF StoredEntry, TurnsInv, HistoryInv, HistorySound
  <1>5. {m.turn : m \in {}} = {}
    OBVIOUS
  <1>6. StoredEntry(new) = [StoredEntry(old) EXCEPT !.turns = {},
                                                    !.conversation = NoConversation]
    <2>1. {m.turn : m \in new.messages} = {}
      BY <1>2, <1>5
    <2>2. StoredEntry(new) =
             [owner |-> old.owner, turns |-> {}, conversation |-> NoConversation]
      BY <1>2, <2>1 DEF StoredEntry
    <2> DEFINE owner == old.owner
               turns == {m.turn : m \in old.messages}
               binding == old.binding
               entry == StoredEntry(old)
               cleared == [entry EXCEPT !.turns = {}, !.conversation = NoConversation]
    <2>3. entry \in [owner : {owner}, turns : {turns}, conversation : {binding}]
      BY DEF StoredEntry
    <2> HIDE DEF owner, turns, binding, entry
    <2>4. cleared \in [owner : {owner}, turns : {{}}, conversation : {NoConversation}]
      BY <2>3
    <2> HIDE DEF cleared
    <2>5. cleared = [owner |-> owner, turns |-> {}, conversation |-> NoConversation]
      BY <2>4
    <2>6. QED  BY <2>2, <2>5 DEF cleared, entry, owner
  <1>7. Entries' = [Entries EXCEPT ![s].turns = {}, ![s].conversation = NoConversation]
    <2>1. \A x \in Sessions : x # s => Entries'[x] = Entries[x]
      BY <1>2 DEF Entries
    <2>2. /\ Entries = [x \in Sessions |-> Entries[x]]
          /\ Entries' = [x \in Sessions |-> Entries'[x]]
      BY DEF Entries
    <2>3. Entries' = [Entries EXCEPT ![s] = [Entries[s] EXCEPT !.turns = {},
                                               !.conversation = NoConversation]]
      BY <1>3, <1>6, <2>1, <2>2
    <2>4. DOMAIN Entries = Sessions
      BY DEF Entries
    <2>5. [Entries EXCEPT ![s].turns = {}, ![s].conversation = NoConversation]
             = [Entries EXCEPT ![s] = [Entries[s] EXCEPT !.turns = {},
                                         !.conversation = NoConversation]]
      BY <2>4
    <2>6. QED  BY <2>3, <2>5
  <1>8. Readings' = Readings
    <2>1. \A u \in Turns : Readings'[u] = Readings[u]
      BY ReadingRests DEF TurnsRest
    <2>2. QED  BY <2>1 DEF Readings
  <1>9. QED  BY <1>1, <1>4, <1>7, <1>8, HomesStay, LedgerNames

(* Nothing else is seen in the ledger but that turns read it.              *)
LEMMA EntriesStay ==
    ASSUME TurnsInv, TurnsInv',
           sessions' = sessions \/ \E t \in Turns : StoresCompaction(t)
    PROVE  Entries' = Entries
  <1>1. CASE sessions' = sessions
    BY <1>1 DEF Entries
  <1>2. ASSUME NEW t \in Turns, StoresCompaction(t)
        PROVE  Entries' = Entries
    <2>1. /\ TypeOK /\ SummaryCoversCompacted
          /\ TypeOK' /\ SummaryCoversCompacted'
      BY DEF TurnsInv, LifecycleInv
    <2>2. ASSUME NEW s \in Sessions
          PROVE  Entries'[s] = Entries[s]
      <3>1. /\ sessions'[s].owner = sessions[s].owner
            /\ sessions'[s].messages = sessions[s].messages
            /\ sessions'[s].binding = sessions[s].binding
        BY <1>2, <2>1, StoredCompactionSession
      <3>2. Entries[s] = StoredEntry(sessions[s]) /\ Entries'[s] = StoredEntry(sessions'[s])
        BY LedgerEntries
      <3>3. QED  BY <3>1, <3>2 DEF StoredEntry
    <2>3. QED  BY <2>2 DEF Entries
  <1>3. QED  BY <1>1, <1>2

(* Every step of the runtime is a step of the ledger, or none of it.       *)
LEMMA LedgerStep ==
    ASSUME TurnsInv, TurnsInv', [Next]_vars
    PROVE  [Ledger!Next]_(Ledger!ledgerVars)
  <1>1. LifecycleInv /\ TypeOK
    BY DEF TurnsInv, LifecycleInv
  <1>2. Homes' = Homes
    BY <1>1, HomesStay
  <1>3. CASE TurnsRest /\ sessions' = sessions
    <2>1. Readings' = Readings
      <3>1. \A u \in Turns : Readings'[u] = Readings[u]
        BY <1>3, ReadingRests DEF TurnsRest
      <3>2. QED  BY <3>1 DEF Readings
    <2>2. Entries' = Entries
      BY <1>3, EntriesStay
    <2>3. QED  BY <1>2, <2>1, <2>2, LedgerNames
  <1>4. ASSUME NEW s \in Sessions, TurnsRest, StoresReset(s)
        PROVE  Ledger!Next
    BY <1>4, ResetClears DEF Ledger!Next
  <1>5. ASSUME NEW t \in Turns, TurnTakesStep(t), StoresTurn(t)
        PROVE  Ledger!Next
    BY <1>5, CommitAppends DEF Ledger!Next
  <1>6. ASSUME NEW t \in Turns, TurnTakesStep(t),
               sessions' = sessions \/ StoresCompaction(t)
        PROVE  [Ledger!Next]_(Ledger!ledgerVars)
    <2>1. Entries' = Entries
      BY <1>6, EntriesStay
    <2>2. CASE Readings' = Readings
      BY <1>2, <2>1, <2>2, LedgerNames
    <2>3. CASE Readings' = [Readings EXCEPT ![t] = NoUser]
      <3>1. Ledger!Leave(t)
        BY <1>2, <2>1, <2>3, LedgerNames
      <3>2. QED  BY <3>1 DEF Ledger!Next
    <2>4. CASE Readings' = [Readings EXCEPT ![t] = Entries[Homes[t]]]
      <3>1. Ledger!Read(t)
        BY <1>2, <2>1, <2>4, LedgerNames
      <3>2. QED  BY <3>1 DEF Ledger!Next
    <2>5. QED  BY <1>1, <1>6, <2>2, <2>3, <2>4, ReadingStep
  <1>7. QED
    BY <1>1, <1>3, <1>4, <1>5, <1>6, EveryStepProgresses DEF TurnsRest, TurnTakesStep

(* The runtime implements the ledger: turns on a session behave as if they *)
(* ran one after the other, each appended to the very entry it read, and   *)
(* compaction changes no entry (commitTurn, commitCompaction,              *)
(* resetSession).                                                          *)
THEOREM TurnsAreSerialisable == Spec => LedgerSpec
  <1>1. Init => Ledger!Init
    <2> SUFFICES ASSUME Init PROVE Ledger!Init
      OBVIOUS
    <2>1. TurnsInv /\ TypeOK /\ SummaryCoversCompacted
      BY TurnsInit DEF TurnsInv, LifecycleInv
    <2>2. ASSUME NEW s \in Sessions
          PROVE  Entries[s] = [owner |-> NoUser, turns |-> {},
                               conversation |-> NoConversation]
      <3>1. sessions[s] = NoSession
        BY DEF Init
      <3>2. /\ NoSession.owner = NoUser
            /\ NoSession.messages = {}
            /\ NoSession.binding = NoConversation
            /\ {m.turn : m \in {}} = {}
        BY DEF NoSession
      <3>3. QED  BY <2>1, <3>1, <3>2, LedgerEntries DEF StoredEntry
    <2>3. ASSUME NEW t \in Turns
          PROVE  turn[t].phase = "idle"
      BY DEF Init
    <2>4. Readings = [t \in Turns |-> NoUser]
      BY <2>3 DEF Readings, HoldsSnapshot
    <2>5. Homes \in [Turns -> Sessions]
      BY <2>1 DEF TypeOK, TurnState, Homes
    <2>6. Entries = [s \in Sessions |-> [owner |-> NoUser, turns |-> {},
                                         conversation |-> NoConversation]]
      BY <2>2 DEF Entries
    <2>7. QED  BY <2>4, <2>5, <2>6, LedgerNames
  <1>2. TurnsInv /\ TurnsInv' /\ [Next]_vars => [Ledger!Next]_(Ledger!ledgerVars)
    BY LedgerStep
  <1>3. QED
    BY <1>1, <1>2, TurnsInvariant, PTL DEF Spec, LedgerSpec, Ledger!Spec

=============================================================================

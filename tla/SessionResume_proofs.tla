------------------------- MODULE SessionResume_proofs -------------------------
(***************************************************************************)
(* Theorems about SessionResume: the types, whose messages an operation    *)
(* answers with, that a session keeps its owner, what a turn may commit    *)
(* into and what a restored session holds, all from one inductive          *)
(* invariant, ResumeInv.  The runtime's own steps are taken from           *)
(* TurnLifecycle_proofs.                                                   *)
(***************************************************************************)
EXTENDS SessionResume, TurnLifecycle_proofs

-----------------------------------------------------------------------------
(* Types                                                                   *)

(* A set of positions that is not empty has a first.                      *)
LEMMA FirstPosition ==
    ASSUME NEW P, P \subseteq Nat, P # {}
    PROVE  \E p \in P : \A q \in P : p <= q
  <1>1. PICK p \in P : \A q \in P : ~ (<<q, p>> \in OpToRel(<, Nat))
    BY WFMin, NatLessThanWellFounded
  <1>2. \A q \in P : p <= q
    <2> SUFFICES ASSUME NEW q \in P PROVE p <= q
      OBVIOUS
    <2>1. ~ (q < p)
      BY <1>1 DEF OpToRel
    <2>2. QED  BY <2>1
  <1>3. QED  BY <1>2

(* The entries of a conversation are finitely many positions, and no more  *)
(* of them are asked for than MaximumEntries.                              *)
LEMMA EntriesType ==
    ASSUME provider \in Seq(Turns), NEW k
    PROVE  /\ EntriesOf(k) \subseteq Nat /\ IsFiniteSet(EntriesOf(k))
           /\ NewestEntries(k) \subseteq EntriesOf(k) /\ IsFiniteSet(NewestEntries(k))
           /\ Cardinality(NewestEntries(k)) <= MaximumEntries
  <1> DEFINE E == EntriesOf(k)
             N == NewestEntries(k)
             After(i) == {j \in E : j > i}
  <1>1. E \subseteq Nat /\ IsFiniteSet(E)
    <2>1. E \subseteq 1 .. Len(provider) /\ Len(provider) \in Int /\ 1 \in Int
      BY DEF EntriesOf
    <2>2. IsFiniteSet(1 .. Len(provider))
      BY <2>1, FS_Interval
    <2>3. QED  BY <2>1, <2>2, FS_Subset
  <1>2. N \subseteq E /\ \A i \in N : Cardinality(After(i)) < MaximumEntries
    BY DEF NewestEntries
  <1>3. IsFiniteSet(N) /\ Cardinality(N) \in Nat
    BY <1>1, <1>2, FS_Subset, FS_CardinalityType
  <1> HIDE DEF E, N
  <1>4. Cardinality(N) <= MaximumEntries
    <2>1. CASE N = {}
      BY <2>1, FS_EmptySet, MaximumEntriesAssumption
    <2>2. CASE N # {}
      <3>1. PICK first \in N : \A i \in N : first <= i
        BY <1>1, <1>2, <2>2, FirstPosition
      <3>2. N \ {first} \subseteq After(first)
        BY <1>1, <1>2, <3>1
      <3>3. IsFiniteSet(After(first)) /\ Cardinality(After(first)) \in Nat
        <4>1. After(first) \subseteq E
          OBVIOUS
        <4> HIDE DEF After
        <4>2. QED  BY <1>1, <4>1, FS_Subset, FS_CardinalityType
      <3>4. Cardinality(After(first)) < MaximumEntries
        BY <1>2, <3>1
      <3> HIDE DEF After
      <3>5. Cardinality(N \ {first}) <= Cardinality(After(first))
        BY <3>2, <3>3, FS_Subset
      <3>6. Cardinality(N \ {first}) = Cardinality(N) - 1
        BY <1>3, <3>1, FS_RemoveElement
      <3>7. QED  BY <1>3, <3>3, <3>4, <3>5, <3>6, MaximumEntriesAssumption
    <2>3. QED  BY <2>1, <2>2
  <1>5. QED  BY <1>1, <1>2, <1>3, <1>4 DEF E, N

(* The entries after a turn's are finitely many, and a turn that fewer     *)
(* follow than are asked for has an entry among the newest.                *)
LEMMA LaterEntriesType ==
    ASSUME provider \in Seq(Turns), NEW t \in Turns
    PROVE  /\ IsFiniteSet(LaterEntries(t)) /\ Cardinality(LaterEntries(t)) \in Nat
           /\ \A i \in DOMAIN provider :
                 provider[i] = t /\ Cardinality(LaterEntries(t)) < MaximumEntries
                   => i \in NewestEntries(turn[t].conversation)
  <1> DEFINE k == turn[t].conversation
             E == EntriesOf(k)
             After(i) == {j \in E : j > i}
  <1>1. E \subseteq Nat /\ IsFiniteSet(E)
    BY EntriesType
  <1>2. LaterEntries(t) \subseteq E
    BY DEF LaterEntries
  <1>3. IsFiniteSet(LaterEntries(t)) /\ Cardinality(LaterEntries(t)) \in Nat
    BY <1>1, <1>2, FS_Subset, FS_CardinalityType
  <1>4. ASSUME NEW i \in DOMAIN provider, provider[i] = t,
               Cardinality(LaterEntries(t)) < MaximumEntries
        PROVE  i \in NewestEntries(k)
    <2>1. i \in E
      BY <1>4 DEF EntriesOf
    <2>2. After(i) \subseteq LaterEntries(t)
      BY <1>1, <1>4, <2>1 DEF LaterEntries
    <2>3. IsFiniteSet(After(i)) /\ Cardinality(After(i)) \in Nat
          /\ Cardinality(After(i)) <= Cardinality(LaterEntries(t))
      <3> HIDE DEF After
      <3>1. QED  BY <1>3, <2>2, FS_Subset, FS_CardinalityType
    <2>4. Cardinality(After(i)) < MaximumEntries
      BY <1>3, <1>4, <2>3, MaximumEntriesAssumption
    <2>5. QED  BY <2>1, <2>4 DEF NewestEntries
  <1>5. QED  BY <1>3, <1>4

(* The history that is asked for is finitely many messages of the turns of *)
(* the newest entries of the conversation.                                 *)
LEMMA HistoryType ==
    ASSUME turn \in [Turns -> TurnState], provider \in Seq(Turns), NEW k
    PROVE  /\ History(k) \in SUBSET Message
           /\ IsFiniteSet(History(k))
           /\ {m.turn : m \in History(k)} = {provider[i] : i \in NewestEntries(k)}
  <1> DEFINE E == EntriesOf(k)
             N == NewestEntries(k)
             entries == {EntryMessages(k, i) : i \in N}
             f == [i \in N |-> EntryMessages(k, i)]
  <1>1. N \subseteq E /\ IsFiniteSet(N)
    BY EntriesType
  <1>2. ASSUME NEW i \in N
        PROVE  /\ EntryMessages(k, i) \subseteq Message
               /\ IsFiniteSet(EntryMessages(k, i))
               /\ {m.turn : m \in EntryMessages(k, i)} = {provider[i]}
    <2> DEFINE earlier == {j \in N : j < i}
               before == 2 * Cardinality(earlier)
    <2>1. IsFiniteSet(earlier)
      BY <1>1, FS_Subset
    <2>2. before \in Nat
      <3>1. Cardinality(earlier) \in Nat
        BY <2>1, FS_CardinalityType
      <3>2. QED  BY <3>1
    <2>3. provider[i] \in Turns
      BY <1>1 DEF EntriesOf
    <2>4. EntryMessages(k, i) = TurnMessages(provider[i], before)
      BY DEF EntryMessages
    <2> HIDE DEF before
    <2>5. QED  BY <2>2, <2>3, <2>4, TurnMessagesType, ZenonT(30)
  <1>3. History(k) = UNION entries
    BY DEF History
  <1>4. IsFiniteSet(entries)
    <2>1. f \in Surjection(N, entries)
      BY DEF Surjection
    <2>2. QED  BY <1>1, <2>1, FS_Surjection
  <1>5. IsFiniteSet(UNION entries)
    BY <1>2, <1>4, FS_UNION
  <1>6. ASSUME NEW i \in N
        PROVE  \E m \in UNION entries : m.turn = provider[i]
    <2> DEFINE M == EntryMessages(k, i)
    <2>1. \E m \in M : m.turn = provider[i]
      <3>1. {m.turn : m \in M} = {provider[i]}
        BY <1>2
      <3> HIDE DEF M
      <3>2. QED  BY <3>1
    <2>2. QED  BY <2>1
  <1>7. \A m \in UNION entries : m \in Message /\ \E i \in N : m.turn = provider[i]
    <2>1. ASSUME NEW i \in N, NEW m \in EntryMessages(k, i)
          PROVE  m \in Message /\ m.turn = provider[i]
      BY <1>2
    <2>2. QED  BY <2>1
  <1>8. {m.turn : m \in UNION entries} = {provider[i] : i \in N}
    <2> HIDE DEF entries, N
    <2>1. QED  BY <1>6, <1>7
  <1>9. QED  BY <1>3, <1>5, <1>7, <1>8

(* What a resume restores is a well-formed session of the token's user.    *)
LEMMA RestoredWellFormed ==
    ASSUME NEW claims \in Claims, NEW messages \in SUBSET Message, IsFiniteSet(messages)
    PROVE  LET restored == Restored(claims, messages)
           IN  /\ restored \in StoredSession
               /\ WellFormed(restored)
               /\ restored.status = "ACTIVE" /\ Exists(restored)
               /\ restored.owner = claims.user
               /\ restored.revision = 0
               /\ restored.context = DefaultContext(0)
               /\ restored.messages = messages
               /\ restored.compacted = {}
               /\ restored.summary = {}
               /\ restored.binding = claims.conversation
               /\ restored.completed = {}
  <1> DEFINE restored == Restored(claims, messages)
  <1>1. NoSession \in StoredSession
    BY NoSessionWellFormed
  <1>2. /\ restored.status = "ACTIVE"
        /\ restored.owner = claims.user
        /\ restored.revision = 0
        /\ restored.context = DefaultContext(0)
        /\ restored.messages = messages
        /\ restored.compacted = {}
        /\ restored.summary = {}
        /\ restored.binding = claims.conversation
        /\ restored.completed = {}
    BY DEF Restored, NoSession
  <1>3. restored \in StoredSession
    BY <1>1 DEF Restored, StoredSession, Claims
  <1>4. QED  BY <1>2, <1>3 DEF WellFormed, Exists

(* A resume operation's new state, wherever it is written.                 *)
LEMMA ResumeType ==
    ASSUME resume \in [Resumes -> ResumeState], NEW r \in Resumes, NEW new \in ResumeState,
           resume' = [resume EXCEPT ![r] = new]
    PROVE  /\ resume' \in [Resumes -> ResumeState]
           /\ resume'[r] = new
           /\ \A x \in Resumes : x # r => resume'[x] = resume[x]
  OBVIOUS

(* The restore writes a session where there was none.                      *)
RestoresSession(r) ==
    LET s == resume[r].claims.session
        restored == Restored(resume[r].claims, resume[r].history)
    IN  /\ resume[r].phase = "restoring"
        /\ ~resume[r].signal
        /\ ~Exists(sessions[s])
        /\ sessions' = [sessions EXCEPT ![s] = restored]
        /\ resume'[r] = [resume[r] EXCEPT !.phase = "answered",
                                          !.loaded = AggregateOf(restored),
                                          !.answer = resume[r].history]

(* What any other step of an operation makes of it.                        *)
ResumeProceeds(r) ==
    LET old == resume[r]
        new == resume'[r]
        stored == sessions[old.claims.session]
    IN  /\ sessions' = sessions
        /\ \/ /\ old.phase = "idle" /\ new.phase \in {"loading", "failed"}
              /\ new.claims \in Tokens /\ new.history = old.history /\ new.answer = old.answer
           \/ /\ old.phase # "idle" /\ new.claims = old.claims
              /\ \/ /\ new.phase \in {"failed", "fetching", "racing"}
                    /\ new.history = old.history /\ new.answer = old.answer
                 \/ /\ new.phase = "reading" /\ Matches(AggregateOf(stored), old.claims)
                    /\ new.history = old.history /\ new.answer = old.answer
                 \/ /\ new.phase = "restoring" /\ new.history = History(old.claims.conversation)
                    /\ new.answer = old.answer
                 \/ /\ old.phase = "reading" /\ new.phase = "answered"
                    /\ new.history = old.history /\ new.answer = stored.messages
                 \/ /\ new.phase = old.phase
                    /\ new.history = old.history /\ new.answer = old.answer

ResumeMoves(r) ==
    /\ RestoresSession(r) \/ ResumeProceeds(r)
    /\ resume' \in [Resumes -> ResumeState]
    /\ \A x \in Resumes : x # r => resume'[x] = resume[x]
    /\ UNCHANGED <<failedTurns, turn, reset, provider, restarts>>

(* The operation goes on from the stored session, or its token names none. *)
LEMMA ResumeFromMoves ==
    ASSUME ResumeTypeOK, NEW r \in Resumes, resume[r].phase # "idle",
           ResumeFrom(r, AggregateOf(sessions[resume[r].claims.session])),
           sessions' = sessions, UNCHANGED <<failedTurns, turn, reset, provider, restarts>>
    PROVE  ResumeMoves(r)
  <1> DEFINE aggregate == AggregateOf(sessions[resume[r].claims.session])
             read == [resume[r] EXCEPT !.loaded = aggregate, !.phase = "reading"]
             failed == [resume[r] EXCEPT !.phase = "failed", !.loaded = Nothing]
  <1>1. /\ resume \in [Resumes -> ResumeState]
        /\ resume[r].claims.session \in Sessions
        /\ sessions \in [Sessions -> StoredSession]
    BY DEF ResumeTypeOK, TypeOK, ResumeState, Claims
  <1>2. "reading" \in ResumePhases /\ "failed" \in ResumePhases
    BY DEF ResumePhases
  <1>3. aggregate \in Aggregate
    BY <1>1, AggregateOfType
  <1>4. CASE Matches(aggregate, resume[r].claims)
    <2>1. resume' = [resume EXCEPT ![r] = read]
      BY <1>4 DEF ResumeFrom
    <2>2. read \in ResumeState
      BY <1>1, <1>2, <1>3 DEF ResumeState
    <2>3. /\ read.phase = "reading" /\ read.claims = resume[r].claims
          /\ read.history = resume[r].history /\ read.answer = resume[r].answer
      BY <1>1 DEF ResumeState
    <2> HIDE DEF read
    <2>4. QED  BY <1>1, <1>4, <2>1, <2>2, <2>3, ResumeType DEF ResumeMoves, ResumeProceeds
  <1>5. CASE ~Matches(aggregate, resume[r].claims)
    <2>1. resume' = [resume EXCEPT ![r] = failed]
      BY <1>5 DEF ResumeFrom, ResumeFails
    <2>2. failed \in ResumeState
      BY <1>1, <1>2, NothingType DEF ResumeState
    <2>3. /\ failed.phase = "failed" /\ failed.claims = resume[r].claims
          /\ failed.history = resume[r].history /\ failed.answer = resume[r].answer
      BY <1>1 DEF ResumeState
    <2> HIDE DEF failed
    <2>4. QED  BY <1>1, <2>1, <2>2, <2>3, ResumeType DEF ResumeMoves, ResumeProceeds
  <1>6. QED  BY <1>4, <1>5

(* The operation fails.                                                    *)
LEMMA ResumeFailsMoves ==
    ASSUME ResumeTypeOK, NEW r \in Resumes, resume[r].phase # "idle", ResumeFails(r),
           sessions' = sessions, UNCHANGED <<failedTurns, turn, reset, provider, restarts>>
    PROVE  ResumeMoves(r)
  <1> DEFINE failed == [resume[r] EXCEPT !.phase = "failed", !.loaded = Nothing]
  <1>1. resume \in [Resumes -> ResumeState] /\ "failed" \in ResumePhases
    BY DEF ResumeTypeOK, ResumePhases
  <1>2. resume' = [resume EXCEPT ![r] = failed]
    BY DEF ResumeFails
  <1>3. failed \in ResumeState
    BY <1>1, NothingType DEF ResumeState
  <1>4. /\ failed.phase = "failed" /\ failed.claims = resume[r].claims
        /\ failed.history = resume[r].history /\ failed.answer = resume[r].answer
    BY <1>1 DEF ResumeState
  <1> HIDE DEF failed
  <1>5. QED  BY <1>1, <1>2, <1>3, <1>4, ResumeType DEF ResumeMoves, ResumeProceeds

(* Every action of an operation is such a step.                            *)
LEMMA EveryResumeMoves ==
    ASSUME ResumeTypeOK, NEW r \in Resumes, ResumeStep(r)
    PROVE  ResumeMoves(r)
  <1> DEFINE old == resume[r]
             c == old.claims
  <1>1. /\ resume \in [Resumes -> ResumeState]
        /\ old \in ResumeState
        /\ c \in Claims /\ c.session \in Sessions
        /\ sessions \in [Sessions -> StoredSession]
        /\ turn \in [Turns -> TurnState]
        /\ provider \in Seq(Turns)
    BY DEF ResumeTypeOK, TypeOK, ResumeState, Claims
  <1>2. ResumePhases = {"idle", "loading", "fetching", "restoring", "racing", "reading",
                        "answered", "failed"}
    BY DEF ResumePhases
  <1>3. CASE ResumeBegin(r)
    <2>1. PICK claims \in Tokens, phase \in {"loading", "failed"} :
            resume' = [resume EXCEPT ![r] = [old EXCEPT !.claims = claims, !.phase = phase]]
      BY <1>3 DEF ResumeBegin
    <2> DEFINE new == [old EXCEPT !.claims = claims, !.phase = phase]
    <2>2. claims \in Claims
      BY <1>1 DEF Tokens, Claims, TurnState
    <2>3. new \in ResumeState
      BY <1>1, <1>2, <2>2 DEF ResumeState
    <2>4. /\ new.phase = phase /\ new.claims = claims
          /\ new.history = old.history /\ new.answer = old.answer
      BY <1>1 DEF ResumeState
    <2>5. resume' = [resume EXCEPT ![r] = new]
      BY <2>1
    <2> HIDE DEF new
    <2>6. QED
      BY <1>1, <1>3, <2>3, <2>4, <2>5, ResumeType DEF ResumeBegin, ResumeMoves, ResumeProceeds
  <1>4. CASE ResumeLoad(r)
    <2> DEFINE new == [old EXCEPT !.phase = "fetching"]
    <2>1. CASE ResumeFrom(r, AggregateOf(sessions[c.session]))
      BY <1>4, <2>1, ResumeFromMoves DEF ResumeLoad
    <2>2. CASE resume' = [resume EXCEPT ![r].phase = "fetching"]
      <3>1. resume' = [resume EXCEPT ![r] = new]
        BY <2>2
      <3>2. new \in ResumeState
        BY <1>1, <1>2 DEF ResumeState
      <3>3. /\ new.phase = "fetching" /\ new.claims = c
            /\ new.history = old.history /\ new.answer = old.answer
        BY <1>1 DEF ResumeState
      <3> HIDE DEF new
      <3>4. QED
        BY <1>1, <1>4, <3>1, <3>2, <3>3, ResumeType DEF ResumeLoad, ResumeMoves, ResumeProceeds
    <2>3. QED  BY <1>4, <2>1, <2>2 DEF ResumeLoad
  <1>5. CASE ResumeFetch(r)
    <2> DEFINE history == History(c.conversation)
               new == [old EXCEPT !.history = history, !.phase = "restoring"]
    <2>1. CASE ResumeFails(r)
      BY <1>5, <2>1, ResumeFailsMoves DEF ResumeFetch
    <2>2. CASE resume' = [resume EXCEPT ![r].history = history, ![r].phase = "restoring"]
      <3>1. resume' = [resume EXCEPT ![r] = new]
        BY <2>2
      <3>2. history \in SUBSET Message
        BY <1>1, HistoryType
      <3> HIDE DEF history
      <3>3. new \in ResumeState
        BY <1>1, <1>2, <3>2 DEF ResumeState
      <3>4. /\ new.phase = "restoring" /\ new.claims = c
            /\ new.history = history /\ new.answer = old.answer
        BY <1>1 DEF ResumeState
      <3> HIDE DEF new
      <3>5. QED
        BY <1>1, <1>5, <3>1, <3>3, <3>4, ResumeType
        DEF ResumeFetch, ResumeMoves, ResumeProceeds, history
    <2>3. QED  BY <1>5, <2>1, <2>2 DEF ResumeFetch
  <1>6. CASE ResumeRestore(r)
    <2> DEFINE restored == Restored(c, old.history)
               answered == [old EXCEPT !.phase = "answered", !.loaded = AggregateOf(restored),
                                       !.answer = old.history]
               racing == [old EXCEPT !.phase = "racing"]
    <2>1. CASE ResumeFails(r) /\ UNCHANGED sessions
      BY <1>6, <2>1, ResumeFailsMoves DEF ResumeRestore
    <2>2. CASE /\ ~old.signal /\ ~Exists(sessions[c.session])
               /\ sessions' = [sessions EXCEPT ![c.session] = restored]
               /\ resume' = [resume EXCEPT ![r].phase = "answered",
                                           ![r].loaded = AggregateOf(restored),
                                           ![r].answer = old.history]
      <3>1. resume' = [resume EXCEPT ![r] = answered]
        BY <2>2
      <3>2. restored \in StoredSession
        BY <1>1, NoSessionWellFormed DEF Restored, StoredSession, Claims, ResumeState
      <3>3. AggregateOf(restored) \in Aggregate
        BY <3>2, AggregateOfType
      <3>4. answered \in ResumeState
        BY <1>1, <1>2, <3>3 DEF ResumeState
      <3>5. RestoresSession(r)
        BY <1>1, <1>6, <2>2, <3>1 DEF RestoresSession, ResumeRestore
      <3> HIDE DEF answered
      <3>6. QED  BY <1>1, <1>6, <3>1, <3>4, <3>5, ResumeType DEF ResumeRestore, ResumeMoves
    <2>3. CASE resume' = [resume EXCEPT ![r].phase = "racing"] /\ UNCHANGED sessions
      <3>1. resume' = [resume EXCEPT ![r] = racing]
        BY <2>3
      <3>2. racing \in ResumeState
        BY <1>1, <1>2 DEF ResumeState
      <3>3. /\ racing.phase = "racing" /\ racing.claims = c
            /\ racing.history = old.history /\ racing.answer = old.answer
        BY <1>1 DEF ResumeState
      <3> HIDE DEF racing
      <3>4. QED
        BY <1>1, <1>6, <2>3, <3>1, <3>2, <3>3, ResumeType
        DEF ResumeRestore, ResumeMoves, ResumeProceeds
    <2>4. QED  BY <1>6, <2>1, <2>2, <2>3 DEF ResumeRestore
  <1>7. CASE ResumeRace(r)
    BY <1>7, ResumeFromMoves DEF ResumeRace
  <1>8. CASE ResumeRead(r)
    <2> DEFINE messages == sessions[c.session].messages
               new == [old EXCEPT !.phase = "answered", !.answer = messages]
    <2>1. resume' = [resume EXCEPT ![r] = new]
      BY <1>8 DEF ResumeRead
    <2>2. messages \in SUBSET Message
      BY <1>1 DEF StoredSession
    <2>3. new \in ResumeState
      BY <1>1, <1>2, <2>2 DEF ResumeState
    <2>4. /\ new.phase = "answered" /\ new.claims = c
          /\ new.history = old.history /\ new.answer = messages
      BY <1>1 DEF ResumeState
    <2> HIDE DEF new
    <2>5. QED
      BY <1>1, <1>8, <2>1, <2>3, <2>4, ResumeType DEF ResumeRead, ResumeMoves, ResumeProceeds
  <1>9. CASE ResumeAbort(r)
    <2> DEFINE new == [old EXCEPT !.signal = TRUE]
    <2>1. resume' = [resume EXCEPT ![r] = new]
      BY <1>9 DEF ResumeAbort
    <2>2. new \in ResumeState
      BY <1>1 DEF ResumeState
    <2>3. /\ new.phase = old.phase /\ new.claims = c
          /\ new.history = old.history /\ new.answer = old.answer
      BY <1>1 DEF ResumeState
    <2>4. old.phase # "idle"
      BY <1>9 DEF ResumeAbort
    <2> HIDE DEF new
    <2>5. QED
      BY <1>1, <1>9, <2>1, <2>2, <2>3, <2>4, ResumeType
      DEF ResumeAbort, ResumeMoves, ResumeProceeds
  <1>10. QED  BY <1>3, <1>4, <1>5, <1>6, <1>7, <1>8, <1>9 DEF ResumeStep

-----------------------------------------------------------------------------
(* The inductive invariant                                                 *)

(* Every turn of a conversation is of the same session and the same user,  *)
(* and there is one.                                                       *)
BelongsTo(k, s, u) ==
    /\ \E t \in Turns : turn[t].conversation = k
    /\ \A t \in Turns : turn[t].conversation = k => turn[t].session = s /\ turn[t].user = u

Unanswered == {"idle", "announced", "guarding", "loading", "compacting", "summarizing",
               "reloading", "orchestrating"}

(* Whoever holds a conversation, a turn, a session, the aggregate a turn   *)
(* is prepared from or a token, is of its session and its user.            *)
ConversationsBelong ==
    /\ \A t \in Turns :
          /\ turn[t].phase \in Unanswered => turn[t].conversation = NoConversation
          /\ turn[t].conversation # NoConversation =>
                BelongsTo(turn[t].conversation, turn[t].session, turn[t].user)
          /\ turn[t].phase \in HoldsSnapshot /\ turn[t].loaded.binding # NoConversation =>
                BelongsTo(turn[t].loaded.binding, turn[t].session, turn[t].user)
    /\ \A s \in Sessions : sessions[s].binding # NoConversation =>
          BelongsTo(sessions[s].binding, s, sessions[s].owner)

ClaimsBelong ==
    \A r \in Resumes : resume[r].phase # "idle" =>
        BelongsTo(resume[r].claims.conversation, resume[r].claims.session,
                  resume[r].claims.user)

(* A session holds messages of its owner's turns only.                     *)
MessagesBelong ==
    \A s \in Sessions : \A m \in sessions[s].messages :
        turn[m.turn].user = sessions[s].owner

(* The aggregate a turn is prepared from is as old as its revision; while  *)
(* that is the revision of the session it is the stored session, or there  *)
(* was none and one was restored and not used.                             *)
CurrentOrRestored(loaded, stored) ==
    /\ loaded.context.revision = loaded.revision
    /\ loaded.revision <= stored.revision
    /\ loaded.revision = stored.revision =>
          \/ SameView(loaded, stored)
          \/ ~Exists(loaded) /\ stored.revision = 0 /\ stored.completed = {}

SnapshotsHold ==
    \A t \in Turns : turn[t].phase \in HoldsSnapshot =>
        CurrentOrRestored(turn[t].loaded, sessions[turn[t].session])

(* The provider keeps every answer that a turn goes on with.               *)
AnswersAreKept ==
    \A t \in Turns : turn[t].phase \in {"answered", "committing", "committed", "completed"} =>
        \E i \in DOMAIN provider : provider[i] = t

(* What is restored of a conversation is of its turns, of no more of them  *)
(* than are asked for, and of every one the user was told about that fewer *)
(* entries follow than are asked for.                                      *)
ShowsConversation(messages, k) ==
    /\ \A m \in messages : turn[m.turn].conversation = k
    /\ Cardinality({m.turn : m \in messages}) <= MaximumEntries

LacksNothing(messages, k) ==
    \A t \in Turns :
        /\ turn[t].phase \in {"committed", "completed"}
        /\ turn[t].conversation = k
        /\ Cardinality(LaterEntries(t)) < MaximumEntries
        => \E m \in messages : m.turn = t

(* What an operation holds is of the user it names; the session it reads   *)
(* is that user's; what it is about to restore is of the conversation it   *)
(* names and lacks nothing, or the store will refuse it.                   *)
ResumesAreSound ==
    \A r \in Resumes :
        LET c == resume[r].claims
        IN  /\ IsFiniteSet(resume[r].history)
            /\ resume[r].phase = "idle" => resume[r].history = {} /\ resume[r].answer = {}
            /\ \A m \in resume[r].history \cup resume[r].answer : turn[m.turn].user = c.user
            /\ resume[r].phase = "reading" =>
                  Exists(sessions[c.session]) /\ sessions[c.session].owner = c.user
            /\ resume[r].phase = "restoring" =>
                  /\ ShowsConversation(resume[r].history, c.conversation)
                  /\ Exists(sessions[c.session])
                        \/ LacksNothing(resume[r].history, c.conversation)

ResumeInv ==
    /\ ResumeTypeOK
    /\ CompactionInv
    /\ ConversationsBelong
    /\ ClaimsBelong
    /\ MessagesBelong
    /\ SnapshotsHold
    /\ AnswersAreKept
    /\ ResumesAreSound

-----------------------------------------------------------------------------
(* Whose a turn is, and what it names                                      *)

(* The provider answers a turn: in the conversation the turn is bound to,  *)
(* or in one no turn has had.                                              *)
Answers(u) ==
    /\ turn[u].phase = "orchestrating"
    /\ turn'[u].phase = "answered"
    /\ \/ turn'[u].conversation = NoConversation
       \/ turn'[u].conversation = turn[u].loaded.binding
       \/ \A t \in Turns : turn[t].conversation # turn'[u].conversation

(* A turn keeps its session, its user and, but for an answer, its          *)
(* conversation; it is unanswered no more once it was not.                 *)
KeepsIdentity(u) ==
    /\ turn'[u].session = turn[u].session
    /\ turn'[u].user = turn[u].user
    /\ \/ Answers(u)
       \/ /\ turn'[u].conversation = turn[u].conversation
          /\ turn'[u].phase \in Unanswered => turn[u].phase \in Unanswered

(* A turn whose step does not concern these keeps them.                    *)
LEMMA PhaseKeepsIdentity ==
    ASSUME NEW u \in Turns,
           turn'[u].session = turn[u].session, turn'[u].user = turn[u].user,
           turn'[u].conversation = turn[u].conversation,
           turn'[u].phase \in Unanswered => turn[u].phase \in Unanswered
    PROVE  KeepsIdentity(u)
  BY DEF KeepsIdentity

(* Every action of a turn keeps what it and the others are.                *)
LEMMA TurnKeepsIdentity ==
    ASSUME TypeOK, NEW t \in Turns,
           Begin(t) \/ TurnStep(t) \/ ParentAbort(t) \/ Abandon(t), NEW u \in Turns
    PROVE  KeepsIdentity(u)
  <1> USE DEF TypeOK
  <1>1. ASSUME NEW e, Fail(t, e)
        PROVE  KeepsIdentity(u)
    <2>1. CASE u = t
      <3>1. /\ turn'[u].session = turn[u].session /\ turn'[u].user = turn[u].user
            /\ turn'[u].conversation = turn[u].conversation
            /\ turn'[u].phase = "failing"
        BY <1>1, <2>1 DEF Fail, TurnState
      <3>2. QED  BY <3>1, PhaseKeepsIdentity DEF Unanswered
    <2>2. CASE u # t
      BY <1>1, <2>2, PhaseKeepsIdentity DEF Fail
    <2>3. QED  BY <2>1, <2>2
  <1>2. ASSUME NEW phase, Goto(t, phase),
               phase \in Unanswered => turn[t].phase \in Unanswered
        PROVE  KeepsIdentity(u)
    <2>1. CASE u = t
      <3>1. /\ turn'[u].session = turn[u].session /\ turn'[u].user = turn[u].user
            /\ turn'[u].conversation = turn[u].conversation
            /\ turn'[u].phase = phase
        BY <1>2, <2>1 DEF Goto, TurnState
      <3>2. QED  BY <1>2, <2>1, <3>1, PhaseKeepsIdentity
    <2>2. CASE u # t
      BY <1>2, <2>2, PhaseKeepsIdentity DEF Goto
    <2>3. QED  BY <2>1, <2>2
  <1>3. ASSUME NEW new, turn' = [turn EXCEPT ![t] = new],
               new.session = turn[t].session, new.user = turn[t].user,
               new.conversation = turn[t].conversation,
               new.phase \in Unanswered => turn[t].phase \in Unanswered
        PROVE  KeepsIdentity(u)
    <2>1. CASE u = t
      BY <1>3, <2>1, PhaseKeepsIdentity
    <2>2. CASE u # t
      BY <1>3, <2>2, PhaseKeepsIdentity
    <2>3. QED  BY <2>1, <2>2
  <1>4. CASE Begin(t) \/ GuardInput(t) \/ GuardOutput(t) \/ Complete(t)
    BY <1>1, <1>2, <1>4 DEF Begin, GuardInput, GuardOutput, Complete, Unanswered
  <1>5. CASE Register(t)
    <2> DEFINE new == [turn[t] EXCEPT
                         !.signal = turn[t].parent,
                         !.phase = IF turn[t].parent THEN "failing" ELSE "guarding",
                         !.error = IF turn[t].parent THEN "ABORTED" ELSE @]
    <2>1. turn' = [turn EXCEPT ![t] = new] /\ turn[t].phase = "announced"
      BY <1>5 DEF Register
    <2>2. /\ new.session = turn[t].session /\ new.user = turn[t].user
          /\ new.conversation = turn[t].conversation
      BY DEF TurnState
    <2>3. turn[t].phase \in Unanswered
      BY <2>1 DEF Unanswered
    <2> HIDE DEF new
    <2>4. QED  BY <1>3, <2>1, <2>2, <2>3
  <1>6. ASSUME NEW aggregate, NEW phase, phase \in Unanswered,
               PrepareFrom(t, aggregate, phase), turn[t].phase \in Unanswered
        PROVE  KeepsIdentity(u)
    <2> DEFINE new == [turn[t] EXCEPT !.loaded = aggregate, !.phase = phase]
    <2>1. CASE turn' = [turn EXCEPT ![t].loaded = aggregate, ![t].phase = phase]
      <3>1. turn' = [turn EXCEPT ![t] = new]
        BY <2>1
      <3>2. /\ new.session = turn[t].session /\ new.user = turn[t].user
            /\ new.conversation = turn[t].conversation
        BY DEF TurnState
      <3> HIDE DEF new
      <3>3. QED  BY <1>3, <1>6, <3>1, <3>2
    <2>2. QED  BY <1>1, <1>6, <2>1 DEF PrepareFrom
  <1>7. CASE Load(t)
    <2> DEFINE aggregate == AggregateOf(sessions[turn[t].session])
               new == [turn[t] EXCEPT !.loaded = aggregate, !.phase = "orchestrating"]
    <2>1. turn[t].phase \in Unanswered /\ "compacting" \in Unanswered
      BY <1>7 DEF Load, Unanswered
    <2>2. CASE turn' = [turn EXCEPT ![t].loaded = aggregate, ![t].phase = "orchestrating"]
      <3>1. turn' = [turn EXCEPT ![t] = new]
        BY <2>2
      <3>2. /\ new.session = turn[t].session /\ new.user = turn[t].user
            /\ new.conversation = turn[t].conversation
        BY DEF TurnState
      <3> HIDE DEF new
      <3>3. QED  BY <1>3, <2>1, <3>1, <3>2
    <2>3. QED  BY <1>1, <1>6, <1>7, <2>1, <2>2 DEF Load
  <1>8. CASE Compact(t)
    <2> DEFINE older == AggregateOf(sessions[turn[t].session])
               new == [turn[t] EXCEPT !.older = older, !.candidates = Candidates(older),
                                      !.phase = "summarizing"]
    <2>1. turn[t].phase \in Unanswered
      BY <1>8 DEF Compact, Unanswered
    <2>2. CASE turn' = [turn EXCEPT ![t].older = older, ![t].candidates = Candidates(older),
                                    ![t].phase = "summarizing"]
      <3>1. turn' = [turn EXCEPT ![t] = new]
        BY <2>2
      <3>2. /\ new.session = turn[t].session /\ new.user = turn[t].user
            /\ new.conversation = turn[t].conversation
        BY DEF TurnState
      <3> HIDE DEF new
      <3>3. QED  BY <1>3, <2>1, <3>1, <3>2
    <2>3. QED  BY <1>1, <1>2, <1>8, <2>1, <2>2 DEF Compact
  <1>9. CASE CommitCompaction(t) \/ CompactionUnacknowledged(t)
    <2> DEFINE new == [turn[t] EXCEPT !.compacted = TRUE, !.older = Nothing,
                                      !.phase = "reloading"]
    <2>1. turn[t].phase \in Unanswered
      BY <1>9 DEF CommitCompaction, CompactionUnacknowledged, Unanswered
    <2>2. CASE turn' = [turn EXCEPT ![t].compacted = TRUE, ![t].older = Nothing,
                                    ![t].phase = "reloading"]
      <3>1. turn' = [turn EXCEPT ![t] = new]
        BY <2>2
      <3>2. /\ new.session = turn[t].session /\ new.user = turn[t].user
            /\ new.conversation = turn[t].conversation
        BY DEF TurnState
      <3> HIDE DEF new
      <3>3. QED  BY <1>3, <2>1, <3>1, <3>2
    <2>3. QED  BY <1>1, <1>9, <2>2 DEF CommitCompaction, CompactionUnacknowledged
  <1>10. CASE SummaryFails(t) \/ ProviderFails(t) \/ StoreFails(t) \/ CommitConflict(t)
                \/ CommitUnacknowledged(t)
    BY <1>1, <1>10 DEF SummaryFails, ProviderFails, StoreFails, CommitConflict,
                       CommitUnacknowledged
  <1>11. CASE Reload(t)
    <2>1. turn[t].phase \in Unanswered /\ "orchestrating" \in Unanswered
      BY <1>11 DEF Reload, Unanswered
    <2>2. QED  BY <1>6, <1>11, <2>1 DEF Reload
  <1>12. CASE Answer(t)
    <2> DEFINE bound == turn[t].loaded.binding
               fresh == Conversations \ {turn[v].conversation : v \in Turns}
               open == IF bound = NoConversation THEN fresh \cup {NoConversation} ELSE {bound}
    <2>1. \E c \in open :
            turn' = [turn EXCEPT ![t].conversation = c, ![t].phase = "answered"]
      BY <1>12 DEF Answer
    <2>2. PICK c \in open :
            turn' = [turn EXCEPT ![t].conversation = c, ![t].phase = "answered"]
      BY <2>1
    <2>3. CASE u = t
      <3>1. /\ turn'[u].session = turn[u].session /\ turn'[u].user = turn[u].user
            /\ turn'[u].conversation = c /\ turn'[u].phase = "answered"
        BY <2>2, <2>3 DEF TurnState
      <3>2. c = NoConversation \/ c = bound \/ \A v \in Turns : turn[v].conversation # c
        OBVIOUS
      <3>3. QED  BY <1>12, <2>3, <3>1, <3>2 DEF Answer, KeepsIdentity, Answers
    <2>4. CASE u # t
      BY <2>2, <2>4, PhaseKeepsIdentity
    <2>5. QED  BY <2>3, <2>4
  <1>13. CASE CommitTurn(t) \/ ObserverFails(t) \/ Abandon(t)
    <2>1. PICK phase \in {"committed", "unrecorded"} :
            turn' = [turn EXCEPT ![t].phase = phase, ![t].loaded = Nothing]
      BY <1>13 DEF CommitTurn, ObserverFails, Abandon
    <2> DEFINE new == [turn[t] EXCEPT !.phase = phase, !.loaded = Nothing]
    <2>2. turn' = [turn EXCEPT ![t] = new]
      BY <2>1
    <2>3. /\ new.session = turn[t].session /\ new.user = turn[t].user
          /\ new.conversation = turn[t].conversation
          /\ new.phase \notin Unanswered
      BY DEF TurnState, Unanswered
    <2> HIDE DEF new
    <2>4. QED  BY <1>3, <2>2, <2>3
  <1>14. CASE RecordFailure(t)
    <2> DEFINE new == [turn[t] EXCEPT !.phase = "failed", !.error = "DATABASE_ERROR"]
    <2>1. CASE turn' = [turn EXCEPT ![t].phase = "failed", ![t].error = "DATABASE_ERROR"]
      <3>1. turn' = [turn EXCEPT ![t] = new]
        BY <2>1
      <3>2. /\ new.session = turn[t].session /\ new.user = turn[t].user
            /\ new.conversation = turn[t].conversation
            /\ new.phase \notin Unanswered
        BY DEF TurnState, Unanswered
      <3> HIDE DEF new
      <3>3. QED  BY <1>3, <3>1, <3>2
    <2>2. CASE Goto(t, "failed")
      BY <1>2, <2>2 DEF Unanswered
    <2>3. QED  BY <1>14, <2>1, <2>2 DEF RecordFailure
  <1>15. CASE ParentAbort(t)
    <2> DEFINE new == [turn[t] EXCEPT !.parent = TRUE,
                                      !.signal = @ \/ turn[t].phase \in Registered]
    <2>1. turn' = [turn EXCEPT ![t] = new]
      BY <1>15 DEF ParentAbort
    <2>2. /\ new.session = turn[t].session /\ new.user = turn[t].user
          /\ new.conversation = turn[t].conversation
          /\ new.phase = turn[t].phase
      BY DEF TurnState
    <2> HIDE DEF new
    <2>3. QED  BY <1>3, <2>1, <2>2
  <1>16. QED
    BY <1>4, <1>5, <1>7, <1>8, <1>9, <1>10, <1>11, <1>12, <1>13, <1>14, <1>15
    DEF TurnStep, TurnRuns, TurnFaults

(* So does every step of the runtime.                                      *)
LEMMA EveryStepKeepsIdentity ==
    ASSUME TypeOK, Next, NEW u \in Turns
    PROVE  KeepsIdentity(u)
  <1>1. ASSUME NEW s \in Sessions, turn' = AbortAll(s)
        PROVE  KeepsIdentity(u)
    <2>1. turn'[u] = turn[u] \/ turn'[u] = [turn[u] EXCEPT !.signal = TRUE]
      BY <1>1 DEF AbortAll
    <2>2. turn[u] \in TurnState
      BY DEF TypeOK
    <2>3. /\ turn'[u].session = turn[u].session /\ turn'[u].user = turn[u].user
          /\ turn'[u].conversation = turn[u].conversation
          /\ turn'[u].phase = turn[u].phase
      BY <2>1, <2>2 DEF TurnState
    <2>4. QED  BY <2>3, PhaseKeepsIdentity
  <1>2. ASSUME NEW s \in Sessions, AbortSession(s)
        PROVE  KeepsIdentity(u)
    BY <1>1, <1>2 DEF AbortSession
  <1>3. ASSUME NEW r \in Resets, ResetBegin(r)
        PROVE  KeepsIdentity(u)
    BY <1>1, <1>3 DEF ResetBegin, TypeOK, ResetState
  <1>4. ASSUME NEW r \in Resets, ResetStep(r)
        PROVE  KeepsIdentity(u)
    BY <1>4, PhaseKeepsIdentity DEF ResetStep, ResetRuns, ResetRead, ResetWrite, ResetFails,
                                    ResetConfirm
  <1>5. QED  BY <1>2, <1>3, <1>4, TurnKeepsIdentity DEF Next

-----------------------------------------------------------------------------
(* The kinds of steps                                                      *)

(* A step is one of the runtime, of an operation or a restart.             *)
LEMMA StepKinds ==
    ASSUME ResumeTypeOK, [ResumeNext]_resumeVars
    PROVE  \/ RuntimeStep
           \/ \E r \in Resumes : ResumeMoves(r)
           \/ Restart
           \/ UNCHANGED resumeVars
  BY EveryResumeMoves DEF ResumeNext

(* Of the runtime's own steps only one answers, and it is kept.            *)
LEMMA ProviderStep ==
    ASSUME ResumeTypeOK, RuntimeStep
    PROVE  /\ provider' \in Seq(Turns)
           /\ \A i \in DOMAIN provider : i \in DOMAIN provider' /\ provider'[i] = provider[i]
           /\ \A u \in Turns : turn[u].phase = "orchestrating" /\ turn'[u].phase = "answered"
                => \E i \in DOMAIN provider' : provider'[i] = u
  <1> DEFINE Answered(t) == turn[t].phase = "orchestrating" /\ turn'[t].phase = "answered"
             one == CHOOSE t \in Turns : Answered(t)
  <1>1. provider \in Seq(Turns) /\ TypeOK /\ [Next]_vars
    BY DEF ResumeTypeOK, RuntimeStep
  <1>2. ASSUME NEW t \in Turns, NEW u \in Turns, Answered(t), Answered(u)
        PROVE  t = u
    BY <1>1, <1>2, EveryStepProgresses DEF TurnsRest, TurnTakesStep, Rests
  <1>3. CASE \E t \in Turns : Answered(t)
    <2>1. one \in Turns /\ Answered(one)
      BY <1>3, Zenon
    <2>2. provider' = Append(provider, one)
      BY <1>3 DEF RuntimeStep
    <2> HIDE DEF one
    <2>3. /\ provider' \in Seq(Turns)
          /\ \A i \in DOMAIN provider : i \in DOMAIN provider' /\ provider'[i] = provider[i]
          /\ Len(provider) + 1 \in DOMAIN provider' /\ provider'[Len(provider) + 1] = one
      BY <1>1, <2>1, <2>2
    <2>4. QED  BY <1>2, <2>1, <2>3
  <1>4. CASE ~ \E t \in Turns : Answered(t)
    BY <1>1, <1>4 DEF RuntimeStep
  <1>5. QED  BY <1>3, <1>4

(* A restart ends what is in flight and keeps what turns are.              *)
LEMMA RestartEnds ==
    ASSUME ResumeTypeOK, Restart
    PROVE  /\ \A s \in Sessions : sessions'[s] = NoSession
           /\ turn' \in [Turns -> TurnState]
           /\ \A t \in Turns :
                 /\ turn'[t].session = turn[t].session
                 /\ turn'[t].user = turn[t].user
                 /\ turn'[t].conversation = turn[t].conversation
                 /\ turn'[t].phase \in {"idle"} \cup Ended
                 /\ turn'[t].phase = turn[t].phase \/ turn'[t].phase = "unrecorded"
           /\ reset' \in [Resets -> ResetState]
           /\ resume' \in [Resumes -> ResumeState]
           /\ \A r \in Resumes :
                 /\ resume'[r].claims = resume[r].claims
                 /\ resume'[r].history = resume[r].history
                 /\ resume'[r].answer = resume[r].answer
                 /\ resume'[r].phase \in {"idle", "answered", "failed"}
                 /\ resume'[r].phase = "idle" => resume[r].phase = "idle"
                 /\ resume'[r].phase = "answered" => resume[r].phase = "answered"
  <1>1. /\ turn \in [Turns -> TurnState]
        /\ reset \in [Resets -> ResetState]
        /\ resume \in [Resumes -> ResumeState]
    BY DEF ResumeTypeOK, TypeOK
  <1>2. \A s \in Sessions : sessions'[s] = NoSession
    BY DEF Restart
  <1>3. ASSUME NEW t \in Turns
        PROVE  /\ turn'[t] \in TurnState
               /\ turn'[t].session = turn[t].session
               /\ turn'[t].user = turn[t].user
               /\ turn'[t].conversation = turn[t].conversation
               /\ turn'[t].phase \in {"idle"} \cup Ended
               /\ turn'[t].phase = turn[t].phase \/ turn'[t].phase = "unrecorded"
    <2> DEFINE new == [turn[t] EXCEPT !.phase = "unrecorded", !.loaded = Nothing,
                                      !.older = Nothing]
    <2>1. CASE turn[t].phase \in {"idle"} \cup Ended
      BY <1>1, <2>1 DEF Restart
    <2>2. CASE turn[t].phase \notin {"idle"} \cup Ended
      <3>1. turn'[t] = new
        BY <2>2 DEF Restart
      <3>2. new \in TurnState
        BY <1>1, NothingType, ZenonT(30) DEF TurnState, Phases, Ended
      <3>3. /\ new.session = turn[t].session /\ new.user = turn[t].user
            /\ new.conversation = turn[t].conversation
            /\ new.phase = "unrecorded"
        BY <1>1 DEF TurnState
      <3> HIDE DEF new
      <3>4. QED  BY <3>1, <3>2, <3>3 DEF Ended
    <2>3. QED  BY <2>1, <2>2
  <1>4. turn' \in [Turns -> TurnState]
    <2>1. turn' = [t \in Turns |-> turn'[t]]
      BY DEF Restart
    <2>2. QED  BY <1>3, <2>1
  <1>5. ASSUME NEW r \in Resets
        PROVE  reset'[r] \in ResetState
    <2> DEFINE new == [reset[r] EXCEPT !.phase = "rejected"]
    <2>1. reset'[r] = reset[r] \/ reset'[r] = new
      BY DEF Restart
    <2>2. new \in ResetState /\ reset[r] \in ResetState
      BY <1>1 DEF ResetState, ResetPhases
    <2>3. QED  BY <2>1, <2>2
  <1>6. reset' \in [Resets -> ResetState]
    <2>1. reset' = [r \in Resets |-> reset'[r]]
      BY DEF Restart
    <2>2. QED  BY <1>5, <2>1
  <1>7. ASSUME NEW r \in Resumes
        PROVE  /\ resume'[r] \in ResumeState
               /\ resume'[r].claims = resume[r].claims
               /\ resume'[r].history = resume[r].history
               /\ resume'[r].answer = resume[r].answer
               /\ resume'[r].phase \in {"idle", "answered", "failed"}
               /\ resume'[r].phase = "idle" => resume[r].phase = "idle"
               /\ resume'[r].phase = "answered" => resume[r].phase = "answered"
    <2> DEFINE new == [resume[r] EXCEPT !.phase = "failed", !.loaded = Nothing]
    <2>1. CASE resume[r].phase \in {"idle", "answered"}
      BY <1>1, <2>1 DEF Restart
    <2>2. CASE resume[r].phase \notin {"idle", "answered"}
      <3>1. resume'[r] = new
        BY <2>2 DEF Restart
      <3>2. new \in ResumeState
        BY <1>1, NothingType DEF ResumeState, ResumePhases
      <3>3. /\ new.claims = resume[r].claims /\ new.history = resume[r].history
            /\ new.answer = resume[r].answer /\ new.phase = "failed"
        BY <1>1 DEF ResumeState
      <3> HIDE DEF new
      <3>4. QED  BY <3>1, <3>2, <3>3
    <2>3. QED  BY <2>1, <2>2
  <1>8. resume' \in [Resumes -> ResumeState]
    <2>1. resume' = [r \in Resumes |-> resume'[r]]
      BY DEF Restart
    <2>2. QED  BY <1>7, <2>1
  <1>9. QED  BY <1>2, <1>3, <1>4, <1>6, <1>7, <1>8

(* What a restore makes of the sessions.                                   *)
LEMMA RestoreWrites ==
    ASSUME ResumeInv, NEW r \in Resumes, RestoresSession(r)
    PROVE  LET s == resume[r].claims.session
               restored == Restored(resume[r].claims, resume[r].history)
           IN  /\ s \in Sessions /\ sessions[s] = NoSession
               /\ sessions' \in [Sessions -> StoredSession]
               /\ sessions'[s] = restored
               /\ \A x \in Sessions : x # s => sessions'[x] = sessions[x]
               /\ \A x \in Sessions : WellFormed(sessions'[x])
               /\ restored.status = "ACTIVE"
               /\ restored.owner = resume[r].claims.user
               /\ restored.revision = 0
               /\ restored.context = DefaultContext(0)
               /\ restored.messages = resume[r].history
               /\ restored.compacted = {}
               /\ restored.summary = {}
               /\ restored.binding = resume[r].claims.conversation
               /\ restored.completed = {}
  <1> DEFINE c == resume[r].claims
             s == c.session
             restored == Restored(c, resume[r].history)
  <1>1. /\ c \in Claims /\ s \in Sessions
        /\ resume[r].history \in SUBSET Message
        /\ IsFiniteSet(resume[r].history)
    BY DEF ResumeInv, ResumeTypeOK, ResumeState, Claims, ResumesAreSound
  <1>2. sessions \in [Sessions -> StoredSession] /\ \A x \in Sessions : WellFormed(sessions[x])
    BY DEF ResumeInv, ResumeTypeOK, TypeOK
  <1>3. sessions' = [sessions EXCEPT ![s] = restored]
    BY DEF RestoresSession
  <1>4. sessions[s] = NoSession
    BY <1>1, <1>2 DEF RestoresSession, WellFormed
  <1>5. /\ restored \in StoredSession
        /\ WellFormed(restored)
        /\ restored.status = "ACTIVE"
        /\ restored.owner = c.user
        /\ restored.revision = 0
        /\ restored.context = DefaultContext(0)
        /\ restored.messages = resume[r].history
        /\ restored.compacted = {}
        /\ restored.summary = {}
        /\ restored.binding = c.conversation
        /\ restored.completed = {}
    BY <1>1, RestoredWellFormed
  <1> HIDE DEF restored
  <1>6. /\ sessions' \in [Sessions -> StoredSession]
        /\ sessions'[s] = restored
        /\ \A x \in Sessions : x # s => sessions'[x] = sessions[x]
        /\ \A x \in Sessions : WellFormed(sessions'[x])
    BY <1>1, <1>2, <1>3, <1>5
  <1>7. QED  BY <1>1, <1>4, <1>5, <1>6 DEF restored

(* Types after each kind of step.                                          *)
LEMMA ResumeTypeStep ==
    ASSUME ResumeInv, [ResumeNext]_resumeVars
    PROVE  ResumeTypeOK'
  <1>1. ResumeTypeOK /\ TypeOK
    BY DEF ResumeInv, ResumeTypeOK
  <1>2. CASE RuntimeStep
    <2>1. TypeOK'
      BY <1>1, <1>2, TypeOKStep DEF RuntimeStep
    <2>2. provider' \in Seq(Turns)
      BY <1>1, <1>2, ProviderStep
    <2>3. UNCHANGED <<resume, restarts>>
      BY <1>2 DEF RuntimeStep
    <2>4. QED  BY <1>1, <2>1, <2>2, <2>3 DEF ResumeTypeOK
  <1>3. ASSUME NEW r \in Resumes, ResumeMoves(r)
        PROVE  ResumeTypeOK'
    <2>1. /\ sessions' \in [Sessions -> StoredSession]
          /\ \A s \in Sessions : WellFormed(sessions'[s])
      <3>1. CASE RestoresSession(r)
        BY <3>1, RestoreWrites
      <3>2. CASE ResumeProceeds(r)
        BY <1>1, <3>2 DEF ResumeProceeds, TypeOK
      <3>3. QED  BY <1>3, <3>1, <3>2 DEF ResumeMoves
    <2>2. TypeOK'
      BY <1>1, <1>3, <2>1 DEF TypeOK, ResumeMoves
    <2>3. resume' \in [Resumes -> ResumeState] /\ UNCHANGED <<provider, restarts>>
      BY <1>3 DEF ResumeMoves
    <2>4. QED  BY <1>1, <2>2, <2>3 DEF ResumeTypeOK
  <1>4. CASE Restart
    <2>1. /\ \A s \in Sessions : sessions'[s] = NoSession
          /\ sessions' \in [Sessions -> StoredSession]
      BY <1>4, NoSessionWellFormed DEF Restart
    <2>2. \A s \in Sessions : WellFormed(sessions'[s])
      BY <2>1, NoSessionWellFormed
    <2>3. TypeOK'
      <3>1. turn' \in [Turns -> TurnState] /\ reset' \in [Resets -> ResetState]
        BY <1>1, <1>4, RestartEnds
      <3>2. failedTurns' = {}
        BY <1>4 DEF Restart
      <3>3. QED  BY <2>1, <2>2, <3>1, <3>2 DEF TypeOK
    <2>4. resume' \in [Resumes -> ResumeState]
      BY <1>1, <1>4, RestartEnds
    <2>5. provider' = provider /\ restarts' \in 0 .. MaxRestarts
      <3>1. restarts \in 0 .. MaxRestarts
        BY <1>1 DEF ResumeTypeOK
      <3>2. provider' = provider /\ restarts < MaxRestarts /\ restarts' = restarts + 1
        BY <1>4 DEF Restart
      <3>3. QED  BY <3>1, <3>2, MaxRestartsAssumption
    <2>6. QED  BY <1>1, <2>3, <2>4, <2>5 DEF ResumeTypeOK
  <1>5. CASE UNCHANGED resumeVars
    BY <1>1, <1>5 DEF resumeVars, ResumeTypeOK, TypeOK
  <1>6. QED  BY <1>1, <1>2, <1>3, <1>4, <1>5, StepKinds

-----------------------------------------------------------------------------
(* Sessions stay whose they are                                            *)

(* A session that is there stays there, with its owner, while the process  *)
(* runs.                                                                   *)
LEMMA OwnerStays ==
    ASSUME TypeOK, [Next]_vars, NEW s \in Sessions, Exists(sessions[s])
    PROVE  Exists(sessions'[s]) /\ sessions'[s].owner = sessions[s].owner
  <1>1. sessions[s] \in StoredSession
    BY DEF TypeOK
  <1>2. ASSUME NEW t \in Turns, StoresTurn(t)
        PROVE  Exists(sessions'[s]) /\ sessions'[s].owner = sessions[s].owner
    <2>1. CASE s = turn[t].session
      <3>1. sessions[s].owner = turn[t].user
        BY <1>2, <2>1 DEF StoresTurn, StoreTurn, CommitAccepted
      <3>2. sessions'[s].status = "ACTIVE" /\ sessions'[s].owner = turn[t].user
        BY <1>2, <2>1, StoredTurnSession
      <3>3. QED  BY <3>1, <3>2 DEF Exists
    <2>2. CASE s # turn[t].session
      BY <1>2, <2>2, StoredTurnSession
    <2>3. QED  BY <2>1, <2>2
  <1>3. ASSUME NEW t \in Turns, StoresCompaction(t)
        PROVE  Exists(sessions'[s]) /\ sessions'[s].owner = sessions[s].owner
    <2>1. CASE s = turn[t].session
      <3>1. /\ sessions'[s].status = sessions[s].status
            /\ sessions'[s].owner = sessions[s].owner
        BY <1>3, <2>1, StoredCompactionSession
      <3>2. QED  BY <3>1 DEF Exists
    <2>2. CASE s # turn[t].session
      BY <1>3, <2>2, StoredCompactionSession
    <2>3. QED  BY <2>1, <2>2
  <1>4. ASSUME NEW x \in Sessions, StoresReset(x)
        PROVE  Exists(sessions'[s]) /\ sessions'[s].owner = sessions[s].owner
    <2>1. CASE s = x
      <3>1. sessions'[s].status = "RESET" /\ sessions'[s].owner = sessions[s].owner
        BY <1>4, <2>1, StoredResetSession
      <3>2. QED  BY <3>1 DEF Exists
    <2>2. CASE s # x
      BY <1>4, <2>2, StoredResetSession
    <2>3. QED  BY <2>1, <2>2
  <1>5. QED  BY <1>2, <1>3, <1>4, StoreStep

-----------------------------------------------------------------------------
(* Compactions and snapshots                                               *)

(* The compactions stay current, through resumes and restarts too.         *)
LEMMA ResumeCompactionStep ==
    ASSUME ResumeInv, ResumeTypeOK', [ResumeNext]_resumeVars
    PROVE  CompactionInv'
  <1>1. ResumeTypeOK /\ CompactionInv /\ TypeOK /\ TypeOK'
    BY DEF ResumeInv, ResumeTypeOK
  <1>2. CASE RuntimeStep
    <2>1. [Next]_vars
      BY <1>2 DEF RuntimeStep
    <2>2. QED  BY <1>1, <2>1, SummaryStep, CompactionsStep DEF CompactionInv
  <1>3. ASSUME NEW r \in Resumes, ResumeMoves(r), RestoresSession(r)
        PROVE  CompactionInv'
    <2> DEFINE s == resume[r].claims.session
    <2>1. /\ s \in Sessions /\ sessions[s] = NoSession
          /\ \A x \in Sessions : x # s => sessions'[x] = sessions[x]
          /\ sessions'[s].summary = {} /\ sessions'[s].compacted = {}
      BY <1>3, RestoreWrites
    <2>2. SummaryCoversCompacted'
      BY <1>1, <2>1 DEF CompactionInv, SummaryCoversCompacted
    <2>3. turn' = turn
      BY <1>3 DEF ResumeMoves
    <2>4. ASSUME NEW u \in Turns, turn[u].phase = "summarizing"
          PROVE  turn[u].session # s
      <3>1. SUFFICES ASSUME turn[u].session = s PROVE FALSE
        OBVIOUS
      <3> DEFINE older == turn[u].older
      <3>2. /\ turn[u].candidates = Candidates(older)
            /\ turn[u].candidates # {}
            /\ older.revision <= NoSession.revision
            /\ older.revision = NoSession.revision =>
                  \/ /\ older.summary = NoSession.compacted
                     /\ older.messages = NoSession.messages \ NoSession.compacted
                  \/ turn[u].candidates \cap NoSession.compacted # {}
        BY <1>1, <2>1, <2>4, <3>1 DEF CompactionInv, CompactionsAreCurrent
      <3>3. NoSession.revision = 0 /\ NoSession.messages = {} /\ NoSession.compacted = {}
        BY DEF NoSession
      <3>4. older.revision \in Nat
        BY <1>1 DEF TypeOK, TurnState, Aggregate
      <3>5. older.messages = {}
        BY <3>2, <3>3, <3>4
      <3>6. Candidates(older) = {}
        BY <3>5 DEF Candidates
      <3>7. QED  BY <3>2, <3>6
    <2>5. CompactionsAreCurrent'
      <3>1. SUFFICES ASSUME NEW u \in Turns, turn[u].phase = "summarizing"
                     PROVE  LET stored == sessions'[turn[u].session]
                                older  == turn[u].older
                            IN  /\ turn[u].candidates = Candidates(older)
                                /\ turn[u].candidates # {}
                                /\ older.revision <= stored.revision
                                /\ older.revision = stored.revision =>
                                      \/ /\ older.summary = stored.compacted
                                         /\ older.messages =
                                                stored.messages \ stored.compacted
                                      \/ turn[u].candidates \cap stored.compacted # {}
        BY <2>3 DEF CompactionsAreCurrent, Candidates
      <3>2. turn[u].session \in Sessions /\ turn[u].session # s
        BY <1>1, <2>4, <3>1 DEF TypeOK, TurnState
      <3>3. sessions'[turn[u].session] = sessions[turn[u].session]
        BY <2>1, <3>2
      <3>4. QED  BY <1>1, <3>1, <3>3 DEF CompactionInv, CompactionsAreCurrent
    <2>6. QED  BY <1>1, <2>2, <2>5 DEF CompactionInv
  <1>4. ASSUME UNCHANGED <<sessions, turn>>
        PROVE  CompactionInv'
    BY <1>1, <1>4 DEF CompactionInv, SummaryCoversCompacted, CompactionsAreCurrent, Candidates
  <1>5. ASSUME NEW r \in Resumes, ResumeMoves(r)
        PROVE  CompactionInv'
    BY <1>3, <1>4, <1>5 DEF ResumeMoves, ResumeProceeds
  <1>6. CASE Restart
    <2>1. /\ \A s \in Sessions : sessions'[s] = NoSession
          /\ \A t \in Turns : turn'[t].phase \in {"idle"} \cup Ended
      BY <1>1, <1>6, RestartEnds
    <2>2. SummaryCoversCompacted'
      <3>1. NoSession.summary = NoSession.compacted
        BY DEF NoSession
      <3>2. QED  BY <2>1, <3>1 DEF SummaryCoversCompacted
    <2>3. CompactionsAreCurrent'
      BY <2>1 DEF CompactionsAreCurrent, Ended
    <2>4. QED  BY <1>1, <2>2, <2>3 DEF CompactionInv
  <1>7. CASE UNCHANGED resumeVars
    BY <1>4, <1>7 DEF resumeVars
  <1>8. QED  BY <1>1, <1>2, <1>5, <1>6, <1>7, StepKinds

(* While a session advances, what was current or restored stays so.        *)
LEMMA CurrentStays ==
    ASSUME NEW loaded \in Aggregate, NEW old \in StoredSession, NEW new \in StoredSession,
           Advances(old, new), CurrentOrRestored(loaded, old)
    PROVE  CurrentOrRestored(loaded, new)
  <1>1. loaded.revision \in Nat /\ old.revision \in Nat /\ new.revision \in Nat
    BY DEF Aggregate, StoredSession
  <1>2. loaded.revision <= old.revision /\ old.revision <= new.revision
    BY <1>1 DEF Advances, CurrentOrRestored
  <1>3. ASSUME loaded.revision = new.revision
        PROVE  \/ SameView(loaded, new)
               \/ ~Exists(loaded) /\ new.revision = 0 /\ new.completed = {}
    <2>1. loaded.revision = old.revision /\ ~(new.revision > old.revision)
      BY <1>1, <1>2, <1>3
    <2>2. QED  BY <2>1 DEF Advances, CurrentOrRestored, SameView
  <1>4. QED  BY <1>1, <1>2, <1>3 DEF CurrentOrRestored

(* The snapshots of the turns hold, through resumes and restarts too.      *)
LEMMA SnapshotsHoldStep ==
    ASSUME ResumeInv, ResumeTypeOK', [ResumeNext]_resumeVars
    PROVE  SnapshotsHold'
  <1>1. /\ ResumeTypeOK /\ CompactionInv /\ TypeOK /\ SnapshotsHold
        /\ TypeOK' /\ SummaryCoversCompacted
    BY DEF ResumeInv, ResumeTypeOK, CompactionInv
  <1>2. SUFFICES ASSUME NEW u \in Turns, turn'[u].phase \in HoldsSnapshot
                 PROVE  CurrentOrRestored(turn'[u].loaded, sessions'[turn'[u].session])
    BY DEF SnapshotsHold, CurrentOrRestored, SameView, Exists
  <1> DEFINE s == turn[u].session
  <1>3. /\ s \in Sessions
        /\ turn[u].loaded \in Aggregate
        /\ sessions[s] \in StoredSession /\ sessions'[s] \in StoredSession
    BY <1>1 DEF TypeOK, TurnState
  <1>4. turn[u].phase \in HoldsSnapshot => CurrentOrRestored(turn[u].loaded, sessions[s])
    BY <1>1 DEF SnapshotsHold
  <1>5. CASE RuntimeStep
    <2>1. [Next]_vars
      BY <1>5 DEF RuntimeStep
    <2>2. turn'[u].session = s /\ (KeepsSnapshot(u) \/ TakesSnapshot(u))
      BY <1>1, <2>1, EveryStepMoves DEF Moves
    <2>3. CASE KeepsSnapshot(u)
      <3>1. Advances(sessions[s], sessions'[s])
        BY <1>1, <1>3, <2>1, StoreAdvances
      <3>2. turn[u].phase \in HoldsSnapshot /\ turn'[u].loaded = turn[u].loaded
        BY <1>2, <2>3 DEF KeepsSnapshot
      <3>3. QED  BY <1>3, <1>4, <2>2, <3>1, <3>2, CurrentStays
    <2>4. CASE TakesSnapshot(u)
      <3> DEFINE stored == sessions[s]
      <3>1. /\ sessions' = sessions
            /\ turn'[u].loaded = AggregateOf(stored)
            /\ stored.context.revision = stored.revision
        BY <2>4 DEF TakesSnapshot
      <3>2. SameView(AggregateOf(stored), stored)
        BY <1>1, <1>3, LoadedView
      <3>3. /\ AggregateOf(stored).revision = stored.revision
            /\ AggregateOf(stored).context = stored.context
            /\ stored.revision <= stored.revision
        BY <1>3 DEF AggregateOf, StoredSession
      <3>4. QED  BY <2>2, <3>1, <3>2, <3>3 DEF CurrentOrRestored
    <2>5. QED  BY <2>2, <2>3, <2>4
  <1>6. ASSUME NEW r \in Resumes, ResumeMoves(r), RestoresSession(r)
        PROVE  CurrentOrRestored(turn'[u].loaded, sessions'[turn'[u].session])
    <2>1. turn' = turn
      BY <1>6 DEF ResumeMoves
    <2>2. CASE s = resume[r].claims.session
      <3>1. /\ sessions[s] = NoSession
            /\ sessions'[s].revision = 0 /\ sessions'[s].completed = {}
        BY <1>6, <2>2, RestoreWrites
      <3>2. CurrentOrRestored(turn[u].loaded, NoSession)
        BY <1>2, <1>4, <2>1, <3>1
      <3>3. /\ turn[u].loaded.context.revision = turn[u].loaded.revision
            /\ turn[u].loaded.revision <= 0
            /\ turn[u].loaded.revision \in Nat
            /\ turn[u].loaded.revision = 0 =>
                  SameView(turn[u].loaded, NoSession) \/ ~Exists(turn[u].loaded)
        BY <1>3, <3>2 DEF CurrentOrRestored, NoSession, Aggregate
      <3>4. ~Exists(turn[u].loaded)
        BY <3>3 DEF SameView, Exists, NoSession
      <3>5. QED  BY <2>1, <3>1, <3>3, <3>4 DEF CurrentOrRestored
    <2>3. CASE s # resume[r].claims.session
      <3>1. sessions'[s] = sessions[s]
        BY <1>3, <1>6, <2>3, RestoreWrites
      <3>2. QED  BY <1>2, <1>4, <2>1, <3>1
    <2>4. QED  BY <2>2, <2>3
  <1>7. CASE UNCHANGED <<sessions, turn>>
    BY <1>2, <1>4, <1>7
  <1>8. ASSUME NEW r \in Resumes, ResumeMoves(r)
        PROVE  CurrentOrRestored(turn'[u].loaded, sessions'[turn'[u].session])
    BY <1>6, <1>7, <1>8 DEF ResumeMoves, ResumeProceeds
  <1>9. CASE Restart
    <2>1. turn'[u].phase \in {"idle"} \cup Ended
      BY <1>1, <1>9, RestartEnds
    <2>2. QED  BY <1>2, <2>1 DEF HoldsSnapshot, Ended
  <1>10. CASE UNCHANGED resumeVars
    BY <1>7, <1>10 DEF resumeVars
  <1>11. QED  BY <1>1, <1>5, <1>8, <1>9, <1>10, StepKinds

-----------------------------------------------------------------------------
(* Whose conversations, messages and tokens are                            *)

(* What BelongsTo says after the step.                                     *)
WillBelong(k, s, u) ==
    /\ \E t \in Turns : turn'[t].conversation = k
    /\ \A t \in Turns : turn'[t].conversation = k => turn'[t].session = s /\ turn'[t].user = u

(* A conversation that belongs to a session and a user goes on to.         *)
LEMMA BelongingStays ==
    ASSUME ConversationsBelong, \A t \in Turns : KeepsIdentity(t),
           NEW k, k # NoConversation, NEW s, NEW u, BelongsTo(k, s, u)
    PROVE  WillBelong(k, s, u)
  <1>1. PICK t0 \in Turns : turn[t0].conversation = k
    BY DEF BelongsTo
  <1>2. turn[t0].session = s /\ turn[t0].user = u
    BY <1>1 DEF BelongsTo
  <1>3. turn'[t0].conversation = k
    <2>1. turn[t0].phase \notin Unanswered
      BY <1>1 DEF ConversationsBelong
    <2>2. ~Answers(t0)
      BY <2>1 DEF Answers, Unanswered
    <2>3. QED  BY <1>1, <2>2 DEF KeepsIdentity
  <1>4. ASSUME NEW t \in Turns, turn'[t].conversation = k
        PROVE  turn'[t].session = s /\ turn'[t].user = u
    <2>1. turn'[t].session = turn[t].session /\ turn'[t].user = turn[t].user
      BY DEF KeepsIdentity
    <2>2. CASE turn[t].conversation = k
      BY <2>1, <2>2 DEF BelongsTo
    <2>3. CASE turn[t].conversation # k
      <3>1. Answers(t)
        BY <1>4, <2>3 DEF KeepsIdentity
      <3>2. k = turn[t].loaded.binding
        BY <1>1, <1>4, <3>1 DEF Answers
      <3>3. BelongsTo(k, turn[t].session, turn[t].user)
        BY <3>1, <3>2 DEF Answers, HoldsSnapshot, ConversationsBelong
      <3>4. turn[t0].session = turn[t].session /\ turn[t0].user = turn[t].user
        BY <1>1, <3>3 DEF BelongsTo
      <3>5. QED  BY <1>2, <2>1, <3>4
    <2>4. QED  BY <2>2, <2>3
  <1>5. QED  BY <1>3, <1>4 DEF WillBelong

(* The answer of a turn names a conversation of its own session.           *)
LEMMA AnswerBelongs ==
    ASSUME TypeOK, ConversationsBelong, Next, NEW t \in Turns,
           turn'[t].conversation # NoConversation
    PROVE  WillBelong(turn'[t].conversation, turn[t].session, turn[t].user)
  <1> DEFINE k == turn'[t].conversation
  <1>1. \A u \in Turns : KeepsIdentity(u)
    BY EveryStepKeepsIdentity
  <1>2. CASE turn[t].conversation = k
    <2>1. BelongsTo(k, turn[t].session, turn[t].user)
      BY <1>2 DEF ConversationsBelong
    <2> HIDE DEF k
    <2>2. k # NoConversation
      BY DEF k
    <2>3. QED  BY <1>1, <2>1, <2>2, BelongingStays DEF k
  <1>3. CASE turn[t].conversation # k /\ k = turn[t].loaded.binding
    <2>1. Answers(t)
      BY <1>1, <1>3 DEF KeepsIdentity
    <2>2. BelongsTo(k, turn[t].session, turn[t].user)
      BY <1>3, <2>1 DEF Answers, HoldsSnapshot, ConversationsBelong
    <2> HIDE DEF k
    <2>3. k # NoConversation
      BY DEF k
    <2>4. QED  BY <1>1, <2>2, <2>3, BelongingStays DEF k
  <1>4. CASE turn[t].conversation # k /\ \A u \in Turns : turn[u].conversation # k
    <2>1. Answers(t)
      BY <1>1, <1>4 DEF KeepsIdentity
    <2>2. ASSUME NEW u \in Turns, turn'[u].conversation = k
          PROVE  u = t
      <3>1. Answers(u)
        BY <1>1, <1>4, <2>2 DEF KeepsIdentity
      <3>2. [Next]_vars
        OBVIOUS
      <3>3. QED  BY <2>1, <3>1, <3>2, EveryStepProgresses
                 DEF Answers, TurnsRest, TurnTakesStep, Rests
    <2>3. turn'[t].session = turn[t].session /\ turn'[t].user = turn[t].user
      BY <1>1 DEF KeepsIdentity
    <2>4. QED  BY <2>2, <2>3 DEF WillBelong
  <1>5. QED  BY <1>1, <1>2, <1>3, <1>4 DEF KeepsIdentity, Answers

(* A session's binding belongs to it after a step of the runtime.          *)
LEMMA BindingBelongs ==
    ASSUME TypeOK, ConversationsBelong, Next, NEW s \in Sessions,
           sessions'[s].binding # NoConversation
    PROVE  WillBelong(sessions'[s].binding, s, sessions'[s].owner)
  <1>1. \A u \in Turns : KeepsIdentity(u)
    BY EveryStepKeepsIdentity
  <1>2. [Next]_vars
    OBVIOUS
  <1> DEFINE k == sessions'[s].binding
             u == sessions'[s].owner
  <1>3. ASSUME k = sessions[s].binding, u = sessions[s].owner
        PROVE  WillBelong(k, s, u)
    <2>1. BelongsTo(k, s, u) /\ k # NoConversation
      BY <1>3 DEF ConversationsBelong
    <2> HIDE DEF k, u
    <2>2. QED  BY <1>1, <2>1, BelongingStays
  <1>4. ASSUME NEW t \in Turns, StoresTurn(t)
        PROVE  WillBelong(k, s, u)
    <2>1. CASE s # turn[t].session
      BY <1>3, <1>4, <2>1, StoredTurnSession
    <2>2. CASE s = turn[t].session
      <3>1. /\ u = turn[t].user
            /\ k = IF turn[t].conversation = NoConversation
                     THEN sessions[s].binding ELSE turn[t].conversation
        BY <1>4, <2>2, StoredTurnSession
      <3>2. CASE turn[t].conversation # NoConversation
        <4>1. BelongsTo(k, s, u) /\ k # NoConversation
          BY <2>2, <3>1, <3>2 DEF ConversationsBelong
        <4> HIDE DEF k, u
        <4>2. QED  BY <1>1, <4>1, BelongingStays
      <3>3. CASE turn[t].conversation = NoConversation
        <4>1. k = sessions[s].binding
          BY <3>1, <3>3
        <4>2. Exists(sessions[s])
          BY <4>1 DEF TypeOK, WellFormed, NoSession
        <4>3. sessions[s].owner = turn[t].user
          BY <1>4, <2>2, <4>2 DEF StoresTurn, StoreTurn, CommitAccepted
        <4>4. QED  BY <1>3, <3>1, <4>1, <4>3
      <3>4. QED  BY <3>2, <3>3
    <2>3. QED  BY <2>1, <2>2
  <1>5. ASSUME NEW t \in Turns, StoresCompaction(t)
        PROVE  WillBelong(k, s, u)
    <2>1. k = sessions[s].binding /\ u = sessions[s].owner
      <3>1. CASE s = turn[t].session
        BY <1>5, <3>1, StoredCompactionSession
      <3>2. CASE s # turn[t].session
        BY <1>5, <3>2, StoredCompactionSession
      <3>3. QED  BY <3>1, <3>2
    <2>2. QED  BY <1>3, <2>1
  <1>6. ASSUME NEW x \in Sessions, StoresReset(x)
        PROVE  WillBelong(k, s, u)
    <2>1. CASE s = x
      BY <1>6, <2>1, StoredResetSession
    <2>2. CASE s # x
      BY <1>3, <1>6, <2>2, StoredResetSession
    <2>3. QED  BY <2>1, <2>2
  <1>7. QED  BY <1>2, <1>3, <1>4, <1>5, <1>6, StoreStep

(* The parts of ConversationsBelong, after the step.                       *)
WillAllBelong ==
    /\ \A t \in Turns :
          /\ turn'[t].phase \in Unanswered => turn'[t].conversation = NoConversation
          /\ turn'[t].conversation # NoConversation =>
                WillBelong(turn'[t].conversation, turn'[t].session, turn'[t].user)
          /\ turn'[t].phase \in HoldsSnapshot /\ turn'[t].loaded.binding # NoConversation =>
                WillBelong(turn'[t].loaded.binding, turn'[t].session, turn'[t].user)
    /\ \A s \in Sessions : sessions'[s].binding # NoConversation =>
          WillBelong(sessions'[s].binding, s, sessions'[s].owner)

(* Conversations stay whose they are, through resumes and restarts too.    *)
LEMMA ConversationsStep ==
    ASSUME ResumeInv, [ResumeNext]_resumeVars
    PROVE  ConversationsBelong'
  <1>1. ResumeTypeOK /\ TypeOK /\ ConversationsBelong /\ ClaimsBelong
    BY DEF ResumeInv, ResumeTypeOK
  <1>2. SUFFICES WillAllBelong
    BY DEF WillAllBelong, WillBelong, ConversationsBelong, BelongsTo
  <1>3. CASE RuntimeStep
    <2>1. Next /\ [Next]_vars
      BY <1>3 DEF RuntimeStep
    <2>2. \A t \in Turns : KeepsIdentity(t)
      BY <1>1, <2>1, EveryStepKeepsIdentity
    <2>3. ASSUME NEW t \in Turns, turn'[t].phase \in Unanswered
          PROVE  turn'[t].conversation = NoConversation
      <3>1. ~Answers(t)
        BY <2>3 DEF Answers, Unanswered
      <3>2. QED  BY <1>1, <2>2, <2>3, <3>1 DEF KeepsIdentity, ConversationsBelong
    <2>4. ASSUME NEW t \in Turns, turn'[t].conversation # NoConversation
          PROVE  WillBelong(turn'[t].conversation, turn'[t].session, turn'[t].user)
      <3>1. turn'[t].session = turn[t].session /\ turn'[t].user = turn[t].user
        BY <2>2 DEF KeepsIdentity
      <3>2. QED  BY <1>1, <2>1, <2>4, <3>1, AnswerBelongs
    <2>5. ASSUME NEW t \in Turns, turn'[t].phase \in HoldsSnapshot,
                 turn'[t].loaded.binding # NoConversation
          PROVE  WillBelong(turn'[t].loaded.binding, turn'[t].session, turn'[t].user)
      <3> DEFINE k == turn'[t].loaded.binding
                 s == turn[t].session
                 u == turn[t].user
      <3>1. turn'[t].session = s /\ turn'[t].user = u /\ s \in Sessions
        BY <1>1, <2>2 DEF KeepsIdentity, TypeOK, TurnState
      <3>2. BelongsTo(k, s, u)
        <4>1. CASE KeepsSnapshot(t)
          BY <1>1, <2>5, <4>1 DEF KeepsSnapshot, ConversationsBelong
        <4>2. CASE TakesSnapshot(t)
          <5>1. k = sessions[s].binding
            BY <4>2 DEF TakesSnapshot, AggregateOf
          <5>2. Exists(sessions[s])
            BY <1>1, <2>5, <3>1, <5>1 DEF TypeOK, WellFormed, NoSession
          <5>3. sessions[s].owner = u
            BY <4>2, <5>2 DEF TakesSnapshot
          <5>4. QED  BY <1>1, <2>5, <3>1, <5>1, <5>3 DEF ConversationsBelong
        <4>3. QED  BY <1>1, <2>1, <4>1, <4>2, EveryStepMoves DEF Moves
      <3>3. k # NoConversation
        BY <2>5
      <3> HIDE DEF k, s, u
      <3>4. WillBelong(k, s, u)
        BY <1>1, <2>2, <3>2, <3>3, BelongingStays
      <3>5. QED  BY <3>1, <3>4 DEF k
    <2>6. \A s \in Sessions : sessions'[s].binding # NoConversation =>
            WillBelong(sessions'[s].binding, s, sessions'[s].owner)
      BY <1>1, <2>1, BindingBelongs
    <2>7. QED  BY <2>3, <2>4, <2>5, <2>6 DEF WillAllBelong
  <1>4. ASSUME \A t \in Turns :
                  /\ turn'[t].session = turn[t].session
                  /\ turn'[t].user = turn[t].user
                  /\ turn'[t].conversation = turn[t].conversation,
               NEW k, NEW s, NEW u, BelongsTo(k, s, u)
        PROVE  WillBelong(k, s, u)
    BY <1>4 DEF BelongsTo, WillBelong
  <1>5. ASSUME NEW r \in Resumes, ResumeMoves(r), RestoresSession(r)
        PROVE  WillAllBelong
    <2>1. turn' = turn
      BY <1>5 DEF ResumeMoves
    <2>2. ASSUME NEW s \in Sessions, sessions'[s].binding # NoConversation
          PROVE  BelongsTo(sessions'[s].binding, s, sessions'[s].owner)
      <3>1. CASE s = resume[r].claims.session
        <4>1. /\ sessions'[s].binding = resume[r].claims.conversation
              /\ sessions'[s].owner = resume[r].claims.user
          BY <1>5, <3>1, RestoreWrites
        <4>2. resume[r].phase # "idle"
          BY <1>5 DEF RestoresSession
        <4>3. QED  BY <1>1, <3>1, <4>1, <4>2 DEF ClaimsBelong
      <3>2. CASE s # resume[r].claims.session
        <4>1. sessions'[s] = sessions[s]
          BY <1>5, <3>2, RestoreWrites
        <4>2. QED  BY <1>1, <2>2, <4>1 DEF ConversationsBelong
      <3>3. QED  BY <3>1, <3>2
    <2>3. QED  BY <1>1, <1>4, <2>1, <2>2 DEF ConversationsBelong, WillAllBelong
  <1>6. CASE UNCHANGED <<sessions, turn>>
    BY <1>1, <1>4, <1>6 DEF ConversationsBelong, WillAllBelong
  <1>7. ASSUME NEW r \in Resumes, ResumeMoves(r)
        PROVE  WillAllBelong
    BY <1>5, <1>6, <1>7 DEF ResumeMoves, ResumeProceeds
  <1>8. CASE Restart
    <2>1. /\ \A s \in Sessions : sessions'[s].binding = NoConversation
          /\ \A t \in Turns :
                /\ turn'[t].session = turn[t].session
                /\ turn'[t].user = turn[t].user
                /\ turn'[t].conversation = turn[t].conversation
                /\ turn'[t].phase \in {"idle"} \cup Ended
                /\ turn'[t].phase = turn[t].phase \/ turn'[t].phase = "unrecorded"
      BY <1>1, <1>8, RestartEnds DEF NoSession
    <2>2. \A t \in Turns : turn'[t].phase \notin HoldsSnapshot
      BY <2>1 DEF HoldsSnapshot, Ended
    <2>3. \A t \in Turns : turn'[t].phase \in Unanswered => turn'[t].phase = turn[t].phase
      BY <2>1 DEF Unanswered
    <2>4. QED  BY <1>1, <1>4, <2>1, <2>2, <2>3 DEF ConversationsBelong, WillAllBelong
  <1>9. CASE UNCHANGED resumeVars
    BY <1>6, <1>9 DEF resumeVars
  <1>10. QED  BY <1>1, <1>3, <1>7, <1>8, <1>9, StepKinds

(* So do the tokens that operations present.                               *)
LEMMA ClaimsStep ==
    ASSUME ResumeInv, [ResumeNext]_resumeVars
    PROVE  ClaimsBelong'
  <1>1. ResumeTypeOK /\ TypeOK /\ ConversationsBelong /\ ClaimsBelong
    BY DEF ResumeInv, ResumeTypeOK
  <1>2. SUFFICES ASSUME NEW r \in Resumes, resume'[r].phase # "idle"
                 PROVE  WillBelong(resume'[r].claims.conversation, resume'[r].claims.session,
                                   resume'[r].claims.user)
    BY DEF ClaimsBelong, BelongsTo, WillBelong
  <1> DEFINE c == resume[r].claims
  <1>3. resume[r].phase # "idle" => BelongsTo(c.conversation, c.session, c.user)
    BY <1>1 DEF ClaimsBelong
  <1>4. c.conversation # NoConversation
    BY <1>1, NoConversationAssumption DEF ResumeTypeOK, ResumeState, Claims
  <1>5. CASE RuntimeStep
    <2>1. resume' = resume /\ \A t \in Turns : KeepsIdentity(t)
      BY <1>1, <1>5, EveryStepKeepsIdentity DEF RuntimeStep
    <2>2. QED  BY <1>1, <1>2, <1>3, <1>4, <2>1, BelongingStays
  <1>6. ASSUME \A t \in Turns :
                  /\ turn'[t].session = turn[t].session
                  /\ turn'[t].user = turn[t].user
                  /\ turn'[t].conversation = turn[t].conversation,
               NEW k, NEW s, NEW u, BelongsTo(k, s, u)
        PROVE  WillBelong(k, s, u)
    BY <1>6 DEF BelongsTo, WillBelong
  <1>7. ASSUME NEW x \in Resumes, ResumeMoves(x)
        PROVE  WillBelong(resume'[r].claims.conversation, resume'[r].claims.session,
                          resume'[r].claims.user)
    <2>1. turn' = turn
      BY <1>7 DEF ResumeMoves
    <2>2. CASE resume[r].phase = "idle"
      <3>1. x = r
        BY <1>2, <1>7, <2>2 DEF ResumeMoves
      <3>2. resume'[r].claims \in Tokens
        BY <1>7, <2>2, <3>1 DEF ResumeMoves, RestoresSession, ResumeProceeds
      <3>3. \E t \in Turns : /\ turn[t].conversation # NoConversation
                             /\ resume'[r].claims = [session |-> turn[t].session,
                                                     user |-> turn[t].user,
                                                     conversation |-> turn[t].conversation]
        BY <3>2 DEF Tokens
      <3>4. PICK t \in Turns : /\ turn[t].conversation # NoConversation
                               /\ resume'[r].claims = [session |-> turn[t].session,
                                                       user |-> turn[t].user,
                                                       conversation |-> turn[t].conversation]
        BY <3>3
      <3>5. BelongsTo(turn[t].conversation, turn[t].session, turn[t].user)
        BY <1>1, <3>4 DEF ConversationsBelong
      <3>6. QED  BY <1>6, <2>1, <3>4, <3>5
    <2>3. CASE resume[r].phase # "idle"
      <3>1. resume'[r].claims = c
        <4>1. CASE x # r
          BY <1>7, <4>1 DEF ResumeMoves
        <4>2. CASE x = r /\ RestoresSession(r)
          BY <1>1, <4>2 DEF RestoresSession, ResumeTypeOK, ResumeState
        <4>3. CASE x = r /\ ResumeProceeds(r)
          BY <2>3, <4>3 DEF ResumeProceeds
        <4>4. QED  BY <1>7, <4>1, <4>2, <4>3 DEF ResumeMoves
      <3>2. QED  BY <1>3, <1>6, <2>1, <2>3, <3>1
    <2>4. QED  BY <2>2, <2>3
  <1>8. CASE Restart
    <2>1. /\ resume'[r].claims = c
          /\ resume[r].phase # "idle"
          /\ \A t \in Turns : /\ turn'[t].session = turn[t].session
                              /\ turn'[t].user = turn[t].user
                              /\ turn'[t].conversation = turn[t].conversation
      <3>1. resume'[r].claims = c
        BY <1>1, <1>8, RestartEnds
      <3>2. resume[r].phase # "idle"
        BY <1>2, <1>8 DEF Restart
      <3>3. QED  BY <1>1, <1>8, <3>1, <3>2, RestartEnds
    <2>2. QED  BY <1>3, <1>6, <2>1
  <1>9. CASE UNCHANGED resumeVars
    BY <1>2, <1>3, <1>6, <1>9 DEF resumeVars
  <1>10. QED  BY <1>1, <1>5, <1>7, <1>8, <1>9, StepKinds

(* A session's messages are its owner's, through resumes and restarts too. *)
LEMMA MessagesStep ==
    ASSUME ResumeInv, [ResumeNext]_resumeVars
    PROVE  MessagesBelong'
  <1>1. ResumeTypeOK /\ TypeOK /\ MessagesBelong /\ ResumesAreSound
    BY DEF ResumeInv, ResumeTypeOK
  <1>2. SUFFICES ASSUME NEW s \in Sessions, NEW m \in sessions'[s].messages
                 PROVE  turn'[m.turn].user = sessions'[s].owner
    BY DEF MessagesBelong
  <1> DEFINE old == sessions[s]
             new == sessions'[s]
  <1>3. /\ old \in StoredSession
        /\ \A k \in old.messages : k.turn \in Turns /\ turn[k.turn].user = old.owner
    BY <1>1 DEF TypeOK, StoredSession, Message, MessagesBelong
  <1>4. CASE RuntimeStep
    <2>1. Next /\ [Next]_vars
      BY <1>4 DEF RuntimeStep
    <2>2. \A t \in Turns : turn'[t].user = turn[t].user
      BY <1>1, <2>1, EveryStepKeepsIdentity DEF KeepsIdentity
    <2>3. CASE new.messages = old.messages /\ new.owner = old.owner
      BY <1>2, <1>3, <2>2, <2>3
    <2>4. ASSUME NEW t \in Turns, StoresTurn(t)
          PROVE  turn'[m.turn].user = new.owner
      <3>1. CASE s # turn[t].session
        <4>1. new = old
          BY <1>1, <2>4, <3>1, StoredTurnSession
        <4>2. QED  BY <2>3, <4>1
      <3>2. CASE s = turn[t].session
        <4> DEFINE added == TurnMessages(t, Cardinality(old.messages))
        <4>1. new.messages = old.messages \cup added /\ new.owner = turn[t].user
          BY <1>1, <2>4, <3>2, StoredTurnSession
        <4>2. CASE m \in added
          <5>1. m.turn = t
            BY <4>2 DEF TurnMessages
          <5>2. QED  BY <2>2, <4>1, <5>1
        <4>3. CASE m \in old.messages
          <5>1. Exists(old)
            BY <1>1, <4>3 DEF TypeOK, WellFormed, NoSession
          <5>2. old.owner = turn[t].user
            BY <2>4, <3>2, <5>1 DEF StoresTurn, StoreTurn, CommitAccepted
          <5>3. QED  BY <1>3, <2>2, <4>1, <4>3, <5>2
        <4>4. QED  BY <1>2, <4>1, <4>2, <4>3
      <3>3. QED  BY <3>1, <3>2
    <2>5. ASSUME NEW t \in Turns, StoresCompaction(t)
          PROVE  turn'[m.turn].user = new.owner
      <3>1. new.messages = old.messages /\ new.owner = old.owner
        <4>1. CASE s = turn[t].session
          BY <1>1, <2>5, <4>1, StoredCompactionSession
        <4>2. CASE s # turn[t].session
          BY <1>1, <2>5, <4>2, StoredCompactionSession
        <4>3. QED  BY <4>1, <4>2
      <3>2. QED  BY <2>3, <3>1
    <2>6. ASSUME NEW x \in Sessions, StoresReset(x)
          PROVE  turn'[m.turn].user = new.owner
      <3>1. CASE s = x
        BY <1>1, <1>2, <2>6, <3>1, StoredResetSession
      <3>2. CASE s # x
        BY <1>1, <2>3, <2>6, <3>2, StoredResetSession
      <3>3. QED  BY <3>1, <3>2
    <2>7. QED  BY <1>1, <2>1, <2>3, <2>4, <2>5, <2>6, StoreStep
  <1>5. ASSUME NEW r \in Resumes, ResumeMoves(r), RestoresSession(r)
        PROVE  turn'[m.turn].user = new.owner
    <2>1. turn' = turn
      BY <1>5 DEF ResumeMoves
    <2>2. CASE s = resume[r].claims.session
      <3>1. new.messages = resume[r].history /\ new.owner = resume[r].claims.user
        BY <1>5, <2>2, RestoreWrites
      <3>2. QED  BY <1>1, <1>2, <2>1, <3>1 DEF ResumesAreSound
    <2>3. CASE s # resume[r].claims.session
      <3>1. new = old
        BY <1>5, <2>3, RestoreWrites
      <3>2. QED  BY <1>2, <1>3, <2>1, <3>1
    <2>4. QED  BY <2>2, <2>3
  <1>6. CASE UNCHANGED <<sessions, turn>>
    BY <1>2, <1>3, <1>6
  <1>7. ASSUME NEW r \in Resumes, ResumeMoves(r)
        PROVE  turn'[m.turn].user = new.owner
    BY <1>5, <1>6, <1>7 DEF ResumeMoves, ResumeProceeds
  <1>8. CASE Restart
    <2>1. new.messages = {}
      BY <1>1, <1>8, RestartEnds DEF NoSession
    <2>2. QED  BY <1>2, <2>1
  <1>9. CASE UNCHANGED resumeVars
    BY <1>6, <1>9 DEF resumeVars
  <1>10. QED  BY <1>1, <1>4, <1>7, <1>8, <1>9, StepKinds

(* The provider forgets no answer, through resumes and restarts too.       *)
LEMMA AnswersKeptStep ==
    ASSUME ResumeInv, [ResumeNext]_resumeVars
    PROVE  AnswersAreKept'
  <1> DEFINE Later == {"answered", "committing", "committed", "completed"}
  <1>1. ResumeTypeOK /\ TypeOK /\ AnswersAreKept
    BY DEF ResumeInv, ResumeTypeOK
  <1>2. SUFFICES ASSUME NEW t \in Turns, turn'[t].phase \in Later
                 PROVE  \E i \in DOMAIN provider' : provider'[i] = t
    BY DEF AnswersAreKept
  <1>3. turn[t].phase \in Later => \E i \in DOMAIN provider : provider[i] = t
    BY <1>1 DEF AnswersAreKept
  <1>4. CASE RuntimeStep
    <2>1. [Next]_vars
      BY <1>4 DEF RuntimeStep
    <2>2. \/ turn[t].phase \in Later
          \/ turn[t].phase = "orchestrating" /\ turn'[t].phase = "answered"
      <3>1. CASE Rests(t)
        BY <1>2, <3>1 DEF Rests
      <3>2. CASE Progresses(t)
        BY <1>2, <3>2 DEF Progresses, StoresTurn
      <3>3. QED  BY <1>1, <2>1, <3>1, <3>2, EveryStepProgresses DEF TurnsRest, TurnTakesStep
    <2>3. QED  BY <1>1, <1>3, <1>4, <2>2, ProviderStep
  <1>5. CASE UNCHANGED <<turn, provider>>
    BY <1>2, <1>3, <1>5
  <1>6. ASSUME NEW r \in Resumes, ResumeMoves(r)
        PROVE  \E i \in DOMAIN provider' : provider'[i] = t
    BY <1>5, <1>6 DEF ResumeMoves
  <1>7. CASE Restart
    <2>1. turn'[t].phase = turn[t].phase \/ turn'[t].phase = "unrecorded"
      BY <1>1, <1>7, RestartEnds
    <2>2. provider' = provider
      BY <1>7 DEF Restart
    <2>3. QED  BY <1>2, <1>3, <2>1, <2>2
  <1>8. CASE UNCHANGED resumeVars
    BY <1>5, <1>8 DEF resumeVars
  <1>9. QED  BY <1>1, <1>4, <1>6, <1>7, <1>8, StepKinds

-----------------------------------------------------------------------------
(* The operations                                                          *)

(* What ResumesAreSound says of one operation and its session.             *)
Sound(claims, phase, history, answer, stored) ==
    /\ IsFiniteSet(history)
    /\ phase = "idle" => history = {} /\ answer = {}
    /\ \A m \in history \cup answer : turn[m.turn].user = claims.user
    /\ phase = "reading" => Exists(stored) /\ stored.owner = claims.user
    /\ phase = "restoring" =>
          /\ ShowsConversation(history, claims.conversation)
          /\ Exists(stored) \/ LacksNothing(history, claims.conversation)

(* An operation in a phase that promises no more than its history.         *)
LEMMA SoundWithoutPromise ==
    ASSUME NEW claims, NEW phase, NEW history, NEW answer, NEW stored,
           IsFiniteSet(history), phase \notin {"idle", "reading", "restoring"},
           \A m \in history \cup answer : turn[m.turn].user = claims.user
    PROVE  Sound(claims, phase, history, answer, stored)
  BY DEF Sound

(* The step of an operation leaves it sound, with the turns as they are.   *)
LEMMA SoundMoves ==
    ASSUME ResumeInv, NEW r \in Resumes, ResumeMoves(r)
    PROVE  Sound(resume'[r].claims, resume'[r].phase, resume'[r].history, resume'[r].answer,
                 sessions'[resume'[r].claims.session])
  <1> DEFINE old == resume[r]
             new == resume'[r]
             c == old.claims
             stored == sessions[c.session]
  <1>1. /\ ResumeTypeOK /\ TypeOK /\ ConversationsBelong /\ ClaimsBelong /\ MessagesBelong
        /\ AnswersAreKept /\ ResumesAreSound
    BY DEF ResumeInv, ResumeTypeOK
  <1>2. /\ Sound(c, old.phase, old.history, old.answer, stored)
        /\ IsFiniteSet(old.history)
        /\ \A m \in old.history \cup old.answer : turn[m.turn].user = c.user
    BY <1>1 DEF ResumesAreSound, Sound
  <1>3. /\ old \in ResumeState /\ c \in Claims /\ c.session \in Sessions
        /\ turn \in [Turns -> TurnState] /\ provider \in Seq(Turns)
    BY <1>1 DEF ResumeTypeOK, TypeOK, ResumeState, Claims
  <1>4. CASE RestoresSession(r)
    <2>1. /\ new.claims = c /\ new.phase = "answered"
          /\ new.history = old.history /\ new.answer = old.history
      BY <1>3, <1>4 DEF RestoresSession, ResumeState
    <2>2. QED  BY <1>2, <2>1, SoundWithoutPromise
  <1>5. CASE ResumeProceeds(r)
    <2>1. sessions' = sessions
      BY <1>5 DEF ResumeProceeds
    <2>2. CASE /\ old.phase = "idle" /\ new.phase \in {"loading", "failed"}
               /\ new.history = old.history /\ new.answer = old.answer
      <3>1. new.history = {} /\ new.answer = {} /\ IsFiniteSet(new.history)
        BY <1>1, <1>2, <2>2 DEF ResumesAreSound
      <3>2. QED  BY <2>2, <3>1, SoundWithoutPromise
    <2>3. CASE /\ new.claims = c
               /\ new.phase \in {"failed", "fetching", "racing"}
               /\ new.history = old.history /\ new.answer = old.answer
      BY <1>2, <2>3, SoundWithoutPromise
    <2>4. CASE /\ new.claims = c
               /\ new.phase = "reading" /\ Matches(AggregateOf(stored), c)
               /\ new.history = old.history /\ new.answer = old.answer
      <3>1. stored.status = "ACTIVE" /\ stored.owner = c.user
        BY <2>4 DEF Matches, AggregateOf
      <3>2. Exists(stored)
        BY <3>1 DEF Exists
      <3>3. QED  BY <1>2, <2>1, <2>4, <3>1, <3>2 DEF Sound
    <2>5. CASE /\ new.claims = c /\ old.phase # "idle"
               /\ new.phase = "restoring" /\ new.history = History(c.conversation)
               /\ new.answer = old.answer
      <3> DEFINE k == c.conversation
             entries == NewestEntries(k)
             H == History(k)
      <3>1. /\ H \in SUBSET Message /\ IsFiniteSet(H)
            /\ {m.turn : m \in H} = {provider[i] : i \in entries}
        BY <1>3, HistoryType
      <3>2. \A i \in entries : i \in DOMAIN provider /\ turn[provider[i]].conversation = k
        BY DEF NewestEntries, EntriesOf
      <3>3. IsFiniteSet(entries) /\ Cardinality(entries) <= MaximumEntries
        BY <1>3, EntriesType
      <3>4. \A t \in Turns : turn[t].conversation = k => turn[t].user = c.user
        BY <1>1, <2>5 DEF ClaimsBelong, BelongsTo
      <3>5. ASSUME NEW t \in Turns, turn[t].phase \in {"committed", "completed"},
                   turn[t].conversation = k, Cardinality(LaterEntries(t)) < MaximumEntries
            PROVE  t \in {provider[i] : i \in entries}
        <4>1. PICK i \in DOMAIN provider : provider[i] = t
          BY <1>1, <3>5 DEF AnswersAreKept
        <4>2. i \in entries
          BY <1>3, <3>5, <4>1, LaterEntriesType
        <4>3. QED  BY <4>1, <4>2
      <3>6. Cardinality({provider[i] : i \in entries}) <= MaximumEntries
        <4> DEFINE turns == {provider[i] : i \in entries}
                   f == [i \in entries |-> provider[i]]
        <4> HIDE DEF entries
        <4>1. f \in Surjection(entries, turns)
          BY DEF Surjection
        <4>2. IsFiniteSet(turns) /\ Cardinality(turns) <= Cardinality(entries)
          BY <3>3, <4>1, FS_Surjection
        <4>3. Cardinality(turns) \in Nat /\ Cardinality(entries) \in Nat
          BY <3>3, <4>2, FS_CardinalityType
        <4> HIDE DEF turns
        <4>4. Cardinality(turns) <= MaximumEntries
          BY <3>3, <4>2, <4>3, MaximumEntriesAssumption
        <4>5. QED  BY <4>4 DEF turns
      <3> HIDE DEF entries, H, k
      <3>7. \A m \in H : m.turn \in Turns /\ m.turn \in {provider[i] : i \in entries}
        BY <3>1 DEF Message
      <3>8. \A m \in H : turn[m.turn].conversation = k /\ turn[m.turn].user = c.user
        BY <3>4, <3>7, <3>2
      <3>9. ShowsConversation(H, k)
        BY <3>1, <3>8, <3>6 DEF ShowsConversation
      <3>10. LacksNothing(H, k)
        <4>1. SUFFICES ASSUME NEW t \in Turns, turn[t].phase \in {"committed", "completed"},
                              turn[t].conversation = k,
                              Cardinality(LaterEntries(t)) < MaximumEntries
                       PROVE  \E m \in H : m.turn = t
          BY DEF LacksNothing
        <4>2. t \in {m.turn : m \in H}
          BY <3>1, <3>5, <4>1
        <4>3. QED  BY <4>2
      <3>11. new.history = H /\ c.conversation = k
        BY <2>5 DEF H, k
      <3>12. \A m \in new.history \cup new.answer : turn[m.turn].user = c.user
        BY <1>2, <2>5, <3>8, <3>11
      <3>13. QED
        BY <2>5, <3>1, <3>11, <3>12, <3>9, <3>10 DEF Sound
    <2>6. CASE /\ new.claims = c
               /\ old.phase = "reading" /\ new.phase = "answered"
               /\ new.history = old.history /\ new.answer = stored.messages
      <3>1. stored.owner = c.user
        BY <1>1, <2>6 DEF ResumesAreSound
      <3>2. \A m \in stored.messages : turn[m.turn].user = c.user
        BY <1>1, <1>3, <3>1 DEF MessagesBelong
      <3>3. QED  BY <1>2, <2>6, <3>2, SoundWithoutPromise
    <2>7. CASE /\ new.claims = c
               /\ new.phase = old.phase
               /\ new.history = old.history /\ new.answer = old.answer
      BY <1>2, <2>1, <2>7
    <2>8. QED  BY <1>5, <2>2, <2>3, <2>4, <2>5, <2>6, <2>7 DEF ResumeProceeds
  <1>6. QED  BY <1>4, <1>5 DEF ResumeMoves

(* Soundness, read after the step.                                         *)
SoundAfter(r) ==
    LET c == resume'[r].claims
    IN  /\ IsFiniteSet(resume'[r].history)
        /\ resume'[r].phase = "idle" => resume'[r].history = {} /\ resume'[r].answer = {}
        /\ \A m \in resume'[r].history \cup resume'[r].answer : turn'[m.turn].user = c.user
        /\ resume'[r].phase = "reading" =>
              Exists(sessions'[c.session]) /\ sessions'[c.session].owner = c.user
        /\ resume'[r].phase = "restoring" =>
              /\ \A m \in resume'[r].history : turn'[m.turn].conversation = c.conversation
              /\ Cardinality({m.turn : m \in resume'[r].history}) <= MaximumEntries
              /\ \/ Exists(sessions'[c.session])
                 \/ \A t \in Turns :
                       /\ turn'[t].phase \in {"committed", "completed"}
                       /\ turn'[t].conversation = c.conversation
                       /\ Cardinality(LaterEntries(t)') < MaximumEntries
                       => \E m \in resume'[r].history : m.turn = t

(* A step of the runtime leaves a conversation its turns and its entries,  *)
(* so no fewer entries follow a turn's.                                    *)
LEMMA EntriesGrow ==
    ASSUME ResumeInv, RuntimeStep, NEW t \in Turns,
           turn[t].conversation # NoConversation
    PROVE  /\ turn'[t].conversation = turn[t].conversation
           /\ Cardinality(LaterEntries(t)) <= Cardinality(LaterEntries(t)')
           /\ Cardinality(LaterEntries(t)) \in Nat
           /\ Cardinality(LaterEntries(t)') \in Nat
  <1>1. /\ ResumeTypeOK /\ ResumeTypeOK' /\ TypeOK /\ ConversationsBelong /\ [Next]_vars
        /\ provider \in Seq(Turns) /\ provider' \in Seq(Turns)
    <2>1. ResumeTypeOK'
      BY ResumeTypeStep DEF ResumeNext
    <2>2. QED  BY <2>1 DEF ResumeInv, ResumeTypeOK, RuntimeStep
  <1>2. ASSUME NEW u \in Turns, turn[u].conversation # NoConversation
        PROVE  turn'[u].conversation = turn[u].conversation
    <2>1. KeepsIdentity(u)
      BY <1>1, EveryStepKeepsIdentity DEF RuntimeStep
    <2>2. turn[u].phase \notin Unanswered
      BY <1>1, <1>2 DEF ConversationsBelong
    <2>3. QED  BY <2>1, <2>2 DEF KeepsIdentity, Answers, Unanswered
  <1>3. \A i \in DOMAIN provider :
          /\ i \in DOMAIN provider' /\ provider'[i] = provider[i]
          /\ provider[i] \in Turns
    BY <1>1, ProviderStep
  <1>4. LaterEntries(t) \subseteq LaterEntries(t)'
    <2>1. SUFFICES ASSUME NEW j \in LaterEntries(t) PROVE j \in LaterEntries(t)'
      OBVIOUS
    <2>2. /\ j \in DOMAIN provider /\ turn[provider[j]].conversation = turn[t].conversation
          /\ \E i \in DOMAIN provider : provider[i] = t /\ i < j
      BY <2>1 DEF LaterEntries, EntriesOf
    <2>3. PICK i \in DOMAIN provider : provider[i] = t /\ i < j
      BY <2>2
    <2>4. /\ j \in DOMAIN provider' /\ turn'[provider'[j]].conversation = turn'[t].conversation
          /\ i \in DOMAIN provider' /\ provider'[i] = t
      BY <1>2, <1>3, <2>2, <2>3
    <2>5. QED  BY <2>3, <2>4 DEF LaterEntries, EntriesOf
  <1>5. /\ Cardinality(LaterEntries(t)) \in Nat
        /\ IsFiniteSet(LaterEntries(t)') /\ Cardinality(LaterEntries(t)') \in Nat
    <2>1. /\ LaterEntries(t)' \subseteq 1 .. Len(provider')
          /\ Len(provider') \in Int /\ 1 \in Int
      BY <1>1 DEF LaterEntries, EntriesOf
    <2>2. IsFiniteSet(1 .. Len(provider'))
      BY <2>1, FS_Interval
    <2>3. IsFiniteSet(LaterEntries(t)') /\ Cardinality(LaterEntries(t)') \in Nat
      BY <2>1, <2>2, FS_Subset, FS_CardinalityType
    <2>4. QED  BY <1>1, <2>3, LaterEntriesType
  <1>6. Cardinality(LaterEntries(t)) <= Cardinality(LaterEntries(t)')
    BY <1>4, <1>5, FS_Subset
  <1>7. QED  BY <1>2, <1>5, <1>6

(* A step of the runtime leaves every operation sound: a turn that it      *)
(* commits in the conversation being restored creates the session.         *)
LEMMA SoundRuntime ==
    ASSUME ResumeInv, RuntimeStep, NEW r \in Resumes
    PROVE  SoundAfter(r)
  <1> DEFINE c == resume[r].claims
  <1>1. /\ ResumeTypeOK /\ TypeOK /\ ConversationsBelong /\ ClaimsBelong /\ ResumesAreSound
        /\ Next /\ [Next]_vars
    BY DEF ResumeInv, ResumeTypeOK, RuntimeStep
  <1>2. /\ resume[r] \in ResumeState /\ c \in Claims /\ c.session \in Sessions
        /\ resume[r].history \in SUBSET Message /\ resume[r].answer \in SUBSET Message
    BY <1>1 DEF ResumeTypeOK, ResumeState, Claims
  <1>3. resume' = resume
    BY DEF RuntimeStep
  <1>4. \A t \in Turns : KeepsIdentity(t)
    BY <1>1, EveryStepKeepsIdentity
  <1>5. /\ IsFiniteSet(resume[r].history)
        /\ resume[r].phase = "idle" => resume[r].history = {} /\ resume[r].answer = {}
        /\ \A m \in resume[r].history \cup resume[r].answer : turn[m.turn].user = c.user
    BY <1>1 DEF ResumesAreSound
  <1>6. \A m \in resume[r].history \cup resume[r].answer : turn'[m.turn].user = c.user
    <2>1. \A m \in resume[r].history \cup resume[r].answer : m.turn \in Turns
      BY <1>2 DEF Message
    <2>2. QED  BY <1>4, <1>5, <2>1 DEF KeepsIdentity
  <1>7. ASSUME resume[r].phase = "reading"
        PROVE  Exists(sessions'[c.session]) /\ sessions'[c.session].owner = c.user
    <2>1. Exists(sessions[c.session]) /\ sessions[c.session].owner = c.user
      BY <1>1, <1>7 DEF ResumesAreSound
    <2>2. QED  BY <1>1, <1>2, <2>1, OwnerStays
  <1>8. c.conversation \in Conversations /\ c.conversation # NoConversation
    BY <1>2, NoConversationAssumption DEF Claims
  <1>9. ASSUME resume[r].phase = "restoring"
         PROVE  /\ \A m \in resume[r].history : turn'[m.turn].conversation = c.conversation
                /\ Cardinality({m.turn : m \in resume[r].history}) <= MaximumEntries
    <2>1. ShowsConversation(resume[r].history, c.conversation)
      BY <1>1, <1>9 DEF ResumesAreSound
    <2>2. \A m \in resume[r].history :
             m.turn \in Turns /\ turn[m.turn].conversation = c.conversation
      BY <1>2, <2>1 DEF ShowsConversation, Message
    <2>3. ASSUME NEW m \in resume[r].history
          PROVE  turn'[m.turn].conversation = c.conversation
      BY <1>8, <2>2, EntriesGrow
    <2>4. QED  BY <2>1, <2>3 DEF ShowsConversation
  <1>10. ASSUME resume[r].phase = "restoring", ~Exists(sessions'[c.session]),
               NEW t \in Turns, turn'[t].phase \in {"committed", "completed"},
               turn'[t].conversation = c.conversation,
               Cardinality(LaterEntries(t)') < MaximumEntries
        PROVE  \E m \in resume[r].history : m.turn = t
    <2>1. ~Exists(sessions[c.session])
      BY <1>1, <1>2, <1>10, OwnerStays
    <2>2. turn[t].conversation = c.conversation
      <3>1. ~Answers(t)
        BY <1>10 DEF Answers
      <3>2. QED  BY <1>4, <1>10, <3>1 DEF KeepsIdentity
    <2>3. \/ turn[t].phase \in {"committed", "completed"}
          \/ StoresTurn(t)
      <3>1. CASE Rests(t)
        BY <1>10, <3>1 DEF Rests
      <3>2. CASE Progresses(t)
        BY <1>10, <3>2 DEF Progresses
      <3>3. QED  BY <1>1, <3>1, <3>2, EveryStepProgresses DEF TurnsRest, TurnTakesStep
    <2>4. ~StoresTurn(t)
      <3>1. SUFFICES ASSUME StoresTurn(t) PROVE FALSE
        OBVIOUS
      <3>2. BelongsTo(c.conversation, c.session, c.user)
        BY <1>1, <1>10 DEF ClaimsBelong
      <3>3. turn[t].session = c.session
        BY <2>2, <3>2 DEF BelongsTo
      <3>4. sessions'[c.session].status = "ACTIVE"
        BY <1>1, <3>1, <3>3, StoredTurnSession
      <3>5. QED  BY <1>10, <3>4 DEF Exists
    <2>5. Cardinality(LaterEntries(t)) < MaximumEntries
      BY <1>10, <1>8, <2>2, EntriesGrow, MaximumEntriesAssumption
    <2>6. LacksNothing(resume[r].history, c.conversation)
      BY <1>1, <1>10, <2>1 DEF ResumesAreSound
    <2>7. QED  BY <2>2, <2>3, <2>4, <2>5, <2>6 DEF LacksNothing
  <1>11. QED  BY <1>3, <1>5, <1>6, <1>7, <1>10, <1>9 DEF SoundAfter

(* What a step leaves alone stays sound, while sessions only appear.       *)
LEMMA SoundUntouched ==
    ASSUME ResumesAreSound, NEW r \in Resumes, resume'[r] = resume[r], turn' = turn,
           provider' = provider,
           \/ sessions'[resume[r].claims.session] = sessions[resume[r].claims.session]
           \/ /\ ~Exists(sessions[resume[r].claims.session])
              /\ Exists(sessions'[resume[r].claims.session])
    PROVE  SoundAfter(r)
  <1>1. \A t \in Turns : LaterEntries(t)' = LaterEntries(t)
    BY DEF LaterEntries, EntriesOf
  <1>2. QED
    BY <1>1 DEF SoundAfter, ResumesAreSound, ShowsConversation, LacksNothing

(* Operations stay sound in every step.                                    *)
LEMMA SoundStep ==
    ASSUME ResumeInv, [ResumeNext]_resumeVars
    PROVE  ResumesAreSound'
  <1>1. ResumeTypeOK /\ TypeOK /\ ResumesAreSound
    BY DEF ResumeInv, ResumeTypeOK
  <1>2. SUFFICES ASSUME NEW r \in Resumes PROVE SoundAfter(r)
    BY DEF SoundAfter, ResumesAreSound, ShowsConversation, LacksNothing, Exists
  <1>3. CASE RuntimeStep
    BY <1>3, SoundRuntime
  <1>4. ASSUME NEW x \in Resumes, ResumeMoves(x)
        PROVE  SoundAfter(r)
    <2>1. turn' = turn /\ provider' = provider
      BY <1>4 DEF ResumeMoves
    <2>2. CASE x = r
      <3>1. Sound(resume'[r].claims, resume'[r].phase, resume'[r].history, resume'[r].answer,
                  sessions'[resume'[r].claims.session])
        BY <1>4, <2>2, SoundMoves
      <3>2. \A t \in Turns : LaterEntries(t)' = LaterEntries(t)
        BY <2>1 DEF LaterEntries, EntriesOf
      <3>3. QED
        BY <2>1, <3>1, <3>2 DEF Sound, SoundAfter, ShowsConversation, LacksNothing
    <2>3. CASE x # r
      <3> DEFINE s == resume[r].claims.session
      <3>1. resume'[r] = resume[r]
        BY <1>4, <2>3 DEF ResumeMoves
      <3>2. s \in Sessions
        BY <1>1 DEF ResumeTypeOK, ResumeState, Claims
      <3>3. CASE ResumeProceeds(x)
        <4>1. sessions' = sessions
          BY <3>3 DEF ResumeProceeds
        <4>2. QED  BY <1>1, <2>1, <3>1, <4>1, SoundUntouched
      <3>4. CASE RestoresSession(x) /\ s # resume[x].claims.session
        <4>1. sessions'[s] = sessions[s]
          BY <3>2, <3>4, RestoreWrites
        <4>2. QED  BY <1>1, <2>1, <3>1, <4>1, SoundUntouched
      <3>5. CASE RestoresSession(x) /\ s = resume[x].claims.session
        <4>1. sessions[s] = NoSession /\ sessions'[s].status = "ACTIVE"
          BY <3>5, RestoreWrites
        <4>2. ~Exists(sessions[s]) /\ Exists(sessions'[s])
          BY <4>1 DEF Exists, NoSession
        <4>3. QED  BY <1>1, <2>1, <3>1, <4>2, SoundUntouched
      <3>6. QED  BY <1>4, <3>3, <3>4, <3>5 DEF ResumeMoves
    <2>4. QED  BY <2>2, <2>3
  <1>5. CASE Restart
    <2>1. /\ resume'[r].claims = resume[r].claims
          /\ resume'[r].history = resume[r].history
          /\ resume'[r].answer = resume[r].answer
          /\ resume'[r].phase \in {"idle", "answered", "failed"}
          /\ resume'[r].phase = "idle" => resume[r].phase = "idle"
      BY <1>1, <1>5, RestartEnds
    <2>2. \A t \in Turns : turn'[t].user = turn[t].user
      BY <1>1, <1>5, RestartEnds
    <2>3. \A m \in resume[r].history \cup resume[r].answer :
            m.turn \in Turns /\ turn[m.turn].user = resume[r].claims.user
      BY <1>1 DEF ResumeTypeOK, ResumeState, Message, ResumesAreSound
    <2>4. /\ IsFiniteSet(resume[r].history)
          /\ resume[r].phase = "idle" => resume[r].history = {} /\ resume[r].answer = {}
      BY <1>1 DEF ResumesAreSound
    <2>5. QED  BY <2>1, <2>2, <2>3, <2>4 DEF SoundAfter
  <1>6. CASE UNCHANGED resumeVars
    <2>1. resume' = resume /\ turn' = turn /\ sessions' = sessions /\ provider' = provider
      BY <1>6 DEF resumeVars
    <2>2. QED  BY <1>1, <2>1, SoundUntouched
  <1>7. QED  BY <1>1, <1>3, <1>4, <1>5, <1>6, StepKinds

-----------------------------------------------------------------------------
(* The invariant and what follows                                          *)

(* The invariant holds initially.                                          *)
LEMMA ResumeInvInit == ResumeInit => ResumeInv
  <1> SUFFICES ASSUME ResumeInit PROVE ResumeInv
    OBVIOUS
  <1>1. Init /\ LifecycleInv /\ TypeOK
    BY LifecycleInit, TypeOKInit DEF ResumeInit
  <1>2. CompactionInv
    BY <1>1 DEF LifecycleInv, CompactionInv
  <1>3. \A r \in Resumes : resume[r] \in ResumeState /\ resume[r].phase = "idle"
                             /\ resume[r].history = {} /\ resume[r].answer = {}
    <2> DEFINE some == CHOOSE c \in Claims : TRUE
               idle == [phase |-> "idle", claims |-> some, signal |-> FALSE,
                        history |-> {}, loaded |-> Nothing, answer |-> {}]
    <2>1. some \in Claims
      BY ClaimsAssumption
    <2>2. \A r \in Resumes : resume[r] = idle
      BY DEF ResumeInit
    <2> HIDE DEF some
    <2>3. idle \in ResumeState
      BY <2>1, NothingType DEF ResumeState, ResumePhases
    <2>4. QED  BY <2>2, <2>3
  <1>4. ResumeTypeOK
    <2>1. resume \in [Resumes -> ResumeState]
      <3>1. resume = [r \in Resumes |-> resume[r]]
        BY DEF ResumeInit
      <3>2. QED  BY <1>3, <3>1
    <2>2. provider \in Seq(Turns) /\ restarts \in 0 .. MaxRestarts
      BY MaxRestartsAssumption DEF ResumeInit
    <2>3. QED  BY <1>1, <2>1, <2>2 DEF ResumeTypeOK
  <1>5. /\ \A s \in Sessions : sessions[s] = NoSession
        /\ \A t \in Turns : turn[t].phase = "idle" /\ turn[t].conversation = NoConversation
    BY <1>1 DEF Init
  <1>6. ConversationsBelong
    BY <1>5 DEF ConversationsBelong, HoldsSnapshot, NoSession
  <1>7. ClaimsBelong
    BY <1>3 DEF ClaimsBelong
  <1>8. MessagesBelong
    BY <1>5 DEF MessagesBelong, NoSession
  <1>9. SnapshotsHold /\ AnswersAreKept
    BY <1>5 DEF SnapshotsHold, HoldsSnapshot, AnswersAreKept
  <1>10. ResumesAreSound
    BY <1>3, FS_EmptySet DEF ResumesAreSound
  <1>11. QED  BY <1>2, <1>4, <1>6, <1>7, <1>8, <1>9, <1>10 DEF ResumeInv

(* Every step keeps the invariant.                                         *)
LEMMA ResumeInvStep == ResumeInv /\ [ResumeNext]_resumeVars => ResumeInv'
  <1> SUFFICES ASSUME ResumeInv, [ResumeNext]_resumeVars PROVE ResumeInv'
    OBVIOUS
  <1>1. ResumeTypeOK'
    BY ResumeTypeStep
  <1>2. CompactionInv' /\ SnapshotsHold'
    BY <1>1, ResumeCompactionStep, SnapshotsHoldStep
  <1>3. ConversationsBelong' /\ ClaimsBelong' /\ MessagesBelong'
    BY ConversationsStep, ClaimsStep, MessagesStep
  <1>4. AnswersAreKept' /\ ResumesAreSound'
    BY AnswersKeptStep, SoundStep
  <1>5. QED  BY <1>1, <1>2, <1>3, <1>4 DEF ResumeInv

(* The inductive invariant of turns, resumes and restarts holds in every   *)
(* run (ChatRuntime, TurnRunner, the store and the provider's history).    *)
THEOREM ResumeInvariant == ResumeSpec => []ResumeInv
  BY ResumeInvInit, ResumeInvStep, PTL DEF ResumeSpec

(* Types, through resumes and restarts: what is restored from the history  *)
(* of the provider is a session like any other (restoreSession).           *)
THEOREM ResumeTypeCorrect == ResumeSpec => []ResumeTypeOK
  BY ResumeInvariant, PTL DEF ResumeInv

(* A resumed session shows messages of the token's user only, whichever    *)
(* users, turns and restarts race for the session (responseForExisting-    *)
(* Resume, restoreSession).                                                *)
THEOREM ResumesShowOwnMessages == ResumeSpec => []ResumeShowsOwnMessages
  <1>1. ResumeInv => ResumeShowsOwnMessages
    BY DEF ResumeInv, ResumesAreSound, ResumeShowsOwnMessages
  <1>2. QED  BY <1>1, ResumeInvariant, PTL

(* The owner of a session in each step.                                    *)
LEMMA OwnerStep ==
    ASSUME ResumeInv, [ResumeNext]_resumeVars, NEW s \in Sessions,
           Exists(sessions[s]), Exists(sessions'[s])
    PROVE  sessions'[s].owner = sessions[s].owner
  <1>1. ResumeTypeOK /\ TypeOK
    BY DEF ResumeInv, ResumeTypeOK
  <1>2. CASE RuntimeStep
    <2>1. [Next]_vars
      BY <1>2 DEF RuntimeStep
    <2>2. QED  BY <1>1, <2>1, OwnerStays
  <1>3. ASSUME NEW r \in Resumes, ResumeMoves(r), RestoresSession(r)
        PROVE  sessions'[s].owner = sessions[s].owner
    <2>1. sessions[resume[r].claims.session] = NoSession
      BY <1>3, RestoreWrites
    <2>2. s # resume[r].claims.session
      BY <2>1 DEF Exists, NoSession
    <2>3. QED  BY <1>3, <2>2, RestoreWrites
  <1>4. ASSUME NEW r \in Resumes, ResumeMoves(r)
        PROVE  sessions'[s].owner = sessions[s].owner
    BY <1>3, <1>4 DEF ResumeMoves, ResumeProceeds
  <1>5. CASE Restart
    BY <1>1, <1>5, RestartEnds DEF Exists, NoSession
  <1>6. CASE UNCHANGED resumeVars
    BY <1>6 DEF resumeVars
  <1>7. QED  BY <1>1, <1>2, <1>4, <1>5, <1>6, StepKinds

(* A session id belongs to the user who stored it first, whatever turns    *)
(* and resumes of several users race for it (assertCommit,                 *)
(* restoreSession).                                                        *)
THEOREM OwnersStay == ResumeSpec => OwnerNeverChanges
  <1>1. ResumeInv /\ [ResumeNext]_resumeVars =>
          [\A s \in Sessions :
             Exists(sessions[s]) /\ Exists(sessions'[s])
                => sessions'[s].owner = sessions[s].owner]_resumeVars
    BY OwnerStep
  <1>2. QED  BY <1>1, ResumeInvariant, PTL DEF ResumeSpec, OwnerNeverChanges

(* What the session is that a turn is committed into.                      *)
LEMMA CommitStep ==
    ASSUME ResumeInv, [ResumeNext]_resumeVars, NEW t \in Turns, Commits(t)
    PROVE  LET stored == sessions[turn[t].session]
           IN  \/ SameView(turn[t].loaded, stored)
               \/ /\ ~Exists(turn[t].loaded)
                  /\ stored.revision = 0
                  /\ stored.completed = {}
  <1> DEFINE s == turn[t].session
  <1>1. ResumeTypeOK /\ TypeOK /\ SnapshotsHold
    BY DEF ResumeInv, ResumeTypeOK
  <1>2. s \in Sessions
    BY <1>1 DEF TypeOK, TurnState
  <1>3. t \in sessions'[s].completed /\ t \notin sessions[s].completed
    BY DEF Commits
  <1>4. CASE RuntimeStep
    <2>1. [Next]_vars
      BY <1>4 DEF RuntimeStep
    <2>2. StoresTurn(t)
      BY <1>1, <2>1, OnlyCommitsComplete
    <2>3. turn[t].phase \in HoldsSnapshot
      BY <2>2 DEF StoresTurn, HoldsSnapshot
    <2>4. turn[t].loaded.context.revision = sessions[s].revision
      BY <2>2 DEF StoresTurn, StoreTurn, CommitAccepted
    <2>5. QED  BY <1>1, <2>3, <2>4 DEF SnapshotsHold, CurrentOrRestored
  <1>5. ASSUME NEW r \in Resumes, ResumeMoves(r), RestoresSession(r)
        PROVE  FALSE
    <2>1. CASE s = resume[r].claims.session
      BY <1>3, <1>5, <2>1, RestoreWrites
    <2>2. CASE s # resume[r].claims.session
      BY <1>2, <1>3, <1>5, <2>2, RestoreWrites
    <2>3. QED  BY <2>1, <2>2
  <1>6. ASSUME NEW r \in Resumes, ResumeMoves(r)
        PROVE  FALSE
    BY <1>3, <1>5, <1>6 DEF ResumeMoves, ResumeProceeds
  <1>7. CASE Restart
    BY <1>1, <1>2, <1>3, <1>7, RestartEnds DEF NoSession
  <1>8. CASE UNCHANGED resumeVars
    BY <1>3, <1>8 DEF resumeVars
  <1>9. QED  BY <1>1, <1>4, <1>6, <1>7, <1>8, StepKinds

(* With resumes and restarts a turn is still committed onto the session it *)
(* was prepared from, or, prepared from none, onto one that was restored   *)
(* and not used since (commitTurn, restoreSession).                        *)
THEOREM CommitsSeeSessionOrRestore == ResumeSpec => CommitSeesSessionOrRestore
  <1>1. ResumeInv /\ [ResumeNext]_resumeVars =>
          [\A t \in Turns :
             Commits(t) =>
               LET stored == sessions[turn[t].session]
               IN  \/ SameView(turn[t].loaded, stored)
                   \/ /\ ~Exists(turn[t].loaded)
                      /\ stored.revision = 0
                      /\ stored.completed = {}]_resumeVars
    BY CommitStep
  <1>2. QED  BY <1>1, ResumeInvariant, PTL DEF ResumeSpec, CommitSeesSessionOrRestore

(* What a restore answers.                                                 *)
LEMMA RestoreStep ==
    ASSUME ResumeInv, [ResumeNext]_resumeVars, NEW r \in Resumes,
           resume[r].phase = "restoring", resume'[r].phase = "answered"
    PROVE  /\ ShowsConversation(resume'[r].answer, resume[r].claims.conversation)
           /\ LacksNothing(resume'[r].answer, resume[r].claims.conversation)
  <1>1. ResumeTypeOK /\ TypeOK /\ ResumesAreSound
    BY DEF ResumeInv, ResumeTypeOK
  <1>2. CASE RuntimeStep
    BY <1>2 DEF RuntimeStep
  <1>3. ASSUME NEW x \in Resumes, ResumeMoves(x)
        PROVE  /\ ShowsConversation(resume'[r].answer, resume[r].claims.conversation)
               /\ LacksNothing(resume'[r].answer, resume[r].claims.conversation)
    <2>1. x = r
      BY <1>3 DEF ResumeMoves
    <2>2. RestoresSession(r)
      BY <1>3, <2>1 DEF ResumeMoves, ResumeProceeds
    <2>3. resume'[r].answer = resume[r].history
      BY <1>1, <2>2 DEF RestoresSession, ResumeTypeOK, ResumeState
    <2>4. ~Exists(sessions[resume[r].claims.session])
      BY <2>2 DEF RestoresSession
    <2>5. QED  BY <1>1, <2>3, <2>4 DEF ResumesAreSound
  <1>4. CASE Restart
    BY <1>1, <1>4, RestartEnds
  <1>5. CASE UNCHANGED resumeVars
    BY <1>5 DEF resumeVars
  <1>6. QED  BY <1>1, <1>2, <1>3, <1>4, <1>5, StepKinds

(* A restore returns turns of the conversation its token names only, no    *)
(* more of them than it asks for, and every one that the user was told     *)
(* about unless as many entries as it asks for came after it, however      *)
(* often the process restarted and whatever raced it                       *)
(* (resumeDecodedSession, restoreSession).                                 *)
THEOREM RestoresAreComplete == ResumeSpec => RestoreIsComplete
  <1> DEFINE Restores(r) == resume[r].phase = "restoring" /\ resume'[r].phase = "answered"
             shown(r) == {m.turn : m \in resume'[r].answer}
             k(r) == resume[r].claims.conversation
  <1>1. ASSUME ResumeInv, [ResumeNext]_resumeVars, NEW r \in Resumes, Restores(r)
        PROVE  /\ \A t \in shown(r) : turn[t].conversation = k(r)
               /\ Cardinality(shown(r)) <= MaximumEntries
               /\ \A t \in Turns :
                     turn[t].phase = "completed" /\ turn[t].conversation = k(r)
                       /\ Cardinality(LaterEntries(t)) < MaximumEntries
                       => t \in shown(r)
    <2>1. ShowsConversation(resume'[r].answer, k(r)) /\ LacksNothing(resume'[r].answer, k(r))
      BY <1>1, RestoreStep
    <2>2. QED  BY <2>1 DEF ShowsConversation, LacksNothing
  <1>2. ResumeInv /\ [ResumeNext]_resumeVars =>
          [\A r \in Resumes :
             resume[r].phase = "restoring" /\ resume'[r].phase = "answered"
                => LET told == {m.turn : m \in resume'[r].answer}
                   IN  /\ \A t \in told :
                            turn[t].conversation = resume[r].claims.conversation
                       /\ Cardinality(told) <= MaximumEntries
                       /\ \A t \in Turns :
                            turn[t].phase = "completed"
                              /\ turn[t].conversation = resume[r].claims.conversation
                              /\ Cardinality(LaterEntries(t)) < MaximumEntries
                              => t \in told]_resumeVars
    BY <1>1
  <1>3. QED  BY <1>2, ResumeInvariant, PTL DEF ResumeSpec, RestoreIsComplete

=============================================================================

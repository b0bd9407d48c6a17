------------------------ MODULE PostgresStore_proofs ------------------------
(***************************************************************************)
(* The transactions of PrismaRuntimeStore implement the atomic port, for   *)
(* any number of calls and whatever the order in which a load asks for its *)
(* relations.  The argument: a call that has claimed the row at the        *)
(* revision it loaded knows the context and the owner as they are, because *)
(* everything that changes them also raises the revision.  A compaction,   *)
(* which does not, takes the oldest active messages, however old the list  *)
(* is that it took them from; so of two compactions that overlap in time   *)
(* the second finds messages of its own compacted, or gone.                *)
(***************************************************************************)
EXTENDS PostgresStore, RuntimeStore_proofs, WellFoundedInduction

Active(stored) == stored.messages \ stored.compacted

(* The stored session: only an owned session exists, its context carries   *)
(* its revision, the context of revision 0 is the default one, and its     *)
(* messages are of turns that are over, in places up to their number.      *)
SessionSound(stored) ==
    /\ Exists(stored) => stored.owner \in Users
    /\ stored.context.revision = stored.revision
    /\ stored.revision = 0 => stored.context = DefaultContext(0)
    /\ \A m \in stored.messages : /\ m.turn \in stored.completed \cup Restores
                                  /\ m.at <= Cardinality(stored.messages)

(* No compaction of these messages is accepted any more: there is nothing  *)
(* to compact, or some of it is gone or compacted.                         *)
Spent(messages, stored) ==
    LET ids == Oldest(messages)
    IN  ids = {} \/ ~(ids \subseteq stored.messages) \/ ids \cap stored.compacted # {}

(* The messages are the first ones of those that are active.               *)
First(messages, stored) ==
    /\ messages \subseteq Active(stored)
    /\ \A m \in Active(stored) \ messages : \A n \in messages : n.at < m.at

(* What a call k has loaded of a session of unchanged revision is still    *)
(* there.  Its messages were, and are the first ones still unless they are *)
(* spent; its summary is the stored one until then if it was read later.   *)
LoadSound(k, stored) ==
    LET loaded == k.loaded
    IN  /\ ~Exists(loaded) => loaded = AggregateOf(NoSession)
        /\ Exists(loaded) => Exists(stored) /\ loaded.owner = stored.owner
        /\ loaded.revision <= stored.revision
        /\ loaded.revision = stored.revision => loaded.context = stored.context
        /\ "messages" \in k.later /\ loaded.revision = stored.revision =>
              Active(stored) \subseteq loaded.messages
        /\ "messages" \in k.asked =>
              /\ \A m \in loaded.messages : m.turn \in stored.completed \cup Restores
              /\ Spent(loaded.messages, stored) \/ First(loaded.messages, stored)
        /\ "summary" \in k.later =>
              Spent(loaded.messages, stored) \/ loaded.summary = stored.summary

(* How far the load has come in each phase, and in what order.             *)
LoadProgress(k) ==
    /\ k.phase = "idle" => k.asked = {}
    /\ k.asked = {} => ~Exists(k.loaded)
    /\ k.asked # {} => "session" \in k.asked
    /\ "messages" \in k.asked => Exists(k.loaded)
    /\ k.phase = "loading" /\ k.asked # {} => Exists(k.loaded)
    /\ k.phase \in {"loaded"} \cup Open /\ Exists(k.loaded) => Relations \subseteq k.asked
    /\ "messages" \in k.later => {"context", "messages"} \subseteq k.asked
    /\ "summary" \in k.later => {"messages", "summary"} \subseteq k.asked

(* Which calls are in which phase of their transaction, and what the       *)
(* checks behind them have established.                                    *)
Checked(c, k, stored) ==
    /\ k.phase \in {"loading", "loaded"} => c \notin Restores
    /\ k.phase = "reading"   => c \in Commits
    /\ k.phase = "inserting" => c \in Commits \cup Restores /\ ~Exists(k.loaded)
    /\ k.phase = "claiming"  => /\ c \notin Restores
                                /\ c \in Commits => Exists(stored) /\ stored.owner = k.user
    /\ k.phase = "claimed"   => c \in Compactions
    /\ k.phase \in Open =>
          /\ c \in Commits => k.loaded.owner \in {NoUser, k.user}
          /\ c \in Commits \cup Resets => k.loaded.revision < MaxRevision
          /\ c \in Resets \cup Compactions => Exists(k.loaded)
          /\ c \in Compactions => k.ids = Oldest(k.loaded.messages) /\ k.ids # {}

(* What holds while a call has the rows: nobody else can change them.      *)
Claimed(c, k, stored) ==
    /\ k.phase \in {"claimed", "written"} => stored.revision = k.loaded.revision
    /\ k.phase = "written" =>
          /\ c \in Commits     => stored.owner \in {NoUser, k.user}
          /\ c \in Restores    => ~Exists(stored)
          /\ c \in Compactions => /\ k.ids \subseteq stored.messages
                                  /\ k.ids \cap stored.compacted = {}

(* A call's part of the invariant.                                         *)
CallSound(c, k, stored) ==
    LoadSound(k, stored) /\ LoadProgress(k) /\ Checked(c, k, stored) /\ Claimed(c, k, stored)

(* A turn is recorded as completed by its own call, which has ended.       *)
CompletedOnce == \A t \in Commits \cap db.completed : call[t].phase \in Outcomes

StoreInvariant ==
    /\ StoreTypeOK
    /\ SessionSound(db)
    /\ CompletedOnce
    /\ \A c \in Calls : CallSound(c, call[c], db)

-----------------------------------------------------------------------------
(* Of finitely many messages, if any are to be compacted, the first is: no *)
(* message has more messages after it.                                     *)
LEMMA OldestHasFirst ==
    ASSUME NEW messages \in SUBSET Message, IsFiniteSet(messages), Oldest(messages) # {},
           NEW m \in messages, \A n \in messages : m.at <= n.at
    PROVE  m \in Oldest(messages)
  <1> DEFINE After(n) == {k \in messages : k.at > n.at}
  <1>1. PICK n \in messages : Cardinality(After(n)) >= RecentMessages
    BY DEF Oldest
  <1>2. \A k \in messages : k.at \in Nat
    BY DEF Message
  <1>3. After(n) \subseteq After(m)
    BY <1>2
  <1>4. IsFiniteSet(After(m)) /\ IsFiniteSet(After(n))
    BY FS_Subset
  <1>5. Cardinality(After(n)) <= Cardinality(After(m))
    BY <1>3, <1>4, FS_Subset
  <1>6. Cardinality(After(m)) \in Nat /\ Cardinality(After(n)) \in Nat
    BY <1>4, FS_CardinalityType
  <1> HIDE DEF After
  <1>7. Cardinality(After(m)) >= RecentMessages
    BY <1>1, <1>5, <1>6, LimitsAssumption
  <1>8. QED  BY <1>7 DEF Oldest, After

(* Of any messages one is the first.                                       *)
LEMMA OneIsFirst ==
    ASSUME NEW messages \in SUBSET Message, messages # {}
    PROVE  \E m \in messages : \A n \in messages : m.at <= n.at
  <1> DEFINE places == {m.at : m \in messages}
  <1>1. places \subseteq Nat /\ places # {}
    BY DEF Message
  <1> HIDE DEF places
  <1>2. PICK least \in places : \A k \in places : ~ (<<k, least>> \in OpToRel(<, Nat))
    BY <1>1, WFMin, NatLessThanWellFounded
  <1>3. \A k \in places : least <= k
    <2> SUFFICES ASSUME NEW k \in places PROVE least <= k
      OBVIOUS
    <2>1. k \in Nat /\ least \in Nat
      BY <1>1
    <2>2. ~ (k < least)
      BY <1>2, <2>1 DEF OpToRel
    <2>3. QED  BY <2>1, <2>2
  <1>4. PICK m \in messages : m.at = least
    BY DEF places
  <1>5. \A n \in messages : n.at \in places
    BY DEF places
  <1>6. QED  BY <1>3, <1>4, <1>5

(* Two lists that are both the first of the active messages have their     *)
(* first message in common, so what one of them compacts the other would.  *)
LEMMA FirstsMeet ==
    ASSUME NEW stored \in StoredSession, WellFormed(stored),
           NEW M \in SUBSET Message, First(M, stored), Oldest(M) # {},
           NEW N \in SUBSET Message, First(N, stored), Oldest(N) # {}
    PROVE  Oldest(M) \cap Oldest(N) # {}
  <1>1. /\ Active(stored) \subseteq Message /\ IsFiniteSet(Active(stored))
        /\ M \subseteq Active(stored) /\ N \subseteq Active(stored) /\ M # {} /\ N # {}
    BY FS_Difference DEF Active, WellFormed, StoredSession, First, Oldest
  <1>2. IsFiniteSet(M) /\ IsFiniteSet(N)
    BY <1>1, FS_Subset
  <1>3. PICK m \in Active(stored) : \A n \in Active(stored) : m.at <= n.at
    BY <1>1, OneIsFirst
  <1>4. \A n \in Active(stored) : n.at \in Nat
    BY <1>1 DEF Message
  <1>5. m \in M /\ m \in N
    BY <1>1, <1>3, <1>4 DEF First
  <1>6. m \in Oldest(M)
    BY <1>1, <1>2, <1>3, <1>5, OldestHasFirst
  <1>7. m \in Oldest(N)
    BY <1>1, <1>2, <1>3, <1>5, OldestHasFirst
  <1>8. QED  BY <1>6, <1>7

(* What a call that has not begun, or has ended, has loaded: nothing.      *)
LEMMA NothingLoaded ==
    /\ AggregateOf(NoSession) \in Aggregate
    /\ ~Exists(AggregateOf(NoSession))
    /\ AggregateOf(NoSession).owner = NoUser
    /\ AggregateOf(NoSession).revision = 0
    /\ AggregateOf(NoSession).context = DefaultContext(0)
  <1>1. AggregateOf(NoSession) \in Aggregate
    BY NoSessionWellFormed, AggregateOfType
  <1>2. QED  BY <1>1 DEF AggregateOf, NoSession, Exists

(* Such a call is one of the calls, for any of the phases it can be in.    *)
LEMMA FreshType ==
    ASSUME NEW phase \in {"idle"} \cup Outcomes, NEW user \in Users
    PROVE  /\ Fresh(phase, user) \in Call
           /\ Fresh(phase, user).phase = phase
           /\ Fresh(phase, user).asked = {} /\ Fresh(phase, user).later = {}
           /\ Fresh(phase, user).loaded = AggregateOf(NoSession)
  BY NothingLoaded DEF Fresh, Call, Phases, Outcomes

(* A call that has not begun or has ended is sound, whatever is stored.    *)
LEMMA FreshSound ==
    ASSUME NEW c \in Calls, NEW phase \in {"idle"} \cup Outcomes, NEW user \in Users,
           NEW stored \in StoredSession, SessionSound(stored)
    PROVE  CallSound(c, Fresh(phase, user), stored)
  <1> DEFINE k == Fresh(phase, user)
  <1> HIDE DEF k
  <1>1. k.phase = phase /\ k.asked = {} /\ k.later = {} /\ k.loaded = AggregateOf(NoSession)
    BY FreshType DEF k
  <1>2. LoadSound(k, stored)
    BY <1>1, NothingLoaded DEF LoadSound, SessionSound, StoredSession
  <1>3. k.phase \notin {"loading", "loaded"} \cup Open
    BY <1>1 DEF Open, Outcomes
  <1>4. LoadProgress(k) /\ Checked(c, k, stored) /\ Claimed(c, k, stored)
    BY <1>1, <1>3, NothingLoaded DEF LoadProgress, Checked, Claimed, Open
  <1>5. QED  BY <1>2, <1>4 DEF CallSound, k

(* The store starts sound.                                                 *)
LEMMA StoreInitSound == StoreInit => StoreInvariant
  <1> SUFFICES ASSUME StoreInit PROVE StoreInvariant
    OBVIOUS
  <1>1. db \in StoredSession /\ WellFormed(db)
    BY NoSessionWellFormed DEF StoreInit
  <1>2. PICK users \in [Calls -> Users] : call = [c \in Calls |-> Fresh("idle", users[c])]
    BY DEF StoreInit
  <1>3. \A c \in Calls : call[c] = Fresh("idle", users[c]) /\ users[c] \in Users
    BY <1>2
  <1>4. \A c \in Calls : call[c] \in Call /\ call[c].phase = "idle"
    BY <1>3, FreshType
  <1>5. call \in [Calls -> Call]
    BY <1>2, <1>4
  <1>6. db.revision <= MaxRevision
    BY LimitsAssumption DEF StoreInit, NoSession
  <1>7. StoreTypeOK
    BY <1>1, <1>4, <1>5, <1>6, CallsAreDistinctAssumption DEF StoreTypeOK, StoreInit
  <1>8. SessionSound(db)
    BY DEF SessionSound, StoreInit, NoSession, Exists, DefaultContext
  <1>9. CompletedOnce
    BY DEF CompletedOnce, StoreInit, NoSession
  <1>10. \A c \in Calls : CallSound(c, call[c], db)
    BY <1>1, <1>3, <1>8, FreshSound
  <1>11. QED  BY <1>7, <1>8, <1>9, <1>10 DEF StoreInvariant

-----------------------------------------------------------------------------
(* A step that leaves the database alone and makes a sound call of one     *)
(* keeps the invariant, if it takes and lets go of the rows as it should.  *)
LEMMA CallMoves ==
    ASSUME StoreInvariant, NEW c \in Calls, NEW k \in Call,
           call' = [call EXCEPT ![c] = k], db' = db,
           CallSound(c, k, db),
           c \in Commits \cap db.completed => k.phase \in Outcomes,
           \/ holder' = holder /\ (holder = c <=> k.phase \in {"claimed", "written"})
           \/ holder \in {c, Nobody} /\ holder' = c /\ k.phase \in {"claimed", "written"}
           \/ holder = c /\ holder' = Nobody /\ k.phase \notin {"claimed", "written"}
    PROVE  StoreInvariant'
  <1>1. call \in [Calls -> Call] /\ Nobody \notin Calls
    BY CallsAreDistinctAssumption DEF StoreInvariant, StoreTypeOK
  <1>2. call' \in [Calls -> Call] /\ call'[c] = k /\ \A d \in Calls \ {c} : call'[d] = call[d]
    BY <1>1
  <1>3. StoreTypeOK'
    <2>1. \A d \in Calls : d = holder <=> call[d].phase \in {"claimed", "written"}
      BY DEF StoreInvariant, StoreTypeOK
    <2>2. \A d \in Calls : d = holder' <=> call'[d].phase \in {"claimed", "written"}
      BY <1>1, <1>2, <2>1
    <2>3. holder' \in Calls \cup {Nobody}
      BY DEF StoreInvariant, StoreTypeOK
    <2>4. QED  BY <1>2, <2>2, <2>3 DEF StoreInvariant, StoreTypeOK
  <1>4. SessionSound(db')
    BY DEF StoreInvariant
  <1>5. CompletedOnce'
    BY <1>2 DEF StoreInvariant, CompletedOnce, Calls
  <1>6. \A d \in Calls : CallSound(d, call'[d], db')
    BY <1>2 DEF StoreInvariant
  <1>7. QED  BY <1>3, <1>4, <1>5, <1>6 DEF StoreInvariant

(* A call that ends without a trace keeps the invariant.                   *)
LEMMA AbandonSound ==
    ASSUME StoreInvariant, NEW c \in Calls, NEW outcome \in Outcomes, End(c, outcome),
           holder' = IF holder = c THEN Nobody ELSE holder, db' = db
    PROVE  StoreInvariant'
  <1> DEFINE k == Fresh(outcome, call[c].user)
  <1>1. call[c].user \in Users /\ db \in StoredSession /\ SessionSound(db)
    BY DEF StoreInvariant, StoreTypeOK, Call
  <1>2. k \in Call /\ k.phase = outcome /\ CallSound(c, k, db)
    BY <1>1, FreshType, FreshSound
  <1>3. outcome \notin {"claimed", "written"}
    BY DEF Outcomes
  <1>4. call' = [call EXCEPT ![c] = k]
    BY DEF End
  <1> HIDE DEF k
  <1>5. QED  BY <1>2, <1>3, <1>4, CallMoves

-----------------------------------------------------------------------------
(* What the invariant says of one call, for the steps of that call.        *)
LEMMA CallFacts ==
    ASSUME StoreInvariant, NEW c \in Calls
    PROVE  /\ call \in [Calls -> Call] /\ call[c] \in Call
           /\ db \in StoredSession /\ WellFormed(db) /\ SessionSound(db)
           /\ CallSound(c, call[c], db)
           /\ c = holder <=> call[c].phase \in {"claimed", "written"}
           /\ c \in Commits \cap db.completed => call[c].phase \in Outcomes
  BY DEF StoreInvariant, StoreTypeOK, CompletedOnce

(* A step that only takes a call of another phase, which still is sound.   *)
LEMMA PhaseMoves ==
    ASSUME StoreInvariant, NEW c \in Calls, NEW phase \in Phases,
           Goto(c, phase), db' = db, holder' = holder,
           call[c].phase \notin Outcomes,
           phase \in {"claimed", "written"} <=> call[c].phase \in {"claimed", "written"},
           CallSound(c, [call[c] EXCEPT !.phase = phase], db)
    PROVE  StoreInvariant'
  <1> DEFINE k == [call[c] EXCEPT !.phase = phase]
  <1>1. k \in Call /\ k.phase = phase
    BY CallFacts DEF Call
  <1>2. call' = [call EXCEPT ![c] = k]
    BY DEF Goto
  <1>3. CallSound(c, k, db)
    OBVIOUS
  <1>4. c \notin Commits \cap db.completed
    BY CallFacts
  <1>5. holder = c <=> phase \in {"claimed", "written"}
    BY CallFacts
  <1> HIDE DEF k
  <1>6. QED  BY <1>1, <1>2, <1>3, <1>4, <1>5, CallMoves

(* A call begins to load, and one that restores a session to insert it.    *)
LEMMA BeginSound ==
    ASSUME StoreInvariant, NEW c \in Calls, Begin(c)
    PROVE  StoreInvariant'
  <1> DEFINE phase == IF c \in Restores THEN "inserting" ELSE "loading"
             k == [call[c] EXCEPT !.phase = phase]
  <1>1. call[c] \in Call /\ CallSound(c, call[c], db) /\ call[c].phase = "idle"
    BY CallFacts DEF Begin
  <1>2. /\ k.phase = phase /\ k.asked = {} /\ k.later = call[c].later
        /\ k.loaded = call[c].loaded /\ ~Exists(k.loaded) /\ call[c].asked = {}
        /\ "messages" \notin k.later /\ "summary" \notin k.later
    BY <1>1 DEF Call, CallSound, LoadProgress
  <1>3. LoadSound(k, db)
    BY <1>1, <1>2 DEF CallSound, LoadSound, Call
  <1>4. LoadProgress(k)
    BY <1>2 DEF LoadProgress, Open
  <1>5. Checked(c, k, db) /\ Claimed(c, k, db)
    BY <1>2, CallsAreDistinctAssumption DEF Checked, Claimed, Open
  <1>6. CallSound(c, k, db)
    BY <1>3, <1>4, <1>5 DEF CallSound
  <1>7. QED
    BY <1>1, <1>6, PhaseMoves DEF Begin, Phases, Open, Outcomes

(* What each query leaves of the aggregate and what it adds.               *)
LEMMA AnsweredFields ==
    ASSUME NEW loaded \in Aggregate, db \in StoredSession, NEW q \in {"session"} \cup Relations
    PROVE  /\ Answered(loaded, q) \in Aggregate
           /\ Answered(loaded, q).status   = IF q = "session" THEN db.status ELSE loaded.status
           /\ Answered(loaded, q).owner    = IF q = "session" THEN db.owner ELSE loaded.owner
           /\ Answered(loaded, q).revision = IF q = "context" THEN db.revision ELSE loaded.revision
           /\ Answered(loaded, q).context  = IF q = "context" THEN db.context ELSE loaded.context
           /\ Answered(loaded, q).messages =
                  IF q = "messages" THEN db.messages \ db.compacted ELSE loaded.messages
           /\ Answered(loaded, q).summary  = IF q = "summary" THEN db.summary ELSE loaded.summary
           /\ Answered(loaded, q).binding  = loaded.binding
  <1> DEFINE answered == Answered(loaded, q)
  <1>1. CASE q = "session"
    <2> DEFINE known == [loaded EXCEPT !.status = db.status]
    <2>1. answered = [known EXCEPT !.owner = db.owner]
      BY <1>1 DEF Answered
    <2>2. /\ known \in Aggregate /\ known.status = db.status
          /\ known.revision = loaded.revision /\ known.context = loaded.context
          /\ known.messages = loaded.messages /\ known.summary = loaded.summary
          /\ known.binding = loaded.binding
      BY DEF Aggregate, StoredSession
    <2> HIDE DEF known
    <2>3. QED  BY <1>1, <2>1, <2>2 DEF Aggregate, StoredSession
  <1>2. CASE q = "context"
    <2> DEFINE known == [loaded EXCEPT !.revision = db.revision]
    <2>1. answered = [known EXCEPT !.context = db.context]
      BY <1>2 DEF Answered
    <2>2. /\ known \in Aggregate /\ known.revision = db.revision
          /\ known.status = loaded.status /\ known.owner = loaded.owner
          /\ known.messages = loaded.messages /\ known.summary = loaded.summary
          /\ known.binding = loaded.binding
      BY DEF Aggregate, StoredSession
    <2> HIDE DEF known
    <2>3. QED  BY <1>2, <2>1, <2>2 DEF Aggregate, StoredSession
  <1>3. CASE q = "messages"
    <2>1. answered = [loaded EXCEPT !.messages = db.messages \ db.compacted]
      BY <1>3 DEF Answered
    <2>2. QED  BY <1>3, <2>1 DEF Aggregate, StoredSession
  <1>4. CASE q = "summary"
    <2>1. answered = [loaded EXCEPT !.summary = db.summary]
      BY <1>4 DEF Answered
    <2>2. QED  BY <1>4, <2>1 DEF Aggregate, StoredSession
  <1>5. QED  BY <1>1, <1>2, <1>3, <1>4 DEF Relations

(* Each query of a load adds what is stored now: where the revision is     *)
(* still the one that was loaded, the earlier parts are stored now too.    *)
LEMMA LoadStepSound ==
    ASSUME StoreInvariant, NEW c \in Calls, Load(c)
    PROVE  StoreInvariant'
  <1>1. /\ call[c] \in Call /\ CallSound(c, call[c], db) /\ call[c].phase = "loading"
        /\ db \in StoredSession /\ WellFormed(db) /\ SessionSound(db)
        /\ c # holder /\ c \notin Commits \cap db.completed
    BY CallFacts DEF Load, Outcomes
  <1>2. PICK q \in Queries(call[c].asked) :
          LET loaded == Answered(call[c].loaded, q)
              asked  == call[c].asked \cup {q}
          IN  call' = [call EXCEPT
                 ![c].loaded = loaded,
                 ![c].asked  = asked,
                 ![c].later  = IF ComesLater(call[c].asked, q) THEN @ \cup {q} ELSE @,
                 ![c].phase  = IF Queries(asked) = {} \/ ~Exists(loaded) THEN "loaded" ELSE @]
    BY DEF Load
  <1> DEFINE old    == call[c].loaded
             before == call[c].asked
             loaded == Answered(old, q)
             asked  == before \cup {q}
             later  == IF ComesLater(before, q) THEN call[c].later \cup {q} ELSE call[c].later
             phase  == IF Queries(asked) = {} \/ ~Exists(loaded) THEN "loaded" ELSE "loading"
             k      == [call[c] EXCEPT !.loaded = loaded, !.asked = asked, !.later = later,
                                       !.phase = phase]
  <1>3. /\ old \in Aggregate /\ before \subseteq {"session"} \cup Relations
        /\ call[c].later \subseteq {"messages", "summary"}
        /\ q \in {"session"} \cup Relations
        /\ (q = "session") <=> (before = {})
        /\ q \notin before
    BY <1>1, <1>2 DEF Call, CallSound, LoadProgress, Queries, Relations
  <1>4. /\ loaded \in Aggregate
        /\ loaded.status   = IF q = "session" THEN db.status ELSE old.status
        /\ loaded.owner    = IF q = "session" THEN db.owner ELSE old.owner
        /\ loaded.revision = IF q = "context" THEN db.revision ELSE old.revision
        /\ loaded.context  = IF q = "context" THEN db.context ELSE old.context
        /\ loaded.messages = IF q = "messages" THEN Active(db) ELSE old.messages
        /\ loaded.summary  = IF q = "summary" THEN db.summary ELSE old.summary
        /\ loaded.binding  = old.binding
    BY <1>1, <1>3, AnsweredFields DEF Active
  <1>5. /\ later \subseteq {"messages", "summary"}
        /\ "messages" \in later => \/ "messages" \in call[c].later
                                   \/ q = "messages" /\ "context" \in before
        /\ "summary" \in later => \/ "summary" \in call[c].later
                                  \/ q = "summary" /\ "messages" \in before
    BY <1>3 DEF ComesLater, Earlier
  <1> HIDE DEF loaded, later
  <1>6. /\ k.loaded = loaded /\ k.asked = asked /\ k.later = later /\ k.phase = phase
        /\ k \in Call
    <2>1. phase \in Phases
      BY DEF Phases
    <2>2. asked \subseteq {"session"} \cup Relations
      BY <1>3
    <2> HIDE DEF phase, asked
    <2>3. QED  BY <1>1, <1>4, <1>5, <2>1, <2>2 DEF Call
  <1>7. call' = [call EXCEPT ![c] = k] /\ db' = db /\ holder' = holder
    <2>1. call' = [call EXCEPT ![c].loaded = loaded, ![c].asked = asked,
                               ![c].later = later, ![c].phase = phase]
      BY <1>1, <1>2 DEF loaded, later
    <2> HIDE DEF phase, asked
    <2>2. call' = [call EXCEPT ![c] = k]
      BY <2>1
    <2>3. QED  BY <2>2 DEF Load
  <1> HIDE DEF k
  <1>8. /\ q = "session" => old = AggregateOf(NoSession)
        /\ q # "session" => Exists(old) /\ "session" \in before
    BY <1>1, <1>3 DEF CallSound, LoadProgress, LoadSound
  <1>9. ASSUME ~Exists(loaded) PROVE loaded = AggregateOf(NoSession) /\ q = "session"
    <2>1. q = "session"
      BY <1>4, <1>8, <1>9 DEF Exists
    <2>2. db = NoSession
      BY <2>1, <1>1, <1>4, <1>9 DEF WellFormed, Exists
    <2>3. db.status = old.status /\ db.owner = old.owner
      BY <2>1, <2>2, <1>8 DEF AggregateOf, NoSession
    <2>4. loaded = old
      BY <2>1, <2>3, <1>3, <1>4 DEF Aggregate
    <2>5. QED  BY <2>1, <2>4, <1>8
  <1>10. LoadSound(k, db)
    <2>1. LoadSound(call[c], db) /\ LoadProgress(call[c])
      BY <1>1 DEF CallSound
    <2>2. CASE q = "session"
      <3>1. loaded.revision = 0 /\ loaded.context = DefaultContext(0)
        BY <2>2, <1>4, <1>8, NothingLoaded
      <3>2. "messages" \notin asked /\ "messages" \notin later /\ "summary" \notin later
        BY <2>1, <2>2, <1>3, <1>5 DEF LoadProgress
      <3>3. Exists(loaded) => Exists(db) /\ loaded.owner = db.owner
        BY <2>2, <1>4 DEF Exists
      <3>4. QED
        BY <3>1, <3>2, <3>3, <1>1, <1>6, <1>9 DEF LoadSound, SessionSound, StoredSession
    <2>3. CASE q # "session"
      <3>1. /\ Exists(loaded) /\ Exists(db) /\ loaded.owner = db.owner
            /\ loaded.revision <= db.revision
            /\ loaded.revision = db.revision => loaded.context = db.context
        BY <2>1, <2>3, <1>1, <1>4, <1>8 DEF LoadSound, Exists, StoredSession
      <3>2. "messages" \in later /\ loaded.revision = db.revision =>
               Active(db) \subseteq loaded.messages
        BY <2>1, <1>3, <1>4, <1>5 DEF LoadSound, LoadProgress
      <3>3. First(Active(db), db)
        BY DEF First
      <3>4. \A m \in Active(db) : m.turn \in db.completed \cup Restores
        BY <1>1 DEF SessionSound, Active
      <3>5. "messages" \in asked =>
               /\ \A m \in loaded.messages : m.turn \in db.completed \cup Restores
               /\ Spent(loaded.messages, db) \/ First(loaded.messages, db)
        BY <2>1, <3>3, <3>4, <1>4 DEF LoadSound
      <3>6. "summary" \in later => Spent(loaded.messages, db) \/ loaded.summary = db.summary
        BY <2>1, <1>3, <1>4, <1>5 DEF LoadSound, LoadProgress
      <3>7. QED  BY <3>1, <3>2, <3>5, <3>6, <1>6 DEF LoadSound
    <2>4. QED  BY <2>2, <2>3
  <1>11. LoadProgress(k)
    <2>1. /\ k.phase \in {"loading", "loaded"} /\ k.asked # {} /\ "session" \in k.asked
          /\ k.phase = "loading" => Exists(k.loaded)
      BY <1>3, <1>6, <1>8
    <2>2. k.phase \notin Open /\ k.phase # "idle"
      BY <2>1 DEF Open
    <2>3. "messages" \in k.asked => Exists(k.loaded)
      BY <1>3, <1>4, <1>6, <1>8 DEF Exists, CallSound, LoadProgress, Relations
    <2>4. k.phase = "loaded" /\ Exists(k.loaded) => Relations \subseteq k.asked
      BY <1>3, <1>6 DEF Queries
    <2>5. /\ "messages" \in k.later => {"context", "messages"} \subseteq k.asked
          /\ "summary" \in k.later => {"messages", "summary"} \subseteq k.asked
      BY <1>1, <1>5, <1>6 DEF CallSound, LoadProgress
    <2>6. QED  BY <2>1, <2>2, <2>3, <2>4, <2>5 DEF LoadProgress
  <1>12. Checked(c, k, db) /\ Claimed(c, k, db)
    <2>1. k.phase \in {"loading", "loaded"} /\ c \notin Restores
      BY <1>1, <1>6 DEF CallSound, Checked
    <2>2. QED  BY <2>1 DEF Checked, Claimed, Open
  <1>13. CallSound(c, k, db)
    BY <1>10, <1>11, <1>12 DEF CallSound
  <1>14. holder # c /\ k.phase \notin {"claimed", "written"}
    BY <1>1, <1>6
  <1>15. QED  BY <1>1, <1>6, <1>7, <1>13, <1>14, CallMoves

(* A call that goes on after the load is usable and valid, and only a      *)
(* compaction has ids.                                                     *)
LEMMA ValidateSound ==
    ASSUME StoreInvariant, NEW c \in Calls, Validate(c)
    PROVE  StoreInvariant'
  <1>1. /\ call[c] \in Call /\ CallSound(c, call[c], db) /\ call[c].phase = "loaded"
        /\ db \in StoredSession /\ SessionSound(db) /\ db' = db /\ holder' = holder
        /\ c # holder /\ c \notin Commits \cap db.completed
    BY CallFacts DEF Validate, Outcomes
  <1>2. CASE Unusable(c) \/ Invalid(c)
    BY <1>1, <1>2, AbandonSound DEF Validate, Outcomes
  <1>3. CASE ~(Unusable(c) \/ Invalid(c))
    <2> DEFINE loaded == call[c].loaded
               phase  == IF c \in Commits THEN "reading" ELSE "claiming"
               ids    == IF c \in Compactions THEN Oldest(loaded.messages) ELSE {}
               k      == [call[c] EXCEPT !.phase = phase, !.ids = ids]
    <2>1. /\ c \in Commits => loaded.owner \in {NoUser, call[c].user}
          /\ c \notin Commits => Exists(loaded)
          /\ c \in Compactions => Oldest(loaded.messages) # {}
      BY <1>3 DEF Unusable
    <2>2. loaded \in Aggregate /\ (c \in Commits \cup Resets => loaded.revision < MaxRevision)
      <3>1. loaded \in Aggregate
        BY <1>1 DEF Call
      <3>2. c \in Commits \cup Resets => c \notin Compactions
        BY CallsAreDistinctAssumption
      <3>3. c \in Commits \cup Resets => ~(loaded.revision >= MaxRevision)
        BY <1>3, <3>2 DEF Invalid
      <3>4. QED  BY <3>1, <3>3, LimitsAssumption DEF Aggregate
    <2>3. ids \in SUBSET Message
      BY <2>2 DEF Oldest, Aggregate
    <2>4. k \in Call /\ k.phase = phase /\ k.ids = ids
          /\ k.loaded = loaded /\ k.asked = call[c].asked /\ k.later = call[c].later
          /\ k.user = call[c].user
      <3>1. phase \in Phases
        BY DEF Phases, Open
      <3> DEFINE moved == [call[c] EXCEPT !.phase = phase]
      <3> HIDE DEF phase, ids
      <3>2. /\ moved \in Call /\ moved.phase = phase /\ moved.loaded = loaded
            /\ moved.asked = call[c].asked /\ moved.later = call[c].later
            /\ moved.user = call[c].user
        BY <1>1, <3>1 DEF Call
      <3>3. k = [moved EXCEPT !.ids = ids]
        OBVIOUS
      <3> HIDE DEF moved, k
      <3>4. QED  BY <2>3, <3>2, <3>3 DEF Call
    <2>5. call' = [call EXCEPT ![c] = k]
      BY <1>1, <1>3 DEF Validate
    <2> HIDE DEF k
    <2>6. LoadSound(k, db) /\ LoadProgress(k)
      BY <1>1, <2>4 DEF CallSound, LoadSound, LoadProgress, Open
    <2>7. c \notin Restores
      BY <1>1 DEF CallSound, Checked
    <2>8. Checked(c, k, db)
      BY <2>1, <2>2, <2>4, <2>7, CallsAreDistinctAssumption DEF Checked, Open
    <2>9. Claimed(c, k, db)
      BY <2>4 DEF Claimed
    <2>10. CallSound(c, k, db) /\ k.phase \notin {"claimed", "written"}
      BY <2>4, <2>6, <2>8, <2>9 DEF CallSound
    <2>11. QED  BY <1>1, <2>4, <2>5, <2>10, CallMoves
  <1>4. QED  BY <1>2, <1>3

(* A commit claims the row of its own user's session, and inserts a        *)
(* session only if it has loaded none.                                     *)
LEMMA ReadRowSound ==
    ASSUME StoreInvariant, NEW c \in Calls, ReadRow(c)
    PROVE  StoreInvariant'
  <1>1. /\ call[c] \in Call /\ CallSound(c, call[c], db) /\ call[c].phase = "reading"
        /\ db \in StoredSession /\ SessionSound(db) /\ db' = db /\ holder' = holder
        /\ c # holder
    BY CallFacts DEF ReadRow
  <1>2. /\ c \in Commits /\ c \notin Restores
        /\ call[c].loaded.owner \in {NoUser, call[c].user} /\ call[c].loaded.revision < MaxRevision
    BY <1>1, CallsAreDistinctAssumption DEF CallSound, Checked, Open
  <1>3. CASE End(c, "conflict")
    BY <1>1, <1>3, AbandonSound DEF Outcomes
  <1>4. CASE Exists(db) /\ db.owner = call[c].user /\ Goto(c, "claiming")
    <2> DEFINE k == [call[c] EXCEPT !.phase = "claiming"]
    <2>1. /\ k.phase = "claiming" /\ k.asked = call[c].asked /\ k.later = call[c].later /\ k.loaded = call[c].loaded
          /\ k.user = call[c].user /\ k.ids = call[c].ids
      BY <1>1 DEF Call
    <2> HIDE DEF k
    <2>2. LoadSound(k, db) /\ LoadProgress(k) /\ Claimed(c, k, db)
      BY <1>1, <2>1 DEF CallSound, LoadSound, LoadProgress, Claimed, Open
    <2>3. Checked(c, k, db)
      BY <1>2, <1>4, <2>1, CallsAreDistinctAssumption DEF Checked
    <2>4. CallSound(c, k, db)
      BY <2>2, <2>3 DEF CallSound
    <2>5. QED  BY <1>1, <1>4, <2>4, PhaseMoves DEF k, Phases, Open, Outcomes
  <1>5. CASE ~Exists(db) /\ Goto(c, "inserting")
    <2> DEFINE k == [call[c] EXCEPT !.phase = "inserting"]
    <2>1. /\ k.phase = "inserting" /\ k.asked = call[c].asked /\ k.later = call[c].later /\ k.loaded = call[c].loaded
          /\ k.user = call[c].user /\ k.ids = call[c].ids
      BY <1>1 DEF Call
    <2> HIDE DEF k
    <2>2. LoadSound(k, db) /\ LoadProgress(k) /\ Claimed(c, k, db)
      BY <1>1, <2>1 DEF CallSound, LoadSound, LoadProgress, Claimed, Open
    <2>3. ~Exists(k.loaded)
      BY <1>5, <2>2 DEF LoadSound
    <2>4. Checked(c, k, db)
      BY <1>2, <2>1, <2>3, CallsAreDistinctAssumption DEF Checked
    <2>5. CallSound(c, k, db)
      BY <2>2, <2>4 DEF CallSound
    <2>6. QED  BY <1>1, <1>5, <2>5, PhaseMoves DEF k, Phases, Open, Outcomes
  <1>6. QED  BY <1>3, <1>4, <1>5 DEF ReadRow

(* A sound call takes the session's rows, which nobody has.                *)
LEMMA TakeRows ==
    ASSUME StoreInvariant, NEW c \in Calls, NEW phase \in {"claimed", "written"},
           Goto(c, phase), db' = db, holder = Nobody, holder' = c,
           call[c].phase \in {"inserting", "claiming"},
           CallSound(c, [call[c] EXCEPT !.phase = phase], db)
    PROVE  StoreInvariant'
  <1> DEFINE k == [call[c] EXCEPT !.phase = phase]
  <1>1. phase \in Phases
    BY DEF Phases, Open
  <1>2. k \in Call /\ k.phase = phase
    BY <1>1, CallFacts DEF Call
  <1>3. call' = [call EXCEPT ![c] = k] /\ CallSound(c, k, db)
    BY DEF Goto
  <1>4. c \notin Commits \cap db.completed
    BY CallFacts DEF Outcomes
  <1> HIDE DEF k
  <1>5. QED  BY <1>2, <1>3, <1>4, CallMoves

(* The session is inserted where there is none, at revision 0.             *)
LEMMA InsertSound ==
    ASSUME StoreInvariant, NEW c \in Calls, Insert(c)
    PROVE  StoreInvariant'
  <1>1. /\ call[c] \in Call /\ CallSound(c, call[c], db) /\ call[c].phase = "inserting"
        /\ WellFormed(db) /\ db' = db /\ c # holder
    BY CallFacts DEF Insert
  <1>2. CASE End(c, "conflict") /\ UNCHANGED holder
    BY <1>1, <1>2, AbandonSound DEF Outcomes
  <1>3. CASE ~Exists(db) /\ holder = Nobody /\ Goto(c, "written") /\ holder' = c
    <2> DEFINE k == [call[c] EXCEPT !.phase = "written"]
    <2>1. /\ k.phase = "written" /\ k.asked = call[c].asked /\ k.later = call[c].later /\ k.loaded = call[c].loaded
          /\ k.user = call[c].user /\ k.ids = call[c].ids
      BY <1>1 DEF Call
    <2> HIDE DEF k
    <2>2. LoadSound(k, db) /\ LoadProgress(k)
      BY <1>1, <2>1 DEF CallSound, LoadSound, LoadProgress, Open
    <2>3. /\ c \in Commits \cup Restores /\ ~Exists(k.loaded)
          /\ c \notin Compactions /\ c \notin Resets
      BY <1>1, <2>1, CallsAreDistinctAssumption DEF CallSound, Checked
    <2>4. Checked(c, k, db)
      BY <1>1, <2>1, <2>3 DEF CallSound, Checked, Open
    <2>5. db = NoSession
      BY <1>1, <1>3 DEF WellFormed
    <2>6. db.revision = 0 /\ db.owner = NoUser /\ k.loaded.revision = 0
      BY <2>2, <2>3, <2>5, NothingLoaded DEF LoadSound, NoSession
    <2>7. Claimed(c, k, db)
      BY <1>3, <2>3, <2>6 DEF Claimed
    <2>8. CallSound(c, k, db)
      BY <2>2, <2>4, <2>7 DEF CallSound
    <2>9. QED  BY <1>1, <1>3, <2>8, TakeRows DEF k
  <1>4. QED  BY <1>2, <1>3 DEF Insert

(* The row is claimed at the revision that was loaded.                     *)
LEMMA ClaimSound ==
    ASSUME StoreInvariant, NEW c \in Calls, Claim(c)
    PROVE  StoreInvariant'
  <1>1. /\ call[c] \in Call /\ CallSound(c, call[c], db) /\ call[c].phase = "claiming"
        /\ db' = db /\ c # holder
    BY CallFacts DEF Claim
  <1>2. CASE End(c, "conflict") /\ UNCHANGED holder
    BY <1>1, <1>2, AbandonSound DEF Outcomes
  <1> DEFINE phase == IF c \in Compactions THEN "claimed" ELSE "written"
  <1>3. CASE db.revision = call[c].loaded.revision /\ holder = Nobody /\ Goto(c, phase) /\ holder' = c
    <2> DEFINE k == [call[c] EXCEPT !.phase = phase]
    <2>1. /\ k.phase = phase /\ k.asked = call[c].asked /\ k.later = call[c].later /\ k.loaded = call[c].loaded
          /\ k.user = call[c].user /\ k.ids = call[c].ids
      BY <1>1 DEF Call
    <2> HIDE DEF k
    <2>2. LoadSound(k, db) /\ LoadProgress(k)
      BY <1>1, <2>1 DEF CallSound, LoadSound, LoadProgress, Open
    <2>3. c \notin Restores /\ (c \in Commits => db.owner = k.user)
      BY <1>1, <2>1 DEF CallSound, Checked
    <2>4. Checked(c, k, db)
      BY <1>1, <2>1 DEF CallSound, Checked, Open
    <2>5. Claimed(c, k, db)
      BY <1>3, <2>1, <2>3 DEF Claimed
    <2>6. CallSound(c, k, db)
      BY <2>2, <2>4, <2>5 DEF CallSound
    <2>7. QED  BY <1>1, <1>3, <2>6, TakeRows DEF k
  <1>4. QED  BY <1>2, <1>3 DEF Claim

(* A compaction goes on only if its messages are there and not compacted.  *)
LEMMA CheckIdsSound ==
    ASSUME StoreInvariant, NEW c \in Calls, CheckIds(c)
    PROVE  StoreInvariant'
  <1>1. /\ call[c] \in Call /\ CallSound(c, call[c], db) /\ call[c].phase = "claimed"
    BY CallFacts DEF CheckIds
  <1>2. CASE Abandon(c, "failed") \/ Abandon(c, "conflict")
    BY <1>2, AbandonSound DEF Abandon, Outcomes
  <1>3. CASE /\ call[c].ids \subseteq db.messages /\ call[c].ids \cap db.compacted = {}
             /\ Goto(c, "written") /\ UNCHANGED <<db, holder>>
    <2> DEFINE k == [call[c] EXCEPT !.phase = "written"]
    <2>1. /\ k.phase = "written" /\ k.asked = call[c].asked /\ k.later = call[c].later /\ k.loaded = call[c].loaded
          /\ k.user = call[c].user /\ k.ids = call[c].ids
      BY <1>1 DEF Call
    <2> HIDE DEF k
    <2>2. LoadSound(k, db) /\ LoadProgress(k)
      BY <1>1, <2>1 DEF CallSound, LoadSound, LoadProgress, Open
    <2>3. c \in Compactions /\ c \notin Commits \cup Restores
      BY <1>1, CallsAreDistinctAssumption DEF CallSound, Checked
    <2>4. Checked(c, k, db)
      BY <1>1, <2>1 DEF CallSound, Checked, Open
    <2>5. Claimed(c, k, db)
      BY <1>1, <1>3, <2>1, <2>3 DEF CallSound, Claimed
    <2>6. CallSound(c, k, db)
      BY <2>2, <2>4, <2>5 DEF CallSound
    <2>7. QED  BY <1>1, <1>3, <2>6, PhaseMoves DEF k, Phases, Open, Outcomes
  <1>4. QED  BY <1>2, <1>3 DEF CheckIds

-----------------------------------------------------------------------------
(* What a COMMIT does to the session, and to what the others have loaded.  *)

(* A turn: what it has loaded is what is stored, so it extends the stored  *)
(* context; its row was claimed at that revision, or it inserted it.       *)
LEMMA TurnCommits ==
    ASSUME StoreInvariant, NEW c \in Commits, Commit(c)
    PROVE  /\ c \notin db.completed
           /\ db.revision < MaxRevision
           /\ call[c].user \in Users /\ db.owner \in {NoUser, call[c].user}
           /\ \E k \in Conversations \cup {NoConversation} :
                 db' = Committed(db, c, call[c].user, MergedContext(db.context, c), k)
  <1>1. c \in Calls /\ c \notin Resets \cup Compactions \cup Restores
    BY CallsAreDistinctAssumption DEF Calls
  <1>2. /\ call[c] \in Call /\ CallSound(c, call[c], db) /\ call[c].phase = "written"
        /\ c \notin db.completed
    BY <1>1, CallFacts DEF Commit, Outcomes
  <1>3. db.revision = call[c].loaded.revision /\ db.context = call[c].loaded.context
    BY <1>2 DEF CallSound, Claimed, LoadSound
  <1>4. db.revision < MaxRevision /\ db.owner \in {NoUser, call[c].user}
    BY <1>2, <1>3 DEF CallSound, Claimed, Checked, Open
  <1>5. db' \in TurnRows(c)
    BY <1>1 DEF Commit, Written
  <1>6. QED  BY <1>2, <1>3, <1>4, <1>5 DEF TurnRows, Call

(* A reset.                                                                *)
LEMMA ResetCommits ==
    ASSUME StoreInvariant, NEW c \in Resets, Commit(c)
    PROVE  Exists(db) /\ db.revision < MaxRevision /\ db' = WasReset(db)
  <1>1. c \in Calls /\ c \notin Commits \cup Compactions \cup Restores
    BY CallsAreDistinctAssumption DEF Calls
  <1>2. CallSound(c, call[c], db) /\ call[c].phase = "written"
    BY <1>1, CallFacts DEF Commit
  <1>3. Exists(db)
    BY <1>2 DEF CallSound, LoadSound, Checked, Open
  <1>4. db.revision < MaxRevision
    BY <1>2 DEF CallSound, Claimed, Checked, Open
  <1>5. db' \in ResetRows
    BY <1>1 DEF Commit, Written
  <1>6. QED  BY <1>3, <1>4, <1>5 DEF ResetRows

(* A compaction: its messages are active, so they are not spent and are    *)
(* the first ones; nobody has compacted since it loaded them, so a summary *)
(* loaded later is the stored one.                                         *)
LEMMA CompactionCommits ==
    ASSUME StoreInvariant, NEW c \in Compactions, Commit(c)
    PROVE  LET ids == call[c].ids
           IN  /\ Exists(db) /\ ids \subseteq Active(db) /\ ids \subseteq Message
               /\ ids = Oldest(call[c].loaded.messages) /\ ids # {}
               /\ call[c].loaded \in Aggregate
               /\ First(call[c].loaded.messages, db)
               /\ db' = Compacted(db, call[c].loaded.summary \cup ids, ids)
               /\ "summary" \in call[c].later => call[c].loaded.summary = db.summary
  <1>1. c \in Calls /\ c \notin Commits \cup Resets \cup Restores
    BY CallsAreDistinctAssumption DEF Calls
  <1>2. CallSound(c, call[c], db) /\ call[c].phase = "written" /\ call[c] \in Call
    BY <1>1, CallFacts DEF Commit
  <1> DEFINE loaded == call[c].loaded
             ids    == call[c].ids
  <1>3. /\ Exists(loaded) /\ "messages" \in call[c].asked
        /\ ids = Oldest(loaded.messages) /\ ids # {}
        /\ ids \subseteq db.messages /\ ids \cap db.compacted = {}
    BY <1>2 DEF CallSound, LoadProgress, Checked, Claimed, Open, Relations
  <1>4. ~Spent(loaded.messages, db)
    BY <1>3 DEF Spent
  <1>5. /\ Exists(db) /\ First(loaded.messages, db)
        /\ "summary" \in call[c].later => loaded.summary = db.summary
    BY <1>2, <1>3, <1>4 DEF CallSound, LoadSound
  <1>6. db' = Compacted(db, loaded.summary \cup ids, ids)
    BY <1>1 DEF Commit, Written, CompactedRows
  <1>7. loaded \in Aggregate /\ ids \subseteq Message
    BY <1>2 DEF Call
  <1>8. QED  BY <1>3, <1>5, <1>6, <1>7 DEF Active

(* A restore: the session it inserts is the first.                         *)
LEMMA RestoreCommits ==
    ASSUME StoreInvariant, NEW c \in Restores, Commit(c)
    PROVE  /\ db = NoSession /\ call[c].user \in Users
           /\ \E k \in Conversations :
                 db' = [NoSession EXCEPT !.status = "ACTIVE", !.owner = call[c].user,
                                         !.messages = TurnMessages(c, 0), !.binding = k]
  <1>1. c \in Calls /\ c \notin Commits \cup Compactions \cup Resets
    BY CallsAreDistinctAssumption DEF Calls
  <1>2. /\ CallSound(c, call[c], db) /\ call[c].phase = "written" /\ WellFormed(db)
        /\ call[c].user \in Users
    BY <1>1, CallFacts DEF Commit, Call
  <1>3. db = NoSession
    BY <1>2 DEF CallSound, Claimed, WellFormed
  <1>4. db' \in RestoredRows(c)
    BY <1>1 DEF Commit, Written
  <1>5. QED  BY <1>2, <1>3, <1>4 DEF RestoredRows

(* Whatever list of finished turns' messages a call has loaded, it stays   *)
(* spent or is spent now, or it stays the first ones and the summary stays.*)
KeepsLists(stored, new) ==
    \A M \in SUBSET Message :
        /\ \A m \in M : m.turn \in stored.completed \cup Restores
        /\ Spent(M, stored) \/ First(M, stored)
        => \/ Spent(M, new)
           \/ ~Spent(M, stored) /\ First(M, new) /\ new.summary = stored.summary

(* The session raises its revision and keeps its owner.                    *)
Raised(stored, new) ==
    /\ new \in StoredSession /\ WellFormed(new) /\ SessionSound(new) /\ Exists(new)
    /\ new.revision = stored.revision + 1
    /\ Exists(stored) => new.owner = stored.owner
    /\ stored.completed \subseteq new.completed
    /\ KeepsLists(stored, new)

(* It keeps its revision, context, owner and messages.                     *)
Kept(stored, new) ==
    /\ new \in StoredSession /\ WellFormed(new) /\ SessionSound(new) /\ Exists(new)
    /\ new.revision = stored.revision /\ new.context = stored.context
    /\ Exists(stored) => new.owner = stored.owner /\ new.messages = stored.messages
    /\ new.completed = stored.completed

(* The messages of a turn come last: the first ones stay the first ones.   *)
LEMMA TurnKeepsLists ==
    ASSUME NEW stored \in StoredSession, SessionSound(stored), NEW new,
           NEW t, t \notin stored.completed \cup Restores, NEW added,
           \A m \in added : m.turn = t /\ \A n \in stored.messages : n.at < m.at,
           new.messages = stored.messages \cup added,
           new.compacted = stored.compacted, new.summary = stored.summary
    PROVE  KeepsLists(stored, new)
  <1> SUFFICES ASSUME NEW M \in SUBSET Message,
                      \A m \in M : m.turn \in stored.completed \cup Restores,
                      Spent(M, stored) \/ First(M, stored)
               PROVE  \/ Spent(M, new)
                      \/ ~Spent(M, stored) /\ First(M, new) /\ new.summary = stored.summary
    BY DEF KeepsLists
  <1>1. CASE Spent(M, stored)
    <2>1. Oldest(M) \subseteq M
      BY DEF Oldest
    <2>2. Oldest(M) \cap added = {}
      BY <2>1
    <2>3. Oldest(M) \subseteq new.messages => Oldest(M) \subseteq stored.messages
      BY <2>2
    <2>4. QED  BY <1>1, <2>3 DEF Spent
  <1>2. CASE ~Spent(M, stored) /\ First(M, stored)
    <2>1. M \subseteq Active(stored) /\ Active(stored) \subseteq stored.messages
      BY <1>2 DEF First, Active
    <2>2. Active(new) \subseteq Active(stored) \cup added /\ Active(stored) \subseteq Active(new)
      BY DEF Active
    <2>3. ASSUME NEW m \in Active(new) \ M, NEW n \in M PROVE n.at < m.at
      <3>1. CASE m \in Active(stored)
        BY <1>2, <2>3, <3>1 DEF First
      <3>2. CASE m \in added
        BY <2>1, <2>3, <3>2
      <3>3. QED  BY <2>2, <2>3, <3>1, <3>2
    <2>4. First(M, new)
      BY <2>1, <2>2, <2>3 DEF First
    <2>5. QED  BY <1>2, <2>4
  <1>3. QED  BY <1>1, <1>2

(* commitTurn raises the revision and records its own turn.                *)
LEMMA TurnRaises ==
    ASSUME NEW stored \in StoredSession, WellFormed(stored), SessionSound(stored),
           NEW t \in Turns, t \notin stored.completed \cup Restores,
           NEW user \in Users, stored.owner \in {NoUser, user},
           NEW k \in Conversations \cup {NoConversation}
    PROVE  LET new == Committed(stored, t, user, MergedContext(stored.context, t), k)
           IN  Raised(stored, new) /\ new.completed = stored.completed \cup {t}
  <1> DEFINE next  == MergedContext(stored.context, t)
             new   == Committed(stored, t, user, next, k)
             added == TurnMessages(t, Cardinality(stored.messages))
  <1>1. stored.context \in Context
    BY DEF StoredSession
  <1>2. next \in Context /\ next.revision = stored.revision + 1
    BY <1>1, MergedContextType DEF SessionSound
  <1> HIDE DEF next
  <1>3. new \in StoredSession /\ WellFormed(new)
    BY <1>2, CommittedWellFormed
  <1>4. /\ new.status = "ACTIVE" /\ new.owner = user /\ new.revision = next.revision
        /\ new.context = next /\ new.compacted = stored.compacted /\ new.summary = stored.summary
        /\ new.completed = stored.completed \cup {t}
        /\ new.messages = stored.messages \cup added
    BY DEF Committed, StoredSession
  <1>5. new.revision # 0
    BY <1>2, <1>4 DEF StoredSession
  <1> HIDE DEF new
  <1>6. /\ Cardinality(stored.messages) \in Nat
        /\ Cardinality(stored.messages \cup added) = Cardinality(stored.messages) + 2
        /\ \A m \in added :
              /\ m.turn = t
              /\ m.at \in {Cardinality(stored.messages) + 1, Cardinality(stored.messages) + 2}
        /\ \A m \in stored.messages : m.at <= Cardinality(stored.messages) /\ m.at \in Nat
    <2>1. stored.messages \in SUBSET Message /\ IsFiniteSet(stored.messages)
      BY DEF StoredSession, WellFormed
    <2>2. \A m \in stored.messages : m.at <= Cardinality(stored.messages)
      BY DEF SessionSound
    <2>3. QED  BY <2>1, <2>2, AddedMessages DEF Message
  <1>7. SessionSound(new)
    <2>1. ASSUME NEW m \in new.messages
          PROVE  m.turn \in new.completed \cup Restores /\ m.at <= Cardinality(new.messages)
      <3>1. CASE m \in stored.messages
        <4>1. m.turn \in stored.completed \cup Restores
          BY <3>1 DEF SessionSound
        <4>2. QED  BY <1>4, <1>6, <3>1, <4>1
      <3>2. CASE m \in added
        BY <1>4, <1>6, <3>2
      <3>3. QED  BY <1>4, <2>1, <3>1, <3>2
    <2>2. QED  BY <1>2, <1>4, <1>5, <2>1 DEF SessionSound
  <1>8. Exists(stored) => new.owner = stored.owner
    BY <1>4, NoUserAssumption DEF SessionSound
  <1>9. \A m \in added : m.turn = t /\ \A n \in stored.messages : n.at < m.at
    BY <1>6
  <1> HIDE DEF added
  <1>10. KeepsLists(stored, new)
    BY <1>4, <1>9, TurnKeepsLists
  <1>11. QED  BY <1>2, <1>3, <1>4, <1>7, <1>8, <1>10 DEF Raised, Exists, new, next

(* resetSession raises the revision and forgets no completed turn; every   *)
(* list of messages is spent.                                              *)
LEMMA ResetRaises ==
    ASSUME NEW stored \in StoredSession, WellFormed(stored), SessionSound(stored), Exists(stored)
    PROVE  Raised(stored, WasReset(stored)) /\ WasReset(stored).completed = stored.completed
  <1> DEFINE new == WasReset(stored)
  <1>1. new \in StoredSession /\ WellFormed(new)
    BY WasResetWellFormed
  <1>2. /\ new.status = "RESET" /\ new.owner = stored.owner /\ new.revision = stored.revision + 1
        /\ new.context = DefaultContext(stored.revision + 1) /\ new.messages = {}
        /\ new.completed = stored.completed
    BY DEF WasReset, StoredSession
  <1> HIDE DEF new
  <1>3. new.context.revision = new.revision
    BY <1>2 DEF DefaultContext
  <1>4. new.revision # 0
    BY <1>2 DEF StoredSession
  <1>5. SessionSound(new)
    BY <1>2, <1>3, <1>4 DEF SessionSound
  <1>6. KeepsLists(stored, new)
    BY <1>2 DEF KeepsLists, Spent
  <1>7. QED  BY <1>1, <1>2, <1>5, <1>6 DEF Raised, Exists, new

(* commitCompaction keeps the revision and what is compacted stays so.     *)
LEMMA CompactionKeeps ==
    ASSUME NEW stored \in StoredSession, WellFormed(stored), SessionSound(stored), Exists(stored),
           NEW ids \in SUBSET Active(stored), NEW summary \in SUBSET Message
    PROVE  LET new == Compacted(stored, summary, ids)
           IN  Kept(stored, new) /\ new.compacted = stored.compacted \cup ids
  <1> DEFINE new == Compacted(stored, summary, ids)
  <1>1. CompactionAccepted(stored, stored.revision, ids)
    BY DEF CompactionAccepted, Active
  <1>2. stored.revision \in Nat
    BY DEF StoredSession
  <1>3. new \in StoredSession /\ WellFormed(new)
    BY <1>1, <1>2, CompactedWellFormed
  <1>4. /\ new.status = stored.status /\ new.owner = stored.owner
        /\ new.revision = stored.revision /\ new.context = stored.context
        /\ new.messages = stored.messages /\ new.completed = stored.completed
        /\ new.compacted = stored.compacted \cup ids
    BY DEF Compacted, StoredSession
  <1> HIDE DEF new
  <1>5. SessionSound(new)
    BY <1>4 DEF SessionSound, Exists
  <1>6. QED  BY <1>3, <1>4, <1>5 DEF Kept, Exists, new

(* It spends every list it has not been spent by: the first active message *)
(* is in all of them.                                                      *)
LEMMA CompactionSpendsLists ==
    ASSUME NEW stored \in StoredSession, WellFormed(stored), NEW new,
           new.messages = stored.messages,
           NEW N \in SUBSET Message, First(N, stored), Oldest(N) # {},
           new.compacted = stored.compacted \cup Oldest(N),
           NEW M \in SUBSET Message, Spent(M, stored) \/ First(M, stored)
    PROVE  Spent(M, new)
  <1>1. CASE Spent(M, stored)
    BY <1>1 DEF Spent
  <1>2. CASE ~Spent(M, stored) /\ First(M, stored)
    <2>1. Oldest(M) # {}
      BY <1>2 DEF Spent
    <2>2. Oldest(M) \cap Oldest(N) # {}
      BY <1>2, <2>1, FirstsMeet
    <2>3. QED  BY <2>2 DEF Spent
  <1>3. QED  BY <1>1, <1>2

(* restoreSession keeps revision 0, the one of no session.                 *)
LEMMA RestoreKeeps ==
    ASSUME NEW t \in Restores, NEW user \in Users, NEW k \in Conversations
    PROVE  Kept(NoSession, [NoSession EXCEPT !.status = "ACTIVE", !.owner = user,
                                             !.messages = TurnMessages(t, 0), !.binding = k])
  <1> DEFINE new == [NoSession EXCEPT !.status = "ACTIVE", !.owner = user,
                                      !.messages = TurnMessages(t, 0), !.binding = k]
  <1>1. /\ TurnMessages(t, 0) \subseteq Message /\ IsFiniteSet(TurnMessages(t, 0))
        /\ \A m \in TurnMessages(t, 0) :
              m.turn \in Restores /\ m.at <= Cardinality(TurnMessages(t, 0))
    <2>1. t \in Turns
      BY TurnCallsAssumption
    <2>2. {} \in SUBSET Message /\ IsFiniteSet({}) /\ Cardinality({}) = 0
      BY FS_EmptySet
    <2>3. /\ Cardinality({} \cup TurnMessages(t, 0)) = 0 + 2
          /\ \A m \in TurnMessages(t, 0) : m.turn = t /\ m.at \in {0 + 1, 0 + 2}
      BY <2>1, <2>2, AddedMessages
    <2>4. {} \cup TurnMessages(t, 0) = TurnMessages(t, 0)
      OBVIOUS
    <2>5. Cardinality(TurnMessages(t, 0)) = 2
      BY <2>3, <2>4
    <2>6. TurnMessages(t, 0) \subseteq Message /\ IsFiniteSet(TurnMessages(t, 0))
      BY <2>1, TurnMessagesType
    <2>7. QED  BY <2>3, <2>5, <2>6
  <1>2. NoSession \in StoredSession /\ NoSession.revision = 0 /\ NoSession.context = DefaultContext(0)
        /\ NoSession.compacted = {} /\ NoSession.summary = {} /\ NoSession.completed = {}
    BY NoSessionWellFormed DEF NoSession
  <1>3. /\ new.status = "ACTIVE" /\ new.owner = user /\ new.messages = TurnMessages(t, 0)
        /\ new.revision = 0 /\ new.context = DefaultContext(0)
        /\ new.compacted = {} /\ new.summary = {} /\ new.completed = {}
    BY <1>2 DEF StoredSession
  <1>4. new \in StoredSession /\ DefaultContext(0).revision = 0
    BY <1>1, <1>2 DEF StoredSession, DefaultContext
  <1> HIDE DEF new
  <1>5. WellFormed(new) /\ SessionSound(new) /\ Exists(new)
    BY <1>1, <1>3, <1>4 DEF WellFormed, SessionSound, Exists
  <1>6. QED  BY <1>3, <1>4, <1>5 DEF Kept, NoSession, Exists, new

(* What another call has loaded stays sound when the revision is raised:   *)
(* it is above the one it has loaded.                                      *)
LEMMA LoadSoundWhenRaised ==
    ASSUME NEW k \in Call, NEW stored \in StoredSession, NEW new \in StoredSession,
           LoadSound(k, stored), LoadProgress(k), Raised(stored, new)
    PROVE  LoadSound(k, new)
  <1>1. k.loaded.revision \in Nat /\ stored.revision \in Nat /\ k.loaded.messages \in SUBSET Message
    BY DEF Call, Aggregate, StoredSession
  <1>2. k.loaded.revision < new.revision
    BY <1>1 DEF LoadSound, Raised
  <1>3. "messages" \in k.asked =>
           /\ \A m \in k.loaded.messages : m.turn \in stored.completed \cup Restores
           /\ Spent(k.loaded.messages, stored) \/ First(k.loaded.messages, stored)
    BY DEF LoadSound
  <1>4. "messages" \in k.asked =>
           /\ \A m \in k.loaded.messages : m.turn \in new.completed \cup Restores
           /\ \/ Spent(k.loaded.messages, new)
              \/ /\ ~Spent(k.loaded.messages, stored) /\ First(k.loaded.messages, new)
                 /\ new.summary = stored.summary
    BY <1>1, <1>3 DEF Raised, KeepsLists
  <1>5. "summary" \in k.later => Spent(k.loaded.messages, new) \/ k.loaded.summary = new.summary
    BY <1>4 DEF LoadSound, LoadProgress
  <1>6. /\ ~Exists(k.loaded) => k.loaded = AggregateOf(NoSession)
        /\ Exists(k.loaded) => Exists(new) /\ k.loaded.owner = new.owner
        /\ k.loaded.revision <= new.revision /\ k.loaded.revision # new.revision
    BY <1>1, <1>2 DEF LoadSound, Raised
  <1>7. QED  BY <1>4, <1>5, <1>6 DEF LoadSound

(* It does when the session is restored: nothing was loaded of it.         *)
LEMMA LoadSoundWhenRestored ==
    ASSUME NEW k \in Call, NEW new, LoadSound(k, NoSession), LoadProgress(k), Kept(NoSession, new)
    PROVE  LoadSound(k, new)
  <1>1. ~Exists(k.loaded) /\ k.loaded = AggregateOf(NoSession)
    BY DEF LoadSound, Exists, NoSession
  <1>2. new.revision = 0 /\ new.context = DefaultContext(0)
    BY DEF Kept, NoSession
  <1>3. "messages" \notin k.asked /\ "messages" \notin k.later /\ "summary" \notin k.later
    BY <1>1 DEF LoadProgress
  <1>4. QED  BY <1>1, <1>2, <1>3, NothingLoaded DEF LoadSound

(* It does when messages are compacted: that spends every list of them.    *)
LEMMA LoadSoundWhenCompacted ==
    ASSUME NEW k \in Call, NEW stored \in StoredSession, WellFormed(stored), NEW new,
           LoadSound(k, stored), LoadProgress(k), Exists(stored), Kept(stored, new),
           NEW N \in SUBSET Message, First(N, stored), Oldest(N) # {},
           new.compacted = stored.compacted \cup Oldest(N)
    PROVE  LoadSound(k, new)
  <1> DEFINE loaded == k.loaded
  <1>1. /\ new.revision = stored.revision /\ new.context = stored.context
        /\ new.owner = stored.owner /\ new.messages = stored.messages /\ Exists(new)
        /\ new.completed = stored.completed
    BY DEF Kept
  <1>2. loaded.messages \in SUBSET Message /\ Active(new) \subseteq Active(stored)
    BY <1>1 DEF Call, Aggregate, Active
  <1>3. /\ ~Exists(loaded) => loaded = AggregateOf(NoSession)
        /\ Exists(loaded) => Exists(new) /\ loaded.owner = new.owner
        /\ loaded.revision <= new.revision
        /\ loaded.revision = new.revision => loaded.context = new.context
        /\ "messages" \in k.later /\ loaded.revision = new.revision =>
              Active(new) \subseteq loaded.messages
    BY <1>1, <1>2 DEF LoadSound
  <1>4. ASSUME "messages" \in k.asked
        PROVE  /\ \A m \in loaded.messages : m.turn \in new.completed \cup Restores
               /\ Spent(loaded.messages, new)
    <2>1. /\ \A m \in loaded.messages : m.turn \in stored.completed \cup Restores
          /\ Spent(loaded.messages, stored) \/ First(loaded.messages, stored)
      BY <1>4 DEF LoadSound
    <2>2. Spent(loaded.messages, new)
      BY <1>1, <1>2, <2>1, CompactionSpendsLists
    <2>3. QED  BY <1>1, <2>1, <2>2
  <1>5. "summary" \in k.later => Spent(loaded.messages, new)
    BY <1>4 DEF LoadProgress
  <1>6. QED  BY <1>3, <1>4, <1>5 DEF LoadSound

(* So does the rest of what is known of a call that has not the rows.      *)
LEMMA OthersSound ==
    ASSUME NEW d, NEW k, NEW stored, NEW new,
           CallSound(d, k, stored), k.phase \notin {"claimed", "written"}, LoadSound(k, new),
           Exists(new), Exists(stored) => new.owner = stored.owner
    PROVE  CallSound(d, k, new)
  BY DEF CallSound, Checked, Claimed

(* A COMMIT keeps the invariant.                                           *)
LEMMA CommitSound ==
    ASSUME StoreInvariant, NEW c \in Calls, Commit(c)
    PROVE  StoreInvariant'
  <1> DEFINE others == Calls \ {c}
  <1>1. End(c, "done")
    BY DEF Commit
  <1> DEFINE k == Fresh("done", call[c].user)
  <1>2. /\ call \in [Calls -> Call] /\ db \in StoredSession /\ WellFormed(db) /\ SessionSound(db)
        /\ call[c].phase = "written" /\ call[c].user \in Users /\ c = holder
        /\ holder' = Nobody /\ db.revision <= MaxRevision
    BY CallFacts DEF Commit, Call, StoreInvariant, StoreTypeOK
  <1>3. k \in Call /\ k.phase \in Outcomes
    BY <1>2, FreshType DEF Outcomes
  <1>4. call' \in [Calls -> Call] /\ call'[c] = k /\ \A d \in others : call'[d] = call[d]
    BY <1>1, <1>2, <1>3 DEF End
  <1>5. \A d \in others : /\ CallSound(d, call[d], db)
                          /\ LoadSound(call[d], db) /\ LoadProgress(call[d])
                          /\ call[d].phase \notin {"claimed", "written"}
    BY <1>2, CallFacts DEF CallSound
  <1>6. /\ db' \in StoredSession /\ WellFormed(db') /\ SessionSound(db') /\ Exists(db')
        /\ Exists(db) => db'.owner = db.owner
        /\ db'.revision <= MaxRevision
        /\ db'.completed \subseteq db.completed \cup {c}
        /\ \A d \in others : LoadSound(call[d], db')
    <2>1. CASE c \in Commits
      <3>1. PICK n \in Conversations \cup {NoConversation} :
                   db' = Committed(db, c, call[c].user, MergedContext(db.context, c), n)
        BY <2>1, TurnCommits
      <3>2. /\ c \in Turns /\ c \notin db.completed \cup Restores
            /\ db.owner \in {NoUser, call[c].user} /\ db.revision < MaxRevision
        BY <2>1, TurnCommits, TurnCallsAssumption, CallsAreDistinctAssumption
      <3>3. Raised(db, db') /\ db'.completed = db.completed \cup {c}
        BY <1>2, <3>1, <3>2, TurnRaises
      <3>4. \A d \in others : LoadSound(call[d], db')
        BY <1>2, <1>5, <3>3, LoadSoundWhenRaised DEF Raised
      <3>5. QED  BY <1>2, <3>2, <3>3, <3>4, LimitsAssumption DEF Raised, StoredSession
    <2>2. CASE c \in Resets
      <3>1. Exists(db) /\ db' = WasReset(db) /\ db.revision < MaxRevision
        BY <2>2, ResetCommits
      <3>2. Raised(db, db') /\ db'.completed = db.completed
        BY <1>2, <3>1, ResetRaises
      <3>3. \A d \in others : LoadSound(call[d], db')
        BY <1>2, <1>5, <3>2, LoadSoundWhenRaised DEF Raised
      <3>4. QED  BY <1>2, <3>1, <3>2, <3>3, LimitsAssumption DEF Raised, StoredSession
    <2>3. CASE c \in Compactions
      <3> DEFINE ids     == call[c].ids
                 list    == call[c].loaded.messages
                 summary == call[c].loaded.summary \cup ids
      <3>1. /\ Exists(db) /\ ids \in SUBSET Active(db)
            /\ list \in SUBSET Message /\ First(list, db) /\ Oldest(list) # {} /\ ids = Oldest(list)
            /\ summary \in SUBSET Message
            /\ db' = Compacted(db, summary, ids)
        BY <2>3, CompactionCommits DEF Aggregate
      <3> HIDE DEF ids, list, summary
      <3>2. Kept(db, db') /\ db'.compacted = db.compacted \cup ids
        BY <1>2, <3>1, CompactionKeeps
      <3>3. \A d \in others : LoadSound(call[d], db')
        BY <1>2, <1>5, <3>1, <3>2, LoadSoundWhenCompacted
      <3>4. QED  BY <1>2, <3>2, <3>3 DEF Kept
    <2>4. CASE c \in Restores
      <3>1. PICK n \in Conversations :
                   db' = [NoSession EXCEPT !.status = "ACTIVE", !.owner = call[c].user,
                                           !.messages = TurnMessages(c, 0), !.binding = n]
        BY <2>4, RestoreCommits
      <3>2. db = NoSession
        BY <2>4, RestoreCommits
      <3>3. Kept(db, db')
        BY <2>4, <1>2, <3>1, <3>2, RestoreKeeps
      <3>4. \A d \in others : LoadSound(call[d], db')
        BY <1>2, <1>5, <3>2, <3>3, LoadSoundWhenRestored
      <3>5. QED  BY <1>2, <3>3, <3>4 DEF Kept
    <2>5. QED  BY <2>1, <2>2, <2>3, <2>4 DEF Calls
  <1>7. StoreTypeOK'
    <2>1. \A d \in Calls : d = holder' <=> call'[d].phase \in {"claimed", "written"}
      BY <1>2, <1>3, <1>4, <1>5, CallsAreDistinctAssumption DEF Outcomes
    <2>2. QED  BY <1>2, <1>4, <1>6, <2>1 DEF StoreTypeOK
  <1>8. CompletedOnce'
    BY <1>3, <1>4, <1>6 DEF StoreInvariant, CompletedOnce, Calls
  <1>9. \A d \in Calls : CallSound(d, call'[d], db')
    <2>1. CallSound(c, call'[c], db')
      BY <1>2, <1>4, <1>6, FreshSound DEF Outcomes
    <2>2. \A d \in others : CallSound(d, call'[d], db')
      BY <1>4, <1>5, <1>6, OthersSound
    <2>3. QED  BY <2>1, <2>2
  <1>10. QED  BY <1>6, <1>7, <1>8, <1>9 DEF StoreInvariant

-----------------------------------------------------------------------------
(* Every step keeps the invariant.                                         *)
LEMMA StoreStepSound == StoreInvariant /\ [StoreNext]_storeVars => StoreInvariant'
  <1> SUFFICES ASSUME StoreInvariant, [StoreNext]_storeVars PROVE StoreInvariant'
    OBVIOUS
  <1>1. CASE UNCHANGED storeVars
    BY <1>1 DEF storeVars, StoreInvariant, StoreTypeOK, CompletedOnce
  <1>2. ASSUME NEW c \in Calls, Step(c) PROVE StoreInvariant'
    BY <1>2, BeginSound, LoadStepSound, ValidateSound, ReadRowSound, InsertSound, ClaimSound,
       CheckIdsSound, CommitSound DEF Step
  <1>3. ASSUME NEW c \in Calls, Break(c) PROVE StoreInvariant'
    BY <1>3, AbandonSound DEF Break, Abandon, Outcomes
  <1>4. QED  BY <1>1, <1>2, <1>3 DEF StoreNext

(* The store's invariant holds in every state.                             *)
LEMMA StoreInvariantHolds == StoreSpec => []StoreInvariant
  BY StoreInitSound, StoreStepSound, PTL DEF StoreSpec

(* The types; no revision outgrows its column, and whoever holds the rows  *)
(* is inside its transaction (validateCommit; the row locks).              *)
THEOREM StoreTypeCorrect == StoreSpec => []StoreTypeOK
  <1>1. StoreInvariant => StoreTypeOK
    BY DEF StoreInvariant
  <1>2. QED  BY <1>1, StoreInvariantHolds, PTL

(* An aggregate whose revision is still the stored one, and was read       *)
(* before its messages, misses no active message, though it was put        *)
(* together by several queries among commits (loadSessionAggregate).       *)
THEOREM LoadComplete == StoreSpec => []LoadMissesNothing
  <1>1. StoreInvariant => LoadMissesNothing
    BY CallFacts DEF LoadMissesNothing, CallSound, LoadSound, Active
  <1>2. QED  BY <1>1, StoreInvariantHolds, PTL

(* A compaction that has read the summary after the messages extends the   *)
(* stored summary by what it compacts, in whatever order the others read   *)
(* (commitCompaction).                                                     *)
THEOREM SummariesAreExtended == StoreSpec => CompactionsKeepSummary
  <1>1. StoreInvariant /\ [StoreNext]_storeVars =>
          [\A k \in Compactions :
              Commit(k) /\ "summary" \in call[k].later
                  => db'.summary = db.summary \cup call[k].ids]_storeVars
    <2> SUFFICES ASSUME StoreInvariant, NEW k \in Compactions, Commit(k),
                        "summary" \in call[k].later
                 PROVE  db'.summary = db.summary \cup call[k].ids
      OBVIOUS
    <2>1. db' = Compacted(db, db.summary \cup call[k].ids, call[k].ids)
      BY CompactionCommits
    <2>2. db \in StoredSession
      BY DEF StoreInvariant, StoreTypeOK
    <2>3. QED  BY <2>1, <2>2 DEF Compacted, StoredSession
  <1>2. QED
    BY <1>1, StoreInvariantHolds, PTL DEF StoreSpec, CompactionsKeepSummary

(* Each call that is answered with a conflict has lost to another one: the *)
(* claim found no row at its revision, the row it read is of a session     *)
(* created since, its key is there, or its messages are compacted.         *)
LEMMA ConflictStep ==
    ASSUME StoreInvariant, NEW c \in Calls, Step(c) \/ Break(c),
           NEW d \in Calls, call[d].phase # "conflict", call'[d].phase = "conflict"
    PROVE  \/ db.revision # call[d].loaded.revision
           \/ Exists(db) /\ ~Exists(call[d].loaded)
           \/ call[d].ids \cap db.compacted # {}
  <1>1. call \in [Calls -> Call] /\ call[c] \in Call /\ CallSound(c, call[c], db) /\ SessionSound(db)
    BY CallFacts
  <1>2. ASSUME NEW phase, Goto(c, phase) PROVE d = c /\ phase = "conflict"
    BY <1>1, <1>2 DEF Goto, Call
  <1>3. ASSUME NEW outcome \in Outcomes, End(c, outcome) PROVE d = c /\ outcome = "conflict"
    <2> DEFINE k == Fresh(outcome, call[c].user)
    <2>1. k.phase = outcome
      BY DEF Fresh
    <2>2. call' = [call EXCEPT ![c] = k]
      BY <1>3 DEF End
    <2> HIDE DEF k
    <2>3. QED  BY <1>1, <2>1, <2>2
  <1>4. CASE Begin(c)
    BY <1>2, <1>4 DEF Begin
  <1>5. CASE Load(c)
    <2>1. call'[d].phase \in {call[d].phase, "loaded"}
      BY <1>1, <1>5 DEF Load, Call
    <2>2. QED  BY <2>1
  <1>6. CASE Validate(c)
    <2>1. ~End(c, "failed")
      BY <1>3 DEF Outcomes
    <2>2. call'[d].phase \in {call[d].phase, "reading", "claiming"}
      BY <1>1, <1>6, <2>1 DEF Validate, Call
    <2>3. QED  BY <2>2
  <1>7. CASE ReadRow(c)
    <2>1. End(c, "conflict") /\ d = c
      BY <1>2, <1>3, <1>7 DEF ReadRow, Outcomes
    <2>2. CASE Exists(db)
      <3>1. db.owner # call[c].user
        BY <1>2, <1>7, <2>2, <2>1 DEF ReadRow
      <3>2. call[c].loaded.owner \in {NoUser, call[c].user} /\ call[c].phase = "reading"
        BY <1>1, <1>7 DEF ReadRow, CallSound, Checked, Open
      <3>3. Exists(call[c].loaded) => call[c].loaded.owner = db.owner
        BY <1>1 DEF CallSound, LoadSound
      <3>4. QED  BY <1>1, <2>1, <2>2, <3>1, <3>2, <3>3, NoUserAssumption DEF SessionSound
    <2>3. CASE ~Exists(db)
      <3>1. call[c].loaded.revision # 0
        BY <1>2, <1>7, <2>3 DEF ReadRow
      <3>2. db.revision = 0
        BY <2>3, CallFacts DEF WellFormed, NoSession
      <3>3. QED  BY <2>1, <3>1, <3>2
    <2>4. QED  BY <2>2, <2>3
  <1>8. CASE Insert(c)
    <2>1. Exists(db) /\ d = c
      BY <1>2, <1>3, <1>8 DEF Insert, Outcomes
    <2>2. ~Exists(call[c].loaded)
      BY <1>1, <1>8 DEF Insert, CallSound, Checked
    <2>3. QED  BY <2>1, <2>2
  <1>9. CASE Claim(c)
    BY <1>2, <1>3, <1>9 DEF Claim, Outcomes
  <1>10. CASE CheckIds(c)
    BY <1>2, <1>3, <1>10 DEF CheckIds, Abandon, Outcomes
  <1>11. CASE Commit(c)
    BY <1>3, <1>11 DEF Commit, Outcomes
  <1>12. CASE Break(c)
    BY <1>3, <1>12 DEF Break, Abandon, Outcomes
  <1>13. QED
    BY <1>4, <1>5, <1>6, <1>7, <1>8, <1>9, <1>10, <1>11, <1>12 DEF Step

(* A SESSION_CONFLICT is answered only to a call that has lost to another  *)
(* (claimed !== 1, P2002, updated !== ids).                                *)
THEOREM ConflictsAreLost == StoreSpec => ConflictsHaveAWinner
  <1>1. StoreInvariant /\ [StoreNext]_storeVars =>
          [\A c \in Calls : call[c].phase # "conflict" /\ call'[c].phase = "conflict"
              => \/ db.revision # call[c].loaded.revision
                 \/ Exists(db) /\ ~Exists(call[c].loaded)
                 \/ call[c].ids \cap db.compacted # {}]_storeVars
    BY ConflictStep DEF StoreNext
  <1>2. QED
    BY <1>1, StoreInvariantHolds, PTL DEF StoreSpec, ConflictsHaveAWinner

-----------------------------------------------------------------------------
(* The actions of the port, seen through the instance, are those of the    *)
(* store's own operators on the committed rows.                            *)
LEMMA PortNames ==
    /\ Port!AtomicInit <=> db = NoSession
    /\ \A t \in Commits : Port!AtomicCommit(t) <=>
          /\ t \notin db.completed
          /\ db.revision < MaxRevision
          /\ \E user \in Users, k \in Conversations \cup {NoConversation} :
                /\ db.owner \in {NoUser, user}
                /\ db' = Committed(db, t, user, MergedContext(db.context, t), k)
    /\ Port!AtomicReset <=> Exists(db) /\ db.revision < MaxRevision /\ db' = WasReset(db)
    /\ Port!AtomicCompact <=>
          \E ids \in SUBSET (db.messages \ db.compacted) :
              /\ ids \subseteq db'.summary
              /\ db' = Compacted(db, db'.summary, ids)
    /\ \A t \in Restores : Port!AtomicRestore(t) <=>
          /\ ~Exists(db)
          /\ \E user \in Users, k \in Conversations :
                db' = [NoSession EXCEPT !.status = "ACTIVE", !.owner = user,
                                        !.messages = TurnMessages(t, 0), !.binding = k]
  <1>1. /\ Port!NoSession = NoSession
        /\ Port!Exists(db) <=> Exists(db)
    BY DEF Port!NoSession, NoSession, Port!Exists, Exists, Port!DefaultContext, DefaultContext
  <1>2. /\ Port!WasReset(db) = WasReset(db)
        /\ \A summary, ids : Port!Compacted(db, summary, ids) = Compacted(db, summary, ids)
    BY DEF Port!WasReset, WasReset, Port!Compacted, Compacted, Port!DefaultContext, DefaultContext
  <1>3. \A t, before : Port!TurnMessages(t, before) = TurnMessages(t, before)
    BY DEF Port!TurnMessages, TurnMessages
  <1>4. \A context, t : Port!MergedContext(context, t) = MergedContext(context, t)
    BY DEF Port!MergedContext, MergedContext
  <1>5. \A t, user, next, k : Port!Committed(db, t, user, next, k) = Committed(db, t, user, next, k)
    <2>1. \A S : Port!Cardinality(S) = Cardinality(S)
      BY DEF Port!Cardinality, Cardinality
    <2>2. QED  BY <1>3, <2>1 DEF Port!Committed, Committed
  <1>6. Port!AtomicInit <=> db = NoSession
    BY <1>1 DEF Port!AtomicInit
  <1>7. \A t \in Commits : Port!AtomicCommit(t) <=>
          /\ t \notin db.completed
          /\ db.revision < MaxRevision
          /\ \E user \in Users, k \in Conversations \cup {NoConversation} :
                /\ db.owner \in {NoUser, user}
                /\ db' = Committed(db, t, user, MergedContext(db.context, t), k)
    BY <1>4, <1>5 DEF Port!AtomicCommit
  <1>8. Port!AtomicReset <=> Exists(db) /\ db.revision < MaxRevision /\ db' = WasReset(db)
    BY <1>1, <1>2 DEF Port!AtomicReset
  <1>9. Port!AtomicCompact <=>
          \E ids \in SUBSET (db.messages \ db.compacted) :
              /\ ids \subseteq db'.summary
              /\ db' = Compacted(db, db'.summary, ids)
    BY <1>2 DEF Port!AtomicCompact
  <1>10. \A t, user, k :
            Port!RestoredSession(t, user, k) =
                [NoSession EXCEPT !.status = "ACTIVE", !.owner = user,
                                  !.messages = TurnMessages(t, 0), !.binding = k]
    BY <1>1, <1>3 DEF Port!RestoredSession
  <1>11. \A t \in Restores : Port!AtomicRestore(t) <=>
          /\ ~Exists(db)
          /\ \E user \in Users, k \in Conversations :
                db' = [NoSession EXCEPT !.status = "ACTIVE", !.owner = user,
                                        !.messages = TurnMessages(t, 0), !.binding = k]
    BY <1>1, <1>10, Zenon DEF Port!AtomicRestore
  <1>12. QED  BY <1>6, <1>7, <1>8, <1>9, <1>11

(* A COMMIT is one atomic call of the port; no other step changes what is  *)
(* committed.                                                              *)
LEMMA CommitIsAtomic ==
    ASSUME StoreInvariant, NEW c \in Calls, Commit(c)
    PROVE  Port!AtomicNext
  <1>1. CASE c \in Commits
    <2>1. Port!AtomicCommit(c)
      BY <1>1, TurnCommits, PortNames
    <2>2. QED  BY <1>1, <2>1 DEF Port!AtomicNext
  <1>2. CASE c \in Resets
    <2>1. Port!AtomicReset
      BY <1>2, ResetCommits, PortNames
    <2>2. QED  BY <2>1 DEF Port!AtomicNext
  <1>3. CASE c \in Compactions
    <2> DEFINE ids     == call[c].ids
               summary == call[c].loaded.summary \cup ids
    <2>3. ids \in SUBSET (db.messages \ db.compacted) /\ db' = Compacted(db, summary, ids)
      BY <1>3, CompactionCommits DEF Active
    <2>4. db \in StoredSession
      BY DEF StoreInvariant, StoreTypeOK
    <2> HIDE DEF ids
    <2>5. db'.summary = summary
      BY <2>3, <2>4 DEF Compacted, StoredSession
    <2>1. Port!AtomicCompact
      BY <2>3, <2>5, PortNames
    <2>2. QED  BY <2>1 DEF Port!AtomicNext
  <1>4. CASE c \in Restores
    <2>1. ~Exists(NoSession)
      BY DEF Exists, NoSession
    <2>2. Port!AtomicRestore(c)
      BY <1>4, <2>1, RestoreCommits, PortNames
    <2>3. QED  BY <1>4, <2>2 DEF Port!AtomicNext
  <1>5. QED  BY <1>1, <1>2, <1>3, <1>4 DEF Calls

(* PrismaRuntimeStore implements the RuntimeStore port, in whatever order  *)
(* its loads read the relations: a turn, a reset, a compaction and a       *)
(* restore each happen at the instant of their COMMIT and are computed     *)
(* from the session as it is then, but for what a compaction keeps of the  *)
(* stored summary, which the port leaves open.                             *)
THEOREM StoreImplementsPort == StoreSpec => AtomicPort
  <1>1. StoreInit => Port!AtomicInit
    BY PortNames DEF StoreInit
  <1>2. StoreInvariant /\ [StoreNext]_storeVars => [Port!AtomicNext]_db
    <2> SUFFICES ASSUME StoreInvariant, StoreNext, db' # db PROVE Port!AtomicNext
      BY DEF storeVars
    <2>1. PICK c \in Calls : Step(c) \/ Break(c)
      BY DEF StoreNext
    <2>2. Commit(c)
      BY <2>1 DEF Step, Begin, Load, Validate, ReadRow, Insert, Claim, CheckIds, Break, Abandon
    <2>3. QED  BY <2>2, CommitIsAtomic
  <1>3. QED
    BY <1>1, <1>2, StoreInvariantHolds, PTL DEF StoreSpec, AtomicPort, Port!AtomicSpec

=============================================================================

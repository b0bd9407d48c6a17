------------------------- MODULE RuntimeStore_proofs -------------------------
(* What each call of the store preserves, for every value of the constants. *)
EXTENDS RuntimeStore, FiniteSetTheorems, TLAPS

(* loadSessionAggregate returns an aggregate.                              *)
LEMMA AggregateOfType ==
    ASSUME NEW stored \in StoredSession
    PROVE  AggregateOf(stored) \in Aggregate
  BY DEF AggregateOf, StoredSession, Aggregate

(* The session that is not there is well formed, and its aggregate typed.  *)
LEMMA NoSessionWellFormed == NoSession \in StoredSession /\ WellFormed(NoSession)
  <1>1. NoSession \in StoredSession
    BY DEF NoSession, StoredSession, DefaultContext, Context
  <1>2. IsFiniteSet(NoSession.messages)
    BY FS_EmptySet DEF NoSession
  <1>3. QED  BY <1>1, <1>2 DEF NoSession, WellFormed

(* The messages of a turn are finitely many messages.                      *)
LEMMA TurnMessagesType ==
    ASSUME NEW t \in Turns, NEW before \in Nat
    PROVE  /\ TurnMessages(t, before) \subseteq Message
           /\ IsFiniteSet(TurnMessages(t, before))
           /\ {m.turn : m \in TurnMessages(t, before)} = {t}
  <1> DEFINE first  == [turn |-> t, role |-> "USER", at |-> before + 1]
             second == [turn |-> t, role |-> "ASSISTANT", at |-> before + 2]
  <1>1. first \in Message /\ second \in Message
    BY DEF Message, Roles
  <1>2. TurnMessages(t, before) = {first, second}
    BY DEF TurnMessages
  <1>3. IsFiniteSet({first, second})
    <2>1. IsFiniteSet({first})
      BY FS_Singleton
    <2>2. IsFiniteSet({first} \cup {second})
      BY <2>1, FS_AddElement
    <2>3. QED  BY <2>2
  <1>4. first.turn = t /\ second.turn = t
    OBVIOUS
  <1>5. {m.turn : m \in {first, second}} = {t}
    BY <1>4
  <1>6. QED  BY <1>1, <1>2, <1>3, <1>5

(* The messages of a turn come after all that are there.                   *)
LEMMA AddedMessages ==
    ASSUME NEW S \in SUBSET Message, IsFiniteSet(S), NEW t \in Turns,
           \A m \in S : m.at <= Cardinality(S)
    PROVE  LET n == Cardinality(S)
               added == TurnMessages(t, n)
           IN  /\ n \in Nat
               /\ IsFiniteSet(S \cup added)
               /\ Cardinality(S \cup added) = n + 2
               /\ \A m \in added : m.turn = t /\ m.at \in {n + 1, n + 2}
  <1> DEFINE n == Cardinality(S)
             first  == [turn |-> t, role |-> "USER", at |-> n + 1]
             second == [turn |-> t, role |-> "ASSISTANT", at |-> n + 2]
  <1>1. n \in Nat
    BY FS_CardinalityType
  <1>2. first.at = n + 1 /\ second.at = n + 2 /\ first.turn = t /\ second.turn = t
    OBVIOUS
  <1>3. first \notin S
    BY <1>1, <1>2
  <1>4. second \notin S \cup {first}
    BY <1>1, <1>2
  <1> HIDE DEF first, second
  <1>5. IsFiniteSet(S \cup {first}) /\ Cardinality(S \cup {first}) = n + 1
    BY <1>3, FS_AddElement
  <1>6. /\ IsFiniteSet((S \cup {first}) \cup {second})
        /\ Cardinality((S \cup {first}) \cup {second}) = (n + 1) + 1
    BY <1>4, <1>5, FS_AddElement
  <1>7. TurnMessages(t, n) = {first, second}
    BY DEF TurnMessages, first, second
  <1>8. S \cup TurnMessages(t, n) = (S \cup {first}) \cup {second}
    BY <1>7
  <1>9. \A m \in {first, second} : m.turn = t /\ m.at \in {n + 1, n + 2}
    BY <1>2
  <1>10. (n + 1) + 1 = n + 2
    BY <1>1
  <1> HIDE DEF n
  <1>11. QED  BY <1>1, <1>6, <1>7, <1>8, <1>9, <1>10 DEF n

(* A merged context is a context, one revision later.                      *)
LEMMA MergedContextType ==
    ASSUME NEW context \in Context, NEW t \in Turns
    PROVE  /\ MergedContext(context, t) \in Context
           /\ MergedContext(context, t).revision = context.revision + 1
  BY DEF MergedContext, Context

(* commitTurn keeps a session well formed.                                 *)
LEMMA CommittedWellFormed ==
    ASSUME NEW stored \in StoredSession, WellFormed(stored),
           NEW t \in Turns, NEW user \in Users, NEW next \in Context,
           NEW conversation \in Conversations \cup {NoConversation}
    PROVE  /\ Committed(stored, t, user, next, conversation) \in StoredSession
           /\ WellFormed(Committed(stored, t, user, next, conversation))
  <1> DEFINE before == Cardinality(stored.messages)
             after  == Committed(stored, t, user, next, conversation)
  <1>1. before \in Nat
    BY FS_CardinalityType DEF WellFormed
  <1>2. /\ TurnMessages(t, before) \subseteq Message
        /\ IsFiniteSet(TurnMessages(t, before))
    BY <1>1, TurnMessagesType
  <1>3. /\ after.status = "ACTIVE"
        /\ after.messages = stored.messages \cup TurnMessages(t, before)
        /\ after.compacted = stored.compacted
    BY DEF Committed, StoredSession
  <1>4. IsFiniteSet(after.messages)
    BY <1>2, <1>3, FS_Union DEF WellFormed
  <1>5. after \in StoredSession
    BY <1>2 DEF Committed, StoredSession, Context
  <1>6. QED  BY <1>3, <1>4, <1>5 DEF WellFormed, Exists

(* resetSession keeps a session well formed.                               *)
LEMMA WasResetWellFormed ==
    ASSUME NEW stored \in StoredSession
    PROVE  WasReset(stored) \in StoredSession /\ WellFormed(WasReset(stored))
  <1>1. WasReset(stored) \in StoredSession
    <2>1. stored.revision + 1 \in Nat
      BY DEF StoredSession
    <2>2. DefaultContext(stored.revision + 1) \in Context
      BY <2>1 DEF DefaultContext, Context
    <2>3. QED  BY <2>1, <2>2 DEF WasReset, StoredSession
  <1>2. /\ WasReset(stored).status = "RESET"
        /\ WasReset(stored).messages = {}
        /\ WasReset(stored).compacted = {}
    BY DEF WasReset, StoredSession
  <1>3. QED  BY <1>1, <1>2, FS_EmptySet DEF WellFormed, Exists

(* commitCompaction keeps a session well formed.                           *)
LEMMA CompactedWellFormed ==
    ASSUME NEW stored \in StoredSession, WellFormed(stored),
           NEW summary \in SUBSET Message, NEW expected \in Nat,
           NEW ids, CompactionAccepted(stored, expected, ids)
    PROVE  /\ Compacted(stored, summary, ids) \in StoredSession
           /\ WellFormed(Compacted(stored, summary, ids))
  <1>1. Compacted(stored, summary, ids) \in StoredSession
    BY DEF Compacted, CompactionAccepted, StoredSession
  <1>2. /\ Compacted(stored, summary, ids).status = stored.status
        /\ Compacted(stored, summary, ids).messages = stored.messages
        /\ Compacted(stored, summary, ids).compacted = stored.compacted \cup ids
    BY DEF Compacted, StoredSession
  <1>3. QED  BY <1>1, <1>2 DEF WellFormed, Exists, CompactionAccepted

=============================================================================

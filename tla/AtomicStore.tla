----------------------------- MODULE AtomicStore -----------------------------
(***************************************************************************)
(* What the RuntimeStore port promises of one session, whatever stores it: *)
(* a turn, a reset, a compaction and a restore each happen at one instant, *)
(* and each is computed from the session as it is at that instant.  A turn *)
(* extends the context that is stored, a compaction marks messages that    *)
(* are not marked yet and summarises at least them, a restore finds no     *)
(* session.  What a compaction keeps of the stored summary is not part of  *)
(* the promise: commitCompaction replaces it by the one it is given.       *)
(***************************************************************************)
EXTENDS RuntimeStore

CONSTANTS
    Commits,      \* the turns that may be committed
    Restores,     \* the past turns a restored session holds the messages of
    MaxRevision   \* the largest revision a session can have

VARIABLE stored

AtomicInit == stored = NoSession

AtomicCommit(t) ==
    /\ t \notin stored.completed
    /\ stored.revision < MaxRevision
    /\ \E user \in Users, conversation \in Conversations \cup {NoConversation} :
          /\ stored.owner \in {NoUser, user}
          /\ stored' = Committed(stored, t, user, MergedContext(stored.context, t), conversation)

AtomicReset ==
    /\ Exists(stored)
    /\ stored.revision < MaxRevision
    /\ stored' = WasReset(stored)

AtomicCompact ==
    \E ids \in SUBSET (stored.messages \ stored.compacted) :
        /\ ids \subseteq stored'.summary
        /\ stored' = Compacted(stored, stored'.summary, ids)

RestoredSession(p, user, conversation) ==
    [NoSession EXCEPT !.status = "ACTIVE", !.owner = user,
                      !.messages = TurnMessages(p, 0), !.binding = conversation]

AtomicRestore(p) ==
    /\ ~Exists(stored)
    /\ \E user \in Users, conversation \in Conversations :
          stored' = RestoredSession(p, user, conversation)

AtomicNext ==
    \/ \E t \in Commits : AtomicCommit(t)
    \/ AtomicReset
    \/ AtomicCompact
    \/ \E p \in Restores : AtomicRestore(p)

AtomicSpec == AtomicInit /\ [][AtomicNext]_stored

=============================================================================

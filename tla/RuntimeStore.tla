---------------------------- MODULE RuntimeStore ----------------------------
(***************************************************************************)
(* The durable state of one session and what each call of the RuntimeStore *)
(* port does to it, as the in-memory store implements it: every call is one *)
(* atomic step that either applies completely or rejects.                  *)
(*                                                                         *)
(* A stored session is a record; the absent map entry is the record with   *)
(* status "NONE" and revision 0, the value the code reads for it           *)
(* (current?.session.revision ?? 0).  One runtime has one provider and one *)
(* provider key, so the list of provider bindings holds at most one        *)
(* binding and is a conversation id or NoConversation.                     *)
(***************************************************************************)
EXTENDS Integers, FiniteSets

CONSTANTS
    Turns,           \* identities of turns; ids are fresh, so each is used once
    Users,           \* user ids
    Conversations,   \* external conversation ids of the provider
    NoUser,          \* no owner: the session does not exist
    NoConversation   \* no provider binding

ASSUME NoUserAssumption == NoUser \notin Users
ASSUME NoConversationAssumption == NoConversation \notin Conversations

Roles == {"USER", "ASSISTANT"}

(***************************************************************************)
(* A canonical message is identified by the turn that wrote it and its     *)
(* role; "at" is its index in the session's message array.  The content is *)
(* abstracted away.                                                        *)
(***************************************************************************)
Message == [turn : Turns, role : Roles, at : Nat]

(* A context: its revision and the turns whose contextPatch it contains.   *)
Context == [revision : Nat, applied : SUBSET Turns]

StoredSession ==
    [status    : {"NONE", "ACTIVE", "RESET"},
     owner     : Users \cup {NoUser},
     revision  : Nat,
     context   : Context,
     messages  : SUBSET Message,
     compacted : SUBSET Message,
     summary   : SUBSET Message,   \* the messages the stored summary covers
     binding   : Conversations \cup {NoConversation},
     completed : SUBSET Turns]

(* What loadSessionAggregate returns: compacted messages are left out.     *)
Aggregate ==
    [status   : {"NONE", "ACTIVE", "RESET"},
     owner    : Users \cup {NoUser},
     revision : Nat,
     context  : Context,
     messages : SUBSET Message,
     summary  : SUBSET Message,
     binding  : Conversations \cup {NoConversation}]

DefaultContext(revision) == [revision |-> revision, applied |-> {}]

NoSession ==
    [status    |-> "NONE",
     owner     |-> NoUser,
     revision  |-> 0,
     context   |-> DefaultContext(0),
     messages  |-> {},
     compacted |-> {},
     summary   |-> {},
     binding   |-> NoConversation,
     completed |-> {}]

Exists(session) == session.status # "NONE"

(* A session that does not exist holds nothing, and only messages of the   *)
(* session are marked as compacted.                                        *)
WellFormed(stored) ==
    /\ IsFiniteSet(stored.messages)
    /\ stored.compacted \subseteq stored.messages
    /\ ~Exists(stored) => stored = NoSession

AggregateOf(stored) ==
    [status   |-> stored.status,
     owner    |-> stored.owner,
     revision |-> stored.revision,
     context  |-> stored.context,
     messages |-> stored.messages \ stored.compacted,
     summary  |-> stored.summary,
     binding  |-> stored.binding]

-----------------------------------------------------------------------------
(* commitTurn                                                              *)

(* Mutants of the guard: a check of assertCommit is missing.               *)
CommitAcceptedAnyRevision(stored, expected, user) ==
    stored.owner \in {NoUser, user}
CommitAcceptedAnyOwner(stored, expected, user) ==
    stored.revision = expected

CommitAccepted(stored, expected, user) ==
    /\ stored.revision = expected
    /\ Exists(stored) => stored.owner = user

TurnMessages(turn, before) ==
    {[turn |-> turn, role |-> "USER",      at |-> before + 1],
     [turn |-> turn, role |-> "ASSISTANT", at |-> before + 2]}

(* The context a turn proposes: its own loaded context with its patch.     *)
MergedContext(context, turn) ==
    [revision |-> context.revision + 1, applied |-> context.applied \cup {turn}]

(* Mutant: the session's revision is counted up from the stored one.       *)
CommittedStaleRevision(stored, turn, user, next, conversation) ==
    [stored EXCEPT
        !.status    = "ACTIVE",
        !.owner     = user,
        !.context   = next,
        !.messages  = @ \cup TurnMessages(turn, Cardinality(stored.messages)),
        !.binding   = IF conversation = NoConversation THEN @ ELSE conversation,
        !.completed = @ \cup {turn}]

Committed(stored, turn, user, next, conversation) ==
    [stored EXCEPT
        !.status    = "ACTIVE",
        !.owner     = user,
        !.revision  = next.revision,
        !.context   = next,
        !.messages  = @ \cup TurnMessages(turn, Cardinality(stored.messages)),
        !.binding   = IF conversation = NoConversation THEN @ ELSE conversation,
        !.completed = @ \cup {turn}]

-----------------------------------------------------------------------------
(* resetSession                                                            *)

ResetAccepted(stored, expected) ==
    Exists(stored) /\ stored.revision = expected

(* Mutant: the compacted ids are kept.                                      *)
WasResetKeepingCompacted(stored) ==
    [stored EXCEPT
        !.status    = "RESET",
        !.revision  = @ + 1,
        !.context   = DefaultContext(stored.revision + 1),
        !.messages  = {},
        !.summary   = {},
        !.binding   = NoConversation]

WasReset(stored) ==
    [stored EXCEPT
        !.status    = "RESET",
        !.revision  = @ + 1,
        !.context   = DefaultContext(stored.revision + 1),
        !.messages  = {},
        !.compacted = {},
        !.summary   = {},
        !.binding   = NoConversation]

-----------------------------------------------------------------------------
(* commitCompaction: the revision does not change.                         *)

(* Mutant: ids already compacted are accepted.                             *)
CompactionAcceptedTwice(stored, expected, ids) ==
    Exists(stored) /\ stored.revision = expected /\ ids \subseteq stored.messages

CompactionAccepted(stored, expected, ids) ==
    /\ Exists(stored)
    /\ stored.revision = expected
    /\ ids \subseteq stored.messages
    /\ ids \cap stored.compacted = {}

Compacted(stored, summary, ids) ==
    [stored EXCEPT !.summary = summary, !.compacted = @ \cup ids]

=============================================================================

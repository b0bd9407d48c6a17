---------------------------- MODULE PostgresStore ----------------------------
(***************************************************************************)
(* PrismaRuntimeStore: the calls of the port on one session, each a        *)
(* transaction of several statements, among the calls of other processes   *)
(* on the same rows.  The database runs them READ COMMITTED: a statement   *)
(* reads what is committed when it runs; an UPDATE waits for the           *)
(* transaction that holds the row and then looks at its condition again;   *)
(* an INSERT waits for the one that is inserting the same key.             *)
(*                                                                         *)
(* "db" is what is committed.  Every write to a session that exists starts *)
(* with its row of context_states, every other one with its row of         *)
(* sessions, so one lock per session is enough: "holder" is the call whose *)
(* open transaction has updated the one row or inserted the other.  What   *)
(* the transaction writes after that nobody reads before it commits, so it *)
(* is written here at the commit.  The place of a message is that of its   *)
(* commit: the order the rows are returned in is not modelled.             *)
(***************************************************************************)
EXTENDS RuntimeStore, Sequences

CONSTANTS
    Commits,         \* commitTurn calls, named by their turns
    Resets,          \* resetSession calls
    Compactions,     \* commitCompaction calls
    Restores,        \* restoreSession calls, named by the turn they bring back
    RecentMessages,  \* messages a compaction never touches
    MaxRevision,     \* the largest value of the revision column (2147483647)
    Concurrency,     \* bound: how many calls are inside the store at a time
    Nobody

Calls == Commits \cup Resets \cup Compactions \cup Restores

ASSUME TurnCallsAssumption == Commits \cup Restores \subseteq Turns
ASSUME CallsAreDistinctAssumption ==
    /\ Commits \cap Restores = {}
    /\ Resets \cap Compactions = {}
    /\ (Commits \cup Restores) \cap (Resets \cup Compactions) = {}
    /\ Nobody \notin Calls
ASSUME LimitsAssumption == {RecentMessages, MaxRevision, Concurrency} \subseteq Nat

VARIABLES
    db,       \* the committed rows of the session
    holder,   \* the call whose transaction has the session's rows, or Nobody
    call      \* the calls in flight and their outcomes

storeVars == <<db, holder, call>>

(***************************************************************************)
(* The phases of a call: it loads the aggregate query by query, the        *)
(* transaction reads the session, claims or inserts its row and writes the *)
(* rest; it ends as done, with a SESSION_CONFLICT, which callers may       *)
(* retry, or as failed by another error (CONTEXT_INVALID, DATABASE_ERROR). *)
(***************************************************************************)
Relations == {"context", "messages", "summary"}
Outcomes == {"done", "conflict", "failed"}
Open == {"reading", "inserting", "claiming", "claimed", "written"}
Phases == {"idle", "loading", "loaded"} \cup Open \cup Outcomes

Call == [phase  : Phases,
         asked  : SUBSET ({"session"} \cup Relations),   \* the queries of the load so far
         later  : SUBSET {"messages", "summary"},   \* those asked after the one before it
         loaded : Aggregate,
         user   : Users,
         ids    : SUBSET Message]    \* compactedMessageIds

(* One type invariant: no revision outgrows its column, and whoever holds  *)
(* the rows is inside its transaction, having reached them.                *)
StoreTypeOK ==
    /\ db \in StoredSession
    /\ WellFormed(db)
    /\ db.revision <= MaxRevision
    /\ call \in [Calls -> Call]
    /\ holder \in Calls \cup {Nobody}
    /\ \A c \in Calls : c = holder <=> call[c].phase \in {"claimed", "written"}

(* A call that has not begun, or has ended.                                *)
Fresh(phase, user) ==
    [phase |-> phase, asked |-> {}, later |-> {}, loaded |-> AggregateOf(NoSession),
     user |-> user, ids |-> {}]

StoreInit ==
    /\ db = NoSession
    /\ holder = Nobody
    /\ \E users \in [Calls -> Users] : call = [c \in Calls |-> Fresh("idle", users[c])]

Goto(c, phase) == call' = [call EXCEPT ![c].phase = phase]

End(c, outcome) == call' = [call EXCEPT ![c] = Fresh(outcome, call[c].user)]

(* The transaction ends without a trace: its rows are let go.              *)
Abandon(c, outcome) ==
    /\ End(c, outcome)
    /\ holder' = IF holder = c THEN Nobody ELSE holder
    /\ UNCHANGED db

-----------------------------------------------------------------------------
(* loadSessionAggregate: one findUnique whose "include" names the          *)
(* relations.  It is no transaction: each relation is read by a query of   *)
(* its own, and in what order the code does not say.  The bindings, on     *)
(* which no call of the store depends, are left out.                       *)

Begin(c) ==
    /\ call[c].phase = "idle"
    /\ Cardinality({d \in Calls : call[d].phase \notin {"idle"} \cup Outcomes}) < Concurrency
    /\ Goto(c, IF c \in Restores THEN "inserting" ELSE "loading")
    /\ UNCHANGED <<db, holder>>

(* The session's row comes first, then its relations in any order.         *)
Queries(asked) == IF asked = {} THEN {"session"} ELSE Relations \ asked

(* Of the orders it matters whether the context came before the messages,  *)
(* and the messages before the summary.                                    *)
Earlier == [messages |-> "context", summary |-> "messages"]
ComesLater(asked, query) == query \in DOMAIN Earlier /\ Earlier[query] \in asked

(* What one query adds to the aggregate.                                   *)
Answered(loaded, query) ==
    CASE query = "session"  -> [loaded EXCEPT !.status = db.status, !.owner = db.owner]
      [] query = "context"  -> [loaded EXCEPT !.revision = db.revision, !.context = db.context]
      [] query = "messages" -> [loaded EXCEPT !.messages = db.messages \ db.compacted]
      [] query = "summary"  -> [loaded EXCEPT !.summary = db.summary]

Load(c) ==
    /\ call[c].phase = "loading"
    /\ \E query \in Queries(call[c].asked) :
          LET loaded == Answered(call[c].loaded, query)
              asked  == call[c].asked \cup {query}
          IN  call' = [call EXCEPT
                 ![c].loaded = loaded,
                 ![c].asked  = asked,
                 ![c].later  = IF ComesLater(call[c].asked, query) THEN @ \cup {query} ELSE @,
                 ![c].phase  = IF Queries(asked) = {} \/ ~Exists(loaded) THEN "loaded" ELSE @]
    /\ UNCHANGED <<db, holder>>

(* selectCompactionCandidates: all but the newest RecentMessages.          *)
Oldest(messages) ==
    {m \in messages : Cardinality({k \in messages : k.at > m.at}) >= RecentMessages}

(* The runtime gives up a turn of another user, a reset or a compaction of *)
(* no session, and a compaction with nothing to compact.                   *)
Unusable(c) ==
    \/ c \in Commits /\ call[c].loaded.owner \notin {NoUser, call[c].user}
    \/ c \notin Commits /\ ~Exists(call[c].loaded)
    \/ c \in Compactions /\ Oldest(call[c].loaded.messages) = {}

-----------------------------------------------------------------------------
(* The transactions                                                        *)

(* Mutant: the largest revision is accepted as well.                       *)
InvalidOffByOne(c) ==
    c \notin Compactions /\ call[c].loaded.revision > MaxRevision

(* validateCommit and the same check of resetSession.                      *)
Invalid(c) ==
    c \notin Compactions /\ call[c].loaded.revision >= MaxRevision

Validate(c) ==
    /\ call[c].phase = "loaded"
    /\ IF Unusable(c) \/ Invalid(c)
         THEN End(c, "failed")
         ELSE call' = [call EXCEPT ![c].phase = IF c \in Commits THEN "reading" ELSE "claiming",
                                   ![c].ids = IF c \in Compactions
                                                THEN Oldest(call[c].loaded.messages) ELSE {}]
    /\ UNCHANGED <<db, holder>>

(* commitTurn looks for the session's row before it knows what to write.   *)
ReadRow(t) ==
    /\ call[t].phase = "reading"
    /\ IF Exists(db)
         THEN IF db.owner = call[t].user THEN Goto(t, "claiming") ELSE End(t, "conflict")
         ELSE IF call[t].loaded.revision = 0 THEN Goto(t, "inserting")
                                             ELSE End(t, "conflict")
    /\ UNCHANGED <<db, holder>>

(* session.create, by commitTurn and by restoreSession: one that meets the *)
(* key fails with P2002, which is a conflict; while another transaction is *)
(* inserting the key it waits.                                             *)
Insert(c) ==
    /\ call[c].phase = "inserting"
    /\ \/ Exists(db) /\ End(c, "conflict") /\ UNCHANGED holder
       \/ ~Exists(db) /\ holder = Nobody /\ Goto(c, "written") /\ holder' = c
    /\ UNCHANGED db

(* Mutants: the claim does not ask for the revision it expects; it gives   *)
(* up at once when another transaction has the row.                        *)
ClaimAnyRevision(c) ==
    /\ call[c].phase = "claiming"
    /\ holder = Nobody
    /\ Goto(c, IF c \in Compactions THEN "claimed" ELSE "written")
    /\ holder' = c
    /\ UNCHANGED db
ClaimWithoutWaiting(c) ==
    /\ call[c].phase = "claiming"
    /\ IF db.revision # call[c].loaded.revision \/ holder # Nobody
         THEN End(c, "conflict") /\ UNCHANGED holder
         ELSE Goto(c, IF c \in Compactions THEN "claimed" ELSE "written") /\ holder' = c
    /\ UNCHANGED db

(* contextState.updateMany where the revision is the expected one: no row  *)
(* is found at another revision, whoever has it; the row is waited for.    *)
Claim(c) ==
    /\ call[c].phase = "claiming"
    /\ \/ /\ db.revision # call[c].loaded.revision
          /\ End(c, "conflict")
          /\ UNCHANGED holder
       \/ /\ db.revision = call[c].loaded.revision
          /\ holder = Nobody
          /\ Goto(c, IF c \in Compactions THEN "claimed" ELSE "written")
          /\ holder' = c
    /\ UNCHANGED db

(* Mutant: the messages are marked without being counted.                  *)
CheckIdsUncounted(k) ==
    /\ call[k].phase = "claimed"
    /\ IF ~(call[k].ids \subseteq db.messages) THEN Abandon(k, "failed")
       ELSE Goto(k, "written") /\ UNCHANGED <<db, holder>>

(* commitCompaction: the messages must be there, and none of them          *)
(* compacted already.                                                      *)
CheckIds(k) ==
    /\ call[k].phase = "claimed"
    /\ IF ~(call[k].ids \subseteq db.messages) THEN Abandon(k, "failed")
       ELSE IF call[k].ids \cap db.compacted # {} THEN Abandon(k, "conflict")
       ELSE Goto(k, "written") /\ UNCHANGED <<db, holder>>

(* Mutant: a turn leaves the revision as it was.                           *)
TurnRowsUnrevised(t) ==
    {[Committed(db, t, call[t].user, MergedContext(call[t].loaded.context, t), k)
         EXCEPT !.revision = db.revision] : k \in Conversations \cup {NoConversation}}

(* The rows each call has written when its transaction commits.            *)
TurnRows(t) ==
    {Committed(db, t, call[t].user, MergedContext(call[t].loaded.context, t), k) :
        k \in Conversations \cup {NoConversation}}

ResetRows == {WasReset(db)}

CompactedRows(k) ==
    {Compacted(db, call[k].loaded.summary \cup call[k].ids, call[k].ids)}

RestoredRows(t) ==
    {[NoSession EXCEPT !.status   = "ACTIVE",
                       !.owner    = call[t].user,
                       !.messages = TurnMessages(t, 0),
                       !.binding  = k] : k \in Conversations}

Written(c) ==
    CASE c \in Commits     -> TurnRows(c)
      [] c \in Resets      -> ResetRows
      [] c \in Compactions -> CompactedRows(c)
      [] c \in Restores    -> RestoredRows(c)

(* COMMIT.  Its answer may be lost with the connection: "done" says that   *)
(* the rows are stored, not that the caller was told so.                   *)
Commit(c) ==
    /\ call[c].phase = "written"
    /\ End(c, "done")
    /\ db' \in Written(c)
    /\ holder' = Nobody

(* A query or a statement fails, or the connection is lost.                *)
Break(c) ==
    /\ call[c].phase \in {"loading"} \cup Open
    /\ Abandon(c, "failed")

Step(c) ==
    \/ Begin(c) \/ Load(c) \/ Validate(c)
    \/ ReadRow(c) \/ Insert(c) \/ Claim(c) \/ CheckIds(c) \/ Commit(c)

StoreNext == \E c \in Calls : Step(c) \/ Break(c)

StoreSpec == StoreInit /\ [][StoreNext]_storeVars

-----------------------------------------------------------------------------
(* In whatever order a load asks, the transactions implement the atomic    *)
(* port: what a call writes is what it would have written had it loaded    *)
(* the session at its commit.  The port promises nothing of what a         *)
(* compaction keeps of the stored summary.                                 *)
Port == INSTANCE AtomicStore WITH stored <- db
AtomicPort == Port!AtomicSpec

Loaded(c) == call[c].phase \in {"loaded"} \cup Open /\ Exists(call[c].loaded)

(* An aggregate put together by several queries, among commits, misses no  *)
(* active message if its revision is still the stored one and was read     *)
(* before the messages (loadSessionAggregate; where the messages are read  *)
(* first, a turn may be committed in between).                             *)
LoadMissesNothing ==
    \A c \in Calls :
        Loaded(c) /\ "messages" \in call[c].later /\ call[c].loaded.revision = db.revision
            => db.messages \ db.compacted \subseteq call[c].loaded.messages

(* The summary a compaction builds on is the stored one, whatever other    *)
(* compactions did since it was loaded, if it was loaded after the         *)
(* messages: what is compacted stays summarised (commitCompaction upserts  *)
(* the summary without looking at the one it replaces).                    *)
CompactionsKeepSummary ==
    [][\A k \in Compactions :
          Commit(k) /\ "summary" \in call[k].later
              => db'.summary = db.summary \cup call[k].ids]_storeVars

(* A SESSION_CONFLICT, which callers may retry, is answered only to a call *)
(* that has lost to another one: the session has got another revision or   *)
(* owner since it was loaded, it has been created, or what was to be       *)
(* compacted has been (claimed !== 1, P2002, updated !== ids).             *)
ConflictsHaveAWinner ==
    [][\A c \in Calls : call[c].phase # "conflict" /\ call'[c].phase = "conflict"
          => \/ db.revision # call[c].loaded.revision
             \/ Exists(db) /\ ~Exists(call[c].loaded)
             \/ call[c].ids \cap db.compacted # {}]_storeVars

=============================================================================

# TLA+ models of skein-chatbot

Skein is a chat runtime: it turns a user's message into one committed *turn* of
a session, with an external AI provider doing the answering. This directory
holds TLA+ models of its core, the TLC configurations that check them on small
instances, and TLAPS proofs of what matters most for every instance. Paths
below are relative to the repository (`src/` here); `PROJECT.json` maps each
definition to the lines it models.

## The system

| Component | State | Operations | Hard behaviour |
|---|---|---|---|
| `RuntimeStore` port; in-memory store (`packages/test-utils`), Prisma store (`packages/persistence/postgres`) | sessions: owner, status, revision, context, messages, compacted ids, summary, provider binding, turns | `loadSessionAggregate`, `commitTurn`, `recordFailedTurn`, `resetSession`, `commitCompaction`, `restoreSession`, `getSession`, `getMessages` | optimistic concurrency by revision; lost acknowledgements; (Prisma) several statements per call |
| `TurnRunner` (`core/runtime/turn-runner.ts`) | the turn in flight | `run`, `stream` | reads the store, then awaits guards, compaction and the provider, then commits |
| `ActiveTurnRegistry`, `ChatRuntime.abortSession`, `resetSession` | abort controllers per session | `register`, `close`, `abort` | an abort at any await; the commit as the irreversible boundary |
| `CompactionService` | none | `compact`, called by `prepare` | concurrent compactions and commits at one revision |
| `ChatRuntime.resumeSession` | operations in flight per token | decode, load, fetch history, restore | races with turns, resets, other resumes; restarts |
| `CircuitBreakerRegistry` | an entry per provider key, leases | `acquire`; `succeed`, `fail`, `release` of a lease | leases that settle long after the state in which they were granted |
| `ReliableBusinessOrchestrator`, `ProviderAttemptScope` | the call in flight, its attempt's timer and signals | `execute`, `stream` | timeout against answer against abort; retries; closing iterators |
| Dify adapter (`packages/adapters/dify`): orchestrator, SSE parser, history, profiles | state of one provider stream | `execute`, `stream`, `loadHistory` | chunk boundaries, conversation checks, pagination |
| Guards, memory, context validation | none | `evaluate`, `build`, `validateContext` | composition of redactions; what is held back and released |
| API (`apps/api`) | one request | `chat`, `stream`, `resume`, ... | disconnects; exactly one terminal event |
| Demo client (`apps/demo-web`) | cache of conversations, current run, current recovery | send, recover, select, new | late answers, timers, cache bounds |
| Observability (`packages/observability`) | none | ports called by the runner | may throw anywhere it is called |

Interactions: the API calls `ChatRuntime`, which runs turns in `TurnRunner`. A
turn registers its abort controller, reads the store, lets `CompactionService`
compact and commit a summary, calls the provider through
`ReliableBusinessOrchestrator` (and its breaker), and commits. Turns on one
session share nothing but the store and the registry. `resetSession` aborts the
registered turns and resets the stored session; `resumeSession` restores a
session the store has lost from the provider's history.

What makes each part correct: a turn is committed onto exactly the session it
was prepared from (store, runner); nothing is committed after an abort that
came before the boundary, and every turn ends (registry); the summary covers
exactly the messages marked as compacted (compaction; of the others a turn's memory
takes the newest `recentMessages`, so some may be in neither); a restored
session holds the newest turns of its user's conversation, up to the limit asked
for, and keeps its owner (resume); the
circuit opens and closes on the right counts and never refuses for ever
(breaker); leases are settled once, streams are closed and not restarted, calls
end (orchestrator); several statements act as one (Prisma store); a result is of
one conversation and its events keep their contract (Dify adapter); nothing
leaves the server unguarded and a stream ends once (API); conversations are
neither mixed nor lost (client). The hazards behind these properties are listed with their
lines in `PROJECT.json`.

## Modules

| Module | Models |
|---|---|
| `RuntimeStore` | A stored session and the guard and effect of each store call, as pure operators. Follows the in-memory store. |
| `TurnLifecycle` | All turns, resets, aborts and compactions over the store. |
| `SessionLedger` | Abstract: turns read a ledger entry and are appended to it only if it is unchanged. `TurnLifecycle` implements it (`LedgerSpec`). |
| `SessionResume` | Extends `TurnLifecycle` with `resumeSession`, the provider's history and restarts. |
| `PostgresStore` | The Prisma store: each call a transaction of statements, among the calls of other processes. Uses the operators of `RuntimeStore`. |
| `AtomicStore` | Abstract: the port, each call at one instant. `PostgresStore` implements it (`AtomicPort`). |
| `CircuitBreaker` | One circuit entry and its leases. Abstract specification for the next. |
| `ReliableOrchestrator` | `execute` and `stream` calls over that breaker. |
| `DifyStream` | One call of the Dify adapter: the request, the frames or the body, the events. |
| `EventStream` | Abstract: what any orchestrator promises of its events. `DifyStream` implements it (`StreamContract`). |
| `SseParser` | `parseDifySseData` over every chunking of a body, against a definition of the events of a whole text. |
| `DifyHistory` | `loadHistory`: pages of a conversation that grows. |
| `DifyAdapter` | The three parts of the adapter side by side. |
| `GuardPipeline` | `GuardPipeline.evaluate` over the stages of the output guard, as pure operators. |
| `ChatStream` | The chat stream route: what `TurnRunner.stream` yields, holds back and releases, and what the handler writes. |
| `DemoClient` | Extends `ChatStream` with the web client: screen, request, recovery, cache and storage. |
| `*_proofs` | The theorems about the module they extend (below); those about the breaker are with the orchestrator's. |
| `MC*` | Symmetry sets for TLC. |

`TurnLifecycle` and `ChatStream` are two views of one turn: the first follows
what it reads and writes and when, the second what leaves the server, with
preparing and committing as single steps that work or fail.

### How state and actions correspond to the code

The code is single threaded JavaScript, so an action is what runs between two
awaits of one asynchronous operation. `turn[t].phase` names the await a turn
is at:

    idle -> announced -> guarding -> loading -> compacting -> summarizing
         -> reloading -> orchestrating -> answered -> committing -> committed -> completed
    any registered phase before "committed" -> failing -> failed

- `announced` is the pause of `stream` at its first `yield`, before it
  registers; `run` passes through it at once, which is one of its behaviours.
- `Register` to `Complete` are the stretches of `run`/`stream`; `PrepareFrom`
  is `validateOwnedAggregate` with the abort check around it; `Fail` is the
  catch block, where `toRuntimeError` turns every error of an aborted turn into
  `ABORTED`; `RecordFailure` is `recordFailedTurn`.
- `GuardOutput` covers the output guards, `mergeContextPatch`, the resume
  token and the last `throwIfAborted`. Each can only fail the turn, and only
  the last decides about the abort, so they are one step. Going to
  `committing` is the call of `commitTurn`: no abort is looked at after it.
- A store call that is one atomic step in the store is one action.
  `CommitUnacknowledged`, `CompactionUnacknowledged` and `ResetFails` with
  `"ack"` are Prisma transactions whose acknowledgement is lost.
- `signal` is the turn's own controller, `parent` the caller's signal linked
  to it by `register`. `AbortSession` and `ResetBegin` abort registered turns.
- `ObserverFails` is an observability port throwing: the error leaves the
  runner unrecorded. `Abandon` is the consumer of a stream returning at an event.

In `SessionResume`, `resume[r].phase` names the await of
`resumeDecodedSession`; `provider` is the order in which the provider answered
(an entry exists from then on, stored or not); `Restart` ends every call in
flight and empties the store.

In `PostgresStore`, `call[c].phase` is the statement a call is about to run and
`asked` the queries of `loadSessionAggregate` that have run: the session's row
first, then its relations in any order; `later` remembers what of that order the
properties depend on. `Claim` is the
`updateMany` on `context_states` that decides by the revision, `Insert` the
`create` that a unique key refuses, `CheckIds` the `updateMany` of
`commitCompaction` that must touch as many messages as it names. `holder` is
the row lock. `Commit` publishes what the transaction wrote (`Written`), and
its answer may be lost; `Break` is an error of a statement, which rolls back.

In `ReliableOrchestrator`, `pending` says that the provider is at work,
`terminated` that the attempt's scope has terminated (timer or caller), and
`closing` that the code awaits `iterator.return()`. The provider's iterator is
an async generator, as both adapters' are, so `return` waits for a pending
`next`; that is why `Close` requires `~pending`.

In `DifyStream`, `stream.phase` is `"asking"` while `fetch` is pending,
`"reading"` while the parser is asked for a frame, `"body"` while a blocking
answer is read, `"suspended"` at a `yield`, and `"finishing"` in
`completedEvents`. `Frame` handles one event of the body with everything the
loop does with it; `Cancel` is the rejection of the pending read that the
signal brings; `Pull` and `Return` are the consumer's. `additive` says that the
answer is still the text of the deltas: no closing message said something else,
and no text came after a `message_end`.

In `DifyHistory`, the provider is a row order and a reading of `first_id`, chosen
when the call begins: a page ends before the row it names, with that row, or where
the page before began. `Receive` is what the code does with one page.

In `ChatStream`, `turn.stage` is where the generator is, `turn.content` what
the output guard holds back (`bufferedContent`), `turn.queue` what is released after
the commit, and `reply` what was written to the response. `Write` is one round
of the handler's loop. In `DemoClient`, `screen`, `request`, `recovery`,
`cache`, `disk` and `saving` are the component's state and refs, and `late` is the
recovery that was overtaken and may still answer; `Open` and `Hangup` are the two
ends of its connection.

### Abstractions

- Texts, timestamps and validation are left out. A message is the turn that
  wrote it, its role and its position; a summary is the set of messages it
  covers; a context is its revision and the turns whose patches it holds.
- One provider and provider key, so one binding per session.
- Whether the token estimate triggers a compaction is nondeterministic.
- A failing guard, provider or merge is a choice of the model; the provider
  may answer with a new conversation only when the turn had none
  (`assertConversationBinding` in the Dify adapter).
- In `TurnLifecycle`, compaction's refusal of unknown ids (`CONTEXT_INVALID`)
  cannot be reached at a matching revision and is one outcome with the conflict.
- Time: a timer may fire whenever its attempt is open; of the breaker's clock
  only "the cooldown has passed" is kept. `CLOCK_ERROR` is left out.
- A guard, normalisation or merge fails with one of the codes the code can
  give it; `PROVIDER_ERROR` stands for the codes of provider failures.
- `SessionResume` restarts the in-memory store, so its runs give the store no
  faults, and `restoreSession` either applies or conflicts. Concurrent resumes
  with one token are one operation. `MaximumEntries` is the limit of 200 entries
  `resumeDecodedSession` asks for; the provider returns the newest, which is what
  `DifyHistory` shows of the adapter.
- PostgreSQL is READ COMMITTED, its default, which the code does not change:
  a statement sees what is committed when it runs, and a condition is looked at
  again after waiting for a row. The queries Prisma makes for the parts of an
  `include` come in any order at different instants, after the row itself. Every writer of a session
  touches the same first row, so one lock per session stands for all rows. The
  order of messages by `createdAt` is not modelled.
- Dify: of a text only its amount is kept; a closing message says as much as the
  deltas before it, less, or one piece more. A page is a stretch of the
  conversation of any length, and only where it reaches the first message may it
  say that there is no more. Only the default profile; follow-ups and context patches of a result are left out.
- SSE: bytes are decoded by the platform; a line is made of four symbols.
- Guards: a text is a sequence of pieces, and the patterns are three of them: a
  credential made of two pieces, a leak, and the placeholder. Theft
  instructions, which the secret guard blocks, are as a leak is. An injected
  guard is assumed to let pass nothing the default ones object to.
- Demo: one tab. What is typed, the texts shown and their sources are not
  followed: a list of messages is the set of sessions its answers come from. Of
  the recoveries that were overtaken only the last may still answer.

## Runs

| Run | Checks | Distinct states |
|---|---|---|
| `turns` | type, `ContextKeepsEveryCommit`, `SummaryCoversCompacted`, `CompactionKeepsRecent`, `OneCompactionWins`, `CommitSeesItsSnapshot`, refinement of `SessionLedger` | 411 k |
| `faults` | `LifecycleInv` (the inductive invariant), `OutcomeMatchesStore`, `AbortWins`, `TurnsAndResetsEnd` with failing stores, lost acknowledgements, throwing observers, aborts | 209 k |
| `resume` | `ResumeTypeOK`, `OwnerNeverChanges`, `CommitSeesSessionOrRestore`, `RestoreIsComplete`, `ResumeShowsOwnMessages` | 141 k |
| `postgres` | `StoreTypeOK`, `LoadMissesNothing`, `CompactionsKeepSummary`, `ConflictsHaveAWinner`, refinement of `AtomicStore` | 643 k |
| `reliable` | `OrchestratorTypeOK`, `ClosedBelowThreshold`, `ProbeInFlightIsHeld`, `LeaseFollowsCall`, `EndedStreamsAreClosed`, `NoRetryAfterEvent`, `AbortsAreNoFailures`, `EveryCallEnds`, `CircuitAdmitsAgain` | 164 k |
| `dify` | `OneConversation`, `HistoryIsTheNewest`, `ChunksDoNotMatter`, `SignalEndsStream`, refinement of `EventStream` | 911 k |
| `demo` | `OneTerminalEvent`, `NothingUnguarded`, `ScreenIsOneConversation`, `SavedConversationsStay`, `RecoveriesEnd` | 615 k |
| `rebound`, `torn`, `probes`, `stuck`, `pages` | one documented promise each, violated (below) | - |

Run one with `tlc -config turns.cfg MCTurnLifecycle`. `PROJECT.json` also names,
for each property, a mutated definition that breaks it.

What the newer runs show, in words. `postgres`: although a call loads the
session with several queries, in whatever order, and its transaction is several
statements, what it writes is what it would have written had it loaded the session
at its commit. The one exception is the summary a compaction builds on: that it
extends the stored one (`CompactionsKeepSummary`) is shown only where the summary
was read after the messages. The revision check, the unique keys and the count of
compacted messages are each needed for this. `resume`: a restore holds turns of the
token's conversation only, and every turn its user was told about unless as many
came after it as are asked for. `dify`: whatever the frames and the conversation
ids in them, a result names one conversation and the sources that were emitted; its
answer is the text of the deltas as long as it stays `additive`, that is, unless text
comes after a `message_end` or a closing message says something else than its
pieces; a history that is returned has no gap although the conversation grows
between its pages, in whatever order its rows come and wherever a page begins;
chunk boundaries do not matter, not even between CR and LF. `demo`: a response has
one terminal event, nothing unguarded leaves the server, and neither late answers,
stopped requests, a full storage, nor an unreadable one mixes conversations on the
screen or loses a saved one; a recovery ends, by its timer if nothing else. After one
that failed the composer stays disabled (`App.tsx:595`, and a test says so) until the
recovery is tried again or the conversation is left.

**Bounds.** One session: sessions share no state, and a turn or reset names
one. Three turns with `RecentMessages = 1` and `Threshold = 2` are the least
with which two turns compact the same first turn while a third commits, and a
compaction follows a compaction. Two turns suffice for faults and aborts,
where the interest lies in one turn's steps against another's commit. Resume
runs switch compaction off in effect (`Threshold = 4`), and have one restart:
a second one only repeats the empty store. `MaximumEntries = 1` lets the second
turn of a conversation pass the limit; `RestoreIsComplete` was also checked with
three turns, one resume and `MaximumEntries = 2` (3.0 M states). In `reliable`, a
stream and two execute calls with one retry each, one of which ignores its abort;
two of the calls can settle stale leases around the probe of the third.
`postgres` has two turns, a reset, two compactions and a restore, at most two
of them in the store at once (`Concurrency = 2`), since a hazard here is one
transaction between two statements of another; calls that are over leave their
rows behind, so a long history of the session is still met. `MaxRevision = 2`
lets the revision column reach its end. In `dify`, six frames hold a workflow
around an agent's message and its closing one; five messages with pages of two
and a limit of three cross the limit in the middle of a page, and let a page
overlap the one before by one row or by all of them; seven symbols in
chunks of at most two put every break at a chunk's end, `MaxAnswer`, `MaxBuffer`
and `MaxData` are passed. In `demo` there are two sessions, known or not,
saved with a token or without; two deltas or sources per turn, the least that
carry a credential between them; one status event, and one turn on the server at
a time, as the composer is disabled while it waits. Without an output guard
texts are all alike, and an answer that differs from the deltas is of interest
only with one. Deadlock checking is off because the instances stop
once every turn or call has ended, or may stop where nobody acts. Symmetry is
used only where no liveness is checked.

**Fairness.** `faults` assumes weak fairness of each turn's and reset's own
steps (`TurnRuns`, `ResetRuns`): the event loop runs a continuation whose
promise is settled, and guards, store and provider settle theirs (the provider
by the orchestrator's timeout, which `reliable` checks). A fault or an abort
(`TurnFaults`, `ResetFails`) need never happen, and nothing is assumed of
clients. `reliable` and
`stuck` assume it of the code's continuations, the attempt timer and the
passing of the cooldown; of the consumer, that it pulls or returns (`for await`
in the runner); and of the provider, that it stops once its attempt's signal
is aborted, except for the calls in `IgnoresAbort`. In `reliable` that is an
execute call, which is not held up by it; in `stuck` a stream, which is. (The
safety properties are proved for every `IgnoresAbort`.)
`dify` assumes that a read that was cancelled rejects (`Cancel`) and that the
consumer asks or leaves, nothing of the provider. `demo` assumes the server's
continuations (`Serve`, the provider's stream ending by its timeout), and of the
client one condition: an open response is read, or the recovery timer fires, unless
its recovery is left before. One is enough for both, since a request and a recovery
are never there at once. Nothing is assumed of the answer to a recovery.

## Findings

Each is a violation run whose counterexample shows the code doing other than a
document says; `PROJECT.json` quotes both.

1. `rebound`: a turn that loaded no session commits at revision 0 over a
   session restored at revision 0 and replaces its conversation binding.
2. `torn`: `responseForExistingResume` reads messages after matching an older
   aggregate; a reset in between yields an answer that does not match.
3. `probes`: a lease from before the circuit opened fails during the half-open
   probe, clears its mark, and a second probe runs beside the first.
4. `stuck`: a timed-out stream waits in `closeIterator` for a provider that
   ignores its abort; the timeout is not authoritative there.
5. `pages`: the cursor sent for the next page is the first row of the last one.
   With newest-first pages, which `docs/dify-contract.md:51` says are normalized,
   that is its newest row: a provider that answers with the rows before it repeats
   the others, and the whole history is refused. The adapter's test sends such pages
   from a provider that continues below the whole page instead, and that reading works.

Met while modelling, and part of the models, without a document that forbids
them: a `workflow_finished` that succeeds before the `message_end` is forgotten,
so the stream, complete in all its parts, ends in `PROVIDER_INVALID_RESPONSE`; two
entries of a history created in one second are returned in the order of their
ids, a question after its answer when the ids say so (`docs/dify-contract.md:51`
asks for chronological order, which whole seconds do not give). Since
`loadSessionAggregate` is no transaction, a compaction may read the summary, see
another compaction commit, and then read the messages: its ids pass the check, and
the summary it writes has lost the other's messages. The unrestricted form of
`CompactionsKeepSummary` is violated so in 28 steps. The order of the queries is
not documented in the repository, so the property names the orders for which it
holds.

## Proofs

All theorems hold for every value of the constants, under the `ASSUME`s of the
modules (sentinels outside their sets, bounds natural numbers, subsets).

Each argument rests on one inductive invariant, which TLC checked before it was
proved, over the states of the module's run (`TurnsInv` over `faults` and, without
symmetry, `turns`; `StreamInv` with five frames). `LifecycleInv` is checked by
`faults` still.

| Module | Invariant | Properties that follow |
|---|---|---|
| `ReliableOrchestrator_proofs` | `BreakerInv`, `OrchestratorInv` | `ClosedBelowThreshold`, `ProbeInFlightIsHeld`; refinement of `CircuitBreaker`, `OrchestratorTypeOK`, `LeaseFollowsCall`, `EndedStreamsAreClosed`, `NoRetryAfterEvent`, `AbortsAreNoFailures` |
| `TurnLifecycle_proofs` | `LifecycleInv`, `TurnsInv` | `TypeOK`, `ContextKeepsEveryCommit`, `SummaryCoversCompacted`, `CommitSeesItsSnapshot`; `OneCompactionWins`, `CompactionKeepsRecent`, `OutcomeMatchesStore`, `AbortWins`, refinement of `SessionLedger` |
| `PostgresStore_proofs` | `StoreInvariant` | `StoreTypeOK`, `LoadMissesNothing`, `CompactionsKeepSummary`, `ConflictsHaveAWinner`, refinement of `AtomicStore` |
| `SessionResume_proofs` | `ResumeInv` | `ResumeTypeOK`, `ResumeShowsOwnMessages`, `OwnerNeverChanges`, `CommitSeesSessionOrRestore`, `RestoreIsComplete` |
| `DifyAdapter_proofs` | `StreamInv`, `HistoryInv` | `OneConversation`, refinement of `EventStream`; `HistoryIsTheNewest`, `GoodPagesAreKept` |
| `SseParser_proofs` | `ParserInv` | `ChunksDoNotMatter` (a theorem of the adapter's specification, in `DifyAdapter_proofs`) |
| `DemoClient_proofs` | `DemoInv` | `OneTerminalEvent`, `NothingUnguarded`, `ScreenIsOneConversation`, `SavedConversationsStay` |

`RuntimeStore_proofs` holds the lemmas about the store operators (types, what
each preserves) that three of them share.

**Turns.** The properties are not inductive alone: `commitTurn` replaces the
context by one computed from what the turn loaded, so
`ContextKeepsEveryCommit` needs to know that at a matching revision the loaded
aggregate *is* the stored one. That is `SnapshotsAreCurrent`: what a turn holds
has a revision no later than the stored one, and equal revisions mean equal
views, a compaction excepted, which only moves messages into the summary. A
compaction does not change the revision, so the same argument fails for
`commitCompaction`; `CompactionsAreCurrent` supplies what the store's check of
already compacted ids gives: at an equal revision either nothing was compacted
since the service loaded the session, or one of its candidates was and the
store refuses. `TurnsInv` (1.4 M states of `turns` without symmetry) adds what
is known of a session's history and of each turn's place in it. `HistoryInv`:
the messages are those of completed turns and numbered by their count, so a
commit can only append, which `CompactionKeepsRecent` needs. `SpentInv`: what a
turn has compacted stays compacted or went with a reset, so no later compaction
can take it (`OneCompactionWins`). `OutcomeInv` ties the phases and error codes
to being stored: of the turns recorded as failed none is stored, and a stored
one that failed was told `DATABASE_ERROR` (`OutcomeMatchesStore`). `AnswersInv`:
an answer names the conversation the turn is bound to. The ledger is refined
step by step: only a commit and a reset move it, and a compaction does not,
because the summary and the messages left stand for the same turns.

**PostgreSQL.** Between two statements of a transaction others may commit.
`StoreInvariant` says for each call what its load, its checks and its lock have
established so far. Its context is that of the revision it read, and its messages miss
none of the active ones if the revision was read before them and is unchanged. They
are the first of the active ones (`First`), or no compaction of them is accepted any
more (`Spent`); until then the summary is the stored one if it was read after them.
Every compaction takes the oldest active messages, so the lists of two that overlap
in time begin with the same message, in whatever order they were read, and `CheckIds`
refuses the second. From `Claim` on nobody else can change the rows. With that each
call's effect is the port's effect at its `COMMIT` (`AtomicPort`); what a compaction
keeps of the stored summary is `CompactionsKeepSummary`, which the port leaves open.

**Resumes and restarts.** After a restart a revision means less: a session may
be gone and back at revision 0, which `SnapshotsAreCurrent` excludes.
`CurrentOrRestored` is what remains of it. Ownership needs that conversations,
tokens and messages belong to one session and one user each
(`ConversationsBelong`, `ClaimsBelong`, `MessagesBelong`), and completeness that
the provider keeps every answer (`AnswersAreKept`) and that an operation about
to restore has in its history every turn told to its user with fewer than
`MaximumEntries` entries after it, or finds the session stored, when the store
refuses it (`ResumesAreSound`). That no more turns come back is a count: the least of
the entries kept has all the others after it. The steps of the runtime itself are taken
over from `TurnLifecycle_proofs`, whose lemmas about one step therefore assume
only what survives a restart. `ResumeAnswerMatches`, which `torn` violates, is
of course not among the theorems.

**Breaker and orchestrator.** Whichever lease settles, and however late, either
it leaves the mark and the probes alone, or it clears the mark. Every step of the
orchestrator is a step of the breaker or leaves it alone. `CallInv` adds what
is known of a call whatever the others do to the breaker: one that may be tried
again has emitted nothing and holds its lease, one that is to throw has settled
it.

**Dify.** `StreamInv` says that between two frames, while the call is `additive`,
the answer is the text of the deltas, which a closing message that repeats them
leaves as it is; that a result pending behind a workflow has the answer of its
`message_end`, after which text ends being additive; and that the ids seen so far
are at most one, the one the turn is bound to. The lemmas say what one frame does for any list of
sources.

**Dify history.** `HistoryInv`: what has been fetched is, as a set, the stretch
of the conversation that ends where it ended at the first page, and the cursor is
one of its entries, the oldest where rows come oldest first. The next page is a
stretch that ends in it or just before it; if it repeats a row the call fails, so
what is kept is again one stretch, and the requested limit ends it at the maximum.
For a provider whose pages meet at the cursor (`ContinuesAtCursor`) the checks for
a repeated message or a repeated cursor are never what ends the call
(`GoodPagesAreKept`, not a property of a run); for the one of `pages` they are. The order is by rank: the
entry at place *i* is the one with *i* - 1 before it. That every rank has one
entry is a count, by induction over sets of ranks (`RankGrows`).

**SSE parser.** The events of a text are defined without a parser: its lines are
what is between the places where a line ends, and an event is the data lines
between two empty lines. The argument is that both definitions grow only at the
end: one more symbol changes only the last line or begins another
(`LinesOneMore`), and one more line changes only the last group or begins another
(`DataOneMore`). So the data of the lines that are over is settled, and events of
the beginning of a text are the first events of all of it. `ParserInv` says
where the code is in that: between two chunks its buffer is the end of the text,
begins where a line begins (and never with the LF of a CRLF whose CR it has
consumed), holds no line that is over, and the parser holds the events and the pending
data of the lines before it. One pass of the inner loop moves past one line
(`LineReadKeeps`); the buffer gets shorter with each, so as many passes as it has
symbols leave none.

**Chat stream and client.** `DemoInv` is `ChatInv` (what waits behind the
commit, and that a response ended has no turn left to write to it), `GuardInv`
(what was sent and what waits behind it is clean, piece by piece and
*together*: a credential may be split over two deltas) and `ClientInv` (an open
request is of the session on the screen until its answer came; while the storage
is written it holds nothing the cache has not). Redaction is a fold over the
text. What it leaves is proved by induction all the same: the library's
induction theorems take an operator, but the set of lengths for which a
statement holds is a set, and a set without a least missing number misses none
(`InductiveSet`, from `WFMin` and `NatLessThanWellFounded`). The folds of the
parser and of the adapter are unrolled the same way.

**Assumptions.** The `ASSUME`s say that sentinels are outside their sets, that
bounds are natural numbers (a threshold at least one), that the sets of faults
and aborts are subsets of what they are chosen from, and in `SessionResume` that
there are ids a token may name (`Claims # {}`: an operation not begun yet holds
some). No theorem assumes anything of the number of turns, sessions, calls,
users or messages.

Every safety property of the passing runs is a theorem. Only model-checked:

- Liveness: `TurnsAndResetsEnd`, `EveryCallEnds`, `CircuitAdmitsAgain`,
  `SignalEndsStream`, `RecoveriesEnd`. The prover handles neither fairness nor
  `ENABLED`.
- The five violations, which are runs.

## Plan

Done, in this order: `RuntimeStore`, `TurnLifecycle`, `SessionLedger`,
`SessionResume`, `CircuitBreaker`, `ReliableOrchestrator`; then `PostgresStore`
over `AtomicStore`, the Dify adapter (`DifyStream` over `EventStream`,
`DifyHistory`, `SseParser`), `ChatStream` with `GuardPipeline`, and `DemoClient`;
and the theorems above, which state every safety property of the runs.

To come:

1. `SessionLedger` under resumes and restarts: turns behave as if one after the
   other between two restarts.
2. Models: the joiners of one resume operation and their signals
   (`SharedResume`); the stages of the input guard.

## Not modelled

Dify profiles and API configuration (parsing), the mock adapter (stateless),
contracts (schemas), repository scripts. Logging, metrics and audit contents:
only the failure of a port matters to the runtime. The API's other routes make
one call of the runtime each; rate limits, CORS and the sealing of tokens are
settings of libraries. The callers that join a resume operation: no document
says whose signal it follows. The input guard is a verdict: it is evaluated
once, before anything is read, and its patterns are data.

---------------------------- MODULE SessionResume ----------------------------
(***************************************************************************)
(* ChatRuntime.resumeSession beside the turns and resets of TurnLifecycle, *)
(* and the restart of the process that makes resuming necessary.           *)
(*                                                                         *)
(* A completed turn with a provider conversation returns a resume token,   *)
(* whose claims name the session, its user and the conversation; the       *)
(* client keeps it.  A restart ends every call in flight and empties the   *)
(* in-memory store.  A resume of a session the store does not hold loads   *)
(* the newest entries of the conversation from the provider and restores   *)
(* the session at revision 0.  Calls that present the same token while one *)
(* is running share its operation: an operation here is one such group.    *)
(***************************************************************************)
EXTENDS TurnLifecycle, Sequences

CONSTANTS
    Resumes,          \* identities of resume operations
    MaximumEntries,   \* entries of a conversation that are restored: 200 in the code
    MaxRestarts       \* bound on the restarts of the process

ASSUME MaximumEntriesAssumption == MaximumEntries \in Nat \ {0}
ASSUME MaxRestartsAssumption == MaxRestarts \in Nat

VARIABLES
    resume,       \* the resume operations in flight and their outcomes
    provider,     \* the turns the provider answered, in order (external)
    restarts

resumeVars == <<sessions, failedTurns, turn, reset, resume, provider, restarts>>

Claims == [session : Sessions, user : Users, conversation : Conversations]

(* There are ids a token may name.                                         *)
ASSUME ClaimsAssumption == Claims # {}

ResumePhases == {"idle", "loading", "fetching", "restoring", "racing", "reading",
                 "answered", "failed"}

ResumeState ==
    [phase    : ResumePhases,
     claims   : Claims,
     signal   : BOOLEAN,          \* the first caller's signal is aborted
     history  : SUBSET Message,   \* what the provider returned, as messages
     loaded   : Aggregate,        \* the stored aggregate the answer reports
     answer   : SUBSET Message]

(* The tokens clients hold: one for each completed turn with a conversation. *)
Tokens ==
    {[session |-> turn[t].session, user |-> turn[t].user,
      conversation |-> turn[t].conversation] :
        t \in {u \in Turns : /\ turn[u].phase = "completed"
                             /\ turn[u].conversation # NoConversation}}

-----------------------------------------------------------------------------
(* The entries of a conversation, by their positions among the provider's  *)
(* answers, and the newest of them, the ones a restore asks for.           *)
EntriesOf(conversation) ==
    {i \in DOMAIN provider : turn[provider[i]].conversation = conversation}
NewestEntries(conversation) ==
    {i \in EntriesOf(conversation) :
        Cardinality({j \in EntriesOf(conversation) : j > i}) < MaximumEntries}

(* The messages of an entry that is asked for: two for each entry that is  *)
(* returned before it come first.                                          *)
EntryMessages(conversation, i) ==
    TurnMessages(provider[i], 2 * Cardinality({j \in NewestEntries(conversation) : j < i}))

(* Mutant: the newest entry is missing.                                    *)
HistoryWithoutNewest(conversation) ==
    UNION {EntryMessages(conversation, i) :
             i \in {e \in NewestEntries(conversation) :
                      \E later \in EntriesOf(conversation) : later > e}}

(* The history the runtime asks for, oldest entry first.  An entry is      *)
(* there as soon as the provider has answered the turn, whether or not the *)
(* runtime stored it.                                                      *)
History(conversation) ==
    UNION {EntryMessages(conversation, i) : i \in NewestEntries(conversation)}

(* Mutant: the restored session is not marked as one that exists.          *)
RestoredUnmarked(claims, messages) ==
    [NoSession EXCEPT !.owner = claims.user,
                      !.messages = messages,
                      !.binding = claims.conversation]

Restored(claims, messages) ==
    [NoSession EXCEPT !.status = "ACTIVE",
                      !.owner = claims.user,
                      !.messages = messages,
                      !.binding = claims.conversation]

(* Mutant: only the status of the stored session is looked at.             *)
MatchesActive(aggregate, claims) == aggregate.status = "ACTIVE"

(* responseForExistingResume                                               *)

Matches(aggregate, claims) ==
    /\ aggregate.owner = claims.user
    /\ aggregate.status = "ACTIVE"
    /\ aggregate.binding = claims.conversation

-----------------------------------------------------------------------------
ResumeInit ==
    /\ Init
    /\ resume \in [Resumes -> {[phase |-> "idle",
                                claims |-> CHOOSE c \in Claims : TRUE,
                                signal |-> FALSE, history |-> {},
                                loaded |-> Nothing, answer |-> {}]}]
    /\ provider = <<>>
    /\ restarts = 0

(* A step of a turn, of a reset or of an abort; the provider keeps what it *)
(* answered.                                                               *)
RuntimeStep ==
    /\ Next
    /\ LET Answered(t) == turn[t].phase = "orchestrating" /\ turn'[t].phase = "answered"
       IN  provider' = IF \E t \in Turns : Answered(t)
                         THEN Append(provider, CHOOSE t \in Turns : Answered(t))
                         ELSE provider
    /\ UNCHANGED <<resume, restarts>>

ResumeFails(r) == resume' = [resume EXCEPT ![r].phase = "failed", ![r].loaded = Nothing]

(* The token is decoded and its user is compared with the caller.          *)
ResumeBegin(r) ==
    /\ resume[r].phase = "idle"
    /\ \E claims \in Tokens, user \in Users :
          resume' = [resume EXCEPT
                       ![r].claims = claims,
                       ![r].phase = IF user = claims.user THEN "loading" ELSE "failed"]
    /\ UNCHANGED <<sessions, failedTurns, turn, reset, provider, restarts>>

(* A stored aggregate is either the one the token names or hidden.         *)
ResumeFrom(r, aggregate) ==
    IF Matches(aggregate, resume[r].claims)
      THEN resume' = [resume EXCEPT ![r].loaded = aggregate, ![r].phase = "reading"]
      ELSE ResumeFails(r)

ResumeLoad(r) ==
    /\ resume[r].phase = "loading"
    /\ LET aggregate == AggregateOf(sessions[resume[r].claims.session])
       IN  \/ Exists(aggregate) /\ ResumeFrom(r, aggregate)
           \/ /\ ~Exists(aggregate)
              /\ resume' = [resume EXCEPT ![r].phase = "fetching"]
    /\ UNCHANGED <<sessions, failedTurns, turn, reset, provider, restarts>>

ResumeFetch(r) ==
    /\ resume[r].phase = "fetching"
    /\ \/ resume' = [resume EXCEPT
                       ![r].history = History(resume[r].claims.conversation),
                       ![r].phase = "restoring"]
       \/ ResumeFails(r)
    /\ UNCHANGED <<sessions, failedTurns, turn, reset, provider, restarts>>

(* restoreSession: a session that exists by now is not overwritten.        *)
ResumeRestore(r) ==
    /\ resume[r].phase = "restoring"
    /\ LET s == resume[r].claims.session
           restored == Restored(resume[r].claims, resume[r].history)
       IN  \/ /\ resume[r].signal
              /\ ResumeFails(r)
              /\ UNCHANGED sessions
           \/ /\ ~resume[r].signal /\ ~Exists(sessions[s])
              /\ sessions' = [sessions EXCEPT ![s] = restored]
              /\ resume' = [resume EXCEPT ![r].phase = "answered",
                                          ![r].loaded = AggregateOf(restored),
                                          ![r].answer = resume[r].history]
           \/ /\ ~resume[r].signal /\ Exists(sessions[s])
              /\ resume' = [resume EXCEPT ![r].phase = "racing"]
              /\ UNCHANGED sessions
    /\ UNCHANGED <<failedTurns, turn, reset, provider, restarts>>

(* The store refused: another operation restored or created the session.   *)
ResumeRace(r) ==
    /\ resume[r].phase = "racing"
    /\ ResumeFrom(r, AggregateOf(sessions[resume[r].claims.session]))
    /\ UNCHANGED <<sessions, failedTurns, turn, reset, provider, restarts>>

(* getMessages, a second read, supplies the messages of the answer.        *)
ResumeRead(r) ==
    /\ resume[r].phase = "reading"
    /\ resume' = [resume EXCEPT ![r].phase = "answered",
                                ![r].answer = sessions[resume[r].claims.session].messages]
    /\ UNCHANGED <<sessions, failedTurns, turn, reset, provider, restarts>>

ResumeAbort(r) ==
    /\ resume[r].phase \in {"loading", "fetching", "restoring", "racing", "reading"}
    /\ ~resume[r].signal
    /\ resume' = [resume EXCEPT ![r].signal = TRUE]
    /\ UNCHANGED <<sessions, failedTurns, turn, reset, provider, restarts>>

(* The process stops and starts again: every call in flight is gone, and   *)
(* with the in-memory store every session; tokens and the provider stay.   *)
Restart ==
    /\ restarts < MaxRestarts
    /\ restarts' = restarts + 1
    /\ sessions' = [s \in Sessions |-> NoSession]
    /\ failedTurns' = {}
    /\ turn' = [t \in Turns |->
                  IF turn[t].phase \in {"idle"} \cup Ended THEN turn[t]
                  ELSE [turn[t] EXCEPT !.phase = "unrecorded",
                                       !.loaded = Nothing, !.older = Nothing]]
    /\ reset' = [r \in Resets |->
                  IF reset[r].phase \in {"idle", "done"} THEN reset[r]
                  ELSE [reset[r] EXCEPT !.phase = "rejected"]]
    /\ resume' = [r \in Resumes |->
                  IF resume[r].phase \in {"idle", "answered"} THEN resume[r]
                  ELSE [resume[r] EXCEPT !.phase = "failed", !.loaded = Nothing]]
    /\ UNCHANGED provider

ResumeStep(r) ==
    \/ ResumeBegin(r) \/ ResumeLoad(r) \/ ResumeFetch(r) \/ ResumeRestore(r)
    \/ ResumeRace(r) \/ ResumeRead(r) \/ ResumeAbort(r)

ResumeNext ==
    \/ RuntimeStep
    \/ \E r \in Resumes : ResumeStep(r)
    \/ Restart

ResumeSpec == ResumeInit /\ [][ResumeNext]_resumeVars

-----------------------------------------------------------------------------
(* Correctness                                                             *)

(* Every variable has its type.                                            *)
ResumeTypeOK ==
    /\ TypeOK
    /\ resume \in [Resumes -> ResumeState]
    /\ provider \in Seq(Turns)
    /\ restarts \in 0 .. MaxRestarts

(* A session id belongs to one user: whatever turns and resumes of several *)
(* users race for an id, the owner stored first stays (assertCommit,       *)
(* restoreSession).                                                        *)
OwnerNeverChanges ==
    [][\A s \in Sessions :
        Exists(sessions[s]) /\ Exists(sessions'[s])
            => sessions'[s].owner = sessions[s].owner]_resumeVars

(* A turn that loaded an existing session is committed onto exactly that   *)
(* session; one that found none is committed onto none, or onto a session  *)
(* restored meanwhile and not yet used, never onto another turn's work.    *)
CommitSeesSessionOrRestore ==
    [][\A t \in Turns :
        Commits(t) =>
            LET stored == sessions[turn[t].session]
            IN  \/ SameView(turn[t].loaded, stored)
                \/ /\ ~Exists(turn[t].loaded)
                   /\ stored.revision = 0
                   /\ stored.completed = {}]_resumeVars

(* The entries the provider holds after a turn's in its conversation.      *)
LaterEntries(t) ==
    {j \in EntriesOf(turn[t].conversation) :
        \E i \in DOMAIN provider : provider[i] = t /\ i < j}

(* An operation that answers from its own restore returns turns of the     *)
(* conversation the token names and of no other, no more of them than it   *)
(* asks for, and among them every turn the user was told about in that     *)
(* conversation unless as many entries as are asked for came after it,     *)
(* however often the process restarted and whatever raced the restore      *)
(* (resumeDecodedSession, restoreSession).                                 *)
RestoreIsComplete ==
    [][\A r \in Resumes :
        resume[r].phase = "restoring" /\ resume'[r].phase = "answered"
            => LET shown == {m.turn : m \in resume'[r].answer}
               IN  /\ \A t \in shown : turn[t].conversation = resume[r].claims.conversation
                   /\ Cardinality(shown) <= MaximumEntries
                   /\ \A t \in Turns :
                        turn[t].phase = "completed"
                          /\ turn[t].conversation = resume[r].claims.conversation
                          /\ Cardinality(LaterEntries(t)) < MaximumEntries
                          => t \in shown]_resumeVars

(* A resumed session is the caller's own: every message of the answer was  *)
(* written by a turn of the user the token names.                          *)
ResumeShowsOwnMessages ==
    \A r \in Resumes : \A m \in resume[r].answer :
        resume[r].phase = "answered" => turn[m.turn].user = resume[r].claims.user

(* What a resume answers with is a session that fully matches its token:   *)
(* when the messages of the answer are read, the stored session still has  *)
(* the owner, the status and the conversation the aggregate was found to   *)
(* have (responseForExistingResume reads the store twice).                 *)
ResumeAnswerMatches ==
    [][\A r \in Resumes :
        resume[r].phase = "reading" /\ resume'[r].phase = "answered"
            => Matches(AggregateOf(sessions[resume[r].claims.session]),
                       resume[r].claims)]_resumeVars

=============================================================================

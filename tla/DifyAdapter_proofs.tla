-------------------------- MODULE DifyAdapter_proofs --------------------------
(***************************************************************************)
(* Proofs about a call of the Dify adapter, for any conversations, sources, *)
(* limits, pages and number of frames, in whatever order the frames come:  *)
(* its result belongs to one conversation, and it keeps the contract of    *)
(* orchestration events; the history it loads is the newest of the         *)
(* conversation, whatever is added meanwhile; and what it parses does not  *)
(* depend on the chunks (SseParser_proofs).                                *)
(***************************************************************************)
EXTENDS DifyAdapter, SseParser_proofs

-----------------------------------------------------------------------------
(* The shape of a call                                                     *)

StreamPhases == {"idle", "asking", "reading", "body", "suspended", "finishing"} \cup Ended

(* The codes a call fails with, and the texts of its status.               *)
Codes == {"ABORTED", "PROVIDER_TIMEOUT", "PROVIDER_UNAVAILABLE", "PROVIDER_RATE_LIMITED",
          "ORCHESTRATION_FAILED", "VALIDATION_ERROR", "PROVIDER_INVALID_RESPONSE"}
Shown == {"NONE", "Processing request", "Preparing response"}

(* The record a call is.                                                   *)
Call == [phase : StreamPhases, blocking : BOOLEAN,
         bound : Conversations \cup {NoConversation},
         conversation : Conversations \cup {NoConversation},
         answer : Nat, agent : BOOLEAN, workflow : BOOLEAN, pending : BOOLEAN,
         broken : BOOLEAN, result : [answer : Nat, sources : Seq(Sources)],
         deltas : Nat, emitted : Seq(Sources), status : Shown, error : Codes \cup {"NONE"},
         frames : Nat, additive : BOOLEAN, ids : SUBSET Conversations]

(* What has been said of the conversation so far is consistent: the frames *)
(* named none or the one that was kept, which is the one the turn is bound *)
(* to; and without it the call neither finishes nor waits to.              *)
SameConversation(s) ==
    /\ s.ids = IF s.conversation = NoConversation THEN {} ELSE {s.conversation}
    /\ s.conversation # NoConversation => s.bound \in {NoConversation, s.conversation}
    /\ s.pending \/ s.phase \in {"finishing", "completed"} => s.conversation # NoConversation

(* Until the call has failed, and as long as what the provider writes is   *)
(* additive, the answer is the text of the deltas, and the result of a     *)
(* message_end holds that answer.                                          *)
SameText(s) ==
    s.phase # "failed" /\ s.additive =>
        /\ s.deltas = s.answer
        /\ s.pending \/ s.phase \in {"finishing", "completed"} => s.result.answer = s.answer

(* A list in which nothing comes twice.                                    *)
IsDistinct(list) ==
    /\ list \in Seq(Sources)
    /\ \A i, j \in DOMAIN list : i # j => list[i] # list[j]

(* The sources are emitted in order and only when the call finishes.       *)
SameSources(s) ==
    /\ IsDistinct(s.result.sources)
    /\ Len(s.emitted) <= Len(s.result.sources)
    /\ \A i \in DOMAIN s.emitted : s.emitted[i] = s.result.sources[i]
    /\ s.phase \notin {"finishing", "completed", "returned"} => s.emitted = <<>>
    /\ s.phase = "completed" => s.emitted = s.result.sources

CallInv(s) == s \in Call /\ SameConversation(s) /\ SameText(s) /\ SameSources(s)

(* The inductive invariant: before the first frame there is also nothing   *)
(* of a result.                                                            *)
StreamInv(s) ==
    /\ CallInv(s)
    /\ s.phase \in {"idle", "asking", "body"} =>
          s.answer = 0 /\ s.deltas = 0 /\ s.result = NoResult

-----------------------------------------------------------------------------
(* Distinct                                                                *)

(* One step of the fold of Distinct.                                       *)
Kept(kept, source) ==
    IF \E i \in DOMAIN kept : kept[i] = source THEN kept ELSE Append(kept, source)

(* f is the recursive function of the fold over the first n of a list.     *)
FoldsKept(f, list, n) ==
    f = [s \in SUBSET (1 .. n) |->
           IF s = {} THEN <<>> ELSE Kept(f[s \ {Max(s)}], list[Max(s)])]

(* The fold of a list of sources has a value.                              *)
LEMMA KeptFolds ==
    ASSUME NEW list \in Seq(Sources), NEW n \in Nat, n = Len(list)
    PROVE  \E f : FoldsKept(f, list, n)
<1> DEFINE V == Seq(Sources)
           step == [i \in 1 .. n |-> [kept \in V |-> Kept(kept, list[i])]]
<1>1. \A i \in 1 .. n : list[i] \in Sources
  OBVIOUS
<1>2. \A kept \in V : \A i \in 1 .. n : Kept(kept, list[i]) \in V
  BY <1>1 DEF Kept
<1>3. \A kept \in V : \A i \in 1 .. n : step[i][kept] = Kept(kept, list[i])
  BY Zenon
<1>4. <<>> \in V
  OBVIOUS
<1> HIDE DEF V, step
<1>5. \A kept \in V : \A i \in 1 .. n : step[i][kept] \in V
  BY <1>2, <1>3, Zenon
<1>6. PICK f \in [SUBSET (1 .. n) -> V] : FoldsBy(f, <<>>, step, n)
  BY <1>4, <1>5, FoldExists
<1>7. ASSUME NEW s \in SUBSET (1 .. n), s # {}
      PROVE  step[Max(s)][f[s \ {Max(s)}]] = Kept(f[s \ {Max(s)}], list[Max(s)])
  <2>1. Max(s) \in s
    BY <1>7, MaxIsIn
  <2>2. s \ {Max(s)} \in SUBSET (1 .. n)
    OBVIOUS
  <2>3. f[s \ {Max(s)}] \in V /\ Max(s) \in 1 .. n
    BY <2>1, <2>2, Zenon
  <2> QED BY <1>3, <2>3, Zenon
<1>8. FoldsKept(f, list, n)
  BY <1>6, <1>7 DEF FoldsBy, FoldsKept
<1> QED BY <1>8

(* A source that is kept is a new one.                                     *)
LEMMA KeptIsDistinct ==
    ASSUME NEW kept, IsDistinct(kept), NEW source \in Sources
    PROVE  IsDistinct(Kept(kept, source))
BY DEF IsDistinct, Kept

(* Of any list of sources Distinct makes one in which none comes twice.    *)
LEMMA DistinctIsDistinct ==
    ASSUME NEW list \in Seq(Sources)
    PROVE  IsDistinct(Distinct(list))
<1> DEFINE n == Len(list)
<1>1. n \in Nat /\ DOMAIN list = 1 .. n
  OBVIOUS
<1> HIDE DEF n
<1> DEFINE h == CHOOSE f : FoldsKept(f, list, n)
<1>2. FoldsKept(h, list, n)
  BY <1>1, KeptFolds, Zenon DEF n
<1>3. Distinct(list) = h[1 .. n]
  BY <1>1 DEF Distinct, FoldLeft, MapThenFoldSet, Kept, FoldsKept
<1> HIDE DEF h
<1> DEFINE S == {k \in Nat : k <= n => IsDistinct(h[1 .. k])}
<1>4. 0 \in S
  <2>1. h[1 .. 0] = <<>>
    BY <1>2 DEF FoldsKept
  <2>2. IsDistinct(<<>>)
    BY DEF IsDistinct
  <2> QED BY <2>1, <2>2
<1>5. ASSUME NEW k \in Nat, k \in S PROVE k + 1 \in S
  <2> SUFFICES ASSUME k + 1 <= n PROVE IsDistinct(h[1 .. k + 1])
    OBVIOUS
  <2>1. Max(1 .. k + 1) = k + 1
    BY MaxOfInterval
  <2>2. (1 .. k + 1) \ {k + 1} = 1 .. k
    OBVIOUS
  <2>3. 1 .. k + 1 \in SUBSET (1 .. n) /\ 1 .. k + 1 # {}
    BY <1>1
  <2>4. h[1 .. k + 1] = Kept(h[1 .. k], list[k + 1])
    BY <1>2, <2>1, <2>2, <2>3 DEF FoldsKept
  <2>5. IsDistinct(h[1 .. k]) /\ list[k + 1] \in Sources
    BY <1>1, <1>5
  <2> QED BY <2>4, <2>5, KeptIsDistinct
<1>6. Nat \subseteq S
  <2> HIDE DEF S
  <2> QED BY <1>4, <1>5, InductiveSet
<1> QED BY <1>1, <1>3, <1>6

-----------------------------------------------------------------------------
(* What the operators of a frame keep                                      *)

(* The call may fail while nothing of its result has been emitted.         *)
LEMMA ThrowKeeps ==
    ASSUME NEW s, CallInv(s), NEW code \in Codes, s.emitted = <<>>
    PROVE  /\ StreamInv(Throw(s, code))
           /\ Throw(s, code).phase = "failed"
           /\ Throw(s, code).deltas = s.deltas
           /\ Throw(s, code).emitted = s.emitted
<1> DEFINE t == Throw(s, code)
<1>1. /\ t \in Call /\ t.phase = "failed" /\ t.bound = s.bound /\ t.ids = s.ids
      /\ t.conversation = s.conversation /\ t.pending = s.pending
      /\ t.result = s.result /\ t.emitted = s.emitted /\ t.deltas = s.deltas
  BY DEF CallInv, Call, Throw, StreamPhases, Ended
<1> HIDE DEF t
<1>2. SameConversation(t) /\ SameText(t)
  BY <1>1 DEF CallInv, SameConversation, SameText
<1>3. SameSources(t)
  BY <1>1 DEF CallInv, SameSources
<1>4. CallInv(t)
  BY <1>1, <1>2, <1>3 DEF CallInv
<1> QED BY <1>1, <1>4 DEF t, StreamInv

(* Only the phase changes, between phases of a call that goes on and has   *)
(* emitted no source.                                                      *)
LEMMA PhaseKeeps ==
    ASSUME NEW s, CallInv(s), s.phase \in {"idle", "asking", "reading", "body", "suspended"},
           NEW phase \in {"asking", "reading", "body", "suspended"}
    PROVE  /\ CallInv([s EXCEPT !.phase = phase])
           /\ [s EXCEPT !.phase = phase].phase = phase
           /\ [s EXCEPT !.phase = phase].deltas = s.deltas
           /\ [s EXCEPT !.phase = phase].emitted = s.emitted
           /\ [s EXCEPT !.phase = phase].answer = s.answer
           /\ [s EXCEPT !.phase = phase].result = s.result
<1> DEFINE t == [s EXCEPT !.phase = phase]
<1>1. /\ t \in Call /\ t.phase = phase /\ t.bound = s.bound /\ t.ids = s.ids
      /\ t.conversation = s.conversation /\ t.pending = s.pending
      /\ t.additive = s.additive /\ t.answer = s.answer /\ t.result = s.result
      /\ t.emitted = s.emitted /\ t.deltas = s.deltas
  BY DEF CallInv, Call, StreamPhases, Ended
<1> HIDE DEF t
<1>2. SameConversation(t)
  BY <1>1 DEF CallInv, SameConversation
<1>3. SameText(t)
  BY <1>1 DEF CallInv, SameText
<1>4. SameSources(t)
  BY <1>1 DEF CallInv, SameSources
<1>5. CallInv(t)
  BY <1>1, <1>2, <1>3, <1>4 DEF CallInv
<1> QED BY <1>1, <1>5 DEF t

(* The id of a frame that does not contradict what is known.               *)
LEMMA ObservedKeeps ==
    ASSUME NEW s, CallInv(s), NEW id \in Conversations \cup {NoConversation}, ~ Mismatch(s, id)
    PROVE  /\ CallInv(Observed(s, id))
           /\ id # NoConversation => Observed(s, id).conversation = id
           /\ Observed(s, id).phase = s.phase
           /\ Observed(s, id).deltas = s.deltas
           /\ Observed(s, id).emitted = s.emitted
           /\ Observed(s, id).additive = s.additive
           /\ Observed(s, id).answer = s.answer
           /\ Observed(s, id).pending = s.pending
           /\ Observed(s, id).agent = s.agent
<1>1. CASE id = NoConversation
  BY <1>1 DEF Observed
<1>2. CASE id # NoConversation
  <2> DEFINE ids == s.ids \cup {id}
             o == [s EXCEPT !.conversation = id, !.ids = ids]
  <2>1. Observed(s, id) = o
    BY <1>2 DEF Observed
  <2>0. ids \in SUBSET Conversations /\ id \in Conversations
    BY <1>2 DEF CallInv, Call
  <2>5. ids = s.ids \cup {id}
    OBVIOUS
  <2> HIDE DEF ids
  <2>2. o \in Call /\ o.phase = s.phase /\ o.deltas = s.deltas /\ o.emitted = s.emitted
        /\ o.additive = s.additive /\ o.pending = s.pending /\ o.agent = s.agent
        /\ o.conversation = id /\ o.ids = ids /\ o.bound = s.bound
        /\ o.answer = s.answer /\ o.result = s.result
    BY <2>0 DEF CallInv, Call
  <2> HIDE DEF o
  <2>3. SameConversation(o)
    BY <1>2, <2>2, <2>5 DEF CallInv, SameConversation, Mismatch
  <2>4. SameText(o) /\ SameSources(o)
    BY <2>2 DEF CallInv, SameText, SameSources
  <2> QED BY <2>1, <2>2, <2>3, <2>4 DEF CallInv
<1> QED BY <1>1, <1>2

(* A piece of text is added to the answer and to the deltas; a closing     *)
(* message replaces the answer, by the text of the deltas if it is         *)
(* additive.                                                               *)
LEMMA AfterTextKeeps ==
    ASSUME NEW s, CallInv(s), s.phase = "reading",
           NEW kind \in Texts, NEW amount \in Nat
    PROVE  LET n == AfterText(s, kind, amount)
           IN  /\ CallInv(n) /\ n.phase = "reading" /\ n.emitted = s.emitted
               /\ n.deltas = IF Closes(s, kind) THEN s.deltas ELSE s.deltas + amount
<1> DEFINE n == AfterText(s, kind, amount)
           answer == IF Closes(s, kind) THEN amount ELSE s.answer + amount
           deltas == IF Closes(s, kind) THEN s.deltas ELSE s.deltas + amount
           agent == s.agent \/ kind = "agent_message"
           additive == StaysAdditive(s, kind, amount)
<1>0. /\ s \in Call /\ s.answer \in Nat /\ s.deltas \in Nat
      /\ s.agent \in BOOLEAN /\ s.additive \in BOOLEAN /\ s.pending \in BOOLEAN
  BY DEF CallInv, Call
<1>1. answer \in Nat /\ deltas \in Nat /\ agent \in BOOLEAN
  BY <1>0
<1>2. additive \in BOOLEAN
  BY Zenon DEF StaysAdditive
<1>3. /\ n.answer = answer /\ n.deltas = deltas /\ n.phase = s.phase
      /\ n.bound = s.bound /\ n.ids = s.ids /\ n.conversation = s.conversation
      /\ n.pending = s.pending /\ n.result = s.result /\ n.emitted = s.emitted
      /\ n.additive = additive /\ n \in Call
  <2>1. CASE Closes(s, kind)
    <3>1. n = [s EXCEPT !.answer = amount, !.additive = additive]
      BY <2>1 DEF AfterText
    <3>2. answer = amount /\ deltas = s.deltas
      BY <2>1
    <3> HIDE DEF n, answer, deltas, agent, additive
    <3> QED BY <1>0, <1>1, <1>2, <3>1, <3>2 DEF Call
  <2>2. CASE ~ Closes(s, kind)
    <3>1. n = [s EXCEPT !.answer = answer, !.deltas = deltas, !.agent = agent,
                        !.additive = additive]
      BY <2>2 DEF AfterText
    <3> HIDE DEF n, answer, deltas, agent, additive
    <3> QED BY <1>0, <1>1, <1>2, <3>1 DEF Call
  <2> QED BY <2>1, <2>2
<1>4. additive => /\ s.additive
                  /\ IF Closes(s, kind) THEN amount = s.deltas ELSE s.pending => amount = 0
  BY Zenon DEF StaysAdditive
<1>5. additive /\ s.deltas = s.answer =>
        deltas = answer /\ (s.pending => answer = s.answer)
  BY <1>0, <1>4
<1> HIDE DEF n, answer, deltas, agent, additive
<1>6. SameConversation(n)
  BY <1>3 DEF CallInv, SameConversation
<1>7. SameText(n)
  BY <1>3, <1>4, <1>5 DEF CallInv, SameText
<1>8. SameSources(n)
  BY <1>3 DEF CallInv, SameSources
<1> QED BY <1>3, <1>6, <1>7, <1>8 DEF CallInv, n, deltas

(* A message_end gives a result, or refuses one without a conversation.    *)
LEMMA AfterEndKeeps ==
    ASSUME NEW s, CallInv(s), s.phase = "reading", NEW list \in Seq(Sources)
    PROVE  LET n == AfterEnd(s, list)
           IN  /\ CallInv(n) /\ n.phase \in {"reading", "finishing", "failed"}
               /\ n.deltas = s.deltas /\ n.emitted = s.emitted
<1> DEFINE n == AfterEnd(s, list)
           result == [answer |-> s.answer, sources |-> Distinct(list)]
<1>0. s \in Call /\ s.answer \in Nat /\ s.emitted = <<>>
  BY DEF CallInv, Call, SameSources
<1>1. CASE s.conversation = NoConversation
  <2>1. n = Throw(s, "PROVIDER_INVALID_RESPONSE")
    BY <1>1 DEF AfterEnd
  <2> HIDE DEF n
  <2>4. \A code \in Codes :
           LET t == Throw(s, code)
           IN  StreamInv(t) /\ t.phase = "failed" /\ t.deltas = s.deltas /\ t.emitted = s.emitted
    BY <1>0, ThrowKeeps
  <2>3. StreamInv(n) /\ n.phase = "failed" /\ n.deltas = s.deltas /\ n.emitted = s.emitted
    BY <2>1, <2>4 DEF Codes
  <2> QED BY <2>3 DEF StreamInv, n
<1>2. CASE s.conversation # NoConversation
  <2>1. /\ result \in [answer : Nat, sources : Seq(Sources)]
        /\ result.answer = s.answer /\ IsDistinct(result.sources)
    BY <1>0, DistinctIsDistinct DEF IsDistinct
  <2>2. n = IF s.workflow THEN [s EXCEPT !.pending = TRUE, !.result = result]
                          ELSE [s EXCEPT !.phase = "finishing", !.result = result]
    BY <1>2 DEF AfterEnd
  <2> HIDE DEF result, n
  <2>3. /\ n \in Call /\ n.answer = s.answer /\ n.deltas = s.deltas
        /\ n.bound = s.bound /\ n.ids = s.ids /\ n.conversation = s.conversation
        /\ n.result = result /\ n.emitted = s.emitted /\ n.additive = s.additive
        /\ n.phase \in {"reading", "finishing"}
    <3>1. CASE s.workflow
      BY <1>0, <2>1, <2>2, <3>1 DEF Call
    <3>2. CASE ~ s.workflow
      BY <1>0, <2>1, <2>2, <3>2 DEF Call, StreamPhases
    <3> QED BY <3>1, <3>2
  <2>4. SameConversation(n) /\ SameText(n)
    BY <1>2, <2>1, <2>3 DEF CallInv, SameConversation, SameText
  <2>5. SameSources(n)
    BY <1>0, <2>1, <2>3 DEF SameSources, IsDistinct
  <2> QED BY <2>3, <2>4, <2>5 DEF CallInv, n
<1> QED BY <1>1, <1>2

(* One of the flags of a frame that ends nothing is set.                   *)
LEMMA FlagKeeps ==
    ASSUME NEW s, CallInv(s), NEW n,
           n \in {s, [s EXCEPT !.workflow = TRUE], [s EXCEPT !.broken = TRUE]}
    PROVE  /\ CallInv(n) /\ n.phase = s.phase
           /\ n.deltas = s.deltas /\ n.emitted = s.emitted
<1>1. /\ n \in Call /\ n.answer = s.answer /\ n.deltas = s.deltas
      /\ n.bound = s.bound /\ n.ids = s.ids /\ n.conversation = s.conversation
      /\ n.result = s.result /\ n.emitted = s.emitted /\ n.additive = s.additive
      /\ n.phase = s.phase /\ n.pending = s.pending
  <2>1. CASE n = s
    BY <2>1 DEF CallInv
  <2>2. CASE n = [s EXCEPT !.workflow = TRUE]
    BY <2>2 DEF CallInv, Call
  <2>3. CASE n = [s EXCEPT !.broken = TRUE]
    BY <2>3 DEF CallInv, Call
  <2> QED BY <2>1, <2>2, <2>3
<1>2. SameConversation(n) /\ SameText(n)
  BY <1>1 DEF CallInv, SameConversation, SameText
<1>3. SameSources(n)
  BY <1>1 DEF CallInv, SameSources
<1> QED BY <1>1, <1>2, <1>3 DEF CallInv

(* What any frame makes of a call: a piece of text is in the deltas, any   *)
(* other frame does not change them.                                       *)
LEMMA AfterKeeps ==
    ASSUME NEW s, CallInv(s), s.phase = "reading", NEW kind \in FrameKinds,
           NEW amount \in Nat, NEW list \in Seq(Sources)
    PROVE  LET n == After(s, kind, amount, list)
           IN  /\ CallInv(n) /\ n.phase \in {"reading", "finishing", "failed"}
               /\ n.emitted = s.emitted
               /\ n.deltas = IF kind \in Texts /\ ~ Closes(s, kind)
                               THEN s.deltas + amount ELSE s.deltas
               /\ n.phase # "reading" => n.deltas = s.deltas
<1> DEFINE n == After(s, kind, amount, list)
<1>0. s \in Call /\ s.answer \in Nat /\ s.emitted = <<>>
  BY DEF CallInv, Call, SameSources
<1>1. CASE kind \in Texts
  <2>1. n = AfterText(s, kind, amount)
    BY <1>1 DEF After, Texts
  <2> HIDE DEF n
  <2> QED BY <1>1, <2>1, AfterTextKeeps DEF n
<1>2. CASE kind = "message_end"
  <2>1. n = AfterEnd(s, list)
    BY <1>2 DEF After
  <2> HIDE DEF n
  <2>2. kind \notin Texts
    BY <1>2 DEF Texts
  <2> QED BY <2>1, <2>2, AfterEndKeeps DEF n
<1>3. CASE kind \in {"paused", "replaced"}
  <2>1. PICK code \in Codes : n = Throw(s, code)
    <3>1. CASE kind = "paused"
      BY <3>1 DEF After, Codes
    <3>2. CASE kind = "replaced"
      BY <3>2 DEF After, Codes
    <3> QED BY <1>3, <3>1, <3>2
  <2> HIDE DEF n
  <2>2. StreamInv(n) /\ n.phase = "failed" /\ n.deltas = s.deltas /\ n.emitted = s.emitted
    BY <1>0, <2>1, ThrowKeeps
  <2>3. kind \notin Texts
    BY <1>3 DEF Texts
  <2> QED BY <2>2, <2>3 DEF StreamInv, n
<1>4. CASE kind = "workflow_succeeded" /\ s.pending
  <2>1. n = [s EXCEPT !.phase = "finishing"]
    BY <1>4 DEF After
  <2> HIDE DEF n
  <2>2. /\ n \in Call /\ n.answer = s.answer /\ n.deltas = s.deltas
        /\ n.bound = s.bound /\ n.ids = s.ids /\ n.conversation = s.conversation
        /\ n.result = s.result /\ n.emitted = s.emitted /\ n.additive = s.additive
        /\ n.phase = "finishing" /\ n.pending = s.pending
    BY <1>0, <2>1 DEF Call, StreamPhases
  <2>3. SameConversation(n) /\ SameText(n)
    BY <1>4, <2>2 DEF CallInv, SameConversation, SameText
  <2>4. SameSources(n)
    BY <2>2 DEF CallInv, SameSources
  <2>5. kind \notin Texts
    BY <1>4 DEF Texts
  <2> QED BY <2>2, <2>3, <2>4, <2>5 DEF CallInv, n
<1>5. CASE /\ kind \notin Texts /\ kind \notin {"message_end", "paused", "replaced"}
           /\ ~ (kind = "workflow_succeeded" /\ s.pending)
  <2>1. n \in {s, [s EXCEPT !.workflow = TRUE], [s EXCEPT !.broken = TRUE]}
    BY <1>5 DEF After, Texts
  <2> HIDE DEF n
  <2> QED BY <1>5, <2>1, FlagKeeps DEF n
<1> QED BY <1>1, <1>2, <1>3, <1>4, <1>5

-----------------------------------------------------------------------------
(* The steps of a call                                                     *)

(* What a step shows of the call: nothing, one more piece of text, one     *)
(* more source that is new, a failure, or the result.                      *)
Shows(s, t) ==
    /\ s.phase \notin Ended
    /\ \/ t.phase \notin Ended /\ t.deltas = s.deltas /\ t.emitted = s.emitted
       \/ /\ t.phase \notin Ended /\ t.deltas = s.deltas + 1
          /\ s.emitted = <<>> /\ t.emitted = <<>>
       \/ /\ t.phase \notin Ended /\ t.deltas = s.deltas
          /\ \E source \in Sources :
                /\ \A i \in DOMAIN s.emitted : s.emitted[i] # source
                /\ t.emitted = Append(s.emitted, source)
       \/ t.phase \in {"failed", "returned"} /\ t.deltas = s.deltas /\ t.emitted = s.emitted
       \/ /\ t.phase = "completed" /\ t.deltas = s.deltas /\ t.emitted = s.emitted
          /\ t.result.sources = t.emitted
          /\ s.additive => t.result.answer = t.deltas

(* What every step of a call does.                                         *)
Goes(s, t) == StreamInv(t) /\ Shows(s, t)

(* The codes of the transport and of HTTP are codes.                       *)
LEMMA CodesAreCodes ==
    /\ TransportCode \in Codes
    /\ \A status : HttpCode(status) \in Codes
BY DEF TransportCode, HttpCode, Codes

(* A call that is under way may fail at any time.                          *)
LEMMA ThrowGoes ==
    ASSUME NEW s, StreamInv(s), s.phase \in {"idle", "asking", "reading", "body", "suspended"},
           NEW code \in Codes
    PROVE  Goes(s, Throw(s, code))
<1> DEFINE t == Throw(s, code)
<1>0. s.emitted = <<>>
  BY DEF StreamInv, CallInv, SameSources
<1>1. StreamInv(t) /\ t.phase = "failed" /\ t.deltas = s.deltas /\ t.emitted = s.emitted
  BY <1>0, ThrowKeeps DEF StreamInv
<1> HIDE DEF t
<1> QED BY <1>1 DEF Goes, Shows, Ended, t

(* A call goes from one phase to the next without an event.                *)
LEMMA PhaseGoes ==
    ASSUME NEW s, StreamInv(s), s.phase \in {"idle", "asking", "reading", "body", "suspended"},
           NEW phase \in {"asking", "reading", "body", "suspended"},
           phase \in {"asking", "body"} => s.phase \in {"idle", "asking"}
    PROVE  Goes(s, [s EXCEPT !.phase = phase])
<1> DEFINE t == [s EXCEPT !.phase = phase]
<1>0. CallInv(s)
  BY DEF StreamInv
<1>1. /\ CallInv(t) /\ t.phase = phase /\ t.deltas = s.deltas /\ t.emitted = s.emitted
      /\ t.answer = s.answer /\ t.result = s.result
  BY <1>0, PhaseKeeps
<1> HIDE DEF t
<1>2. StreamInv(t)
  BY <1>1 DEF StreamInv
<1> QED BY <1>1, <1>2 DEF Goes, Shows, Ended, t

(* Asking: Send, Respond, Lose and Cancel.                                 *)
LEMMA AskingGoes ==
    StreamInv(stream) /\ (Send \/ Respond \/ Lose \/ Cancel) => Goes(stream, stream')
<1> SUFFICES ASSUME StreamInv(stream), Send \/ Respond \/ Lose \/ Cancel
             PROVE  Goes(stream, stream')
  OBVIOUS
<1>1. \/ /\ stream.phase \in {"idle", "asking", "reading", "body"}
         /\ \E code \in Codes : stream' = Throw(stream, code)
      \/ /\ stream.phase \in {"idle", "asking"}
         /\ \E phase \in {"asking", "reading", "body"} : stream' = [stream EXCEPT !.phase = phase]
  <2>1. CASE Send
    <3>1. {"VALIDATION_ERROR", "PROVIDER_INVALID_RESPONSE"} \subseteq Codes
      BY DEF Codes
    <3> QED BY <2>1, <3>1, CodesAreCodes DEF Send
  <2>2. CASE Respond
    <3>1. "PROVIDER_INVALID_RESPONSE" \in Codes
      BY DEF Codes
    <3> QED BY <2>2, <3>1, CodesAreCodes DEF Respond
  <2>3. CASE Lose \/ Cancel
    BY <2>3, CodesAreCodes DEF Lose, Cancel
  <2> QED BY <2>1, <2>2, <2>3
<1> QED BY <1>1, ThrowGoes, PhaseGoes

(* The body of a blocking response.                                        *)
LEMMA BodyGoes == StreamInv(stream) /\ ReadBody => Goes(stream, stream')
<1> SUFFICES ASSUME StreamInv(stream), ReadBody PROVE Goes(stream, stream')
  OBVIOUS
<1>1. CASE \E code \in Codes : stream' = Throw(stream, code)
  BY <1>1, ThrowGoes DEF ReadBody
<1>2. ASSUME NEW id \in Conversations, ~ Mismatch(stream, id),
             stream' = [Observed(stream, id) EXCEPT !.phase = "completed"]
      PROVE  Goes(stream, stream')
  <2> DEFINE o == Observed(stream, id)
             t == [o EXCEPT !.phase = "completed"]
  <2>1. id # NoConversation
    BY BindingAssumption
  <2>2. CallInv(stream) /\ stream.phase = "body"
    BY DEF StreamInv, ReadBody
  <2>3. /\ CallInv(o) /\ o.conversation = id /\ o.phase = stream.phase /\ o.deltas = stream.deltas
        /\ o.emitted = stream.emitted
    BY <1>2, <2>1, <2>2, ObservedKeeps
  <2>4. /\ stream.answer = 0 /\ stream.result = NoResult /\ stream.deltas = 0
        /\ stream.emitted = <<>>
    BY <2>2 DEF StreamInv, CallInv, SameSources
  <2>5. o.answer = stream.answer /\ o.result = stream.result
    BY <2>2 DEF Observed, CallInv, Call
  <2> HIDE DEF o
  <2>6. /\ t \in Call /\ t.phase = "completed" /\ t.conversation = id /\ t.deltas = 0
        /\ t.emitted = <<>> /\ t.answer = 0 /\ t.result = NoResult
        /\ t.ids = o.ids /\ t.bound = o.bound
    BY <2>3, <2>4, <2>5 DEF CallInv, Call, StreamPhases, Ended
  <2> HIDE DEF t
  <2>7. SameConversation(t)
    BY <2>1, <2>3, <2>6 DEF CallInv, SameConversation
  <2>8. SameText(t)
    BY <2>6 DEF SameText, NoResult
  <2>9. SameSources(t)
    BY <2>6 DEF SameSources, NoResult, IsDistinct
  <2>10. StreamInv(t)
    BY <2>6, <2>7, <2>8, <2>9 DEF StreamInv, CallInv
  <2>11. Shows(stream, t)
    BY <2>2, <2>4, <2>6 DEF Shows, NoResult, Ended
  <2>12. stream' = t
    BY <1>2 DEF t, o
  <2> QED BY <2>10, <2>11, <2>12 DEF Goes
<1>3. "PROVIDER_INVALID_RESPONSE" \in Codes
  BY DEF Codes
<1> QED BY <1>1, <1>2, <1>3 DEF ReadBody

(* A frame that is no event, and the end of the body.                      *)
LEMMA BadFrameGoes ==
    StreamInv(stream) /\ (BadFrame \/ EndOfBody) => Goes(stream, stream')
<1> SUFFICES ASSUME StreamInv(stream), BadFrame \/ EndOfBody
             PROVE  Goes(stream, stream')
  OBVIOUS
<1>1. {"ORCHESTRATION_FAILED", "PROVIDER_INVALID_RESPONSE"} \subseteq Codes
  BY DEF Codes
<1>2. /\ stream.phase = "reading"
      /\ \E code \in Codes : stream' = Throw(stream, code)
  BY <1>1, CodesAreCodes DEF BadFrame, EndOfBody
<1> QED BY <1>2, ThrowGoes

(* The consumer asks for more, or leaves.                                  *)
LEMMA ConsumerGoes == StreamInv(stream) /\ (Pull \/ Return) => Goes(stream, stream')
<1> SUFFICES ASSUME StreamInv(stream), Pull \/ Return PROVE Goes(stream, stream')
  OBVIOUS
<1>0. stream \in Call
  BY DEF StreamInv, CallInv
<1>1. CASE Pull
  <2>1. stream.phase = "suspended"
    BY <1>1 DEF Pull
  <2> DEFINE r == [stream EXCEPT !.phase = "reading"]
  <2>2. Goes(stream, r)
    BY <2>1, PhaseGoes
  <2>3. /\ r.emitted = stream.emitted /\ r.deltas = stream.deltas /\ r.phase = "reading"
    BY <1>0 DEF Call
  <2>4. stream' = Checked(r)
    BY <1>1 DEF Pull
  <2> HIDE DEF r
  <2>5. CASE Checked(r) = r
    BY <2>2, <2>4, <2>5
  <2>6. CASE Checked(r) = Throw(r, "PROVIDER_INVALID_RESPONSE")
    <3>1. "PROVIDER_INVALID_RESPONSE" \in Codes
      BY DEF Codes
    <3>2. Goes(r, stream')
      BY <2>2, <2>3, <2>4, <2>6, <3>1, ThrowGoes DEF Goes
    <3>3. stream'.phase = "failed"
      BY <2>2, <2>3, <2>4, <2>6, <3>1, <1>0 DEF Goes, Throw, StreamInv, CallInv, Call
    <3> QED BY <2>1, <2>3, <3>2, <3>3 DEF Goes, Shows, Ended
  <2> QED BY <2>5, <2>6 DEF Checked
<1>2. CASE Return
  <2> DEFINE t == [stream EXCEPT !.phase = "returned"]
  <2>1. stream.phase \in {"suspended", "finishing"} /\ stream' = t
    BY <1>2 DEF Return
  <2>2. /\ t \in Call /\ t.phase = "returned" /\ t.bound = stream.bound /\ t.ids = stream.ids
        /\ t.conversation = stream.conversation /\ t.pending = stream.pending
        /\ t.result = stream.result /\ t.emitted = stream.emitted
        /\ t.deltas = stream.deltas /\ t.answer = stream.answer
        /\ t.additive = stream.additive
    BY <1>0 DEF Call, StreamPhases, Ended
  <2> HIDE DEF t
  <2>3. SameConversation(t) /\ SameText(t)
    BY <2>1, <2>2 DEF StreamInv, CallInv, SameConversation, SameText
  <2>4. SameSources(t)
    BY <2>1, <2>2 DEF StreamInv, CallInv, SameSources
  <2>5. StreamInv(t)
    BY <2>1, <2>2, <2>3, <2>4 DEF StreamInv, CallInv
  <2> QED BY <2>1, <2>2, <2>5 DEF Goes, Shows, Ended
<1> QED BY <1>1, <1>2

(* The sources are emitted one by one, then the result.                    *)
LEMMA EmitGoes == StreamInv(stream) /\ Emit => Goes(stream, stream')
<1> SUFFICES ASSUME StreamInv(stream), Emit PROVE Goes(stream, stream')
  OBVIOUS
<1> DEFINE n == Len(stream.emitted)
           list == stream.result.sources
<1>0. /\ stream \in Call /\ stream.phase = "finishing" /\ list \in Seq(Sources)
      /\ stream.emitted \in Seq(Sources) /\ n \in Nat /\ n <= Len(list)
      /\ \A i \in 1 .. n : stream.emitted[i] = list[i]
      /\ \A i, j \in 1 .. Len(list) : i # j => list[i] # list[j]
  BY DEF StreamInv, CallInv, Call, SameSources, IsDistinct, Emit
<1>1. CASE n < Len(list)
  <2> DEFINE emitted == Append(stream.emitted, list[n + 1])
             t == [stream EXCEPT !.emitted = emitted]
  <2>1. stream' = t
    BY <1>1 DEF Emit
  <2>2. /\ list[n + 1] \in Sources /\ emitted \in Seq(Sources) /\ Len(emitted) = n + 1
        /\ \A i \in DOMAIN emitted : emitted[i] = list[i]
        /\ \A i \in DOMAIN stream.emitted : stream.emitted[i] # list[n + 1]
    <3>1. list[n + 1] \in Sources
      BY <1>0, <1>1
    <3>2. /\ emitted \in Seq(Sources) /\ Len(emitted) = n + 1
          /\ \A i \in 1 .. n + 1 : emitted[i] = IF i <= n THEN stream.emitted[i] ELSE list[n + 1]
      BY <1>0, <3>1
    <3>3. \A i \in 1 .. n : stream.emitted[i] # list[n + 1]
      BY <1>0, <1>1
    <3>4. DOMAIN emitted = 1 .. n + 1 /\ DOMAIN stream.emitted = 1 .. n
      BY <1>0, <3>2
    <3> HIDE DEF emitted
    <3> QED BY <1>0, <3>1, <3>2, <3>3, <3>4
  <2> HIDE DEF emitted
  <2>3. /\ t \in Call /\ t.phase = "finishing" /\ t.bound = stream.bound /\ t.ids = stream.ids
        /\ t.conversation = stream.conversation /\ t.pending = stream.pending
        /\ t.result = stream.result /\ t.emitted = emitted
        /\ t.deltas = stream.deltas /\ t.answer = stream.answer
        /\ t.additive = stream.additive
    BY <1>0, <2>2 DEF Call
  <2> HIDE DEF t
  <2>4. SameConversation(t) /\ SameText(t)
    BY <1>0, <2>3 DEF StreamInv, CallInv, SameConversation, SameText
  <2>5. SameSources(t)
    <3>1. IsDistinct(stream.result.sources)
      BY DEF StreamInv, CallInv, SameSources
    <3> QED BY <1>1, <2>2, <2>3, <3>1 DEF SameSources
  <2>6. StreamInv(t)
    BY <1>0, <2>3, <2>4, <2>5 DEF StreamInv, CallInv
  <2>7. Shows(stream, t)
    BY <1>0, <2>2, <2>3 DEF Shows, Ended, emitted
  <2> QED BY <2>1, <2>6, <2>7 DEF Goes
<1>2. CASE ~ (n < Len(list))
  <2> DEFINE t == [stream EXCEPT !.phase = "completed"]
  <2>1. stream' = t
    BY <1>2 DEF Emit
  <2>2. stream.emitted = list
    BY <1>0, <1>2
  <2>3. /\ t \in Call /\ t.phase = "completed" /\ t.bound = stream.bound /\ t.ids = stream.ids
        /\ t.conversation = stream.conversation /\ t.pending = stream.pending
        /\ t.result = stream.result /\ t.emitted = stream.emitted
        /\ t.deltas = stream.deltas /\ t.answer = stream.answer
        /\ t.additive = stream.additive
    BY <1>0 DEF Call, StreamPhases, Ended
  <2> HIDE DEF t
  <2>4. SameConversation(t) /\ SameText(t)
    BY <1>0, <2>3 DEF StreamInv, CallInv, SameConversation, SameText
  <2>5. SameSources(t)
    <3>1. SameSources(stream)
      BY DEF StreamInv, CallInv
    <3> QED BY <1>0, <2>2, <2>3, <3>1 DEF SameSources
  <2>6. StreamInv(t)
    BY <1>0, <2>3, <2>4, <2>5 DEF StreamInv, CallInv
  <2>7. /\ t.result.sources = t.emitted
        /\ stream.additive => t.result.answer = t.deltas
    BY <2>2, <2>3, <2>4 DEF SameText
  <2>8. Shows(stream, t)
    BY <1>0, <2>3, <2>7 DEF Shows, Ended
  <2> QED BY <2>1, <2>6, <2>8 DEF Goes
<1> QED BY <1>1, <1>2

(* A frame, of whatever kind and conversation.                             *)
LEMMA FrameGoes == StreamInv(stream) /\ Frame => Goes(stream, stream')
<1> SUFFICES ASSUME StreamInv(stream), Frame PROVE Goes(stream, stream')
  OBVIOUS
<1>0. /\ CallInv(stream) /\ stream \in Call /\ stream.phase = "reading"
      /\ stream.frames \in Nat /\ stream.emitted = <<>> /\ stream.deltas \in Nat
  BY DEF StreamInv, CallInv, Call, SameSources, Frame
<1>1. PICK kind \in FrameKinds, id \in Conversations \cup {NoConversation}, amount \in Nat,
           list \in Seq(Sources) :
        /\ kind \in Texts /\ ~ Closes(stream, kind) => amount \in {0, 1}
        /\ stream' = Handled(kind, id, amount, list)
  <2>0. PICK kind \in FrameKinds, id \in Conversations \cup {NoConversation} :
          \E amount \in Amounts(kind), list \in SourceLists(kind) :
             stream' = Handled(kind, id, amount, list)
    BY Zenon DEF Frame
  <2>1. PICK amount \in Amounts(kind), list \in SourceLists(kind) :
          stream' = Handled(kind, id, amount, list)
    BY <2>0, Zenon
  <2>2. <<>> \in Seq(Sources) /\ \A a, b \in Sources : <<a, b>> \in Seq(Sources)
    OBVIOUS
  <2>3. SourceLists(kind) \subseteq Seq(Sources)
    <3>1. CASE kind = "message_end"
      <4>1. SourceLists(kind) = {<<>>} \cup (Sources \X Sources)
        BY <3>1 DEF SourceLists
      <4>2. ASSUME NEW pair \in Sources \X Sources PROVE pair \in Seq(Sources)
        <5>1. PICK a \in Sources, b \in Sources : pair = <<a, b>>
          OBVIOUS
        <5> QED BY <2>2, <5>1
      <4> QED BY <2>2, <4>1, <4>2
    <3>2. CASE kind # "message_end"
      BY <2>2, <3>2 DEF SourceLists
    <3> QED BY <3>1, <3>2
  <2>4. amount \in Nat /\ (kind \in Texts /\ ~ Closes(stream, kind) => amount \in {0, 1})
    BY <1>0 DEF Amounts
  <2> QED BY <2>1, <2>3, <2>4
<1> DEFINE frames == stream.frames + 1
           sent   == [stream EXCEPT !.frames = frames]
           seen   == [Observed(sent, id) EXCEPT !.status = StatusOf(kind, @)]
           next   == After(seen, kind, amount, list)
<1>2. stream' = IF signal # "none" THEN Throw(sent, TransportCode)
                ELSE IF Mismatch(sent, id) THEN Throw(sent, "PROVIDER_INVALID_RESPONSE")
                ELSE IF Yields(stream, next) THEN [next EXCEPT !.phase = "suspended"]
                ELSE Checked(next)
  BY <1>1 DEF Handled
<1>3. frames \in Nat
  BY <1>0
<1>4. "PROVIDER_INVALID_RESPONSE" \in Codes
  BY DEF Codes
<1> HIDE DEF frames
<1>5. /\ CallInv(sent) /\ sent.phase = "reading" /\ sent.emitted = <<>>
      /\ sent.deltas = stream.deltas /\ sent.agent = stream.agent
  <2>1. /\ sent \in Call /\ sent.phase = stream.phase /\ sent.bound = stream.bound
        /\ sent.ids = stream.ids /\ sent.conversation = stream.conversation
        /\ sent.pending = stream.pending /\ sent.result = stream.result
        /\ sent.emitted = stream.emitted /\ sent.deltas = stream.deltas
        /\ sent.answer = stream.answer /\ sent.additive = stream.additive
        /\ sent.agent = stream.agent
    BY <1>0, <1>3 DEF Call
  <2> HIDE DEF sent
  <2>2. SameConversation(sent) /\ SameText(sent)
    BY <1>0, <2>1 DEF CallInv, SameConversation, SameText
  <2>3. SameSources(sent)
    BY <1>0, <2>1 DEF CallInv, SameSources
  <2> QED BY <1>0, <2>1, <2>2, <2>3 DEF CallInv
<1> HIDE DEF sent
<1>6. ASSUME NEW code \in Codes, stream' = Throw(sent, code) PROVE Goes(stream, stream')
  <2> DEFINE t == Throw(sent, code)
  <2>1. StreamInv(t) /\ t.phase = "failed" /\ t.deltas = sent.deltas /\ t.emitted = sent.emitted
    BY <1>5, ThrowKeeps
  <2> HIDE DEF t
  <2> QED BY <1>0, <1>5, <1>6, <2>1 DEF Goes, Shows, Ended, t
<1>7. CASE signal = "none" /\ ~ Mismatch(sent, id)
  <2> DEFINE o == Observed(sent, id)
  <2>1. /\ CallInv(o) /\ o.phase = "reading" /\ o.emitted = <<>> /\ o.deltas = stream.deltas
        /\ o.agent = stream.agent
    BY <1>5, <1>7, ObservedKeeps
  <2> HIDE DEF o
  <2>2. /\ CallInv(seen) /\ seen.phase = "reading" /\ seen.emitted = <<>>
        /\ seen.deltas = stream.deltas /\ seen.agent = stream.agent
    <3> DEFINE status == StatusOf(kind, o.status)
    <3>1. seen = [o EXCEPT !.status = status]
      BY DEF o
    <3>2. status \in Shown
      BY <2>1 DEF StatusOf, Shown, CallInv, Call
    <3> HIDE DEF status, seen
    <3>3. /\ seen \in Call /\ seen.phase = o.phase /\ seen.bound = o.bound
          /\ seen.ids = o.ids /\ seen.conversation = o.conversation
          /\ seen.pending = o.pending /\ seen.result = o.result
          /\ seen.emitted = o.emitted /\ seen.deltas = o.deltas
          /\ seen.answer = o.answer /\ seen.additive = o.additive /\ seen.agent = o.agent
      BY <2>1, <3>1, <3>2 DEF CallInv, Call
    <3>4. SameConversation(seen) /\ SameText(seen)
      BY <2>1, <3>3 DEF CallInv, SameConversation, SameText
    <3>5. SameSources(seen)
      BY <2>1, <3>3 DEF CallInv, SameSources
    <3> QED BY <2>1, <3>3, <3>4, <3>5 DEF CallInv
  <2>3. Closes(seen, kind) <=> Closes(stream, kind)
    BY <2>2, Zenon DEF Closes
  <2> HIDE DEF seen
  <2>4. /\ CallInv(next) /\ next.phase \in {"reading", "finishing", "failed"}
        /\ next.emitted = <<>>
        /\ next.deltas = IF kind \in Texts /\ ~ Closes(seen, kind)
                           THEN seen.deltas + amount ELSE seen.deltas
        /\ next.phase # "reading" => next.deltas = stream.deltas
    BY <1>1, <2>2, AfterKeeps
  <2> HIDE DEF next
  <2>6. StreamInv(next)
    BY <2>4 DEF StreamInv
  <2>8. next.deltas \in {stream.deltas, stream.deltas + 1}
    BY <1>0, <1>1, <2>2, <2>3, <2>4
  <2>9. stream' = IF Yields(stream, next) THEN [next EXCEPT !.phase = "suspended"]
                  ELSE Checked(next)
    BY <1>2, <1>7 DEF next
  <2>10. CASE Yields(stream, next)
    <3> DEFINE t == [next EXCEPT !.phase = "suspended"]
    <3>1. next.phase = "reading"
      BY <2>10 DEF Yields
    <3>2. StreamInv(t)
      BY <2>6, <3>1, PhaseGoes DEF Goes
    <3>3. t.phase = "suspended" /\ t.deltas = next.deltas /\ t.emitted = next.emitted
      BY <2>4 DEF CallInv, Call
    <3>4. stream' = t
      BY <2>9, <2>10
    <3> HIDE DEF t
    <3> QED BY <1>0, <2>4, <2>8, <3>1, <3>2, <3>3, <3>4 DEF Goes, Shows, Ended
  <2>11. CASE ~ Yields(stream, next)
    <3>1. next.deltas = stream.deltas \/ next.phase = "reading"
      BY <2>4
    <3>2. next.deltas = stream.deltas
      BY <2>11, <3>1 DEF Yields
    <3>3. CASE stream' = next
      BY <1>0, <2>4, <2>6, <3>2, <3>3 DEF Goes, Shows, Ended
    <3>4. CASE stream' = Throw(next, "PROVIDER_INVALID_RESPONSE")
      <4> DEFINE t == Throw(next, "PROVIDER_INVALID_RESPONSE")
      <4>1. StreamInv(t) /\ t.phase = "failed" /\ t.deltas = next.deltas /\ t.emitted = next.emitted
        BY <1>4, <2>4, ThrowKeeps
      <4> HIDE DEF t
      <4> QED BY <1>0, <2>4, <3>2, <3>4, <4>1 DEF Goes, Shows, Ended, t
    <3> QED BY <2>9, <2>11, <3>3, <3>4 DEF Checked
  <2> QED BY <2>10, <2>11
<1> QED BY <1>2, <1>4, <1>6, <1>7, CodesAreCodes

-----------------------------------------------------------------------------
(* The theorems                                                            *)

(* A call that starts has nothing yet.                                     *)
LEMMA StreamStarts == StreamInit => StreamInv(stream)
<1> SUFFICES ASSUME StreamInit PROVE StreamInv(stream)
  OBVIOUS
<1>1. PICK bound \in Conversations \cup {NoConversation}, blocking \in BOOLEAN :
        stream = [phase        |-> "idle",
                  blocking     |-> blocking,
                  bound        |-> bound,
                  conversation |-> NoConversation,
                  answer       |-> 0,
                  agent        |-> FALSE,
                  workflow     |-> FALSE,
                  pending      |-> FALSE,
                  broken       |-> FALSE,
                  result       |-> NoResult,
                  deltas       |-> 0,
                  emitted      |-> <<>>,
                  status       |-> "NONE",
                  error        |-> "NONE",
                  frames       |-> 0,
                  additive     |-> TRUE,
                  ids          |-> {}]
  BY DEF StreamInit
<1>2. NoResult \in [answer : Nat, sources : Seq(Sources)] /\ <<>> \in Seq(Sources)
  BY DEF NoResult
<1>3. stream \in Call
  BY <1>1, <1>2 DEF Call, StreamPhases, Shown
<1>4. SameConversation(stream) /\ SameText(stream)
  BY <1>1 DEF SameConversation, SameText
<1>5. SameSources(stream)
  <2>1. stream.emitted = <<>> /\ stream.result.sources = <<>> /\ stream.phase = "idle"
    BY <1>1 DEF NoResult
  <2>2. IsDistinct(<<>>)
    BY DEF IsDistinct
  <2> QED BY <2>1, <2>2 DEF SameSources
<1> QED BY <1>1, <1>3, <1>4, <1>5 DEF StreamInv, CallInv

(* Every step of the adapter leaves the call alone or is one of its steps. *)
LEMMA CallSteps ==
    StreamInv(stream) /\ [AdapterNext]_adapterVars => stream' = stream \/ Goes(stream, stream')
<1> SUFFICES ASSUME StreamInv(stream), [AdapterNext]_adapterVars
             PROVE  stream' = stream \/ Goes(stream, stream')
  OBVIOUS
<1>1. CASE StreamStep
  <2>1. CASE SignalFires
    BY <2>1 DEF SignalFires
  <2>2. CASE Send \/ Respond \/ Lose \/ Cancel
    BY <2>2, AskingGoes
  <2>3. CASE ReadBody
    BY <2>3, BodyGoes
  <2>4. CASE Frame
    BY <2>4, FrameGoes
  <2>5. CASE BadFrame \/ EndOfBody
    BY <2>5, BadFrameGoes
  <2>6. CASE Emit
    BY <2>6, EmitGoes
  <2>7. CASE Pull \/ Return
    BY <2>7, ConsumerGoes
  <2> QED BY <1>1, <2>1, <2>2, <2>3, <2>4, <2>5, <2>6, <2>7 DEF StreamStep, StreamNext
<1>2. CASE HistoryStep \/ ParserStep \/ UNCHANGED adapterVars
  BY <1>2 DEF HistoryStep, ParserStep, streamVars, adapterVars
<1> QED BY <1>1, <1>2 DEF AdapterNext

(* The inductive invariant.                                                *)
LEMMA CallInvariant == AdapterSpec => []StreamInv(stream)
<1>1. AdapterInit => StreamInv(stream)
  BY StreamStarts DEF AdapterInit
<1>2. StreamInv(stream) /\ [AdapterNext]_adapterVars => StreamInv(stream)'
  BY CallSteps DEF Goes
<1> QED BY <1>1, <1>2, PTL DEF AdapterSpec

(* The result of a call belongs to one conversation: the one every frame   *)
(* named that named one, and the one the turn is bound to, in whatever     *)
(* order the frames come and for any conversations                         *)
(* (observeConversationId, assertConversationBinding).                     *)
THEOREM ResultIsOneConversation == AdapterSpec => []OneConversation
<1>1. StreamInv(stream) => OneConversation
  BY DEF StreamInv, CallInv, SameConversation, OneConversation
<1> QED BY <1>1, CallInvariant, PTL

(* What the contract sees of a call: its outcome and its result.           *)
Outcome(s) ==
    CASE s.phase = "completed"              -> "completed"
      [] s.phase \in {"failed", "returned"} -> "failed"
      [] OTHER                              -> "open"
Result(s) == IF s.phase = "completed" THEN s.result ELSE NoResult

(* The actions of the contract, of what it sees of a call.                 *)
LEMMA ContractActions ==
    /\ Contract!EventInit <=>
          /\ stream.deltas = 0 /\ stream.emitted = <<>>
          /\ Outcome(stream) = "open" /\ Result(stream) = NoResult
    /\ Contract!Delta <=>
          /\ Outcome(stream) = "open" /\ stream.emitted = <<>>
          /\ stream'.deltas = stream.deltas + 1
          /\ stream'.emitted = stream.emitted
          /\ Outcome(stream') = Outcome(stream) /\ Result(stream') = Result(stream)
    /\ Contract!Source <=>
          /\ Outcome(stream) = "open"
          /\ \E source \in Sources :
                /\ \A i \in DOMAIN stream.emitted : stream.emitted[i] # source
                /\ stream'.emitted = Append(stream.emitted, source)
          /\ stream'.deltas = stream.deltas
          /\ Outcome(stream') = Outcome(stream) /\ Result(stream') = Result(stream)
    /\ Contract!Complete <=>
          /\ Outcome(stream) = "open"
          /\ Outcome(stream') = "completed"
          /\ Result(stream').sources = stream.emitted
          /\ stream.additive => Result(stream').answer = stream.deltas
          /\ stream'.deltas = stream.deltas /\ stream'.emitted = stream.emitted
    /\ Contract!Fail <=>
          /\ Outcome(stream) = "open"
          /\ Outcome(stream') = "failed"
          /\ stream'.deltas = stream.deltas /\ stream'.emitted = stream.emitted
          /\ Result(stream') = Result(stream)
<1>1. Contract!NoResult = NoResult
  BY DEF Contract!NoResult, NoResult
<1> QED BY <1>1, Zenon DEF Contract!EventInit, Contract!Delta, Contract!Source, Contract!Complete,
           Contract!Fail, Outcome, Result

(* What a step shows of the call is a step of the contract.                *)
LEMMA StepsKeepContract ==
    ASSUME Shows(stream, stream')
    PROVE  Contract!EventNext \/ /\ stream'.deltas = stream.deltas
                                 /\ stream'.emitted = stream.emitted
                                 /\ Outcome(stream') = Outcome(stream)
                                 /\ Result(stream') = Result(stream)
<1>1. Outcome(stream) = "open" /\ Result(stream) = NoResult
  BY DEF Shows, Ended, Outcome, Result
<1>2. CASE stream'.phase \notin Ended
  <2>1. Outcome(stream') = "open" /\ Result(stream') = NoResult
    BY <1>2 DEF Ended, Outcome, Result
  <2>2. \/ stream'.deltas = stream.deltas /\ stream'.emitted = stream.emitted
        \/ Contract!Delta
        \/ Contract!Source
    BY <1>1, <1>2, <2>1, ContractActions DEF Shows, Ended
  <2> QED BY <1>1, <2>1, <2>2 DEF Contract!EventNext
<1>3. CASE stream'.phase \in {"failed", "returned"}
  <2>1. Outcome(stream') = "failed" /\ Result(stream') = NoResult
    BY <1>3 DEF Outcome, Result
  <2>2. Contract!Fail
    BY <1>1, <1>3, <2>1, ContractActions DEF Shows, Ended
  <2> QED BY <2>2 DEF Contract!EventNext
<1>4. CASE stream'.phase = "completed"
  <2>1. Outcome(stream') = "completed" /\ Result(stream') = stream'.result
    BY <1>4 DEF Outcome, Result
  <2>2. /\ stream'.deltas = stream.deltas /\ stream'.emitted = stream.emitted
        /\ stream'.result.sources = stream.emitted
        /\ stream.additive => stream'.result.answer = stream.deltas
    BY <1>4 DEF Shows, Ended
  <2>3. Contract!Complete
    BY <1>1, <2>1, <2>2, ContractActions
  <2> QED BY <2>3 DEF Contract!EventNext
<1> QED BY <1>2, <1>3, <1>4 DEF Ended

(* The adapter keeps the contract of orchestration events: whatever frames *)
(* the provider sends, each source is emitted once and after the deltas,   *)
(* the sources of the result are those emitted, and nothing follows a      *)
(* result or a failure; and if the provider writes no text after a         *)
(* message_end and its closing messages repeat the pieces they close, the  *)
(* answer of the result is the text of the deltas                          *)
(* (DifyBusinessOrchestrator.stream, completedEvents).                     *)
THEOREM AdapterKeepsContract == AdapterSpec => StreamContract
<1>1. AdapterInit => Contract!EventInit
  <2> SUFFICES ASSUME StreamInit PROVE Contract!EventInit
    BY DEF AdapterInit
  <2>1. stream.deltas = 0 /\ stream.emitted = <<>> /\ stream.phase = "idle"
    BY DEF StreamInit
  <2> QED BY <2>1, ContractActions DEF Outcome, Result
<1>2. StreamInv(stream) /\ [AdapterNext]_adapterVars
        => [Contract!EventNext]_<<stream.deltas, stream.emitted,
              CASE stream.phase = "completed"              -> "completed"
                [] stream.phase \in {"failed", "returned"} -> "failed"
                [] OTHER                                   -> "open",
              IF stream.phase = "completed" THEN stream.result ELSE NoResult>>
  <2> SUFFICES ASSUME StreamInv(stream), [AdapterNext]_adapterVars, ~ Contract!EventNext
               PROVE  /\ stream'.deltas = stream.deltas
                      /\ stream'.emitted = stream.emitted
                      /\ Outcome(stream') = Outcome(stream)
                      /\ Result(stream') = Result(stream)
    BY Zenon DEF Outcome, Result
  <2>1. CASE stream' = stream
    BY <2>1
  <2>2. CASE Goes(stream, stream')
    BY <2>2, StepsKeepContract DEF Goes
  <2> QED BY <2>1, <2>2, CallSteps
<1> QED BY <1>1, <1>2, CallInvariant, PTL DEF AdapterSpec, StreamContract, Contract!EventSpec

-----------------------------------------------------------------------------
(* The history of a conversation                                           *)

(* No two rows of a list have one id.                                      *)
DistinctIds(list) == \A i, j \in DOMAIN list : i # j => list[i].id # list[j].id

(* A list in which nothing comes twice has as many elements as places.     *)
LEMMA DistinctCount ==
    ASSUME NEW list, NEW n \in Nat, DOMAIN list = 1 .. n, list = [i \in 1 .. n |-> list[i]],
           \A i, j \in 1 .. n : i # j => list[i] # list[j]
    PROVE  /\ IsFiniteSet({list[i] : i \in 1 .. n})
           /\ Cardinality({list[i] : i \in 1 .. n}) = n
<1> DEFINE S == {list[i] : i \in 1 .. n}
<1>1. list \in [1 .. n -> S] /\ \A x \in S : \E i \in 1 .. n : list[i] = x
  OBVIOUS
<1> HIDE DEF S
<1>2. list \in Bijection(1 .. n, S)
  BY <1>1 DEF Bijection, Injection, IsInjective, Surjection
<1>3. ExistsBijection(1 .. n, S)
  BY <1>2 DEF ExistsBijection
<1>4. IsFiniteSet(1 .. n) /\ Cardinality(1 .. n) = n
  <2>1. 1 \in Int /\ n \in Int
    OBVIOUS
  <2>2. /\ IsFiniteSet(1 .. n)
        /\ Cardinality(1 .. n) = IF 1 > n THEN 0 ELSE n - 1 + 1
    BY <2>1, FS_Interval
  <2> QED BY <2>2
<1>5. IsFiniteSet(S) /\ Cardinality(S) = Cardinality(1 .. n)
  BY <1>3, <1>4, FS_Bijection
<1> QED BY <1>4, <1>5 DEF S

(* The rows of a list in the order of time: the same rows, each once.      *)
LEMMA ChronologicalSorts ==
    ASSUME NEW entries \in Seq(Entry), DistinctIds(entries)
    PROVE  LET got == Chronological(entries)
           IN  /\ got \in Seq(Entry) /\ Len(got) = Len(entries)
               /\ ToSet(got) = ToSet(entries)
               /\ \A i, j \in DOMAIN got : i < j => got[i].at <= got[j].at
<1> DEFINE n == Len(entries)
           rows == ToSet(entries)
           R == {pair \in rows \X rows : Earlier(pair[1], pair[2])}
           got == Chronological(entries)
<1>1. n \in Nat /\ DOMAIN entries = 1 .. n /\ entries = [i \in 1 .. n |-> entries[i]]
  OBVIOUS
<1>2. rows = {entries[i] : i \in 1 .. n}
  BY <1>1 DEF ToSet
<1>3. IsFiniteSet(rows) /\ Cardinality(rows) = n
  <2>1. \A i, j \in 1 .. n : i # j => entries[i] # entries[j]
    BY <1>1 DEF DistinctIds
  <2> HIDE DEF n, rows
  <2>2. /\ IsFiniteSet({entries[i] : i \in 1 .. n})
        /\ Cardinality({entries[i] : i \in 1 .. n}) = n
    BY <1>1, <2>1, DistinctCount
  <2> QED BY <1>2, <2>2
<1>4. rows \subseteq Entry /\ \A a, b \in rows : a # b => a.id # b.id
  <2>1. \A i \in 1 .. n : entries[i] \in Entry
    OBVIOUS
  <2>2. \A i, j \in 1 .. n : entries[i] # entries[j] => entries[i].id # entries[j].id
    BY <1>1 DEF DistinctIds
  <2> QED BY <1>2, <2>1, <2>2
<1> HIDE DEF rows
<1>5. \A a, b \in rows : <<a, b>> \in R <=> Earlier(a, b)
  OBVIOUS
<1>6. \A row \in rows : {other \in rows : Earlier(other, row)} = {other \in rows : <<other, row>> \in R}
  BY <1>5
<1> HIDE DEF R
<1>7. \A a \in rows : a.id \in Int /\ a.at \in Int
  BY <1>4 DEF Entry
<1>8. Orders(R, rows)
  <2>1. \A a, b \in rows : <<a, b>> \in R => <<b, a>> \notin R
    BY <1>5, <1>7 DEF Earlier
  <2>2. \A a, b, c \in rows : <<a, b>> \in R /\ <<b, c>> \in R => <<a, c>> \in R
    BY <1>5, <1>7 DEF Earlier
  <2>3. \A a, b \in rows : a = b \/ <<a, b>> \in R \/ <<b, a>> \in R
    <3> SUFFICES ASSUME NEW a \in rows, NEW b \in rows, a # b
                 PROVE  Earlier(a, b) \/ Earlier(b, a)
      BY <1>5
    <3>1. a.id # b.id
      BY <1>4
    <3>2. a.id \in Int /\ b.id \in Int /\ a.at \in Int /\ b.at \in Int
      BY <1>7
    <3> QED BY <3>1, <3>2 DEF Earlier
  <2> QED BY <2>1, <2>2, <2>3 DEF Orders
<1>9. /\ \A x, y \in rows : <<x, y>> \in R <=> Rank(R, rows, x) < Rank(R, rows, y)
      /\ \A x \in rows : Rank(R, rows, x) \in 0 .. n - 1
      /\ \A k \in 0 .. n - 1 : \E x \in rows : Rank(R, rows, x) = k
  BY <1>3, <1>8, RankGrows, RankIsOrder, RankIsOnto
<1>10. got = [i \in 1 .. n |->
                CHOOSE row \in rows : Cardinality({other \in rows : Earlier(other, row)}) = i - 1]
  BY <1>1, Zenon DEF Chronological, rows
<1>16. \A row \in rows :
          Cardinality({other \in rows : Earlier(other, row)}) = Rank(R, rows, row)
  BY <1>6 DEF Rank
<1> HIDE DEF got, n
<1>11. \A i \in 1 .. n : got[i] \in rows /\ Rank(R, rows, got[i]) = i - 1
  <2> SUFFICES ASSUME NEW i \in 1 .. n PROVE got[i] \in rows /\ Rank(R, rows, got[i]) = i - 1
    OBVIOUS
  <2>1. i - 1 \in 0 .. n - 1
    BY <1>1
  <2>2. \E x \in rows : Rank(R, rows, x) = i - 1
    BY <1>9, <2>1
  <2>3. got[i] = CHOOSE row \in rows :
                    Cardinality({other \in rows : Earlier(other, row)}) = i - 1
    BY <1>10
  <2>4. \E row \in rows : Cardinality({other \in rows : Earlier(other, row)}) = i - 1
    BY <1>16, <2>2
  <2>5. got[i] \in rows /\ Cardinality({other \in rows : Earlier(other, got[i])}) = i - 1
    BY <2>3, <2>4, Zenon
  <2> QED BY <1>16, <2>5
<1>12. got \in Seq(Entry) /\ Len(got) = n /\ DOMAIN got = 1 .. n
  <2>1. DOMAIN got = 1 .. n /\ got = [i \in 1 .. n |-> got[i]]
    <3> DEFINE e(i) == CHOOSE row \in rows :
                         Cardinality({other \in rows : Earlier(other, row)}) = i - 1
    <3>1. got = [i \in 1 .. n |-> e(i)]
      BY <1>10
    <3> HIDE DEF e
    <3> QED BY <3>1
  <2>2. \A i \in 1 .. n : got[i] \in Entry
    BY <1>4, <1>11
  <2>3. got \in [1 .. n -> Entry]
    BY <2>1, <2>2
  <2> QED BY <1>1, <2>3
<1>13. rows \subseteq ToSet(got)
  <2> SUFFICES ASSUME NEW row \in rows PROVE \E i \in 1 .. n : got[i] = row
    BY <1>12 DEF ToSet
  <2>1. Rank(R, rows, row) \in 0 .. n - 1
    BY <1>9
  <2>2. PICK i \in 1 .. n : i - 1 = Rank(R, rows, row)
    <3>1. Rank(R, rows, row) + 1 \in 1 .. n /\ (Rank(R, rows, row) + 1) - 1 = Rank(R, rows, row)
      BY <1>1, <2>1
    <3> QED BY <3>1
  <2>3. Rank(R, rows, got[i]) = Rank(R, rows, row) /\ got[i] \in rows
    BY <1>11, <2>2
  <2>4. ~ (Rank(R, rows, got[i]) < Rank(R, rows, row)) /\ ~ (Rank(R, rows, row) < Rank(R, rows, got[i]))
    BY <2>1, <2>3
  <2>5. got[i] = row
    BY <1>8, <1>9, <2>3, <2>4 DEF Orders
  <2> QED BY <2>5
<1>14. ToSet(got) = rows
  BY <1>11, <1>12, <1>13 DEF ToSet
<1>15. ASSUME NEW i \in 1 .. n, NEW j \in 1 .. n, i < j PROVE got[i].at <= got[j].at
  <2>1. got[i] \in rows /\ got[j] \in rows
    BY <1>11
  <2>2. Rank(R, rows, got[i]) < Rank(R, rows, got[j])
    <3>1. i - 1 < j - 1
      BY <1>15
    <3> QED BY <1>11, <3>1
  <2>3. Earlier(got[i], got[j])
    BY <1>5, <1>9, <2>1, <2>2
  <2> QED BY <1>7, <2>1, <2>3 DEF Earlier
<1> QED BY <1>12, <1>14, <1>15 DEF got, n, rows

(* The record a call of loadHistory is.                                    *)
HistoryCall == [phase : {"idle", "asking", "done", "failed"}, entries : Seq(Entry),
                cursor : Int, cursors : SUBSET Int, length : Nat,
                order : RowOrders, reading : Readings]

(* The conversation at the provider: unique ids, and no time before the    *)
(* one of the message before.                                              *)
IsThread(list) ==
    /\ list \in Seq(Entry)
    /\ DistinctIds(list)
    /\ \A i, j \in DOMAIN list : i < j => list[i].at <= list[j].at

(* The rows of a conversation at the places from a to b.                   *)
Stretch(list, a, b) == {list[i] : i \in a .. b}

(* While the pages are fetched: the rows kept so far are the newest of the *)
(* conversation as it was at the first page, each once, fewer than the     *)
(* limit; the cursors were the ids of some of them, and the cursor is the  *)
(* oldest where pages are oldest first and are those before the cursor.    *)
Fetched(h, list) ==
    /\ Len(h.entries) < MaximumEntries
    /\ DistinctIds(h.entries)
    /\ ToSet(h.entries) = Stretch(list, h.length - Len(h.entries) + 1, h.length)
    /\ h.cursors \subseteq {row.id : row \in ToSet(h.entries)}
    /\ h.cursor = 0 => h.entries = <<>> /\ h.length = 0
    /\ h.cursor # 0 =>
          /\ h.length \in 1 .. Len(list)
          /\ Len(h.entries) \in 1 .. h.length
          /\ \E c \in h.length - Len(h.entries) + 1 .. h.length : h.cursor = list[c].id
          /\ h.order = "oldestFirst" /\ h.reading = "before" =>
                h.cursor = list[h.length - Len(h.entries) + 1].id

(* The inductive invariant.                                                *)
HistoryInv ==
    /\ history \in HistoryCall
    /\ IsThread(thread)
    /\ history.phase = "idle" =>
          history.entries = <<>> /\ history.cursor = 0 /\ history.cursors = {} /\ history.length = 0
    /\ history.phase = "asking" => Fetched(history, thread)
    /\ HistoryIsTheNewest

(* The smaller of two numbers is one of them and exceeds neither.          *)
LEMMA SmallerIs ==
    ASSUME NEW a \in Int, NEW b \in Int
    PROVE  /\ Smaller(a, b) \in Int /\ Smaller(a, b) <= a /\ Smaller(a, b) <= b
           /\ Smaller(a, b) \in {a, b}
BY DEF Smaller

(* A call that has not begun.                                              *)
LEMMA HistoryStarts == HistoryInit => HistoryInv
<1> SUFFICES ASSUME HistoryInit PROVE HistoryInv
  OBVIOUS
<1>1. IsThread(thread)
  <2>1. PICK n \in 0 .. MaxThread : thread \in [1 .. n -> Entry]
    BY DEF HistoryInit, Threads
  <2>2. \A i, j \in DOMAIN thread :
          i < j => thread[i].id # thread[j].id /\ thread[i].at <= thread[j].at
    BY DEF HistoryInit, Threads
  <2>3. n \in Nat /\ DOMAIN thread = 1 .. n /\ thread \in Seq(Entry)
    BY <2>1
  <2>4. DistinctIds(thread)
    BY <2>2, <2>3 DEF DistinctIds
  <2> QED BY <2>2, <2>3, <2>4 DEF IsThread
<1>2. history \in HistoryCall
  <2>1. <<>> \in Seq(Entry) /\ {} \in SUBSET Int
    OBVIOUS
  <2> QED BY <2>1 DEF HistoryInit, HistoryCall, RowOrders, Readings
<1> QED BY <1>1, <1>2 DEF HistoryInit, HistoryInv, HistoryIsTheNewest

(* The first page is asked for.                                            *)
LEMMA BeginKeeps == HistoryInv /\ BeginHistory => HistoryInv'
<1> SUFFICES ASSUME HistoryInv, BeginHistory PROVE HistoryInv'
  OBVIOUS
<1>1. /\ history' \in HistoryCall /\ history'.phase = "asking" /\ thread' = thread
      /\ history'.entries = <<>> /\ history'.cursor = 0 /\ history'.length = 0
      /\ history'.cursors = {}
  <2>1. PICK order \in RowOrders, reading \in Readings :
          history' = [history EXCEPT !.phase = "asking", !.order = order, !.reading = reading]
    BY DEF BeginHistory
  <2> QED BY <2>1 DEF HistoryInv, BeginHistory, HistoryCall
<1>2. Fetched(history', thread')
  <2>1. Stretch(thread', 0 - 0 + 1, 0) = {} /\ ToSet(<<>>) = {} /\ Len(<<>>) = 0
    BY DEF Stretch, ToSet
  <2>2. 0 < MaximumEntries
    BY PagesAssumption
  <2>3. DistinctIds(<<>>)
    BY DEF DistinctIds
  <2> QED BY <1>1, <2>1, <2>2, <2>3 DEF Fetched
<1>3. HistoryIsTheNewest'
  BY <1>1 DEF HistoryIsTheNewest
<1>4. IsThread(thread)
  BY DEF HistoryInv
<1> QED BY <1>1, <1>2, <1>3, <1>4 DEF HistoryInv

(* A call that fails.                                                      *)
LEMMA FailureKeeps ==
    HistoryInv /\ HistoryFails /\ thread' = thread => HistoryInv'
<1> SUFFICES ASSUME HistoryInv, HistoryFails, thread' = thread PROVE HistoryInv'
  OBVIOUS
<1>1. history' \in HistoryCall /\ history'.phase = "failed"
  <2>1. <<>> \in Seq(Entry)
    OBVIOUS
  <2> QED BY <2>1 DEF HistoryInv, HistoryFails, HistoryCall
<1>2. HistoryIsTheNewest'
  BY <1>1 DEF HistoryIsTheNewest
<1>3. IsThread(thread)
  BY DEF HistoryInv
<1> QED BY <1>1, <1>2, <1>3 DEF HistoryInv

(* The conversation grows: its old messages stay where they are.           *)
LEMMA GrowKeeps == HistoryInv /\ Grow => HistoryInv'
<1> SUFFICES ASSUME HistoryInv, Grow PROVE HistoryInv'
  OBVIOUS
<1>1. PICK entry \in Entry : CanFollow(entry) /\ thread' = Append(thread, entry)
  BY DEF Grow
<1>0. /\ history \in HistoryCall /\ IsThread(thread) /\ Fetched(history, thread)
      /\ history' = history /\ history.phase = "asking"
  BY DEF HistoryInv, Grow
<1>2. /\ thread \in Seq(Entry) /\ thread' \in Seq(Entry) /\ Len(thread') = Len(thread) + 1
      /\ \A i \in 1 .. Len(thread) : thread'[i] = thread[i]
      /\ thread'[Len(thread) + 1] = entry
      /\ Len(thread) \in Nat /\ DOMAIN thread = 1 .. Len(thread)
      /\ DOMAIN thread' = 1 .. Len(thread) + 1
  BY <1>0, <1>1 DEF IsThread
<1>3. IsThread(thread')
  <2>1. DistinctIds(thread')
    BY <1>0, <1>1, <1>2 DEF IsThread, DistinctIds, CanFollow
  <2>2. ASSUME NEW i \in DOMAIN thread', NEW j \in DOMAIN thread', i < j
        PROVE  thread'[i].at <= thread'[j].at
    BY <1>0, <1>1, <1>2, <2>2 DEF IsThread, CanFollow
  <2> QED BY <1>2, <2>1, <2>2 DEF IsThread
<1>4. Fetched(history', thread')
  <2> DEFINE n == history.length
             k == Len(history.entries)
  <2>1. n \in Nat /\ k \in Nat
    BY <1>0 DEF HistoryCall
  <2>2. n <= Len(thread) /\ k <= n
    <3>1. CASE history.cursor = 0
      <4>1. k = 0 /\ n = 0
        BY <1>0, <3>1 DEF Fetched
      <4> QED BY <1>2, <4>1
    <3>2. CASE history.cursor # 0
      BY <1>0, <3>2 DEF Fetched
    <3> QED BY <3>1, <3>2
  <2>3. Stretch(thread', n - k + 1, n) = Stretch(thread, n - k + 1, n)
    BY <1>2, <2>1, <2>2 DEF Stretch
  <2>4. history.cursor # 0 =>
          \A c \in n - k + 1 .. n : thread'[c] = thread[c]
    <3>1. ASSUME history.cursor # 0 PROVE n - k + 1 .. n \subseteq 1 .. Len(thread)
      BY <1>0, <1>2, <2>1, <2>2, <3>1 DEF Fetched
    <3> QED BY <1>2, <3>1
  <2>5. history.cursor # 0 => n \in 1 .. Len(thread') /\ k \in 1 .. n
                              /\ n - k + 1 \in n - k + 1 .. n
    BY <1>0, <1>2, <2>1, <2>2 DEF Fetched
  <2> QED BY <1>0, <2>3, <2>4, <2>5 DEF Fetched
<1>5. HistoryIsTheNewest'
  BY <1>0 DEF HistoryIsTheNewest
<1> QED BY <1>0, <1>3, <1>4, <1>5 DEF HistoryInv

(* The rows kept so far are the newest of the conversation as it was at    *)
(* the first page, and the next page ends among them or just before them:  *)
(* before them if the provider continues at the cursor.                    *)
LEMMA FetchedIs ==
    ASSUME HistoryInv, history.phase = "asking"
    PROVE  /\ thread \in Seq(Entry) /\ history.entries \in Seq(Entry)
           /\ LengthThen \in 0 .. Len(thread)
           /\ Len(history.entries) \in 0 .. LengthThen
           /\ ToSet(history.entries)
                = Stretch(thread, LengthThen - Len(history.entries) + 1, LengthThen)
           /\ PageEnd \in LengthThen - Len(history.entries) .. LengthThen
           /\ \/ history.reading = "on"
              \/ history.reading = "before" /\ history.order = "oldestFirst"
              => PageEnd = LengthThen - Len(history.entries)
<1> DEFINE k == Len(history.entries)
<1>1. /\ history \in HistoryCall /\ IsThread(thread) /\ Fetched(history, thread)
      /\ thread \in Seq(Entry) /\ history.entries \in Seq(Entry) /\ history.length \in Nat
      /\ k \in Nat /\ Len(thread) \in Nat /\ DOMAIN thread = 1 .. Len(thread)
  BY DEF HistoryInv, IsThread, HistoryCall
<1>2. CASE history.cursor = 0
  <2>1. /\ k = 0 /\ history.entries = <<>> /\ LengthThen = Len(thread)
        /\ PageEnd = Len(thread)
    BY <1>1, <1>2 DEF Fetched, LengthThen, PageEnd
  <2>2. ToSet(history.entries) = {} /\ Stretch(thread, Len(thread) - 0 + 1, Len(thread)) = {}
    BY <1>1, <2>1 DEF ToSet, Stretch
  <2>3. Stretch(thread, LengthThen - k + 1, LengthThen) = {}
    BY <2>1, <2>2
  <2>4. LengthThen - k = Len(thread)
    BY <1>1, <2>1
  <2>5. LengthThen \in 0 .. Len(thread) /\ k \in 0 .. LengthThen
    BY <1>1, <2>1
  <2>6. ToSet(history.entries) = Stretch(thread, LengthThen - k + 1, LengthThen)
    BY <2>2, <2>3
  <2>7. PageEnd = LengthThen - k /\ PageEnd \in LengthThen - k .. LengthThen
    BY <1>1, <2>1, <2>4
  <2> QED BY <1>1, <2>5, <2>6, <2>7
<1>3. CASE history.cursor # 0
  <2> DEFINE n == history.length
  <2>1. /\ LengthThen = n /\ n \in 1 .. Len(thread) /\ k \in 1 .. n
        /\ ToSet(history.entries) = Stretch(thread, n - k + 1, n)
    BY <1>1, <1>3 DEF Fetched, LengthThen
  <2>2. ASSUME NEW c \in n - k + 1 .. n, history.cursor = thread[c].id
        PROVE  PlaceOf(history.cursor) = c
    <3>1. c \in DOMAIN thread
      BY <1>1, <2>1
    <3>2. \A i \in DOMAIN thread : thread[i].id = history.cursor => i = c
      BY <1>1, <2>2, <3>1 DEF IsThread, DistinctIds
    <3> QED BY <2>2, <3>1, <3>2 DEF PlaceOf
  <2>3. PlaceOf(history.cursor) \in n - k + 1 .. n
    <3>1. PICK c \in n - k + 1 .. n : history.cursor = thread[c].id
      BY <1>1, <1>3 DEF Fetched
    <3> QED BY <2>2, <3>1
  <2>4. history.order = "oldestFirst" /\ history.reading = "before" =>
          PlaceOf(history.cursor) = n - k + 1
    <3>1. n - k + 1 \in n - k + 1 .. n
      BY <1>1, <2>1
    <3>2. history.order = "oldestFirst" /\ history.reading = "before" =>
            history.cursor = thread[n - k + 1].id
      BY <1>1, <1>3 DEF Fetched
    <3> QED BY <2>2, <3>1, <3>2
  <2>5. /\ history.reading = "before" => PageEnd = PlaceOf(history.cursor) - 1
        /\ history.reading = "from"   => PageEnd = PlaceOf(history.cursor)
        /\ history.reading = "on"     => PageEnd = n - k
    BY <1>3, <2>1 DEF PageEnd
  <2>6. history.reading \in {"before", "from", "on"}
    BY <1>1 DEF HistoryCall, Readings
  <2> HIDE DEF k, n
  <2>7. PageEnd \in n - k .. n
    <3>1. n \in Int /\ k \in Int /\ 1 <= k /\ PlaceOf(history.cursor) \in Int
      BY <1>1, <2>1, <2>3 DEF k, n
    <3>2. n - k \in n - k .. n
      BY <3>1
    <3>3. PlaceOf(history.cursor) - 1 \in n - k .. n /\ PlaceOf(history.cursor) \in n - k .. n
      BY <2>3, <3>1
    <3> QED BY <2>5, <2>6, <3>2, <3>3
  <2>8. \/ history.reading = "on"
        \/ history.reading = "before" /\ history.order = "oldestFirst"
        => PageEnd = n - k
    <3>1. n \in Int /\ k \in Int
      BY <1>1, <2>1 DEF k, n
    <3>2. history.reading = "before" /\ history.order = "oldestFirst" => PageEnd = n - k
      <4>1. ASSUME history.reading = "before", history.order = "oldestFirst"
            PROVE  PageEnd = n - k
        <5>1. PlaceOf(history.cursor) = n - k + 1
          BY <2>4, <4>1
        <5>2. PageEnd = PlaceOf(history.cursor) - 1
          BY <2>5, <4>1
        <5> QED BY <3>1, <5>1, <5>2
      <4> QED BY <4>1
    <3>3. history.reading = "on" => PageEnd = n - k
      BY <2>5
    <3> QED BY <3>2, <3>3
  <2>9. n \in 0 .. Len(thread) /\ k \in 0 .. n
    BY <1>1, <2>1 DEF k, n
  <2> QED BY <1>1, <2>1, <2>7, <2>8, <2>9 DEF k, n
<1> QED BY <1>2, <1>3

(* Two lists one after the other.                                          *)
LEMMA ConcatIs ==
    ASSUME NEW S, NEW s \in Seq(S), NEW t \in Seq(S)
    PROVE  /\ s \o t \in Seq(S) /\ Len(s \o t) = Len(s) + Len(t)
           /\ DOMAIN (s \o t) = 1 .. Len(s) + Len(t)
           /\ \A i \in 1 .. Len(s) : (s \o t)[i] = s[i]
           /\ \A i \in Len(s) + 1 .. Len(s) + Len(t) : (s \o t)[i] = t[i - Len(s)]
OBVIOUS

(* A page is the rows of one stretch of the conversation, each once; the   *)
(* first of them is the oldest or the newest.                              *)
LEMMA PageIs ==
    ASSUME HistoryInv, history.phase = "asking", NEW size \in 0 .. PageEnd
    PROVE  /\ Page(size) \in Seq(Entry) /\ Len(Page(size)) = size
           /\ DOMAIN Page(size) = 1 .. size
           /\ ToSet(Page(size)) = Stretch(thread, PageEnd - size + 1, PageEnd)
           /\ DistinctIds(Page(size))
           /\ size > 0 => Page(size)[1] \in Stretch(thread, PageEnd - size + 1, PageEnd)
           /\ size > 0 /\ history.order = "oldestFirst" =>
                 Page(size)[1] = thread[PageEnd - size + 1]
<1> DEFINE e == PageEnd
           rows == SubSeq(thread, e - size + 1, e)
           page == Page(size)
<1>1. /\ thread \in Seq(Entry) /\ DistinctIds(thread) /\ Len(thread) \in Nat
      /\ DOMAIN thread = 1 .. Len(thread)
  BY FetchedIs DEF HistoryInv, IsThread
<1>2. e \in 0 .. Len(thread) /\ size \in 0 .. e
  <2>1. /\ LengthThen \in 0 .. Len(thread) /\ Len(history.entries) \in 0 .. LengthThen
        /\ e \in LengthThen - Len(history.entries) .. LengthThen
    BY FetchedIs
  <2> QED BY <1>1, <2>1
<1> HIDE DEF e
<1>3. /\ rows \in Seq(Entry) /\ Len(rows) = size
      /\ \A i \in 1 .. size : rows[i] = thread[e - size + i]
  <2>1. e - size + 1 \in 1 .. e + 1
    BY <1>1, <1>2
  <2> QED BY <1>1, <1>2, <2>1
<1>4. page = rows \/ page = Reverse(rows)
  BY DEF Page, e
<1> HIDE DEF rows
<1>5. DOMAIN rows = 1 .. size /\ size \in Nat
  BY <1>2, <1>3
<1>6. Reverse(rows) = [i \in 1 .. size |-> rows[size - i + 1]]
  BY <1>3 DEF Reverse
<1>7. \/ page = rows
      \/ page = [i \in 1 .. size |-> rows[size - i + 1]]
  BY <1>4, <1>6
<1>8. \A i \in 1 .. size : /\ e - size + i \in 1 .. Len(thread) /\ size - i + 1 \in 1 .. size
                           /\ rows[i] \in Entry
  BY <1>1, <1>2, <1>3, <1>5
<1> HIDE DEF page
<1>9. page \in Seq(Entry) /\ Len(page) = size /\ DOMAIN page = 1 .. size
  <2>1. CASE page = rows
    BY <1>3, <1>5, <2>1
  <2>2. CASE page = [i \in 1 .. size |-> rows[size - i + 1]]
    <3>1. page \in [1 .. size -> Entry]
      BY <1>8, <2>2
    <3> QED BY <1>5, <3>1
  <2> QED BY <1>7, <2>1, <2>2
<1>10. \A i \in 1 .. size : \E j \in 1 .. size : page[i] = rows[j]
  BY <1>7, <1>8
<1>11. \A j \in 1 .. size : \E i \in 1 .. size : page[i] = rows[j]
  <2>1. CASE page = rows
    BY <2>1
  <2>2. CASE page = [i \in 1 .. size |-> rows[size - i + 1]]
    <3> SUFFICES ASSUME NEW j \in 1 .. size PROVE \E i \in 1 .. size : page[i] = rows[j]
      OBVIOUS
    <3>1. size - j + 1 \in 1 .. size /\ size - (size - j + 1) + 1 = j
      BY <1>5
    <3> QED BY <2>2, <3>1
  <2> QED BY <1>7, <2>1, <2>2
<1>12. \A row : (\E j \in 1 .. size : row = rows[j]) <=> row \in Stretch(thread, e - size + 1, e)
  <2>1. ASSUME NEW row, NEW j \in 1 .. size, row = rows[j]
        PROVE  row \in Stretch(thread, e - size + 1, e)
    <3>1. row = thread[e - size + j] /\ e - size + j \in e - size + 1 .. e
      BY <1>2, <1>3, <2>1
    <3> QED BY <3>1 DEF Stretch
  <2>2. ASSUME NEW row, row \in Stretch(thread, e - size + 1, e)
        PROVE  \E j \in 1 .. size : row = rows[j]
    <3>1. PICK p \in e - size + 1 .. e : row = thread[p]
      BY <2>2 DEF Stretch
    <3> DEFINE j == p - (e - size)
    <3>2. j \in 1 .. size /\ e - size + j = p
      BY <1>2
    <3> HIDE DEF j
    <3> QED BY <1>3, <3>1, <3>2
  <2> QED BY <2>1, <2>2
<1>13. ToSet(page) = Stretch(thread, e - size + 1, e)
  <2>1. \A row : row \in ToSet(page) <=> \E i \in 1 .. size : row = page[i]
    BY <1>9 DEF ToSet
  <2>2. \A row : row \in ToSet(page) <=> \E j \in 1 .. size : row = rows[j]
    BY <1>10, <1>11, <2>1
  <2>3. \A row : row \in ToSet(page) <=> row \in Stretch(thread, e - size + 1, e)
    BY <1>12, <2>2
  <2> QED BY <2>3
<1>14. DistinctIds(page)
  <2>1. \A i, j \in 1 .. size : i # j => rows[i].id # rows[j].id
    <3> SUFFICES ASSUME NEW i \in 1 .. size, NEW j \in 1 .. size, i # j
                 PROVE  rows[i].id # rows[j].id
      OBVIOUS
    <3>1. e - size + i # e - size + j
      BY <1>2
    <3>2. thread[e - size + i].id # thread[e - size + j].id
      BY <1>1, <1>8, <3>1 DEF DistinctIds
    <3> QED BY <1>3, <3>2
  <2>2. CASE page = rows
    BY <1>5, <2>1, <2>2 DEF DistinctIds
  <2>3. CASE page = [i \in 1 .. size |-> rows[size - i + 1]]
    <3> SUFFICES ASSUME NEW i \in 1 .. size, NEW j \in 1 .. size, i # j
                 PROVE  page[i].id # page[j].id
      BY <1>9 DEF DistinctIds
    <3>1. size - i + 1 # size - j + 1
      BY <1>5
    <3>2. page[i] = rows[size - i + 1] /\ page[j] = rows[size - j + 1]
      BY <2>3
    <3> QED BY <1>8, <2>1, <3>1, <3>2
  <2> QED BY <1>7, <2>2, <2>3
<1>15. ASSUME size > 0 PROVE page[1] \in Stretch(thread, e - size + 1, e)
  <2>1. 1 \in DOMAIN page
    BY <1>5, <1>9, <1>15
  <2>2. page[1] \in ToSet(page)
    BY <2>1 DEF ToSet
  <2> QED BY <1>13, <2>2
<1>16. ASSUME size > 0, history.order = "oldestFirst" PROVE page[1] = thread[e - size + 1]
  <2>1. page = rows
    BY <1>16 DEF Page, page, rows, e
  <2>2. 1 \in 1 .. size
    BY <1>5, <1>16
  <2> QED BY <1>3, <2>1, <2>2
<1> QED BY <1>9, <1>13, <1>14, <1>15, <1>16 DEF page, e

(* The rows kept with a page of a size.                                    *)
NextEntries(size) == history.entries \o Page(size)

(* A page that passes the check for repeated messages ends just before the *)
(* rows kept, and with them makes a longer stretch.                        *)
LEMMA PageFollows ==
    ASSUME HistoryInv, history.phase = "asking", NEW size \in 0 .. PageEnd,
           ~ Repeats(Page(size)), size > 0 \/ PageEnd = 0
    PROVE  /\ PageEnd = LengthThen - Len(history.entries)
           /\ NextEntries(size) \in Seq(Entry)
           /\ Len(NextEntries(size)) = Len(history.entries) + size
           /\ Len(NextEntries(size)) \in 0 .. LengthThen
           /\ ToSet(NextEntries(size)) =
                Stretch(thread, LengthThen - Len(NextEntries(size)) + 1, LengthThen)
           /\ ToSet(NextEntries(size)) = ToSet(history.entries) \cup ToSet(Page(size))
           /\ DistinctIds(NextEntries(size))
<1> DEFINE k == Len(history.entries)
           n == LengthThen
           e == PageEnd
           old == history.entries
           page == Page(size)
           entries == NextEntries(size)
<1>1. /\ old \in Seq(Entry) /\ n \in Int /\ k \in Int /\ e \in Int /\ size \in Int
      /\ 0 <= k /\ k <= n /\ n - k <= e /\ e <= n /\ 0 <= size /\ size <= e
      /\ ToSet(old) = Stretch(thread, n - k + 1, n) /\ DistinctIds(old)
      /\ DOMAIN old = 1 .. k
  <2>1. /\ old \in Seq(Entry) /\ n \in 0 .. Len(thread) /\ k \in 0 .. n /\ e \in n - k .. n
        /\ ToSet(old) = Stretch(thread, n - k + 1, n) /\ Len(thread) \in Nat
    BY FetchedIs
  <2>2. DistinctIds(old)
    BY DEF HistoryInv, Fetched
  <2> QED BY <2>1, <2>2
<1>2. /\ page \in Seq(Entry) /\ Len(page) = size /\ DOMAIN page = 1 .. size
      /\ ToSet(page) = Stretch(thread, e - size + 1, e) /\ DistinctIds(page)
  BY PageIs
<1>3. \A i \in DOMAIN page : \A row \in ToSet(old) : page[i].id # row.id
  BY DEF Repeats
<1>4. entries = old \o page /\ Len(old) = k
  BY DEF NextEntries
<1> HIDE DEF k, n, e, old, page, entries
<1>5. e = n - k
  <2>1. CASE size > 0 /\ e > n - k
    <3>1. e \in e - size + 1 .. e /\ e \in n - k + 1 .. n
      BY <1>1, <2>1
    <3>2. thread[e] \in ToSet(page) /\ thread[e] \in ToSet(old)
      BY <1>1, <1>2, <3>1 DEF Stretch
    <3>3. \E i \in DOMAIN page : page[i] = thread[e]
      BY <3>2 DEF ToSet
    <3> QED BY <1>3, <3>2, <3>3
  <2>2. CASE e = 0
    BY <1>1, <2>2
  <2> QED BY <1>1, <2>1, <2>2 DEF e
<1>6. /\ entries \in Seq(Entry) /\ Len(entries) = k + size /\ DOMAIN entries = 1 .. k + size
      /\ \A i \in 1 .. k : entries[i] = old[i]
      /\ \A i \in k + 1 .. k + size : entries[i] = page[i - k]
  <2>1. /\ old \o page \in Seq(Entry) /\ Len(old \o page) = Len(old) + Len(page)
        /\ DOMAIN (old \o page) = 1 .. Len(old) + Len(page)
        /\ \A i \in 1 .. Len(old) : (old \o page)[i] = old[i]
        /\ \A i \in Len(old) + 1 .. Len(old) + Len(page) : (old \o page)[i] = page[i - Len(old)]
    BY <1>1, <1>2, ConcatIs
  <2> QED BY <1>2, <1>4, <2>1
<1>7. ToSet(entries) = ToSet(old) \cup ToSet(page)
  <2>1. ASSUME NEW i \in 1 .. k + size PROVE entries[i] \in ToSet(old) \cup ToSet(page)
    <3>1. CASE i <= k
      <4>1. i \in 1 .. k
        BY <1>1, <3>1
      <4>2. old[i] \in ToSet(old)
        BY <1>1, <4>1 DEF ToSet
      <4> QED BY <1>6, <4>1, <4>2
    <3>2. CASE i > k
      <4>1. i \in k + 1 .. k + size /\ i - k \in 1 .. size
        BY <1>1, <3>2
      <4>2. page[i - k] \in ToSet(page)
        BY <1>2, <4>1 DEF ToSet
      <4> QED BY <1>6, <4>1, <4>2
    <3> QED BY <1>1, <3>1, <3>2
  <2>2. ASSUME NEW i \in 1 .. k PROVE old[i] \in ToSet(entries)
    <3>1. i \in 1 .. k + size
      BY <1>1
    <3> QED BY <1>6, <3>1 DEF ToSet
  <2>3. ASSUME NEW i \in 1 .. size PROVE page[i] \in ToSet(entries)
    <3>1. k + i \in k + 1 .. k + size /\ k + i \in 1 .. k + size /\ (k + i) - k = i
      BY <1>1
    <3>2. entries[k + i] = page[i]
      BY <1>6, <3>1
    <3>3. entries[k + i] \in ToSet(entries)
      BY <1>6, <3>1 DEF ToSet
    <3> QED BY <3>2, <3>3
  <2>4. /\ \A row \in ToSet(entries) : \E i \in 1 .. k + size : row = entries[i]
        /\ \A row \in ToSet(old) : \E i \in 1 .. k : row = old[i]
        /\ \A row \in ToSet(page) : \E i \in 1 .. size : row = page[i]
    BY <1>1, <1>2, <1>6 DEF ToSet
  <2> QED BY <2>1, <2>2, <2>3, <2>4
<1>8. Stretch(thread, n - (k + size) + 1, n) = ToSet(old) \cup ToSet(page)
  <2>1. /\ n - (k + size) + 1 = e - size + 1 /\ n - k + 1 = e + 1
        /\ e - size + 1 .. n = (e - size + 1 .. e) \cup (e + 1 .. n)
    BY <1>1, <1>5
  <2> QED BY <1>1, <1>2, <2>1 DEF Stretch
<1>9. DistinctIds(entries)
  <2> SUFFICES ASSUME NEW i \in 1 .. k + size, NEW j \in 1 .. k + size, i < j
               PROVE  entries[i].id # entries[j].id
    <3>1. \A i, j \in 1 .. k + size : i # j => i < j \/ j < i
      BY <1>1
    <3> QED BY <1>6, <3>1 DEF DistinctIds
  <2>1. CASE j <= k
    <3>1. i \in 1 .. k /\ j \in 1 .. k /\ i # j
      BY <1>1, <2>1
    <3>2. entries[i] = old[i] /\ entries[j] = old[j]
      BY <1>6, <3>1
    <3> QED BY <1>1, <3>1, <3>2 DEF DistinctIds
  <2>2. CASE i > k
    <3>1. i - k \in 1 .. size /\ j - k \in 1 .. size /\ i - k # j - k
          /\ i \in k + 1 .. k + size /\ j \in k + 1 .. k + size
      BY <1>1, <2>2
    <3>2. entries[i] = page[i - k] /\ entries[j] = page[j - k]
      BY <1>6, <3>1
    <3> QED BY <1>2, <3>1, <3>2 DEF DistinctIds
  <2>3. CASE i <= k /\ j > k
    <3>1. i \in 1 .. k /\ j \in k + 1 .. k + size /\ j - k \in 1 .. size
      BY <1>1, <2>3
    <3>2. entries[i] = old[i] /\ entries[j] = page[j - k]
      BY <1>6, <3>1
    <3>3. old[i] \in ToSet(old)
      BY <1>1, <3>1 DEF ToSet
    <3> QED BY <1>2, <1>3, <3>1, <3>2, <3>3
  <2> QED BY <1>1, <2>1, <2>2, <2>3
<1>10. k + size \in 0 .. n
  BY <1>1, <1>5
<1> QED BY <1>5, <1>6, <1>7, <1>8, <1>9, <1>10 DEF k, n, e, old, page, entries

(* The last request: all its rows are returned, in the order of time.      *)
LEMMA LastPageKeeps ==
    ASSUME HistoryInv, history.phase = "asking", NEW size \in 0 .. PageEnd,
           size <= Limit, ~ Repeats(Page(size)),
           size = PageEnd \/ Len(NextEntries(size)) >= MaximumEntries,
           history' = [history EXCEPT !.phase = "done",
                                      !.entries = Chronological(NextEntries(size)),
                                      !.length = LengthThen],
           thread' = thread
    PROVE  HistoryInv'
<1> DEFINE k == Len(history.entries)
           n == LengthThen
           entries == NextEntries(size)
           got == Chronological(entries)
           count == Smaller(MaximumEntries, n)
<1>1. /\ n \in 0 .. Len(thread) /\ k \in 0 .. n /\ Len(thread) \in Nat
      /\ history.entries \in Seq(Entry) /\ k < MaximumEntries
  BY FetchedIs DEF HistoryInv, Fetched
<1>2. size \in Nat /\ PageEnd \in Int /\ PageSize \in Nat /\ MaximumEntries \in Nat
      /\ size <= MaximumEntries - k
  <2>1. Limit = Smaller(PageSize, MaximumEntries - k)
    BY DEF Limit, RequestedLimit
  <2>2. PageSize \in Int /\ MaximumEntries - k \in Int /\ n \in Int /\ k \in Int
    BY <1>1, PagesAssumption
  <2>3. Limit \in Int /\ Limit <= MaximumEntries - k
    BY <2>1, <2>2, SmallerIs
  <2>4. PageEnd \in n - k .. n
    BY FetchedIs
  <2> HIDE DEF k, n
  <2>5. PageEnd \in Int
    BY <2>2, <2>4
  <2> QED BY <2>2, <2>3, <2>5, PagesAssumption
<1>3. size > 0 \/ PageEnd = 0
  <2>1. Len(entries) = k + size
    <3> DEFINE page == Page(size)
               old == history.entries
    <3>1. page \in Seq(Entry) /\ Len(page) = size /\ old \in Seq(Entry)
      BY <1>1, PageIs
    <3>2. entries = old \o page /\ k = Len(old)
      BY DEF NextEntries
    <3> HIDE DEF page, old, entries, k
    <3> QED BY <3>1, <3>2, ConcatIs
  <2>2. k \in Int
    BY <1>1
  <2> HIDE DEF entries, k
  <2>3. size = PageEnd \/ k + size >= MaximumEntries
    BY <2>1 DEF entries
  <2> QED BY <1>1, <1>2, <2>2, <2>3
<1>4. /\ PageEnd = n - k
      /\ entries \in Seq(Entry) /\ Len(entries) = k + size /\ Len(entries) \in 0 .. n
      /\ ToSet(entries) = Stretch(thread, n - Len(entries) + 1, n) /\ DistinctIds(entries)
  BY <1>3, PageFollows
<1>5. /\ got \in Seq(Entry) /\ Len(got) = Len(entries)
      /\ ToSet(got) = ToSet(entries)
      /\ \A i, j \in DOMAIN got : i < j => got[i].at <= got[j].at
  BY <1>4, ChronologicalSorts
<1>6. /\ history' \in HistoryCall /\ history'.phase = "done" /\ history'.entries = got
      /\ history'.length = n
  <2>1. history \in HistoryCall /\ n \in Nat
    BY <1>1 DEF HistoryInv
  <2> HIDE DEF got, n
  <2>2. history' = [history EXCEPT !.phase = "done", !.entries = got, !.length = n]
    BY DEF got, n
  <2> QED BY <1>5, <2>1, <2>2 DEF HistoryCall
<1>7. Len(entries) = count
  <2>1. size = n - k \/ k + size >= MaximumEntries
    BY <1>4
  <2>2. MaximumEntries \in Int /\ n \in Int /\ k \in Int /\ k + size <= n
        /\ k + size <= MaximumEntries
    BY <1>1, <1>2, <1>4
  <2> HIDE DEF k, n, entries
  <2>3. k + size = Smaller(MaximumEntries, n)
    BY <1>2, <2>1, <2>2 DEF Smaller
  <2> QED BY <1>4, <2>3 DEF entries, n, k
<1> HIDE DEF got, n, k, count, entries
<1>8. Stretch(thread, n - count + 1, n) = {thread[i] : i \in n - count + 1 .. n}
  BY DEF Stretch
<1>9. /\ ToSet(got) = {thread[i] : i \in n - count + 1 .. n}
      /\ Len(got) = count
  BY <1>4, <1>5, <1>7, <1>8
<1>10. HistoryIsTheNewest'
  BY <1>5, <1>6, <1>9 DEF HistoryIsTheNewest, count
<1>11. IsThread(thread)
  BY DEF HistoryInv
<1> QED BY <1>6, <1>10, <1>11 DEF HistoryInv

(* A request before the last: its first row is the next cursor.            *)
LEMMA NextPageKeeps ==
    ASSUME HistoryInv, history.phase = "asking", NEW size \in 0 .. PageEnd,
           ~ Repeats(Page(size)), Page(size) # <<>>,
           ~ (Len(NextEntries(size)) >= MaximumEntries),
           history' = [history EXCEPT !.entries = NextEntries(size),
                                      !.cursor  = Page(size)[1].id,
                                      !.cursors = @ \cup {Page(size)[1].id},
                                      !.length  = LengthThen],
           thread' = thread
    PROVE  HistoryInv'
<1> DEFINE k == Len(history.entries)
           n == LengthThen
           page == Page(size)
           entries == NextEntries(size)
           id == page[1].id
<1>0. history \in HistoryCall /\ IsThread(thread) /\ Fetched(history, thread)
  BY DEF HistoryInv
<1>1. /\ n \in 0 .. Len(thread) /\ k \in 0 .. n /\ Len(thread) \in Nat
      /\ thread \in Seq(Entry)
  BY FetchedIs
<1>2. /\ page \in Seq(Entry) /\ Len(page) = size /\ DOMAIN page = 1 .. size
      /\ size > 0 => page[1] \in Stretch(thread, PageEnd - size + 1, PageEnd)
      /\ ToSet(page) = Stretch(thread, PageEnd - size + 1, PageEnd)
      /\ size > 0 /\ history.order = "oldestFirst" => page[1] = thread[PageEnd - size + 1]
  BY PageIs
<1>3. size > 0 /\ size \in Nat
  <2>1. size \in Nat /\ (size = 0 => page = <<>>)
    <3>1. size \in Nat
      BY <1>2
    <3> HIDE DEF page
    <3> QED BY <1>2, <3>1
  <2> QED BY <2>1
<1>4. /\ PageEnd = n - k
      /\ entries \in Seq(Entry) /\ Len(entries) = k + size /\ Len(entries) \in 0 .. n
      /\ ToSet(entries) = Stretch(thread, n - Len(entries) + 1, n) /\ DistinctIds(entries)
      /\ ToSet(entries) = ToSet(history.entries) \cup ToSet(page)
  BY <1>3, PageFollows
<1> HIDE DEF k, n, page, entries
<1>5. /\ n \in Int /\ k \in Int /\ 0 <= k /\ k + size <= n /\ n <= Len(thread)
      /\ n - k - size + 1 = n - (k + size) + 1
  BY <1>1, <1>3, <1>4
<1>6. PICK c \in n - k - size + 1 .. n - k : page[1] = thread[c]
  BY <1>2, <1>3, <1>4 DEF Stretch
<1>7. c \in n - (k + size) + 1 .. n /\ c \in 1 .. Len(thread) /\ page[1] \in Entry
  <2>1. c \in n - (k + size) + 1 .. n /\ c \in 1 .. Len(thread)
    BY <1>1, <1>3, <1>5, <1>6
  <2>2. thread[c] \in Entry
    BY <1>1, <2>1
  <2> QED BY <1>6, <2>1, <2>2
<1>8. id \in Int /\ id # 0 /\ id = thread[c].id
  BY <1>6, <1>7 DEF Entry
<1> HIDE DEF id
<1>9. /\ history' \in HistoryCall /\ history'.phase = "asking" /\ history'.entries = entries
      /\ history'.cursor = id /\ history'.cursors = history.cursors \cup {id}
      /\ history'.length = n
      /\ history'.order = history.order /\ history'.reading = history.reading
  <2>1. history' = [history EXCEPT !.entries = entries, !.cursor = id,
                                   !.cursors = @ \cup {id}, !.length = n]
    BY DEF id, n, entries, page
  <2>2. history.cursors \cup {id} \in SUBSET Int
    BY <1>0, <1>8 DEF HistoryCall
  <2>3. n \in Nat
    BY <1>1
  <2> QED BY <1>0, <1>4, <1>8, <2>1, <2>2, <2>3 DEF HistoryCall
<1>10. Fetched(history', thread')
  <2>1. Len(entries) < MaximumEntries
    <3>1. Len(entries) \in Int /\ ~ (Len(entries) >= MaximumEntries)
      BY <1>4 DEF entries
    <3> QED BY <3>1, PagesAssumption
  <2>2. history'.cursors \subseteq {row.id : row \in ToSet(entries)}
    <3>1. id \in {row.id : row \in ToSet(entries)}
      <4>1. thread[c] \in ToSet(entries)
        BY <1>4, <1>7 DEF Stretch
      <4> QED BY <1>8, <4>1
    <3>2. history.cursors \subseteq {row.id : row \in ToSet(history.entries)}
      BY <1>0 DEF Fetched
    <3> QED BY <1>4, <1>9, <3>1, <3>2
  <2>3. n \in 1 .. Len(thread) /\ Len(entries) \in 1 .. n
    BY <1>1, <1>3, <1>4, <1>5
  <2>4. \E d \in n - Len(entries) + 1 .. n : id = thread[d].id
    BY <1>4, <1>7, <1>8
  <2>5. history.order = "oldestFirst" => id = thread[n - Len(entries) + 1].id
    <3>1. ASSUME history.order = "oldestFirst" PROVE page[1] = thread[n - k - size + 1]
      BY <1>2, <1>3, <1>4, <3>1
    <3> QED BY <1>4, <1>5, <3>1 DEF id
  <2> QED BY <1>4, <1>8, <1>9, <2>1, <2>2, <2>3, <2>4, <2>5 DEF Fetched
<1>11. HistoryIsTheNewest'
  BY <1>9 DEF HistoryIsTheNewest
<1> QED BY <1>0, <1>9, <1>10, <1>11 DEF HistoryInv

(* A request that is answered.                                             *)
LEMMA FetchKeeps == HistoryInv /\ FetchPage => HistoryInv'
<1> SUFFICES ASSUME HistoryInv, FetchPage PROVE HistoryInv'
  OBVIOUS
<1>1. history.phase = "asking" /\ thread' = thread
  BY DEF FetchPage
<1>2. PICK size \in 0 .. Smaller(Limit + 1, PageEnd), more \in BOOLEAN, foreign \in BOOLEAN :
         (size < PageEnd => more) /\ Receive(size, more, foreign)
  BY DEF FetchPage
<1>3. Limit \in Int /\ PageEnd \in Int /\ size \in Int
  <2>1. /\ LengthThen \in 0 .. Len(thread) /\ Len(history.entries) \in 0 .. LengthThen
        /\ PageEnd \in LengthThen - Len(history.entries) .. LengthThen
        /\ Len(thread) \in Nat
    BY <1>1, FetchedIs
  <2>2. Limit = Smaller(PageSize, MaximumEntries - Len(history.entries))
    BY DEF Limit, RequestedLimit
  <2>3. Len(history.entries) \in Int /\ LengthThen \in Int
    BY <2>1
  <2>4. PageSize \in Int /\ MaximumEntries - Len(history.entries) \in Int
    BY <2>3, PagesAssumption
  <2>5. Limit \in Int
    BY <2>2, <2>4, SmallerIs
  <2>6. PageEnd \in Int
    BY <2>1, <2>3
  <2>7. Limit + 1 \in Int
    BY <2>5
  <2>8. Smaller(Limit + 1, PageEnd) \in Int
    BY <2>6, <2>7, SmallerIs
  <2> QED BY <2>5, <2>6, <2>8
<1>4. size \in 0 .. PageEnd
  <2>1. Smaller(Limit + 1, PageEnd) \in Int /\ Smaller(Limit + 1, PageEnd) <= PageEnd
    BY <1>3, SmallerIs
  <2> QED BY <1>2, <1>3, <2>1
<1>5. IF size > Limit \/ foreign \/ Repeats(Page(size)) THEN HistoryFails
      ELSE IF ~more \/ Len(NextEntries(size)) >= MaximumEntries
        THEN history' = [history EXCEPT !.phase = "done",
                                        !.entries = Chronological(NextEntries(size)),
                                        !.length = LengthThen]
      ELSE IF Page(size) = <<>> \/ Page(size)[1].id \in history.cursors THEN HistoryFails
      ELSE history' = [history EXCEPT !.entries = NextEntries(size),
                                      !.cursor  = Page(size)[1].id,
                                      !.cursors = @ \cup {Page(size)[1].id},
                                      !.length  = LengthThen]
  BY <1>2, Zenon DEF Receive, NextEntries
<1>6. CASE HistoryFails
  BY <1>1, <1>6, FailureKeeps
<1>7. CASE ~ HistoryFails
  <2>1. size <= Limit /\ ~ Repeats(Page(size))
    BY <1>3, <1>5, <1>7
  <2>2. CASE ~more \/ Len(NextEntries(size)) >= MaximumEntries
    <3>1. size = PageEnd \/ Len(NextEntries(size)) >= MaximumEntries
      BY <1>2, <1>3, <1>4, <2>2
    <3> QED BY <1>1, <1>4, <1>5, <1>7, <2>1, <2>2, <3>1, LastPageKeeps
  <2>3. CASE more /\ ~ (Len(NextEntries(size)) >= MaximumEntries)
    BY <1>1, <1>4, <1>5, <1>7, <2>1, <2>3, NextPageKeeps
  <2> QED BY <2>2, <2>3
<1> QED BY <1>6, <1>7

(* The right page of a provider that continues at the cursor passes every  *)
(* check.                                                                  *)
LEMMA RightPageKept ==
    ASSUME HistoryInv, FetchRightPage,
           \/ history.reading = "on"
           \/ history.reading = "before" /\ history.order = "oldestFirst"
    PROVE  history'.phase # "failed"
<1> DEFINE k == Len(history.entries)
           n == LengthThen
           e == PageEnd
           size == Smaller(Limit, e)
           page == Page(size)
           known == {row.id : row \in ToSet(history.entries)}
<1>1. history.phase = "asking" /\ Receive(size, size < e, FALSE)
  BY DEF FetchRightPage
<1>2. /\ n \in 0 .. Len(thread) /\ k \in 0 .. n /\ Len(thread) \in Nat /\ e = n - k
      /\ ToSet(history.entries) = Stretch(thread, n - k + 1, n)
      /\ DOMAIN thread = 1 .. Len(thread) /\ DistinctIds(thread)
      /\ k < MaximumEntries /\ history \in HistoryCall
      /\ history.cursors \subseteq known
  BY <1>1, FetchedIs DEF HistoryInv, IsThread, Fetched
<1>3. Limit \in Int /\ 1 <= Limit
  <2>1. Limit = Smaller(PageSize, MaximumEntries - k)
    BY DEF Limit, RequestedLimit
  <2>2. PageSize \in Int /\ MaximumEntries \in Int /\ k \in Int /\ 1 <= PageSize
    BY <1>2, PagesAssumption
  <2> HIDE DEF k
  <2>3. MaximumEntries - k \in Int /\ 1 <= MaximumEntries - k
    BY <1>2, <2>2
  <2> QED BY <2>1, <2>2, <2>3, SmallerIs
<1>4. size \in 0 .. e /\ size <= Limit /\ (size < e => 1 <= size)
  <2>1. e \in Int /\ 0 <= e
    BY <1>2
  <2> HIDE DEF e
  <2>2. size \in {Limit, e} /\ size <= Limit /\ size <= e
    BY <1>3, <2>1, SmallerIs
  <2> HIDE DEF size
  <2> QED BY <1>3, <2>1, <2>2
<1> HIDE DEF size
<1>5. /\ page \in Seq(Entry) /\ DOMAIN page = 1 .. size
      /\ ToSet(page) = Stretch(thread, e - size + 1, e)
  BY <1>1, <1>4, PageIs
<1> HIDE DEF page, e, k, n
<1>6. \A i \in DOMAIN page : page[i].id \notin known
  <2> SUFFICES ASSUME NEW i \in DOMAIN page, NEW row \in ToSet(history.entries)
               PROVE  page[i].id # row.id
    OBVIOUS
  <2>1. page[i] \in ToSet(page)
    BY DEF ToSet
  <2>2. PICK p \in e - size + 1 .. e : page[i] = thread[p]
    BY <1>5, <2>1 DEF Stretch
  <2>3. PICK q \in n - k + 1 .. n : row = thread[q]
    BY <1>2 DEF Stretch
  <2>4. p \in 1 .. Len(thread) /\ q \in 1 .. Len(thread) /\ p # q
    BY <1>2, <1>4
  <2> QED BY <1>2, <2>2, <2>3, <2>4 DEF DistinctIds
<1>7. ~ Repeats(page)
  BY <1>6 DEF Repeats
<1>8. size < e => page # <<>> /\ page[1].id \notin history.cursors
  <2>1. size < e => 1 \in DOMAIN page
    BY <1>2, <1>4, <1>5
  <2> QED BY <1>2, <1>6, <2>1
<1>9. ~ (size > Limit)
  BY <1>2, <1>3, <1>4
<1>10. \/ history' = [history EXCEPT !.phase = "done",
                                     !.entries = Chronological(NextEntries(size)),
                                     !.length = LengthThen]
       \/ history' = [history EXCEPT !.entries = NextEntries(size),
                                     !.cursor  = page[1].id,
                                     !.cursors = @ \cup {page[1].id},
                                     !.length  = LengthThen]
  BY <1>1, <1>7, <1>8, <1>9, Zenon DEF Receive, NextEntries, page
<1> QED BY <1>1, <1>2, <1>10 DEF HistoryCall

(* The inductive invariant.                                                *)
LEMMA HistoryInvariant == AdapterSpec => []HistoryInv
<1>1. AdapterInit => HistoryInv
  BY HistoryStarts DEF AdapterInit
<1>2. HistoryInv /\ [AdapterNext]_adapterVars => HistoryInv'
  <2> SUFFICES ASSUME HistoryInv, [AdapterNext]_adapterVars PROVE HistoryInv'
    OBVIOUS
  <2>1. CASE HistoryStep
    <3>1. CASE FetchFails
      BY <3>1, FailureKeeps DEF FetchFails
    <3> QED BY <2>1, <3>1, BeginKeeps, FetchKeeps, GrowKeeps DEF HistoryStep, HistoryNext
  <2>2. CASE history' = history /\ thread' = thread
    BY <2>2 DEF HistoryInv, HistoryIsTheNewest
  <2> QED BY <2>1, <2>2 DEF AdapterNext, StreamStep, ParserStep, historyVars, adapterVars
<1> QED BY <1>1, <1>2, PTL DEF AdapterSpec

(* The history that is read is the newest of the conversation, in the      *)
(* order of its messages, whatever is added to it meanwhile.               *)
THEOREM NewestHistory == AdapterSpec => []HistoryIsTheNewest
<1>1. HistoryInv => HistoryIsTheNewest
  BY DEF HistoryInv
<1> QED BY <1>1, HistoryInvariant, PTL

(* A provider whose next page ends where the rows kept so far begin: it    *)
(* takes the page before it for the cursor's meaning, or the cursor is the *)
(* oldest row of a page and it answers with the rows before that.          *)
ContinuesAtCursor ==
    \/ history.reading = "on"
    \/ history.reading = "before" /\ history.order = "oldestFirst"

(* No page such a provider answers rightly with is refused: the checks for *)
(* a page that is too long, that repeats a message or a cursor or that is  *)
(* empty find nothing, though messages are added to the conversation       *)
(* between two pages (loadHistory).                                        *)
GoodPagesAreKept ==
    [][ContinuesAtCursor /\ FetchRightPage => history'.phase # "failed"]_historyVars

(* The history of a provider that continues at the cursor fails only for a *)
(* call or an answer that fails (loadHistory; NewestFirstPagesAreNormalized *)
(* is about one that does not).                                            *)
THEOREM NoGoodPageRefused == AdapterSpec => GoodPagesAreKept
<1>1. HistoryInv =>
        [ContinuesAtCursor /\ FetchRightPage => history'.phase # "failed"]_historyVars
  BY RightPageKept DEF ContinuesAtCursor
<1> QED BY <1>1, HistoryInvariant, PTL DEF GoodPagesAreKept

-----------------------------------------------------------------------------
(* The parser                                                              *)

(* However the body is cut into chunks, what is yielded is the events of   *)
(* its text, and it is refused only for an event or a line that is too     *)
(* long.                                                                   *)
THEOREM ChunksMakeNoDifference == AdapterSpec => []ChunksDoNotMatter
<1>1. AdapterInit => ParserInv(sse)
  BY ParserStarts DEF AdapterInit
<1>2. ParserInv(sse) /\ [AdapterNext]_adapterVars => ParserInv(sse)'
  <2> SUFFICES ASSUME ParserInv(sse), [AdapterNext]_adapterVars PROVE ParserInv(sse')
    OBVIOUS
  <2>1. [SseNext]_sse
    BY DEF AdapterNext, StreamStep, HistoryStep, ParserStep, adapterVars
  <2> QED BY <2>1, ParserKeeps
<1>3. ParserInv(sse) => ChunksDoNotMatter
  BY ParserIsSound
<1> QED BY <1>1, <1>2, <1>3, PTL DEF AdapterSpec

=============================================================================

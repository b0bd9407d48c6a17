--------------------------- MODULE DemoClient_proofs ---------------------------
(***************************************************************************)
(* Proofs about the chat stream and the demo client in front of it: the    *)
(* terminal event of a response, what the screen shows, and what the       *)
(* browser has saved.  All of it holds for any sessions, any number of     *)
(* deltas and sources, and whatever of guard, provider and network fails.  *)
(***************************************************************************)
EXTENDS DemoClient, WellFoundedInduction, TLAPS

-----------------------------------------------------------------------------
(* Events and turns                                                        *)

Symbols == Pieces \cup {"mask"}
Text == Seq(Symbols)

(* The events that carry something of an answer, and the others.           *)
ContentEvents ==
    [type : {"assistant.delta"}, text : Text]
        \cup [type : {"source.added"}, source : {"clean", "unsafe"}]
CompletedEvents == [type : {"turn.completed"}, session : Sessions, text : Text]
FailedEvents == [type : {"turn.failed"}, code : {"SESSION_NOT_FOUND", "OTHER"}]
Events == ContentEvents \cup CompletedEvents \cup FailedEvents \cup {Started, Status}

ActiveStages == {"preparing", "streaming", "guarding", "committing", "releasing", "failing"}

Turn == [stage : ActiveStages \cup {"closed"}, session : Sessions \cup {None},
         aborted : BOOLEAN, content : Seq(ContentEvents), answer : Text,
         queue : Seq(ContentEvents \cup CompletedEvents),
         code : {"NONE", "SESSION_NOT_FOUND", "OTHER"}, committed : BOOLEAN]

Reply == [sent : Seq(Events), open : BOOLEAN, ended : BOOLEAN]

(* A turn that runs has a session.  Until the commit only content waits    *)
(* for it; then the answer waits behind the content, as the last event.    *)
TurnIsSound(t) ==
    /\ t.stage \in ActiveStages => t.session \in Sessions
    /\ t.stage = "failing" => t.code # "NONE"
    /\ t.stage # "releasing" => t.queue \in Seq(ContentEvents)
    /\ t.stage = "releasing" =>
          /\ t.queue # <<>>
          /\ \A i \in 1 .. Len(t.queue) - 1 : t.queue[i] \in ContentEvents
          /\ t.queue[Len(t.queue)] \in CompletedEvents
          /\ t.queue[Len(t.queue)].session = t.session

(* A response that is gone holds nothing; one that is there has begun, and *)
(* once it was ended no turn is left that could write to it.               *)
ReplyIsSound ==
    /\ ~ reply.open => reply = NoReply
    /\ reply.open => reply.sent # <<>>
    /\ reply.ended => turn.stage = "closed"
    /\ OneTerminalEvent

(* The inductive invariant of the chat stream.                             *)
ChatInv == turn \in Turn /\ reply \in Reply /\ TurnIsSound(turn) /\ ReplyIsSound

-----------------------------------------------------------------------------
(* The client                                                              *)

Conversation == [messages : SUBSET Sessions, token : BOOLEAN]
Cache == {c \in [active : Sessions \cup {None}, saved : UNION {[K -> Conversation] : K \in SUBSET Sessions}] :
            c.active # None => c.active \in Known(c)}

(* What is saved under a session is of that session.                       *)
CacheIsSound(c) ==
    /\ c \in Cache
    /\ \A s \in Known(c) : c.saved[s].messages \subseteq {s}

ClientTypes ==
    /\ guards \in {"off", "default", "injected"}
    /\ stored \in SUBSET Sessions
    /\ screen \in [session : Sessions \cup {None}, messages : SUBSET Sessions]
    /\ request \in [running : BOOLEAN, session : Sessions \cup {None}, done : BOOLEAN]
    /\ recovery \in [state : {"idle", "recovering", "failed"}, current : Sessions \cup {None}]
    /\ saving \in BOOLEAN

(* A request runs while its response is open; what comes of it is of the   *)
(* session it was sent for, or of a new one if it was sent without; and    *)
(* until its answer is there the screen stays at that session.             *)
RequestIsSound ==
    /\ request.running <=> reply.open
    /\ request.running =>
          /\ recovery.current = None
          /\ turn.stage \in ActiveStages => request.session \in {None, turn.session}
          /\ \A i \in DOMAIN reply.sent :
                reply.sent[i].type = "turn.completed"
                  => request.session \in {None, reply.sent[i].session}
          /\ ~ request.done => request.session = screen.session
    /\ recovery.state = "idle" => recovery.current = None

(* While the storage is written it holds nothing the cache has not.        *)
DiskIsBehind ==
    saving => \A s \in Known(disk) :
                 s \in Known(cache) /\ (disk.saved[s].token => cache.saved[s].token)

ClientInv ==
    /\ ClientTypes
    /\ CacheIsSound(cache) /\ CacheIsSound(disk)
    /\ RequestIsSound
    /\ DiskIsBehind
    /\ ScreenIsOneConversation

-----------------------------------------------------------------------------
(* Folds                                                                   *)

(* A set that holds 0 and the successor of each of its numbers holds every *)
(* number: induction, stated of a set.                                     *)
LEMMA InductiveSet ==
    ASSUME NEW S, 0 \in S, \A n \in Nat : n \in S => n + 1 \in S
    PROVE  Nat \subseteq S
<1> SUFFICES ASSUME Nat \ S # {} PROVE FALSE
  OBVIOUS
<1>1. PICK m \in Nat \ S : \A k \in Nat \ S : ~ (<<k, m>> \in OpToRel(<, Nat))
  BY WFMin, NatLessThanWellFounded
<1>2. \A k \in Nat \ S : ~ (k < m)
  BY <1>1 DEF OpToRel
<1>3. m # 0 /\ m - 1 \in Nat
  OBVIOUS
<1>4. m - 1 \in S
  BY <1>2, <1>3
<1> QED BY <1>3, <1>4

(* One step of each of the folds of the model: what has been kept of the   *)
(* places before, and the next one.                                        *)
AddText(text, event) == IF IsDelta(event) THEN text \o event.text ELSE text

AddRedacted(text, kept, i) ==
    CASE Credential(text, i)     -> Append(kept, "mask")
      [] Credential(text, i - 1) -> kept
      [] OTHER                   -> Append(kept, text[i])

AddReleased(content, text, kept, i) ==
    LET first == SelectInSeq(content, IsDelta)
        Held(j) == IsSource(content[j]) \/ j = first
        Shown(j) == IF j = first THEN Delta(text) ELSE content[j]
    IN  IF Held(i) THEN Append(kept, Shown(i)) ELSE kept

AddVerdicts(verdicts, stage) ==
    {v \in verdicts : v.action = "BLOCK"}
    \cup UNION {{Combined(v, next) : next \in Verdicts(stage, v.text)} :
                    v \in {w \in verdicts : w.action # "BLOCK"}}

Step(fold, kept, item) ==
    CASE fold.name = "TextOf"   -> AddText(kept, item)
      [] fold.name = "Redacted" -> AddRedacted(fold.text, kept, item)
      [] fold.name = "Released" -> AddReleased(fold.content, fold.text, kept, item)
      [] fold.name = "Evaluate" -> AddVerdicts(kept, item)

(* f is the recursive function of a fold over the first n places of a list. *)
Folds(f, fold, base, list, n) ==
    f = [s \in SUBSET (1 .. n) |->
           IF s = {} THEN base ELSE Step(fold, f[s \ {Max(s)}], list[Max(s)])]

(* The largest of the first numbers is the last.                           *)
LEMMA MaxOfInterval ==
    ASSUME NEW n \in Nat, NEW s \in SUBSET (1 .. n + 1), n + 1 \in s
    PROVE  Max(s) = n + 1
<1>1. \A y \in s : y \in 1 .. n + 1 /\ n + 1 >= y
  OBVIOUS
<1>2. \E x \in s : \A y \in s : x >= y
  BY <1>1
<1>3. Max(s) \in s /\ \A y \in s : Max(s) >= y
  BY <1>2, Zenon DEF Max
<1>4. Max(s) \in 1 .. n + 1 /\ Max(s) >= n + 1
  BY <1>1, <1>3, Zenon
<1> QED BY <1>4

(* The recursive function of a fold can be extended by one place.          *)
LEMMA FoldExtends ==
    ASSUME NEW fold, NEW base, NEW list, NEW n \in Nat, NEW f, Folds(f, fold, base, list, n)
    PROVE  \E g : Folds(g, fold, base, list, n + 1)
<1> DEFINE g == [s \in SUBSET (1 .. n + 1) |->
                   IF n + 1 \in s THEN Step(fold, f[s \ {n + 1}], list[n + 1]) ELSE f[s]]
<1>1. ASSUME NEW s \in SUBSET (1 .. n + 1)
      PROVE  g[s] = IF s = {} THEN base ELSE Step(fold, g[s \ {Max(s)}], list[Max(s)])
  <2>1. CASE n + 1 \in s
    <3>1. Max(s) = n + 1
      BY <2>1, MaxOfInterval
    <3>2. s \ {n + 1} \in SUBSET (1 .. n + 1) /\ n + 1 \notin s \ {n + 1}
      OBVIOUS
    <3>3. g[s \ {n + 1}] = f[s \ {n + 1}]
      BY <3>2
    <3> QED BY <2>1, <3>1, <3>3
  <2>2. CASE n + 1 \notin s
    <3>1. s \in SUBSET (1 .. n) /\ s \ {Max(s)} \in SUBSET (1 .. n)
      <4>1. \A y \in s : y \in 1 .. n + 1 /\ y # n + 1
        BY <2>2
      <4>2. \A y \in s : y \in 1 .. n
        BY <4>1
      <4> QED BY <4>2
    <3>2. s \ {Max(s)} \in SUBSET (1 .. n + 1) /\ n + 1 \notin s \ {Max(s)}
      BY <2>2
    <3>3. g[s] = f[s] /\ g[s \ {Max(s)}] = f[s \ {Max(s)}]
      BY <2>2, <3>2
    <3>4. f[s] = IF s = {} THEN base ELSE Step(fold, f[s \ {Max(s)}], list[Max(s)])
      BY <3>1 DEF Folds
    <3> QED BY <3>3, <3>4
  <2> QED BY <2>1, <2>2
<1>2. g = [s \in SUBSET (1 .. n + 1) |->
             IF s = {} THEN base ELSE Step(fold, g[s \ {Max(s)}], list[Max(s)])]
  <2>1. DOMAIN g = SUBSET (1 .. n + 1) /\ g = [s \in DOMAIN g |-> g[s]]
    OBVIOUS
  <2> HIDE DEF g
  <2> DEFINE h == [s \in SUBSET (1 .. n + 1) |->
                     IF s = {} THEN base ELSE Step(fold, g[s \ {Max(s)}], list[Max(s)])]
  <2>2. \A s \in SUBSET (1 .. n + 1) : g[s] = h[s]
    BY <1>1
  <2> QED BY <2>1, <2>2
<1> QED BY <1>2 DEF Folds

(* So the recursive function of a fold exists, for a list of any length.   *)
LEMMA FoldExists ==
    ASSUME NEW fold, NEW base, NEW list, NEW n \in Nat
    PROVE  \E f : Folds(f, fold, base, list, n)
<1> DEFINE S == {k \in Nat : \E f : Folds(f, fold, base, list, k)}
<1>1. 0 \in S
  <2>1. Folds([s \in SUBSET (1 .. 0) |-> base], fold, base, list, 0)
    BY DEF Folds
  <2> QED BY <2>1
<1>2. \A k \in Nat : k \in S => k + 1 \in S
  BY FoldExtends
<1>3. Nat \subseteq S
  <2> HIDE DEF S
  <2> QED BY <1>1, <1>2, InductiveSet
<1> QED BY <1>3

(* Place by place, what such a function has kept.                          *)
Along(h, fold, base, list, n) ==
    /\ h[0] = base
    /\ \A k \in 0 .. n - 1 : h[k + 1] = Step(fold, h[k], list[k + 1])

(* Any fold, place by place.                                               *)
LEMMA FoldPlaces ==
    ASSUME NEW fold, NEW base, NEW list, NEW n \in Nat, NEW f, Folds(f, fold, base, list, n)
    PROVE  \E h : Along(h, fold, base, list, n) /\ f[1 .. n] = h[n]
<1> DEFINE h == [k \in 0 .. n |-> f[1 .. k]]
<1>1. h[0] = base
  BY DEF Folds
<1>2. ASSUME NEW k \in 0 .. n - 1 PROVE h[k + 1] = Step(fold, h[k], list[k + 1])
  <2>1. Max(1 .. k + 1) = k + 1
    BY MaxOfInterval
  <2>2. (1 .. k + 1) \ {k + 1} = 1 .. k
    OBVIOUS
  <2>3. 1 .. k + 1 \in SUBSET (1 .. n) /\ 1 .. k + 1 # {}
    OBVIOUS
  <2>4. f[1 .. k + 1] = Step(fold, f[1 .. k], list[k + 1])
    BY <2>1, <2>2, <2>3 DEF Folds
  <2> QED BY <2>4
<1>3. f[1 .. n] = h[n]
  OBVIOUS
<1> HIDE DEF h
<1> QED BY <1>1, <1>2, <1>3 DEF Along

(* TextOf, place by place.                                                 *)
LEMMA TextOfPlaces ==
    ASSUME NEW events, NEW n \in Nat, DOMAIN events = 1 .. n
    PROVE  \E h : /\ h[0] = <<>>
                  /\ \A k \in 0 .. n - 1 : h[k + 1] = AddText(h[k], events[k + 1])
                  /\ TextOf(events) = h[n]
<1> DEFINE fold == [name |-> "TextOf"]
           list == events
           f == CHOOSE g : g = [s \in SUBSET (1 .. n) |->
                  IF s = {} THEN <<>> ELSE AddText(g[s \ {Max(s)}], list[Max(s)])]
<1>1. \A kept, item : Step(fold, kept, item) = AddText(kept, item)
  BY DEF Step
<1>2. \E g : Folds(g, fold, <<>>, list, n)
  BY FoldExists
<1>3. \E g : g = [s \in SUBSET (1 .. n) |->
                  IF s = {} THEN <<>> ELSE AddText(g[s \ {Max(s)}], list[Max(s)])]
  <2> HIDE DEF fold, list
  <2>1. PICK g : Folds(g, fold, <<>>, list, n)
    BY <1>2
  <2>2. g = [s \in SUBSET (1 .. n) |->
               IF s = {} THEN <<>> ELSE AddText(g[s \ {Max(s)}], list[Max(s)])]
    BY <1>1, <2>1 DEF Folds
  <2> QED BY <2>2, Zenon
<1>4. f = [s \in SUBSET (1 .. n) |->
                  IF s = {} THEN <<>> ELSE AddText(f[s \ {Max(s)}], list[Max(s)])]
  BY <1>3, Zenon
<1>5. TextOf(events) = f[1 .. n]
  BY DEF TextOf, FoldLeft, MapThenFoldSet, AddText
<1>6. \A k \in 0 .. n - 1 : list[k + 1] = events[k + 1]
  BY Zenon
<1> HIDE DEF f, fold, list
<1>7. Folds(f, fold, <<>>, list, n)
  BY <1>1, <1>4 DEF Folds
<1>8. PICK h : Along(h, fold, <<>>, list, n) /\ f[1 .. n] = h[n]
  BY <1>7, FoldPlaces
<1> QED BY <1>1, <1>5, <1>6, <1>8 DEF Along

(* Redacted, place by place.                                               *)
LEMMA RedactedPlaces ==
    ASSUME NEW text, NEW n \in Nat, Len(text) = n
    PROVE  \E h : /\ h[0] = <<>>
                  /\ \A k \in 0 .. n - 1 : h[k + 1] = AddRedacted(text, h[k], k + 1)
                  /\ Redacted(text) = h[n]
<1> DEFINE fold == [name |-> "Redacted", text |-> text]
           list == [i \in 1 .. n |-> i]
           f == CHOOSE g : g = [s \in SUBSET (1 .. n) |->
                  IF s = {} THEN <<>> ELSE AddRedacted(text, g[s \ {Max(s)}], list[Max(s)])]
<1>1. \A kept, item : Step(fold, kept, item) = AddRedacted(text, kept, item)
  BY DEF Step
<1>2. \E g : Folds(g, fold, <<>>, list, n)
  BY FoldExists
<1>3. \E g : g = [s \in SUBSET (1 .. n) |->
                  IF s = {} THEN <<>> ELSE AddRedacted(text, g[s \ {Max(s)}], list[Max(s)])]
  <2> HIDE DEF fold, list
  <2>1. PICK g : Folds(g, fold, <<>>, list, n)
    BY <1>2
  <2>2. g = [s \in SUBSET (1 .. n) |->
               IF s = {} THEN <<>> ELSE AddRedacted(text, g[s \ {Max(s)}], list[Max(s)])]
    BY <1>1, <2>1 DEF Folds
  <2> QED BY <2>2, Zenon
<1>4. f = [s \in SUBSET (1 .. n) |->
                  IF s = {} THEN <<>> ELSE AddRedacted(text, f[s \ {Max(s)}], list[Max(s)])]
  BY <1>3, Zenon
<1>5. Redacted(text) = f[1 .. n]
  BY DEF Redacted, FoldLeft, MapThenFoldSet, AddRedacted
<1>6. \A k \in 0 .. n - 1 : list[k + 1] = k + 1
  BY SMT
<1> HIDE DEF f, fold, list
<1>7. Folds(f, fold, <<>>, list, n)
  BY <1>1, <1>4 DEF Folds
<1>8. PICK h : Along(h, fold, <<>>, list, n) /\ f[1 .. n] = h[n]
  BY <1>7, FoldPlaces
<1> QED BY <1>1, <1>5, <1>6, <1>8 DEF Along

(* The release of another text than that of the content, place by place.   *)
LEMMA ReleasedPlaces ==
    ASSUME NEW text, text # TextOf(turn.content), NEW n \in Nat, Len(turn.content) = n
    PROVE  \E h : /\ h[0] = <<>>
                  /\ \A k \in 0 .. n - 1 : h[k + 1] = AddReleased(turn.content, text, h[k], k + 1)
                  /\ Released(text) = h[n]
<1> DEFINE fold == [name |-> "Released", content |-> turn.content, text |-> text]
           list == [i \in 1 .. n |-> i]
           f == CHOOSE g : g = [s \in SUBSET (1 .. n) |->
                  IF s = {} THEN <<>> ELSE AddReleased(turn.content, text, g[s \ {Max(s)}], list[Max(s)])]
<1>1. \A kept, item : Step(fold, kept, item) = AddReleased(turn.content, text, kept, item)
  BY DEF Step
<1>2. \E g : Folds(g, fold, <<>>, list, n)
  BY FoldExists
<1>3. \E g : g = [s \in SUBSET (1 .. n) |->
                  IF s = {} THEN <<>> ELSE AddReleased(turn.content, text, g[s \ {Max(s)}], list[Max(s)])]
  <2> HIDE DEF fold, list
  <2>1. PICK g : Folds(g, fold, <<>>, list, n)
    BY <1>2
  <2>2. g = [s \in SUBSET (1 .. n) |->
               IF s = {} THEN <<>> ELSE AddReleased(turn.content, text, g[s \ {Max(s)}], list[Max(s)])]
    BY <1>1, <2>1 DEF Folds
  <2> QED BY <2>2, Zenon
<1>4. f = [s \in SUBSET (1 .. n) |->
                  IF s = {} THEN <<>> ELSE AddReleased(turn.content, text, f[s \ {Max(s)}], list[Max(s)])]
  BY <1>3, Zenon
<1>5. Released(text) = f[1 .. n]
  BY DEF Released, FoldLeft, MapThenFoldSet, AddReleased
<1>6. \A k \in 0 .. n - 1 : list[k + 1] = k + 1
  BY SMT
<1> HIDE DEF f, fold, list
<1>7. Folds(f, fold, <<>>, list, n)
  BY <1>1, <1>4, ZenonT(30) DEF Folds
<1>8. PICK h : Along(h, fold, <<>>, list, n) /\ f[1 .. n] = h[n]
  BY <1>7, FoldPlaces
<1> QED BY <1>1, <1>5, <1>6, <1>8 DEF Along

(* The verdicts of the stages, one after the other.                        *)
Judged(h, guard, text, n) ==
    /\ h[0] = {Verdict("ALLOW", text)}
    /\ \A k \in 0 .. n - 1 : h[k + 1] = AddVerdicts(h[k], Stages(guard)[k + 1])
    /\ Evaluate(guard, text) = h[n]

(* Evaluate, place by place.                                               *)
LEMMA EvaluatePlaces ==
    ASSUME NEW guard, NEW text, NEW n \in Nat, DOMAIN Stages(guard) = 1 .. n
    PROVE  \E h : Judged(h, guard, text, n)
<1> DEFINE fold == [name |-> "Evaluate"]
           list == Stages(guard)
           f == CHOOSE g : g = [s \in SUBSET (1 .. n) |->
                  IF s = {} THEN {Verdict("ALLOW", text)} ELSE AddVerdicts(g[s \ {Max(s)}], list[Max(s)])]
<1>1. \A kept, item : Step(fold, kept, item) = AddVerdicts(kept, item)
  BY DEF Step
<1>2. \E g : Folds(g, fold, {Verdict("ALLOW", text)}, list, n)
  BY FoldExists
<1>3. \E g : g = [s \in SUBSET (1 .. n) |->
                  IF s = {} THEN {Verdict("ALLOW", text)} ELSE AddVerdicts(g[s \ {Max(s)}], list[Max(s)])]
  <2> HIDE DEF fold, list
  <2>1. PICK g : Folds(g, fold, {Verdict("ALLOW", text)}, list, n)
    BY <1>2
  <2>2. g = [s \in SUBSET (1 .. n) |->
               IF s = {} THEN {Verdict("ALLOW", text)} ELSE AddVerdicts(g[s \ {Max(s)}], list[Max(s)])]
    BY <1>1, <2>1 DEF Folds
  <2> QED BY <2>2, Zenon
<1>4. f = [s \in SUBSET (1 .. n) |->
                  IF s = {} THEN {Verdict("ALLOW", text)} ELSE AddVerdicts(f[s \ {Max(s)}], list[Max(s)])]
  BY <1>3, Zenon
<1>5. Evaluate(guard, text) = f[1 .. n]
  BY DEF Evaluate, FoldLeft, MapThenFoldSet, AddVerdicts
<1>6. \A k \in 0 .. n - 1 : list[k + 1] = Stages(guard)[k + 1]
  BY Zenon
<1> HIDE DEF f, fold, list
<1>7. Folds(f, fold, {Verdict("ALLOW", text)}, list, n)
  BY <1>1, <1>4 DEF Folds
<1>8. PICK h : Along(h, fold, {Verdict("ALLOW", text)}, list, n) /\ f[1 .. n] = h[n]
  BY <1>7, FoldPlaces
<1> QED BY <1>1, <1>5, <1>6, <1>8 DEF Along, Judged

-----------------------------------------------------------------------------
(* The text of events                                                      *)

(* What is objectionable in a part of a text is in the text.               *)
LEMMA PartsOfTexts ==
    ASSUME NEW a \in Text, NEW b \in Text
    PROVE  /\ a \o b \in Text
           /\ HasLeak(a) \/ HasLeak(b) => HasLeak(a \o b)
           /\ HasCredential(a) \/ HasCredential(b) => HasCredential(a \o b)
<1> DEFINE c == a \o b
<1>1. /\ c \in Text /\ Len(c) = Len(a) + Len(b) /\ Len(a) \in Nat /\ Len(b) \in Nat
      /\ \A i \in 1 .. Len(a) : c[i] = a[i]
      /\ \A i \in 1 .. Len(b) : c[Len(a) + i] = b[i]
      /\ DOMAIN a = 1 .. Len(a) /\ DOMAIN b = 1 .. Len(b) /\ DOMAIN c = 1 .. Len(c)
  BY DEF Text
<1> HIDE DEF c
<1>2. HasLeak(a) \/ HasLeak(b) => HasLeak(c)
  BY <1>1 DEF HasLeak
<1>3. HasCredential(a) => HasCredential(c)
  BY <1>1 DEF HasCredential, Credential
<1>4. HasCredential(b) => HasCredential(c)
  <2> SUFFICES ASSUME NEW i \in DOMAIN b, Credential(b, i) PROVE HasCredential(c)
    BY DEF HasCredential
  <2>1. i \in 1 .. Len(b) - 1 /\ b[i] = "head" /\ b[i + 1] = "tail"
    BY DEF Credential
  <2>2. Len(a) + i \in 1 .. Len(c) - 1 /\ c[Len(a) + i] = "head" /\ c[Len(a) + i + 1] = "tail"
    BY <1>1, <2>1
  <2> QED BY <1>1, <2>2 DEF HasCredential, Credential
<1> QED BY <1>1, <1>2, <1>3, <1>4 DEF c

(* Only deltas have a text that counts.                                    *)
LEMMA EventTypes ==
    ASSUME NEW event \in Events
    PROVE  /\ IsDelta(event) => event \in ContentEvents /\ event.text \in Text
           /\ IsSource(event) <=> event \in ContentEvents /\ ~ IsDelta(event)
           /\ Terminal(event) <=> event \notin ContentEvents \cup {Started, Status}
           /\ event.type = "turn.completed" <=> event \in CompletedEvents
           /\ event.type = "turn.failed" <=> event \in FailedEvents
           /\ event.type = "turn.started" <=> event = Started
           /\ IsText(event) <=> IsDelta(event) \/ event \in CompletedEvents
BY DEF Events, ContentEvents, CompletedEvents, FailedEvents, Started, Status, IsDelta, IsSource,
       Terminal, IsText

(* Adding an event to a text gives a text.                                 *)
LEMMA AddTextType ==
    ASSUME NEW text \in Text, NEW event \in Events
    PROVE  AddText(text, event) \in Text
BY EventTypes, PartsOfTexts DEF AddText

(* The texts along the fold are texts.                                     *)
LEMMA TextOfTypes ==
    ASSUME NEW events \in Seq(Events), NEW h, h[0] = <<>>,
           \A k \in 0 .. Len(events) - 1 : h[k + 1] = AddText(h[k], events[k + 1])
    PROVE  \A k \in 0 .. Len(events) : h[k] \in Text
<1> DEFINE n == Len(events)
           S == {k \in Nat : k <= n => h[k] \in Text}
<1>0. /\ n \in Nat /\ <<>> \in Text /\ \A k \in 0 .. n - 1 : events[k + 1] \in Events
      /\ \A k \in 0 .. n - 1 : h[k + 1] = AddText(h[k], events[k + 1])
  BY DEF Text
<1> HIDE DEF n
<1>1. 0 \in S
  BY <1>0
<1>2. ASSUME NEW k \in Nat, k \in S PROVE k + 1 \in S
  <2> SUFFICES ASSUME k + 1 <= n PROVE h[k + 1] \in Text
    OBVIOUS
  <2>1. k \in 0 .. n - 1 /\ h[k] \in Text
    BY <1>0, <1>2
  <2> QED BY <1>0, <2>1, AddTextType
<1>3. Nat \subseteq S
  <2> HIDE DEF S
  <2> QED BY <1>1, <1>2, InductiveSet
<1> QED BY <1>0, <1>3 DEF n

(* The text of events one after the other is their texts one after the     *)
(* other.                                                                  *)
LEMMA TextOfConcat ==
    ASSUME NEW s \in Seq(Events), NEW t \in Seq(Events)
    PROVE  /\ TextOf(s) \in Text /\ TextOf(t) \in Text
           /\ TextOf(s \o t) = TextOf(s) \o TextOf(t)
<1> DEFINE m == Len(s)
           n == Len(t)
           st == s \o t
<1>1. /\ m \in Nat /\ n \in Nat /\ st \in Seq(Events) /\ Len(st) = m + n
      /\ DOMAIN s = 1 .. m /\ DOMAIN t = 1 .. n /\ DOMAIN st = 1 .. m + n
      /\ \A i \in 1 .. m : st[i] = s[i]
      /\ \A i \in 1 .. n : st[m + i] = t[i]
      /\ \A i \in 1 .. n : t[i] \in Events
  OBVIOUS
<1> HIDE DEF st, m, n
<1>2. PICK h : /\ h[0] = <<>> /\ \A k \in 0 .. m - 1 : h[k + 1] = AddText(h[k], s[k + 1])
               /\ TextOf(s) = h[m]
  <2>1. m \in Nat /\ DOMAIN s = 1 .. m
    BY <1>1
  <2> QED BY <2>1, TextOfPlaces
<1>3. PICK u : /\ u[0] = <<>> /\ \A k \in 0 .. n - 1 : u[k + 1] = AddText(u[k], t[k + 1])
               /\ TextOf(t) = u[n]
  <2>1. n \in Nat /\ DOMAIN t = 1 .. n
    BY <1>1
  <2> QED BY <2>1, TextOfPlaces
<1> DEFINE p == m + n
<1>p. p = m + n /\ p \in Nat /\ DOMAIN st = 1 .. p
  BY <1>1
<1> HIDE DEF p
<1>4. PICK g : /\ g[0] = <<>> /\ \A k \in 0 .. p - 1 : g[k + 1] = AddText(g[k], st[k + 1])
               /\ TextOf(st) = g[p]
  BY <1>p, TextOfPlaces, ZenonT(30)
<1>5. (\A k \in 0 .. m : h[k] \in Text) /\ (\A k \in 0 .. n : u[k] \in Text)
  BY <1>1, <1>2, <1>3, TextOfTypes DEF m, n
<1>6. g[m] = h[m]
  <2> DEFINE S == {k \in Nat : k <= m => g[k] = h[k]}
  <2>1. 0 \in S
    BY <1>2, <1>4
  <2>2. ASSUME NEW k \in Nat, k \in S PROVE k + 1 \in S
    BY <1>1, <1>2, <1>p, <1>4, <2>2
  <2>3. Nat \subseteq S
    <3> HIDE DEF S
    <3> QED BY <2>1, <2>2, InductiveSet
  <2> QED BY <1>1, <2>3
<1>7. g[m + n] = h[m] \o u[n]
  <2> DEFINE Both(k) == g[m + k] = h[m] \o u[k]
             S == {k \in Nat : k <= n => Both(k)}
  <2>1. Both(0)
    <3>1. h[m] \in Seq(Symbols)
      BY <1>1, <1>5 DEF Text
    <3>2. h[m] \o <<>> = h[m]
      BY <3>1
    <3>3. m + 0 = m
      BY <1>1
    <3> QED BY <1>3, <1>6, <3>2, <3>3
  <2>2. ASSUME NEW k \in Nat, k + 1 <= n, Both(k) PROVE Both(k + 1)
    <3>1. /\ m + k \in 0 .. m + n - 1 /\ k \in 0 .. n - 1 /\ k + 1 \in 1 .. n
          /\ k \in 0 .. n /\ m \in 0 .. m /\ m + (k + 1) = (m + k) + 1
      BY <1>1, <2>2
    <3>2. g[m + k] = h[m] \o u[k] /\ h[m] \in Text /\ u[k] \in Text /\ t[k + 1] \in Events
      BY <1>1, <1>5, <2>2, <3>1
    <3>3. st[m + (k + 1)] = t[k + 1]
      BY <1>1, <3>1
    <3>4. g[m + (k + 1)] = AddText(g[m + k], t[k + 1])
      <4> DEFINE q == m + k
      <4>1. q \in 0 .. p - 1 /\ m + (k + 1) = q + 1
        <5>1. m + k \in 0 .. p - 1
          BY <1>1, <1>p, <3>1
        <5>2. m + (k + 1) = (m + k) + 1
          BY <3>1
        <5> QED BY <5>1, <5>2
      <4> HIDE DEF q
      <4>2. g[q + 1] = AddText(g[q], st[q + 1])
        BY <1>4, <4>1
      <4> QED BY <3>3, <4>1, <4>2 DEF q
    <3>5. u[k + 1] = AddText(u[k], t[k + 1])
      BY <1>3, <3>1
    <3>6. CASE IsDelta(t[k + 1])
      <4>1. t[k + 1].text \in Text
        BY <3>2, <3>6, EventTypes
      <4>2. \A a, b, c \in Text : (a \o b) \o c = a \o (b \o c)
        BY DEF Text
      <4>3. (h[m] \o u[k]) \o t[k + 1].text = h[m] \o (u[k] \o t[k + 1].text)
        BY <3>2, <4>1, <4>2
      <4>4. /\ g[m + (k + 1)] = g[m + k] \o t[k + 1].text
            /\ u[k + 1] = u[k] \o t[k + 1].text
        BY <3>4, <3>5, <3>6 DEF AddText
      <4> QED BY <3>2, <4>3, <4>4
    <3>7. CASE ~ IsDelta(t[k + 1])
      <4>1. g[m + (k + 1)] = g[m + k] /\ u[k + 1] = u[k]
        BY <3>4, <3>5, <3>7 DEF AddText
      <4> QED BY <3>2, <4>1
    <3> QED BY <3>6, <3>7
  <2> HIDE DEF Both
  <2>3. 0 \in S
    BY <2>1
  <2>4. ASSUME NEW k \in Nat, k \in S PROVE k + 1 \in S
    BY <1>1, <2>2, <2>4
  <2>5. Nat \subseteq S
    <3> HIDE DEF S
    <3> QED BY <2>3, <2>4, InductiveSet
  <2>6. Both(n)
    BY <1>1, <2>5
  <2> QED BY <2>6 DEF Both
<1>8. m \in 0 .. m /\ n \in 0 .. n
  BY <1>1
<1> QED BY <1>2, <1>3, <1>p, <1>4, <1>5, <1>7, <1>8 DEF st

(* The text of one event.                                                  *)
LEMMA TextOfOne ==
    ASSUME NEW event \in Events
    PROVE  TextOf(<<event>>) = IF IsDelta(event) THEN event.text ELSE <<>>
<1> DEFINE one == <<event>>
           n == 1
<1>1. DOMAIN one = 1 .. n /\ n \in Nat /\ one[1] = event
  OBVIOUS
<1>2. PICK h : /\ h[0] = <<>> /\ \A k \in 0 .. n - 1 : h[k + 1] = AddText(h[k], one[k + 1])
               /\ TextOf(one) = h[n]
  <2> HIDE DEF one, n
  <2> QED BY <1>1, TextOfPlaces
<1>3. h[1] = AddText(<<>>, event)
  BY <1>1, <1>2
<1>4. IsDelta(event) => <<>> \o event.text = event.text
  BY EventTypes DEF Text
<1> QED BY <1>2, <1>3, <1>4 DEF AddText

(* The text with one event more.                                           *)
LEMMA TextOfAppend ==
    ASSUME NEW events \in Seq(Events), NEW event \in Events
    PROVE  /\ TextOf(events) \in Text
           /\ TextOf(Append(events, event)) =
                 IF IsDelta(event) THEN TextOf(events) \o event.text ELSE TextOf(events)
<1>1. <<event>> \in Seq(Events) /\ Append(events, event) = events \o <<event>>
  OBVIOUS
<1>2. TextOf(events) \in Text /\ TextOf(Append(events, event)) = TextOf(events) \o TextOf(<<event>>)
  BY <1>1, TextOfConcat
<1>3. TextOf(events) \o <<>> = TextOf(events)
  BY <1>2 DEF Text
<1> QED BY <1>2, <1>3, TextOfOne

(* Events without a delta have no text.                                    *)
LEMMA TextOfNoDelta ==
    ASSUME NEW events \in Seq(Events), \A i \in DOMAIN events : ~ IsDelta(events[i])
    PROVE  TextOf(events) = <<>>
<1> DEFINE n == Len(events)
<1>1. n \in Nat /\ DOMAIN events = 1 .. n
  OBVIOUS
<1> HIDE DEF n
<1>2. PICK h : /\ h[0] = <<>> /\ \A k \in 0 .. n - 1 : h[k + 1] = AddText(h[k], events[k + 1])
               /\ TextOf(events) = h[n]
  BY <1>1, TextOfPlaces
<1> DEFINE S == {k \in Nat : k <= n => h[k] = <<>>}
<1>3. 0 \in S
  BY <1>2
<1>4. ASSUME NEW k \in Nat, k \in S PROVE k + 1 \in S
  BY <1>1, <1>2, <1>4 DEF AddText
<1>5. Nat \subseteq S
  <2> HIDE DEF S
  <2> QED BY <1>3, <1>4, InductiveSet
<1> QED BY <1>1, <1>2, <1>5

(* What is objectionable in one delta is in the text of all.               *)
LEMMA TextOfEach ==
    ASSUME NEW events \in Seq(Events), NEW i \in DOMAIN events, IsDelta(events[i])
    PROVE  /\ HasLeak(events[i].text) => HasLeak(TextOf(events))
           /\ HasCredential(events[i].text) => HasCredential(TextOf(events))
<1> DEFINE n == Len(events)
           Has(text) == /\ HasLeak(events[i].text) => HasLeak(text)
                        /\ HasCredential(events[i].text) => HasCredential(text)
<1>1. n \in Nat /\ DOMAIN events = 1 .. n /\ \A k \in 1 .. n : events[k] \in Events
  OBVIOUS
<1> HIDE DEF n
<1>2. PICK h : /\ h[0] = <<>> /\ \A k \in 0 .. n - 1 : h[k + 1] = AddText(h[k], events[k + 1])
               /\ TextOf(events) = h[n]
  BY <1>1, TextOfPlaces
<1>3. \A k \in 0 .. n : h[k] \in Text
  BY <1>2, TextOfTypes DEF n
<1> DEFINE S == {k \in Nat : k <= n /\ i <= k => Has(h[k])}
<1>4. 0 \in S
  BY <1>1
<1>5. ASSUME NEW k \in Nat, k \in S PROVE k + 1 \in S
  <2> SUFFICES ASSUME k + 1 <= n, i <= k + 1 PROVE Has(h[k + 1])
    OBVIOUS
  <2>1. h[k + 1] = AddText(h[k], events[k + 1]) /\ h[k] \in Text /\ events[k + 1] \in Events
    BY <1>1, <1>2, <1>3
  <2>2. CASE i = k + 1
    <3>1. h[k + 1] = h[k] \o events[i].text /\ events[i].text \in Text
      BY <2>1, <2>2, EventTypes DEF AddText
    <3> QED BY <2>1, <3>1, PartsOfTexts
  <2>3. CASE i # k + 1
    <3>1. Has(h[k])
      BY <1>1, <1>5, <2>3
    <3>2. h[k + 1] = h[k] \/ (events[k + 1].text \in Text /\ h[k + 1] = h[k] \o events[k + 1].text)
      BY <2>1, EventTypes DEF AddText
    <3> QED BY <2>1, <3>1, <3>2, PartsOfTexts
  <2> QED BY <2>2, <2>3
<1>6. Nat \subseteq S
  <2> HIDE DEF S
  <2> QED BY <1>4, <1>5, InductiveSet
<1> QED BY <1>1, <1>2, <1>6

-----------------------------------------------------------------------------
(* What the guards and the release make of a text                          *)

(* No credential is in a redacted text.                                    *)
LEMMA RedactedIsClean ==
    ASSUME NEW text \in Text
    PROVE  Redacted(text) \in Text /\ ~ HasCredential(Redacted(text))
<1> DEFINE n == Len(text)
           Ends(kept) == kept # <<>> /\ kept[Len(kept)] = "head"
           Kept(h, k) == /\ h[k] \in Text
                         /\ ~ HasCredential(h[k])
                         /\ Ends(h[k]) => k >= 1 /\ text[k] = "head" /\ ~ Credential(text, k)
<1>1. n \in Nat /\ Len(text) = n /\ \A i \in 1 .. n : text[i] \in Symbols
  BY DEF Text
<1> HIDE DEF n
<1>2. PICK h : /\ h[0] = <<>>
               /\ \A k \in 0 .. n - 1 : h[k + 1] = AddRedacted(text, h[k], k + 1)
               /\ Redacted(text) = h[n]
  BY <1>1, RedactedPlaces
<1>3. Kept(h, 0)
  BY <1>2 DEF Text, HasCredential
<1>4. ASSUME NEW k \in Nat, k + 1 <= n, Kept(h, k) PROVE Kept(h, k + 1)
  <2> DEFINE kept == h[k]
             i == k + 1
  <2>1. h[i] = AddRedacted(text, kept, i) /\ i \in 1 .. n /\ i >= 1 /\ i - 1 = k
    BY <1>1, <1>2, <1>4
  <2>2. /\ kept \in Text /\ ~ HasCredential(kept)
        /\ Ends(kept) => i - 1 >= 1 /\ text[i - 1] = "head" /\ ~ Credential(text, i - 1)
    BY <1>4, <2>1
  <2> HIDE DEF kept, i
  <2>3. ASSUME NEW symbol \in Symbols, symbol = "tail" => ~ Ends(kept)
        PROVE  /\ Append(kept, symbol) \in Text /\ ~ HasCredential(Append(kept, symbol))
               /\ Ends(Append(kept, symbol)) => symbol = "head"
    <3> DEFINE next == Append(kept, symbol)
               m == Len(kept)
    <3>1. /\ next \in Text /\ m \in Nat /\ Len(next) = m + 1 /\ next[m + 1] = symbol
          /\ \A j \in 1 .. m : next[j] = kept[j]
          /\ kept = <<>> <=> m = 0
      BY <2>2 DEF Text
    <3>2. Len(kept) = m /\ DOMAIN kept = 1 .. m /\ DOMAIN next = 1 .. m + 1
      BY <2>2, <3>1 DEF Text
    <3> HIDE DEF next, m
    <3>3. ASSUME NEW j \in 1 .. m + 1, Credential(next, j) PROVE FALSE
      <4>1. j \in 1 .. m /\ next[j] = "head" /\ next[j + 1] = "tail"
        BY <3>1, <3>3 DEF Credential
      <4>2. CASE j = m
        <5>1. symbol = "tail" /\ kept[m] = "head" /\ kept # <<>>
          BY <3>1, <4>1, <4>2
        <5> QED BY <2>3, <3>2, <5>1
      <4>3. CASE j # m
        <5>1. j \in 1 .. m - 1 /\ kept[j] = "head" /\ kept[j + 1] = "tail"
          BY <3>1, <4>1, <4>3
        <5>2. j \in DOMAIN kept /\ Credential(kept, j)
          BY <3>1, <3>2, <5>1 DEF Credential
        <5> QED BY <2>2, <5>2 DEF HasCredential
      <4> QED BY <4>2, <4>3
    <3>4. ~ HasCredential(next)
      BY <3>2, <3>3 DEF HasCredential
    <3>5. Ends(next) => symbol = "head"
      BY <3>1
    <3> QED BY <3>1, <3>4, <3>5 DEF next
  <2>4. text[i] \in Symbols /\ "mask" \in Symbols
    BY <1>1, <2>1 DEF Symbols
  <2>5. CASE Credential(text, i)
    <3>1. h[i] = Append(kept, "mask")
      <4>1. (i - 1) + 1 = i /\ text[i] = "head"
        BY <2>1, <2>5 DEF Credential
      <4>2. ~ Credential(text, i - 1)
        BY <4>1 DEF Credential
      <4> QED BY <2>1, <2>5, <4>2 DEF AddRedacted
    <3>2. /\ Append(kept, "mask") \in Text /\ ~ HasCredential(Append(kept, "mask"))
          /\ ~ Ends(Append(kept, "mask"))
      BY <2>3, <2>4
    <3> QED BY <3>1, <3>2 DEF i
  <2>6. CASE ~ Credential(text, i) /\ Credential(text, i - 1)
    <3>1. h[i] = kept
      BY <2>1, <2>6 DEF AddRedacted
    <3> QED BY <2>2, <2>6, <3>1 DEF i
  <2>7. CASE ~ Credential(text, i) /\ ~ Credential(text, i - 1)
    <3>1. h[i] = Append(kept, text[i])
      BY <2>1, <2>7 DEF AddRedacted
    <3>2. text[i] = "tail" => ~ Ends(kept)
      <4>1. ASSUME text[i] = "tail", Ends(kept) PROVE Credential(text, i - 1)
        <5>1. i - 1 \in 1 .. n - 1 /\ text[i - 1] = "head" /\ (i - 1) + 1 = i
          BY <1>1, <2>1, <2>2, <4>1
        <5> QED BY <1>1, <4>1, <5>1 DEF Credential
      <4> QED BY <2>7, <4>1
    <3>3. /\ Append(kept, text[i]) \in Text /\ ~ HasCredential(Append(kept, text[i]))
          /\ Ends(Append(kept, text[i])) => text[i] = "head"
      BY <2>3, <2>4, <3>2
    <3> QED BY <2>1, <2>7, <3>1, <3>3 DEF i
  <2> QED BY <2>5, <2>6, <2>7
<1> DEFINE S == {k \in Nat : k <= n => Kept(h, k)}
<1> HIDE DEF Kept
<1>5. 0 \in S
  BY <1>3
<1>6. ASSUME NEW k \in Nat, k \in S PROVE k + 1 \in S
  BY <1>1, <1>4, <1>6
<1>7. Nat \subseteq S
  <2> HIDE DEF S
  <2> QED BY <1>5, <1>6, InductiveSet
<1>8. Kept(h, n)
  BY <1>1, <1>7
<1> QED BY <1>2, <1>8 DEF Kept

(* A verdict that does not block comes from one that did not, and of a     *)
(* stage that does not.                                                    *)
LEMMA VerdictsOfStage ==
    ASSUME NEW verdicts, NEW stage, NEW w \in AddVerdicts(verdicts, stage), w.action # "BLOCK"
    PROVE  \E v \in verdicts : \E next \in Verdicts(stage, v.text) :
              v.action # "BLOCK" /\ next.action # "BLOCK" /\ w.text = next.text
<1>1. PICK v \in verdicts : v.action # "BLOCK" /\ w \in {Combined(v, next) : next \in Verdicts(stage, v.text)}
  BY DEF AddVerdicts
<1>2. PICK next \in Verdicts(stage, v.text) : w = Combined(v, next)
  BY <1>1
<1>3. next.action # "BLOCK" /\ w.text = next.text
  BY <1>2 DEF Combined, Verdict
<1> QED BY <1>1, <1>3

(* What a guard does not block is a text without anything it objects to.   *)
LEMMA GuardedIsClean ==
    ASSUME guards \in {"default", "injected"}, NEW text \in Text, NEW out \in Guarded(text)
    PROVE  out \in Text /\ ~ HasCredential(out) /\ ~ HasLeak(out)
<1>1. PICK v \in Evaluate(guards, text) : v.action # "BLOCK" /\ v.text = out
  BY DEF Guarded
<1>2. CASE guards = "default"
  <2> DEFINE stages == Stages(guards)
             n == 3
  <2>1. /\ DOMAIN stages = 1 .. n /\ n \in Nat
        /\ stages[1] = "secret" /\ stages[2] = "leak" /\ stages[3] = "noop"
    BY <1>2 DEF Stages
  <2>2. PICK h : Judged(h, guards, text, n)
    <3>1. DOMAIN Stages(guards) = 1 .. n /\ n \in Nat
      BY <2>1
    <3> HIDE DEF n
    <3> QED BY <3>1, EvaluatePlaces
  <2>3. /\ h[1] = AddVerdicts(h[0], "secret") /\ h[2] = AddVerdicts(h[1], "leak")
        /\ h[3] = AddVerdicts(h[2], "noop") /\ v \in h[3]
    BY <2>1, <2>2 DEF Judged
  <2>4. PICK v2 \in h[2] : \E next \in Verdicts("noop", v2.text) :
           v2.action # "BLOCK" /\ next.action # "BLOCK" /\ v.text = next.text
    BY <1>1, <2>3, VerdictsOfStage
  <2>5. v2.action # "BLOCK" /\ v2.text = out
    BY <1>1, <2>4 DEF Verdicts, Verdict
  <2>6. PICK v1 \in h[1] : \E next \in Verdicts("leak", v1.text) :
           v1.action # "BLOCK" /\ next.action # "BLOCK" /\ v2.text = next.text
    BY <2>3, <2>5, VerdictsOfStage
  <2>7. v1.action # "BLOCK" /\ v1.text = out /\ ~ HasLeak(out)
    BY <2>5, <2>6 DEF Verdicts, Verdict, StaticOutputLeakGuard
  <2>8. PICK v0 \in h[0] : \E next \in Verdicts("secret", v0.text) :
           v0.action # "BLOCK" /\ next.action # "BLOCK" /\ v1.text = next.text
    BY <2>3, <2>7, VerdictsOfStage
  <2>9. v0.text = text
    BY <2>2 DEF Judged, Verdict
  <2>10. out = Redacted(text)
    BY <2>7, <2>8, <2>9 DEF Verdicts, Verdict, StaticSecretGuard
  <2> QED BY <2>7, <2>10, RedactedIsClean
<1>3. CASE guards = "injected"
  <2> DEFINE stages == Stages(guards)
             n == 1
  <2>1. DOMAIN stages = 1 .. n /\ n \in Nat /\ stages[1] = "injected"
    BY <1>3 DEF Stages
  <2>2. PICK h : Judged(h, guards, text, n)
    <3>1. DOMAIN Stages(guards) = 1 .. n /\ n \in Nat
      BY <2>1
    <3> HIDE DEF n
    <3> QED BY <3>1, EvaluatePlaces
  <2>3. h[1] = AddVerdicts(h[0], "injected") /\ v \in h[1]
    BY <2>1, <2>2 DEF Judged
  <2>4. PICK v0 \in h[0] : \E next \in Verdicts("injected", v0.text) :
           v0.action # "BLOCK" /\ next.action # "BLOCK" /\ v.text = next.text
    BY <1>1, <2>3, VerdictsOfStage
  <2>5. PICK next \in Injected(text) : next.action # "BLOCK" /\ next.text = out
    BY <1>1, <2>2, <2>4 DEF Judged, Verdicts, Verdict
  <2>6. out = <<"mask">> \/ (out = text /\ ~ HasCredential(text) /\ ~ HasLeak(text))
    BY <2>5 DEF Injected, Verdict
  <2>7. <<"mask">> \in Text /\ ~ HasCredential(<<"mask">>) /\ ~ HasLeak(<<"mask">>)
    BY DEF Text, Symbols, HasCredential, HasLeak, Credential
  <2> QED BY <2>6, <2>7
<1> QED BY <1>2, <1>3

(* Where the first delta of some content is, if there is one.              *)
First(content) == SelectInSeq(content, IsDelta)

(* It is a delta; without one it is 0.                                     *)
LEMMA FirstDelta ==
    ASSUME NEW content \in Seq(ContentEvents)
    PROVE  \/ First(content) \in DOMAIN content /\ IsDelta(content[First(content)])
           \/ First(content) = 0 /\ \A i \in DOMAIN content : ~ IsDelta(content[i])
<1> DEFINE I == {i \in 1 .. Len(content) : IsDelta(content[i])}
           first == First(content)
<1>1. first = (IF I # {} THEN Min(I) ELSE 0)
  BY DEF First, SelectInSeq
<1>2. DOMAIN content = 1 .. Len(content) /\ I \subseteq Nat
  OBVIOUS
<1>3. CASE I # {}
  <2>1. PICK m \in I : \A k \in I : ~ (<<k, m>> \in OpToRel(<, Nat))
    <3> HIDE DEF I
    <3> QED BY <1>2, <1>3, WFMin, NatLessThanWellFounded
  <2>2. \A k \in I : m <= k
    <3> SUFFICES ASSUME NEW k \in I PROVE m <= k
      OBVIOUS
    <3>1. k \in Nat /\ m \in Nat
      BY <1>2
    <3>2. ~ (<<k, m>> \in OpToRel(<, Nat))
      BY <2>1
    <3>3. ~ (k < m)
      BY <3>1, <3>2 DEF OpToRel
    <3> QED BY <3>1, <3>3
  <2>3. Min(I) \in I
    <3> HIDE DEF I
    <3> QED BY <2>2, Zenon DEF Min
  <2> QED BY <1>1, <1>2, <1>3, <2>3
<1>4. CASE I = {}
  BY <1>1, <1>2, <1>4
<1> QED BY <1>3, <1>4

(* What is released is content: its sources are among those of the turn,   *)
(* and its text is the one that was approved, or nothing.                  *)
LEMMA ReleasedIsContent ==
    ASSUME turn.content \in Seq(ContentEvents), NEW text \in Text
    PROVE  /\ Released(text) \in Seq(ContentEvents)
           /\ \A i \in DOMAIN Released(text) :
                 IsSource(Released(text)[i]) =>
                    \E j \in DOMAIN turn.content : turn.content[j] = Released(text)[i]
           /\ TextOf(Released(text)) \in {text, <<>>}
<1> DEFINE content == turn.content
           first == First(content)
           n == Len(content)
           Allowed(event) == IsSource(event) => \E j \in DOMAIN content : content[j] = event
           Good(kept, k) == /\ kept \in Seq(ContentEvents)
                            /\ \A i \in DOMAIN kept : Allowed(kept[i])
                            /\ TextOf(kept) = IF first \in 1 .. k THEN text ELSE <<>>
<1>1. CASE text = TextOf(content)
  BY <1>1 DEF Released
<1>2. CASE text # TextOf(content)
  <2>1. /\ n \in Nat /\ DOMAIN content = 1 .. n /\ Len(content) = n
        /\ \A i \in 1 .. n : content[i] \in ContentEvents
    OBVIOUS
  <2>2. \/ first \in 1 .. n /\ IsDelta(content[first])
        \/ first = 0 /\ \A i \in DOMAIN content : ~ IsDelta(content[i])
    <3>1. content \in Seq(ContentEvents)
      OBVIOUS
    <3> HIDE DEF content, n
    <3> QED BY <2>1, <3>1, FirstDelta
  <2>3. PICK h : /\ h[0] = <<>>
                 /\ \A k \in 0 .. n - 1 : h[k + 1] = AddReleased(content, text, h[k], k + 1)
                 /\ Released(text) = h[n]
    <3>1. text # TextOf(turn.content) /\ Len(turn.content) = n /\ n \in Nat
      BY <1>2, <2>1
    <3> HIDE DEF n
    <3> QED BY <3>1, ReleasedPlaces
  <2> DEFINE Event(i) == IF i = first THEN Delta(text) ELSE content[i]
  <2>4. ASSUME NEW k \in 0 .. n - 1, NEW kept
        PROVE  AddReleased(content, text, kept, k + 1) =
                  IF IsSource(content[k + 1]) \/ k + 1 = first THEN Append(kept, Event(k + 1)) ELSE kept
    BY DEF AddReleased, First
  <2>5. Good(h[0], 0)
    <3>1. TextOf(<<>>) = <<>>
      <4> DEFINE none == <<>>
      <4>1. none \in Seq(Events) /\ DOMAIN none = {}
        OBVIOUS
      <4> HIDE DEF none
      <4>2. TextOf(none) = <<>>
        BY <4>1, TextOfNoDelta
      <4> QED BY <4>2 DEF none
    <3> QED BY <2>3, <3>1
  <2> HIDE DEF first, n, content
  <2>6. ASSUME NEW k \in Nat, k + 1 <= n, Good(h[k], k) PROVE Good(h[k + 1], k + 1)
    <3> DEFINE i == k + 1
               event == Event(i)
    <3>1. i \in 1 .. n /\ k \in 0 .. n - 1 /\ i \notin 1 .. k /\ content[i] \in ContentEvents
      BY <2>1, <2>6
    <3>2. h[i] = IF IsSource(content[i]) \/ i = first THEN Append(h[k], event) ELSE h[k]
      BY <2>3, <2>4, <3>1
    <3>3. /\ h[k] \in Seq(ContentEvents) /\ \A j \in DOMAIN h[k] : Allowed(h[k][j])
          /\ TextOf(h[k]) = IF first \in 1 .. k THEN text ELSE <<>>
      BY <2>6
    <3>4. first \in 1 .. i <=> first \in 1 .. k \/ first = i
      BY <2>1, <2>2, <3>1
    <3>5. ASSUME NEW e \in ContentEvents, Allowed(e)
          PROVE  /\ Append(h[k], e) \in Seq(ContentEvents)
                 /\ \A j \in DOMAIN Append(h[k], e) : Allowed(Append(h[k], e)[j])
                 /\ TextOf(Append(h[k], e)) = IF IsDelta(e) THEN TextOf(h[k]) \o e.text ELSE TextOf(h[k])
      <4>1. h[k] \in Seq(Events) /\ e \in Events
        BY <3>3 DEF Events
      <4>2. TextOf(Append(h[k], e)) = IF IsDelta(e) THEN TextOf(h[k]) \o e.text ELSE TextOf(h[k])
        BY <4>1, TextOfAppend
      <4> HIDE DEF Allowed
      <4>3. \A j \in DOMAIN Append(h[k], e) : Allowed(Append(h[k], e)[j])
        BY <3>3, <3>5
      <4> QED BY <3>3, <4>2, <4>3
    <3>6. CASE i = first
      <4>1. event = Delta(text) /\ event \in ContentEvents /\ IsDelta(event) /\ event.text = text /\ ~ IsSource(event)
        BY <3>6 DEF Delta, ContentEvents, IsDelta, IsSource
      <4>2. h[i] = Append(h[k], event) /\ TextOf(h[k]) = <<>>
        BY <3>1, <3>2, <3>3, <3>6
      <4>3. <<>> \o text = text
        BY DEF Text
      <4> HIDE DEF event
      <4>4. TextOf(h[i]) = text
        BY <3>5, <4>1, <4>2, <4>3
      <4> QED BY <3>1, <3>4, <3>5, <3>6, <4>1, <4>2, <4>4
    <3>7. CASE i # first /\ IsSource(content[i])
      <4>1. event = content[i] /\ event \in ContentEvents /\ ~ IsDelta(event) /\ Allowed(event)
        BY <2>1, <3>1, <3>7 DEF IsDelta, IsSource
      <4>2. h[i] = Append(h[k], event)
        BY <3>2, <3>7
      <4> HIDE DEF event
      <4> QED BY <3>3, <3>4, <3>5, <3>7, <4>1, <4>2
    <3>8. CASE i # first /\ ~ IsSource(content[i])
      BY <3>2, <3>3, <3>4, <3>8
    <3> QED BY <3>6, <3>7, <3>8
  <2> DEFINE S == {k \in Nat : k <= n => Good(h[k], k)}
  <2> HIDE DEF Good
  <2>7. 0 \in S
    BY <2>5
  <2>8. ASSUME NEW k \in Nat, k \in S PROVE k + 1 \in S
    BY <2>1, <2>6, <2>8
  <2>9. Nat \subseteq S
    <3> HIDE DEF S
    <3> QED BY <2>7, <2>8, InductiveSet
  <2>10. Good(h[n], n)
    BY <2>1, <2>9
  <2> QED BY <2>3, <2>10 DEF Good, content
<1> QED BY <1>1, <1>2

-----------------------------------------------------------------------------
(* Turns                                                                   *)

(* A turn that is over is one; nothing is left of it.                      *)
LEMMA ClosedIsSound == ClosedTurn \in Turn /\ TurnIsSound(ClosedTurn)
<1>1. <<>> \in Seq(ContentEvents) /\ <<>> \in Text /\ <<>> \in Seq(ContentEvents \cup CompletedEvents)
  BY DEF Text
<1>2. ClosedTurn \in Turn
  BY <1>1 DEF ClosedTurn, Turn
<1>3. TurnIsSound(ClosedTurn)
  BY <1>1 DEF ClosedTurn, TurnIsSound, ActiveStages
<1> QED BY <1>2, <1>3

(* A failing turn has dropped what it had.                                 *)
LEMMA FailingIsSound ==
    ASSUME turn \in Turn, TurnIsSound(turn), turn.stage \in ActiveStages,
           NEW code \in {"SESSION_NOT_FOUND", "OTHER"}
    PROVE  /\ Failing(code) \in Turn /\ TurnIsSound(Failing(code))
           /\ Failing(code).stage = "failing" /\ ~ Failing(code).committed
           /\ Failing(code).session = turn.session
<1> DEFINE t == Failing(code)
<1>1. turn.session \in Sessions
  BY DEF TurnIsSound
<1>2. /\ t \in Turn /\ t.stage = "failing" /\ t.committed = FALSE /\ t.queue = <<>>
      /\ t.session = turn.session /\ t.code = code
  BY <1>1, ClosedIsSound DEF Failing, ClosedTurn, Turn, ActiveStages
<1> HIDE DEF t
<1>3. t.queue \in Seq(ContentEvents)
  BY <1>2
<1>4. TurnIsSound(t)
  BY <1>1, <1>2, <1>3 DEF TurnIsSound
<1> QED BY <1>2, <1>4 DEF t

(* So has one whose signal has fired, unless it is committed.              *)
LEMMA AbortedIsSound ==
    ASSUME turn \in Turn, TurnIsSound(turn)
    PROVE  /\ Aborted(turn) \in Turn /\ TurnIsSound(Aborted(turn))
           /\ Aborted(turn).stage = turn.stage /\ Aborted(turn).session = turn.session
           /\ \/ Aborted(turn) = turn
              \/ /\ turn.stage \in {"preparing", "streaming", "guarding", "committing"}
                 /\ ~ Aborted(turn).committed
                 /\ Aborted(turn).queue = <<>> /\ Aborted(turn).answer = <<>>
<1> DEFINE t == Aborted(turn)
<1>1. CASE turn.stage \in {"preparing", "streaming", "guarding", "committing"}
  <2>1. turn.session \in Sessions
    BY <1>1 DEF TurnIsSound, ActiveStages
  <2>2. /\ t \in Turn /\ t.stage = turn.stage /\ t.committed = FALSE /\ t.queue = <<>>
        /\ t.session = turn.session /\ t.answer = <<>>
    BY <1>1, <2>1, ClosedIsSound DEF Aborted, ClosedTurn, Turn, ActiveStages
  <2> HIDE DEF t
  <2>3. t.queue \in Seq(ContentEvents)
    BY <2>2
  <2>4. TurnIsSound(t)
    BY <1>1, <2>1, <2>2, <2>3 DEF TurnIsSound
  <2> QED BY <1>1, <2>2, <2>4 DEF t
<1>2. CASE turn.stage \notin {"preparing", "streaming", "guarding", "committing"}
  BY <1>2 DEF Aborted
<1> QED BY <1>1, <1>2

(* The fields a step of the turn sets, one by one.                         *)
LEMMA TurnFields ==
    ASSUME NEW t \in Turn
    PROVE  /\ t.stage \in ActiveStages \cup {"closed"} /\ t.session \in Sessions \cup {None}
           /\ t.content \in Seq(ContentEvents) /\ t.answer \in Text
           /\ t.queue \in Seq(ContentEvents \cup CompletedEvents)
           /\ t.aborted \in BOOLEAN /\ t.committed \in BOOLEAN
           /\ \A stage \in ActiveStages : [t EXCEPT !.stage = stage] \in Turn
           /\ \A content \in Seq(ContentEvents) : [t EXCEPT !.content = content] \in Turn
           /\ \A queue \in Seq(ContentEvents \cup CompletedEvents) :
                 [t EXCEPT !.queue = queue] \in Turn
           /\ \A stage \in ActiveStages, answer \in Text :
                 [t EXCEPT !.stage = stage, !.answer = answer] \in Turn
           /\ \A stage \in ActiveStages, content \in Seq(ContentEvents) :
                 [t EXCEPT !.stage = stage, !.content = content] \in Turn
           /\ \A stage \in ActiveStages, content \in Seq(ContentEvents), answer \in Text,
                 queue \in Seq(ContentEvents \cup CompletedEvents) :
                 [t EXCEPT !.stage = stage, !.content = content, !.answer = answer,
                           !.queue = queue] \in Turn
           /\ \A stage \in ActiveStages, committed \in BOOLEAN, answer \in Text,
                 queue \in Seq(ContentEvents \cup CompletedEvents) :
                 [t EXCEPT !.stage = stage, !.committed = committed, !.answer = answer,
                           !.queue = queue] \in Turn
BY DEF Turn

-----------------------------------------------------------------------------
(* Responses                                                               *)

(* One more event behind events without a terminal one.                    *)
LEMMA OneMore ==
    ASSUME reply \in Reply, ReplyIsSound, reply.open, ~ reply.ended,
           NEW event \in Events, event # Started,
           reply' = [reply EXCEPT !.sent = Append(@, event), !.ended = Terminal(event)],
           Terminal(event) => turn'.stage = "closed"
    PROVE  /\ reply' \in Reply /\ ReplyIsSound'
           /\ reply'.open = reply.open /\ reply'.ended = Terminal(event)
           /\ reply'.sent = Append(reply.sent, event)
<1> DEFINE sent == reply.sent
           next == reply'.sent
           n == Len(sent)
<1>1. sent \in Seq(Events) /\ sent # <<>> /\ OneTerminalEvent
  BY DEF Reply, ReplyIsSound
<1>2. Terminal(event) \in BOOLEAN
  BY DEF Terminal
<1>3. /\ reply' \in Reply /\ reply'.open = reply.open /\ reply'.ended = Terminal(event)
      /\ reply'.sent = Append(reply.sent, event)
  <2> DEFINE ended == Terminal(event)
             longer == Append(reply.sent, event)
  <2>1. ended \in BOOLEAN /\ longer \in Seq(Events)
    BY <1>1, <1>2
  <2>2. reply' = [reply EXCEPT !.sent = longer, !.ended = ended]
    BY DEF Reply
  <2> HIDE DEF ended, longer
  <2>3. /\ reply' \in Reply /\ reply'.open = reply.open /\ reply'.ended = ended
        /\ reply'.sent = longer
    BY <2>1, <2>2 DEF Reply
  <2> QED BY <2>3 DEF ended, longer
<1>4. /\ n \in Nat /\ n >= 1 /\ DOMAIN sent = 1 .. n /\ DOMAIN next = 1 .. n + 1 /\ Len(next) = n + 1
      /\ next[n + 1] = event /\ \A i \in 1 .. n : next[i] = sent[i]
  BY <1>1, <1>3
<1>5. \A i \in 1 .. n : (sent[i] = Started <=> i = 1) /\ (Terminal(sent[i]) => i = n)
  BY <1>1, <1>4 DEF OneTerminalEvent
<1>6. ~ Terminal(sent[n])
  BY <1>1 DEF OneTerminalEvent, Last
<1>7. ASSUME NEW i \in 1 .. n + 1
      PROVE  (next[i] = Started <=> i = 1) /\ (Terminal(next[i]) => i = n + 1)
  <2>1. CASE i = n + 1
    BY <1>4, <2>1
  <2>2. CASE i # n + 1
    <3>1. i \in 1 .. n
      BY <1>4, <2>2
    <3> HIDE DEF sent, next, n
    <3> QED BY <1>4, <1>5, <1>6, <3>1
  <2> QED BY <2>1, <2>2
<1>8. next # <<>> /\ (reply'.ended <=> Terminal(next[Len(next)]))
  BY <1>3, <1>4
<1>9. OneTerminalEvent'
  <2>1. \A i \in DOMAIN next : (next[i] = Started <=> i = 1) /\ (Terminal(next[i]) => i = Len(next))
    BY <1>4, <1>7
  <2> HIDE DEF sent, n
  <2> QED BY <1>8, <2>1 DEF OneTerminalEvent, Last, Terminal, Started
<1> QED BY <1>3, <1>8, <1>9 DEF ReplyIsSound

(* Writing an event, or failing to, leaves turn and response as they       *)
(* should be.                                                              *)
LEMMA WriteKeeps ==
    ASSUME ChatInv, turn.stage # "closed",
           NEW t \in Turn, TurnIsSound(t), t.stage # "closed",
           NEW event \in Events, event # Started,
           Write(t, event)
    PROVE  /\ ChatInv'
           /\ turn' \in {t, ClosedTurn}
           /\ \/ /\ ~ reply.open
                 /\ turn' = ClosedTurn /\ reply' = reply
              \/ /\ reply.open /\ reply'.open
                 /\ turn' = (IF Terminal(event) THEN ClosedTurn ELSE t)
                 /\ reply'.sent = Append(reply.sent, event)
              \/ /\ reply.open /\ reply'.open
                 /\ turn' = ClosedTurn /\ reply'.sent = Append(reply.sent, Failed("OTHER"))
<1>1. reply \in Reply /\ ReplyIsSound /\ (reply.open => ~ reply.ended)
  BY DEF ChatInv, ReplyIsSound
<1>2. ClosedTurn \in Turn /\ TurnIsSound(ClosedTurn) /\ ClosedTurn.stage = "closed"
  BY ClosedIsSound DEF ClosedTurn
<1>3. CASE ~ reply.open /\ turn' = ClosedTurn /\ UNCHANGED reply
  <2>1. reply = NoReply /\ OneTerminalEvent /\ ReplyIsSound'
    BY <1>1, <1>2, <1>3 DEF ReplyIsSound, OneTerminalEvent
  <2> QED BY <1>1, <1>2, <1>3, <2>1 DEF ChatInv
<1>4. CASE /\ reply.open
           /\ turn' = IF Terminal(event) THEN ClosedTurn ELSE t
           /\ reply' = [reply EXCEPT !.sent = Append(@, event), !.ended = Terminal(event)]
  <2>1. /\ reply' \in Reply /\ ReplyIsSound' /\ reply'.open = reply.open
        /\ reply'.sent = Append(reply.sent, event)
    BY <1>1, <1>2, <1>4, OneMore
  <2>2. turn' \in Turn /\ TurnIsSound(turn')
    BY <1>2, <1>4
  <2> QED BY <1>4, <2>1, <2>2 DEF ChatInv
<1>5. CASE /\ reply.open
           /\ turn' = ClosedTurn
           /\ reply' = [reply EXCEPT !.sent = Append(@, Failed("OTHER")), !.ended = TRUE]
  <2>1. Failed("OTHER") \in Events /\ Failed("OTHER") # Started /\ Terminal(Failed("OTHER"))
    BY DEF Failed, Events, FailedEvents, Started, Terminal
  <2> DEFINE failed == Failed("OTHER")
  <2>2. reply' = [reply EXCEPT !.sent = Append(@, failed), !.ended = Terminal(failed)]
    BY <1>5, <2>1 DEF Terminal
  <2>3. /\ reply' \in Reply /\ ReplyIsSound' /\ reply'.open = reply.open
        /\ reply'.sent = Append(reply.sent, failed)
    <3> HIDE DEF failed
    <3> QED BY <1>1, <1>2, <1>5, <2>1, <2>2, OneMore DEF failed
  <2> QED BY <1>2, <1>5, <2>3 DEF ChatInv
<1> QED BY <1>3, <1>4, <1>5 DEF Write

(* So does throwing.                                                       *)
LEMMA ThrowKeeps ==
    ASSUME ChatInv, turn.stage # "closed", Throw
    PROVE  /\ ChatInv'
           /\ turn' = ClosedTurn
           /\ \/ ~ reply.open /\ reply' = reply
              \/ /\ reply.open /\ reply'.open
                 /\ reply'.sent = Append(reply.sent, Failed("OTHER"))
<1>1. turn \in Turn /\ TurnIsSound(turn) /\ Status \in Events /\ Status # Started
  BY DEF ChatInv, Status, Started, Events
<1>2. CASE ~ reply.open
  <2>1. Write(turn, Status)
    BY <1>2 DEF Throw, Write
  <2> QED BY <1>1, <1>2, <2>1, WriteKeeps DEF Throw
<1>3. CASE reply.open
  <2>1. Write(turn, Status)
    BY <1>3 DEF Throw, Write, Status
  <2>2. ChatInv' /\ reply'.open
    BY <1>1, <1>3, <2>1, WriteKeeps
  <2>3. reply'.sent = Append(reply.sent, Failed("OTHER"))
    BY <1>3 DEF Throw, ChatInv, Reply
  <2> QED BY <1>3, <2>2, <2>3 DEF Throw
<1> QED BY <1>2, <1>3

-----------------------------------------------------------------------------
(* What an output guard holds back                                         *)

(* Nothing a guard objects to is in an event.                              *)
Clean(event) ==
    /\ IsSource(event) => event.source = "clean"
    /\ IsText(event) => ~ HasCredential(event.text) /\ ~ HasLeak(event.text)

(* What has been sent and what waits behind it is clean, each event and    *)
(* all of their text; until the commit nothing of the answer is sent.      *)
Approved(t, sent) ==
    /\ t.committed <=> t.stage = "releasing"
    /\ t.stage \notin {"releasing", "closed"} =>
          \A i \in DOMAIN sent : ~ IsSource(sent[i]) /\ ~ IsText(sent[i])
    /\ \A i \in DOMAIN sent : Clean(sent[i])
    /\ ~ HasCredential(TextOf(sent))
    /\ t.stage = "releasing" => ~ HasCredential(TextOf(sent \o t.queue))
    /\ t.stage = "committing" =>
          /\ ~ HasCredential(t.answer) /\ ~ HasLeak(t.answer)
          /\ ~ HasCredential(TextOf(t.queue))
    /\ t.stage \in {"committing", "releasing"} => \A i \in DOMAIN t.queue : Clean(t.queue[i])

GuardInv ==
    /\ guards \in {"off", "default", "injected"}
    /\ Guarding => Approved(turn, reply.sent)

(* Without events there is no text, and nothing to object to.              *)
LEMMA NoText == TextOf(<<>>) = <<>> /\ ~ HasCredential(<<>>) /\ ~ HasLeak(<<>>)
<1> DEFINE none == <<>>
<1>1. none \in Seq(Events) /\ DOMAIN none = {}
  OBVIOUS
<1> HIDE DEF none
<1>2. TextOf(none) = <<>>
  BY <1>1, TextOfNoDelta
<1> QED BY <1>2 DEF none, HasCredential, HasLeak

(* What waits for a turn are events.                                       *)
LEMMA QueueOfEvents ==
    ASSUME NEW t \in Turn
    PROVE  t.queue \in Seq(Events)
<1> DEFINE E == ContentEvents \cup CompletedEvents
           q == t.queue
<1>1. q \in Seq(E)
  BY DEF Turn
<1>2. E \subseteq Events
  BY DEF Events
<1> HIDE DEF E, q
<1>3. q \in Seq(Events)
  BY <1>1, <1>2
<1> QED BY <1>3 DEF q

(* A turn that moves on without an answer shows nothing new.               *)
LEMMA QuietIsApproved ==
    ASSUME NEW t, NEW u, NEW sent, Approved(t, sent),
           t.stage \notin {"releasing", "closed"},
           u.stage \notin {"committing", "releasing"}, ~ u.committed, u.committed \in BOOLEAN
    PROVE  Approved(u, sent)
BY DEF Approved

(* Nor does one that is over.                                              *)
LEMMA ClosedIsApproved ==
    ASSUME NEW t, NEW sent, Approved(t, sent)
    PROVE  Approved(ClosedTurn, sent)
BY DEF Approved, ClosedTurn

(* An event that is no part of an answer may follow any other.             *)
LEMMA EmptyIsApproved ==
    ASSUME NEW t, NEW sent \in Seq(Events), Approved(t, sent), t.stage # "releasing",
           NEW event \in Events, ~ IsSource(event), ~ IsText(event)
    PROVE  Approved(t, Append(sent, event))
<1> DEFINE next == Append(sent, event)
<1>1. \A i \in DOMAIN next : next[i] = event \/ \E j \in DOMAIN sent : next[i] = sent[j]
  OBVIOUS
<1>2. TextOf(next) = TextOf(sent)
  BY TextOfAppend DEF IsText, IsDelta
<1> HIDE DEF next
<1>3. \A i \in DOMAIN next : Clean(next[i])
  BY <1>1 DEF Approved, Clean
<1>4. t.stage \notin {"releasing", "closed"} =>
         \A i \in DOMAIN next : ~ IsSource(next[i]) /\ ~ IsText(next[i])
  BY <1>1 DEF Approved
<1> QED BY <1>2, <1>3, <1>4 DEF Approved, next

(* The turn is committed: what was approved goes out, behind nothing.      *)
LEMMA CommitIsApproved ==
    ASSUME NEW t \in Turn, NEW sent \in Seq(Events), Approved(t, sent), t.stage = "committing",
           t.session \in Sessions, NEW u,
           u.stage = "releasing", u.committed = TRUE,
           u.queue = Append(t.queue, Completed(t.session, t.answer))
    PROVE  Approved(u, sent)
<1> DEFINE last == Completed(t.session, t.answer)
<1>1. /\ last \in CompletedEvents /\ last \in Events /\ ~ IsDelta(last) /\ ~ IsSource(last)
      /\ last.text = t.answer
  BY TurnFields DEF Completed, CompletedEvents, Events, IsDelta, IsSource
<1>2. Clean(last)
  BY <1>1 DEF Clean, Approved
<1>3. t.queue \in Seq(Events)
  BY QueueOfEvents
<1> HIDE DEF last
<1>4. u.queue = Append(t.queue, last)
  BY DEF last
<1>5. \A i \in DOMAIN u.queue : Clean(u.queue[i])
  <2>1. \A i \in DOMAIN u.queue : u.queue[i] = last \/ \E j \in DOMAIN t.queue : u.queue[i] = t.queue[j]
    BY <1>1, <1>3, <1>4
  <2> QED BY <1>2, <2>1 DEF Approved
<1>6. TextOf(u.queue) = TextOf(t.queue) /\ TextOf(u.queue) \in Text
  <2>1. TextOf(Append(t.queue, last)) = TextOf(t.queue) /\ TextOf(t.queue) \in Text
    BY <1>1, <1>3, TextOfAppend
  <2> QED BY <1>4, <2>1
<1>7. TextOf(sent) = <<>>
  <2>1. \A i \in DOMAIN sent : ~ IsDelta(sent[i])
    BY DEF Approved, IsText, IsDelta
  <2> QED BY <2>1, TextOfNoDelta
<1>8. TextOf(sent \o u.queue) = TextOf(u.queue)
  <2>1. u.queue \in Seq(Events)
    BY <1>1, <1>3, <1>4
  <2>2. TextOf(sent \o u.queue) = TextOf(sent) \o TextOf(u.queue)
    BY <2>1, TextOfConcat
  <2>3. <<>> \o TextOf(u.queue) = TextOf(u.queue)
    BY <1>6 DEF Text
  <2> QED BY <1>7, <2>2, <2>3
<1>9. \A i \in DOMAIN sent : Clean(sent[i])
  BY DEF Approved
<1> QED BY <1>5, <1>6, <1>7, <1>8, <1>9 DEF Approved

(* Then it goes out one event at a time.                                   *)
LEMMA ReleaseIsApproved ==
    ASSUME NEW t \in Turn, NEW sent \in Seq(Events), Approved(t, sent), t.stage = "releasing",
           t.queue # <<>>, NEW u, u.stage = "releasing", u.committed = TRUE,
           u.queue = Tail(t.queue)
    PROVE  Approved(u, Append(sent, Head(t.queue)))
<1> DEFINE queue == t.queue
           event == Head(queue)
           next == Append(sent, event)
           rest == Tail(queue)
<1>1. queue \in Seq(Events) /\ queue # <<>>
  BY QueueOfEvents
<1> HIDE DEF queue
<1>2. event \in Events /\ rest \in Seq(Events) /\ event = queue[1] /\ 1 \in DOMAIN queue
  BY <1>1
<1>3. next \in Seq(Events) /\ next \o rest = sent \o queue
  <2>1. queue = <<event>> \o rest
    BY <1>1
  <2>2. next = sent \o <<event>>
    BY <1>2
  <2> HIDE DEF event, rest, next
  <2>3. (sent \o <<event>>) \o rest = sent \o (<<event>> \o rest)
    BY <1>2
  <2> QED BY <1>2, <2>1, <2>2, <2>3
<1>4. \A i \in DOMAIN next : next[i] = queue[1] \/ \E j \in DOMAIN sent : next[i] = sent[j]
  BY <1>2
<1>5. \A i \in DOMAIN rest : \E j \in DOMAIN queue : rest[i] = queue[j]
  BY <1>1
<1> HIDE DEF event, next, rest
<1>6. (\A i \in DOMAIN next : Clean(next[i])) /\ (\A i \in DOMAIN rest : Clean(rest[i]))
  BY <1>2, <1>4, <1>5 DEF Approved, queue
<1>7. ~ HasCredential(TextOf(next \o rest))
  BY <1>3 DEF Approved, queue
<1>8. ~ HasCredential(TextOf(next))
  <2>1. /\ TextOf(next) \in Text /\ TextOf(rest) \in Text
        /\ TextOf(next \o rest) = TextOf(next) \o TextOf(rest)
    BY <1>2, <1>3, TextOfConcat
  <2> QED BY <1>7, <2>1, PartsOfTexts
<1>9. u.queue = rest
  BY DEF rest, queue
<1> QED BY <1>6, <1>7, <1>8, <1>9 DEF Approved, next, event, queue

-----------------------------------------------------------------------------
(* The steps of the server                                                 *)

(* What the server does to a response: it stays open, a turn keeps its     *)
(* session, and an answer that is sent is of that session.                 *)
Served ==
    /\ reply'.open = reply.open
    /\ turn'.stage \in ActiveStages => turn.stage \in ActiveStages /\ turn'.session = turn.session
    /\ \A i \in DOMAIN reply'.sent :
          reply'.sent[i].type = "turn.completed" =>
             \/ \E j \in DOMAIN reply.sent : reply.sent[j] = reply'.sent[i]
             \/ turn.stage \in ActiveStages /\ reply'.sent[i].session = turn.session

(* A turn that goes on without writing.                                    *)
LEMMA StayKeeps ==
    ASSUME ChatInv, turn.stage # "closed", NEW t \in Turn, TurnIsSound(t),
           t.stage # "closed", t.session = turn.session,
           turn' = t, UNCHANGED reply
    PROVE  ChatInv' /\ Served
<1>1. turn' \in Turn /\ TurnIsSound(turn') /\ ~ reply.ended
  BY DEF ChatInv, ReplyIsSound
<1>2. ReplyIsSound'
  BY <1>1 DEF ChatInv, ReplyIsSound, OneTerminalEvent
<1>3. Served
  BY <1>1 DEF Served, ChatInv, Turn
<1> QED BY <1>1, <1>2, <1>3 DEF ChatInv

(* One that writes, or throws.                                             *)
LEMMA OutcomeOfWrite ==
    ASSUME ChatInv, turn.stage # "closed", NEW t, t.session = turn.session,
           NEW event \in Events, event.type = "turn.completed" => event.session = turn.session,
           turn' \in {t, ClosedTurn},
           \/ ~ reply.open /\ reply' = reply
           \/ /\ reply.open /\ reply'.open
              /\ reply'.sent = Append(reply.sent, event)
           \/ /\ reply.open /\ reply'.open
              /\ reply'.sent = Append(reply.sent, Failed("OTHER"))
    PROVE  Served
<1>1. turn.stage \in ActiveStages /\ reply.sent \in Seq(Events) /\ reply.open \in BOOLEAN
  BY DEF ChatInv, Turn, Reply
<1>2. turn'.stage \in ActiveStages => turn'.session = turn.session
  BY DEF ClosedTurn, ActiveStages
<1>3. CASE reply' = reply
  BY <1>1, <1>2, <1>3 DEF Served
<1>4. ASSUME NEW e \in Events, e.type = "turn.completed" => e.session = turn.session,
             reply.open /\ reply'.open, reply'.sent = Append(reply.sent, e)
      PROVE  Served
  <2>1. \A i \in DOMAIN reply'.sent :
           reply'.sent[i] = e \/ \E j \in DOMAIN reply.sent : reply.sent[j] = reply'.sent[i]
    BY <1>1, <1>4
  <2>2. reply'.open = reply.open
    BY <1>4
  <2> QED BY <1>1, <1>2, <1>4, <2>1, <2>2 DEF Served
<1>5. Failed("OTHER") \in Events /\ Failed("OTHER").type # "turn.completed"
  BY DEF Failed, Events, FailedEvents
<1> QED BY <1>3, <1>4, <1>5

(* The same for the guard: one that writes nothing of an answer.           *)
LEMMA WriteIsApproved ==
    ASSUME ChatInv, turn.stage \notin {"closed", "releasing"}, Approved(turn, reply.sent),
           NEW t, t.stage \notin {"closed", "releasing", "committing"}, t.committed = FALSE,
           NEW event \in Events, ~ IsSource(event), ~ IsText(event),
           turn' \in {t, ClosedTurn},
           \/ ~ reply.open /\ reply' = reply
           \/ /\ reply.open /\ reply'.open
              /\ reply'.sent = Append(reply.sent, event)
           \/ /\ reply.open /\ reply'.open
              /\ reply'.sent = Append(reply.sent, Failed("OTHER"))
    PROVE  Approved(turn', reply'.sent)
<1>1. reply.sent \in Seq(Events)
  BY DEF ChatInv, Reply
<1>2. Approved(t, reply.sent) /\ Approved(ClosedTurn, reply.sent)
  BY QuietIsApproved, ClosedIsApproved
<1>3. ClosedTurn.stage # "releasing"
  BY DEF ClosedTurn
<1>4. /\ Failed("OTHER") \in Events /\ ~ IsSource(Failed("OTHER")) /\ ~ IsText(Failed("OTHER"))
  BY DEF Failed, Events, FailedEvents, IsSource, IsText
<1>5. Approved(turn', reply.sent) /\ turn'.stage # "releasing"
  BY <1>2, <1>3
<1>6. CASE reply' = reply
  BY <1>5, <1>6
<1>7. CASE reply'.sent = Append(reply.sent, event)
  BY <1>1, <1>5, <1>7, EmptyIsApproved
<1>8. CASE reply'.sent = Append(reply.sent, Failed("OTHER"))
  BY <1>1, <1>4, <1>5, <1>8, EmptyIsApproved
<1> QED BY <1>6, <1>7, <1>8

(* A turn fails: what it has is dropped.                                   *)
LEMMA FailingKeeps ==
    ASSUME ChatInv, GuardInv, turn.stage \in ActiveStages, turn.stage # "releasing",
           NEW code \in {"SESSION_NOT_FOUND", "OTHER"},
           turn' = Failing(code), UNCHANGED <<guards, reply>>
    PROVE  ChatInv' /\ GuardInv' /\ Served
<1>1. turn \in Turn /\ TurnIsSound(turn) /\ turn.stage # "closed" /\ turn.stage \notin {"releasing", "closed"}
  BY DEF ChatInv, ActiveStages
<1> DEFINE t == Failing(code)
<1>2. /\ t \in Turn /\ TurnIsSound(t) /\ t.stage = "failing" /\ ~ t.committed
      /\ t.session = turn.session /\ turn' = t
  BY <1>1, FailingIsSound
<1> HIDE DEF t
<1>3. ChatInv' /\ Served
  BY <1>1, <1>2, StayKeeps
<1>4. Approved(turn, reply.sent) => Approved(t, reply.sent)
  BY <1>1, <1>2, QuietIsApproved, TurnFields
<1> QED BY <1>2, <1>3, <1>4 DEF GuardInv, Guarding

(* A signal fires, or the response closes.                                 *)
LEMMA AbortedIsApproved ==
    ASSUME turn \in Turn, TurnIsSound(turn), NEW sent, Approved(turn, sent)
    PROVE  Approved(Aborted(turn), sent)
<1> DEFINE t == Aborted(turn)
<1>1. \/ t = turn
      \/ /\ turn.stage \in {"preparing", "streaming", "guarding", "committing"}
         /\ t.stage = turn.stage /\ ~ t.committed /\ t.queue = <<>> /\ t.answer = <<>>
  BY AbortedIsSound
<1>2. t.committed \in BOOLEAN
  BY AbortedIsSound, TurnFields
<1> HIDE DEF t
<1>3. ASSUME t # turn PROVE Approved(t, sent)
  <2>1. DOMAIN t.queue = {} /\ t.stage \notin {"releasing", "closed"} /\ turn.stage \notin {"releasing", "closed"}
    BY <1>1, <1>3
  <2>2. TextOf(t.queue) = <<>> /\ t.answer = <<>> /\ t.stage = turn.stage /\ ~ t.committed
    BY <1>1, <1>3, NoText
  <2>3. ~ HasCredential(TextOf(t.queue)) /\ ~ HasCredential(t.answer) /\ ~ HasLeak(t.answer)
    BY <2>2, NoText
  <2> QED BY <1>2, <2>1, <2>2, <2>3 DEF Approved
<1>4. Approved(t, sent)
  BY <1>3
<1> QED BY <1>4 DEF t

(* A step of the server, from a turn that runs.                            *)
LEMMA ServerStep ==
    ASSUME ChatInv, GuardInv, Commit \/ Proceed \/ AbortSession
    PROVE  ChatInv' /\ GuardInv' /\ Served
<1> USE DEF ChatInv
<1>1. /\ turn \in Turn /\ TurnIsSound(turn) /\ reply \in Reply /\ reply.sent \in Seq(Events)
      /\ turn.stage \in ActiveStages \cup {"closed"} /\ turn.session \in Sessions \cup {None}
  BY DEF Reply, Turn
<1>2. CASE Prepare
  <2>1. turn.stage = "preparing" /\ turn.stage \in ActiveStages /\ turn.stage # "closed"
        /\ UNCHANGED <<guards, reply>>
    BY <1>2 DEF Prepare, ActiveStages
  <2>2. CASE turn' = [turn EXCEPT !.stage = "streaming"]
    <3> DEFINE t == [turn EXCEPT !.stage = "streaming"]
    <3>1. /\ t \in Turn /\ t.stage = "streaming" /\ t.session = turn.session
          /\ t.queue = turn.queue /\ t.committed = turn.committed
      BY <1>1 DEF Turn, ActiveStages
    <3> HIDE DEF t
    <3>2. TurnIsSound(t)
      BY <1>1, <2>1, <3>1 DEF TurnIsSound, ActiveStages
    <3>3. turn' = t
      BY <2>2 DEF t
    <3>4. ChatInv' /\ Served
      BY <2>1, <3>1, <3>2, <3>3, StayKeeps
    <3>5. Approved(turn, reply.sent) => Approved(t, reply.sent)
      <4>1. Approved(turn, reply.sent) => ~ t.committed /\ t.committed \in BOOLEAN
        BY <1>1, <2>1, <3>1, TurnFields DEF Approved
      <4> QED BY <2>1, <3>1, <4>1, QuietIsApproved
    <3> QED BY <2>1, <3>3, <3>4, <3>5 DEF GuardInv, Guarding
  <2>3. CASE \E code \in {"SESSION_NOT_FOUND", "OTHER"} : turn' = Failing(code)
    BY <2>1, <2>3, FailingKeeps
  <2> QED BY <1>2, <2>2, <2>3 DEF Prepare
<1>3. CASE StatusEvent
  <2>1. turn.stage = "streaming" /\ turn.stage # "closed" /\ Write(turn, Status) /\ guards' = guards
        /\ turn.stage \notin {"closed", "releasing"} /\ turn.stage \notin {"closed", "releasing", "committing"}
    BY <1>3 DEF StatusEvent
  <2>2. /\ Status \in Events /\ Status # Started /\ ~ Terminal(Status)
        /\ ~ IsSource(Status) /\ ~ IsText(Status) /\ Status.type # "turn.completed"
    BY DEF Status, Started, Events, Terminal, IsSource, IsText
  <2> HIDE DEF ChatInv
  <2>3. /\ ChatInv'
        /\ turn' \in {turn, ClosedTurn}
        /\ \/ ~ reply.open /\ reply' = reply
           \/ /\ reply.open /\ reply'.open
              /\ reply'.sent = Append(reply.sent, Status)
           \/ /\ reply.open /\ reply'.open
              /\ reply'.sent = Append(reply.sent, Failed("OTHER"))
    BY <1>1, <2>1, <2>2, WriteKeeps
  <2>4. Served
    BY <2>1, <2>2, <2>3, OutcomeOfWrite
  <2>5. Approved(turn, reply.sent) => turn.committed = FALSE
    BY <1>1, <2>1, TurnFields DEF Approved
  <2>6. Approved(turn, reply.sent) => Approved(turn', reply'.sent)
    BY <2>1, <2>2, <2>3, <2>5, WriteIsApproved
  <2> QED BY <2>1, <2>3, <2>4, <2>6 DEF GuardInv, Guarding
<1>4. CASE ContentEvent
  <2>1. /\ turn.stage = "streaming" /\ turn.stage # "closed" /\ guards' = guards
        /\ turn.stage \notin {"closed", "releasing"}
    BY <1>4 DEF ContentEvent
  <2>2. PICK event : /\ event \in IF Guarding
                           THEN {Delta(<<p>>) : p \in Pieces}
                                  \cup {Source(kind) : kind \in {"clean", "unsafe"}}
                           ELSE {Delta(<<"head">>), Source("clean")}
                     /\ LET next == [turn EXCEPT !.content = Append(@, event)]
                        IN  IF Guarding THEN turn' = next /\ UNCHANGED reply ELSE Write(next, event)
    <3> HIDE DEF ChatInv
    <3> QED BY <1>4, Zenon DEF ContentEvent
  <2>3. event \in ContentEvents
    <3>1. \A p \in Pieces : <<p>> \in Text
      BY DEF Text, Symbols
    <3>2. "head" \in Pieces
      BY DEF Pieces
    <3> QED BY <2>2, <3>1, <3>2 DEF ContentEvents, Delta, Source
  <2>4. event \in Events /\ event # Started /\ ~ Terminal(event) /\ event.type # "turn.completed"
    BY <2>3 DEF ContentEvents, Events, Started, Terminal
  <2> DEFINE content == Append(turn.content, event)
             t == [turn EXCEPT !.content = content]
  <2>5. content \in Seq(ContentEvents)
    <3>1. turn.content \in Seq(ContentEvents)
      BY <1>1, TurnFields
    <3> QED BY <2>3, <3>1
  <2>6. (turn' = t /\ UNCHANGED reply) \/ Write(t, event)
    BY <2>2
  <2>6a. Guarding => turn' = t /\ UNCHANGED reply
    BY <2>2
  <2> HIDE DEF content
  <2>7. /\ t \in Turn /\ t.stage = turn.stage /\ t.session = turn.session /\ t.code = turn.code
        /\ t.queue = turn.queue /\ t.committed = turn.committed
    BY <1>1, <2>5 DEF Turn
  <2> HIDE DEF t, ChatInv
  <2>8. TurnIsSound(t) /\ t.stage # "closed"
    BY <1>1, <2>1, <2>7 DEF TurnIsSound
  <2>9. ChatInv' /\ Served
    <3>1. CASE turn' = t /\ UNCHANGED reply
      BY <2>1, <2>7, <2>8, <3>1, StayKeeps
    <3>2. CASE Write(t, event)
      <4>1. /\ ChatInv'
            /\ turn' \in {t, ClosedTurn}
            /\ \/ ~ reply.open /\ reply' = reply
               \/ /\ reply.open /\ reply'.open
                  /\ reply'.sent = Append(reply.sent, event)
               \/ /\ reply.open /\ reply'.open
                  /\ reply'.sent = Append(reply.sent, Failed("OTHER"))
        BY <2>1, <2>4, <2>7, <2>8, <3>2, WriteKeeps
      <4>2. Served
        BY <2>1, <2>4, <2>7, <4>1, OutcomeOfWrite
      <4> QED BY <4>1, <4>2
    <3> QED BY <2>6, <3>1, <3>2
  <2>10. Guarding /\ Approved(turn, reply.sent) => Approved(turn', reply'.sent)
    <3>1. Approved(turn, reply.sent) => Approved(t, reply.sent)
      BY <2>1, <2>7 DEF Approved
    <3> QED BY <2>6a, <3>1
  <2> QED BY <2>1, <2>9, <2>10 DEF GuardInv, Guarding
<1>5. CASE ResultEvent
  <2>1. /\ turn.stage = "streaming" /\ turn.stage # "closed" /\ UNCHANGED <<guards, reply>>
        /\ turn.stage \notin {"closed", "releasing"}
    BY <1>5 DEF ResultEvent
  <2>2. PICK answer \in {TextOf(turn.content)} \cup (IF Guarding THEN {<<"head">>} ELSE {}) :
           turn' = [turn EXCEPT !.stage = "guarding", !.answer = answer]
    BY <1>5, Zenon DEF ResultEvent
  <2>3. answer \in Text
    <3>1. turn.content \in Seq(ContentEvents)
      BY <1>1, TurnFields
    <3>2. turn.content \in Seq(Events)
      BY <3>1 DEF Events
    <3>3. TextOf(turn.content) \in Text
      BY <3>2, TextOfConcat
    <3>4. <<"head">> \in Text
      BY DEF Text, Symbols, Pieces
    <3> QED BY <2>2, <3>3, <3>4
  <2> DEFINE t == [turn EXCEPT !.stage = "guarding", !.answer = answer]
  <2>4. /\ t \in Turn /\ t.stage = "guarding" /\ t.session = turn.session
        /\ t.queue = turn.queue /\ t.committed = turn.committed /\ turn' = t
    BY <1>1, <2>2, <2>3 DEF Turn, ActiveStages
  <2> HIDE DEF t, ChatInv
  <2>5. TurnIsSound(t) /\ t.stage # "closed"
    BY <1>1, <2>1, <2>4 DEF TurnIsSound, ActiveStages
  <2>6. ChatInv' /\ Served
    BY <2>1, <2>4, <2>5, StayKeeps
  <2>7. Approved(turn, reply.sent) => Approved(t, reply.sent)
    <3>1. Approved(turn, reply.sent) => ~ t.committed /\ t.committed \in BOOLEAN
      BY <1>1, <2>1, <2>4, TurnFields DEF Approved
    <3> QED BY <2>1, <2>4, <3>1, QuietIsApproved
  <2> QED BY <2>1, <2>4, <2>6, <2>7 DEF GuardInv, Guarding
<1>6. CASE ProviderFails
  BY <1>6, FailingKeeps DEF ProviderFails, ActiveStages
<1>7. CASE Block
  BY <1>7, FailingKeeps DEF Block, ActiveStages
<1>8. CASE CommitFails
  BY <1>8, FailingKeeps DEF CommitFails, ActiveStages
<1>9. CASE AbortSession
  <2> DEFINE t == Aborted(turn)
  <2>1. t \in Turn /\ TurnIsSound(t) /\ t.stage = turn.stage /\ t.session = turn.session
    BY <1>1, AbortedIsSound
  <2>2. turn' = t /\ UNCHANGED <<guards, reply>>
    BY <1>9 DEF AbortSession
  <2>3. Approved(turn, reply.sent) => Approved(t, reply.sent)
    BY <1>1, AbortedIsApproved
  <2> HIDE DEF t
  <2>4. CASE turn.stage # "closed"
    <3>1. ChatInv' /\ Served
      BY <2>1, <2>2, <2>4, StayKeeps
    <3> QED BY <2>2, <2>3, <3>1 DEF GuardInv, Guarding
  <2>5. CASE turn.stage = "closed"
    <3>1. turn' = turn /\ reply' = reply
      BY <2>2, <2>5 DEF t, Aborted
    <3>2. ChatInv'
      BY <3>1 DEF ReplyIsSound, OneTerminalEvent
    <3>3. Served
      BY <1>1, <3>1 DEF Served
    <3> QED BY <2>2, <3>1, <3>2, <3>3 DEF GuardInv, Guarding
  <2> QED BY <2>4, <2>5
<1>10. CASE Approve
  <2>1. /\ turn.stage = "guarding" /\ turn.stage # "closed" /\ UNCHANGED <<guards, reply>>
        /\ turn.stage \notin {"closed", "releasing"}
    BY <1>10 DEF Approve
  <2>2. /\ turn.content \in Seq(ContentEvents) /\ turn.answer \in Text /\ <<>> \in Seq(ContentEvents)
        /\ turn.queue \in Seq(ContentEvents)
    <3>1. turn.content \in Seq(ContentEvents) /\ turn.answer \in Text
      BY <1>1, TurnFields
    <3>2. <<>> \in Seq(ContentEvents)
      OBVIOUS
    <3>3. turn.queue \in Seq(ContentEvents)
      BY <1>1, <2>1 DEF TurnIsSound
    <3> QED BY <3>1, <3>2, <3>3
  <2>3. CASE ~ Guarding
    <3> DEFINE t == [turn EXCEPT !.stage = "committing", !.content = <<>>]
    <3>1. /\ t \in Turn /\ t.stage = "committing" /\ t.session = turn.session
          /\ t.queue = turn.queue /\ turn' = t
      BY <1>1, <1>10, <2>2, <2>3 DEF Approve, Turn, ActiveStages
    <3> HIDE DEF t, ChatInv
    <3>2. TurnIsSound(t) /\ t.stage # "closed"
      BY <1>1, <2>1, <3>1 DEF TurnIsSound, ActiveStages
    <3>3. ChatInv' /\ Served
      BY <2>1, <3>1, <3>2, StayKeeps
    <3> QED BY <2>1, <2>3, <3>3 DEF GuardInv, Guarding
  <2>4. CASE Guarding
    <3>1. /\ Source("unsafe") \notin ToSet(turn.content)
          /\ \E answer \in Guarded(turn.answer) : \E text \in GuardedDeltas(answer) :
                turn' = [turn EXCEPT !.stage = "committing", !.content = <<>>,
                                     !.answer = answer, !.queue = Released(text)]
      BY <1>10, <2>4 DEF Approve
    <3>2a. PICK answer \in Guarded(turn.answer) : \E text \in GuardedDeltas(answer) :
             turn' = [turn EXCEPT !.stage = "committing", !.content = <<>>,
                                  !.answer = answer, !.queue = Released(text)]
      BY <3>1
    <3>2. PICK text \in GuardedDeltas(answer) :
             turn' = [turn EXCEPT !.stage = "committing", !.content = <<>>,
                                  !.answer = answer, !.queue = Released(text)]
      BY <3>2a
    <3>3. guards \in {"default", "injected"}
      BY <2>4 DEF GuardInv, Guarding
    <3>4. answer \in Text /\ ~ HasCredential(answer) /\ ~ HasLeak(answer)
      BY <2>2, <3>3, GuardedIsClean
    <3>5. text \in Text /\ ~ HasCredential(text) /\ ~ HasLeak(text)
      <4>1. CASE TextOf(turn.content) = turn.answer
        BY <3>4, <4>1 DEF GuardedDeltas
      <4>2. CASE TextOf(turn.content) # turn.answer
        <5>1. text \in Guarded(TextOf(turn.content))
          BY <4>2 DEF GuardedDeltas
        <5>2. turn.content \in Seq(Events)
          BY <2>2 DEF Events
        <5>3. TextOf(turn.content) \in Text
          BY <5>2, TextOfConcat
        <5> QED BY <3>3, <5>1, <5>3, GuardedIsClean
      <4> QED BY <4>1, <4>2
    <3> DEFINE queue == Released(text)
    <3>6. /\ queue \in Seq(ContentEvents)
          /\ \A i \in DOMAIN queue :
                IsSource(queue[i]) => \E j \in DOMAIN turn.content : turn.content[j] = queue[i]
          /\ TextOf(queue) \in {text, <<>>}
      BY <2>2, <3>5, ReleasedIsContent
    <3> HIDE DEF queue
    <3>7. queue \in Seq(Events) /\ queue \in Seq(ContentEvents \cup CompletedEvents)
      BY <3>6 DEF Events
    <3>8. ~ HasCredential(TextOf(queue)) /\ ~ HasLeak(TextOf(queue))
      BY <3>5, <3>6, NoText
    <3>9. ASSUME NEW i \in DOMAIN queue PROVE Clean(queue[i])
      <4>1. queue[i] \in ContentEvents
        BY <3>6
      <4>2. CASE IsSource(queue[i])
        <5>1. PICK j \in DOMAIN turn.content : turn.content[j] = queue[i]
          BY <3>6, <4>2
        <5>2. queue[i] # Source("unsafe")
          BY <3>1, <5>1 DEF ToSet
        <5>3. queue[i].source = "clean" /\ ~ IsText(queue[i])
          BY <4>1, <4>2, <5>2 DEF ContentEvents, IsSource, Source, IsText
        <5> QED BY <5>3 DEF Clean
      <4>3. CASE ~ IsSource(queue[i])
        <5>1. IsDelta(queue[i])
          BY <4>1, <4>3 DEF ContentEvents, IsSource, IsDelta
        <5>2. ~ HasLeak(queue[i].text) /\ ~ HasCredential(queue[i].text)
          BY <3>7, <3>8, <5>1, TextOfEach
        <5> QED BY <4>3, <5>2 DEF Clean
      <4> QED BY <4>2, <4>3
    <3> DEFINE t == [turn EXCEPT !.stage = "committing", !.content = <<>>,
                                 !.answer = answer, !.queue = queue]
    <3>10. turn' = t
      BY <3>2 DEF queue
    <3>11. /\ t \in Turn /\ t.stage = "committing" /\ t.session = turn.session
           /\ t.queue = queue /\ t.answer = answer /\ t.committed = turn.committed
      BY <1>1, <2>2, <3>4, <3>7 DEF Turn, ActiveStages
    <3> HIDE DEF t, ChatInv
    <3>12. TurnIsSound(t) /\ t.stage # "closed"
      BY <1>1, <2>1, <3>6, <3>11 DEF TurnIsSound, ActiveStages
    <3>13. ChatInv' /\ Served
      BY <2>1, <3>10, <3>11, <3>12, StayKeeps
    <3>14. Approved(turn, reply.sent)
      BY <2>4 DEF GuardInv
    <3>15. Approved(t, reply.sent)
      BY <2>1, <3>4, <3>8, <3>9, <3>11, <3>14 DEF Approved
    <3> QED BY <2>1, <3>10, <3>13, <3>15 DEF GuardInv, Guarding
  <2> QED BY <2>3, <2>4
<1>11. CASE Commit
  <2>1. /\ turn.stage = "committing" /\ turn.stage # "closed" /\ guards' = guards
        /\ turn.stage \in ActiveStages
    BY <1>11 DEF Commit, ActiveStages
  <2>2. CASE Throw
    <3>1. /\ ChatInv' /\ turn' = ClosedTurn
          /\ \/ ~ reply.open /\ reply' = reply
             \/ /\ reply.open /\ reply'.open
                /\ reply'.sent = Append(reply.sent, Failed("OTHER"))
      <4> HIDE DEF ChatInv
      <4> QED BY <2>1, <2>2, ThrowKeeps
    <3>2. /\ Failed("OTHER") \in Events /\ Failed("OTHER").type # "turn.completed"
          /\ ~ IsSource(Failed("OTHER")) /\ ~ IsText(Failed("OTHER"))
      BY DEF Failed, Events, FailedEvents, IsSource, IsText
    <3> HIDE DEF ChatInv
    <3>3. Served
      BY <2>1, <3>1, <3>2, OutcomeOfWrite
    <3>4. Approved(turn, reply.sent) => Approved(turn', reply'.sent)
      <4>1. ClosedTurn.stage # "releasing"
        BY DEF ClosedTurn
      <4> QED BY <1>1, <3>1, <3>2, <4>1, ClosedIsApproved, EmptyIsApproved
    <3> QED BY <2>1, <3>1, <3>3, <3>4 DEF GuardInv, Guarding
  <2>3. CASE /\ turn' = [turn EXCEPT !.stage = "releasing", !.committed = TRUE, !.answer = <<>>,
                                     !.queue = Append(@, Completed(turn.session, turn.answer))]
             /\ UNCHANGED reply
    <3> DEFINE last == Completed(turn.session, turn.answer)
               queue == Append(turn.queue, last)
               n == Len(turn.queue)
    <3>1. turn.session \in Sessions /\ turn.answer \in Text /\ turn.queue \in Seq(ContentEvents)
      BY <1>1, <2>1, TurnFields DEF TurnIsSound
    <3>2. last \in CompletedEvents /\ last.session = turn.session
      BY <3>1 DEF Completed, CompletedEvents
    <3> HIDE DEF last
    <3>3. /\ queue \in Seq(ContentEvents \cup CompletedEvents) /\ queue # <<>>
          /\ n \in Nat /\ Len(queue) = n + 1 /\ queue[n + 1] = last
          /\ \A i \in 1 .. n : queue[i] \in ContentEvents
      BY <3>1, <3>2
    <3> HIDE DEF queue, n
    <3> DEFINE t == [turn EXCEPT !.stage = "releasing", !.committed = TRUE, !.answer = <<>>,
                                 !.queue = queue]
    <3>4. /\ t \in Turn /\ t.stage = "releasing" /\ t.session = turn.session
          /\ t.queue = queue /\ t.committed = TRUE
      <4>1. <<>> \in Text
        BY DEF Text
      <4> QED BY <1>1, <3>3, <4>1 DEF Turn, ActiveStages
    <3>5. turn' = t
      BY <2>3 DEF queue, last
    <3> HIDE DEF t, ChatInv
    <3>6. TurnIsSound(t) /\ t.stage # "closed"
      <4>1. \A i \in 1 .. Len(queue) - 1 : queue[i] \in ContentEvents
        BY <3>3
      <4>2. queue[Len(queue)] = last
        BY <3>3
      <4> QED BY <3>1, <3>2, <3>3, <3>4, <4>1, <4>2 DEF TurnIsSound
    <3>7. ChatInv' /\ Served
      BY <2>1, <2>3, <3>4, <3>5, <3>6, StayKeeps
    <3>8. Approved(turn, reply.sent) => Approved(t, reply.sent)
      BY <1>1, <2>1, <3>1, <3>4, CommitIsApproved DEF queue, last
    <3> QED BY <2>1, <2>3, <3>5, <3>7, <3>8 DEF GuardInv, Guarding
  <2> QED BY <1>11, <2>2, <2>3 DEF Commit
<1>12. CASE Release
  <2> DEFINE queue == turn.queue
             event == Head(queue)
             rest == Tail(queue)
             t == [turn EXCEPT !.queue = rest]
             n == Len(queue)
  <2>1. /\ turn.stage = "releasing" /\ turn.stage # "closed" /\ guards' = guards
        /\ Write(t, event)
    BY <1>12 DEF Release
  <2>2. /\ queue \in Seq(ContentEvents \cup CompletedEvents) /\ queue # <<>>
        /\ \A i \in 1 .. n - 1 : queue[i] \in ContentEvents
        /\ queue[n] \in CompletedEvents /\ queue[n].session = turn.session
        /\ turn.session \in Sessions
    BY <1>1, <2>1, TurnFields DEF TurnIsSound, ActiveStages
  <2> HIDE DEF queue
  <2>3. /\ n \in Nat /\ n >= 1 /\ event = queue[1] /\ event \in ContentEvents \cup CompletedEvents
        /\ rest \in Seq(ContentEvents \cup CompletedEvents) /\ Len(rest) = n - 1
        /\ \A i \in 1 .. n - 1 : rest[i] = queue[i + 1]
    BY <2>2
  <2> HIDE DEF rest, event, n
  <2>4. /\ t \in Turn /\ t.stage = "releasing" /\ t.session = turn.session
        /\ t.queue = rest /\ t.committed = turn.committed
    BY <1>1, <2>1, <2>3 DEF Turn
  <2> HIDE DEF t, ChatInv
  <2>5. event \in Events /\ event # Started
    BY <2>3 DEF Events, ContentEvents, CompletedEvents, Started
  <2>6. Approved(turn, reply.sent) =>
           /\ Approved(t, Append(reply.sent, event))
           /\ Approved(ClosedTurn, reply.sent)
           /\ Approved(ClosedTurn, Append(reply.sent, event))
           /\ Approved(ClosedTurn, Append(reply.sent, Failed("OTHER")))
    <3> SUFFICES ASSUME Approved(turn, reply.sent)
                 PROVE  /\ Approved(t, Append(reply.sent, event))
                        /\ Approved(ClosedTurn, reply.sent)
                        /\ Approved(ClosedTurn, Append(reply.sent, event))
                        /\ Approved(ClosedTurn, Append(reply.sent, Failed("OTHER")))
      OBVIOUS
    <3>1. t.committed = TRUE
      BY <1>1, <2>1, <2>4, TurnFields DEF Approved
    <3>2. Approved(t, Append(reply.sent, event))
      BY <1>1, <2>1, <2>2, <2>4, <3>1, ReleaseIsApproved DEF queue, event, rest
    <3>3. Approved(ClosedTurn, reply.sent) /\ Approved(ClosedTurn, Append(reply.sent, event))
      BY <3>2, ClosedIsApproved
    <3>4. /\ Failed("OTHER") \in Events /\ ~ IsSource(Failed("OTHER")) /\ ~ IsText(Failed("OTHER"))
          /\ ClosedTurn.stage # "releasing"
      BY DEF Failed, Events, FailedEvents, IsSource, IsText, ClosedTurn
    <3> QED BY <1>1, <3>2, <3>3, <3>4, EmptyIsApproved
  <2>7. CASE event \in CompletedEvents
    <3>1. Terminal(event) /\ event.type = "turn.completed"
      BY <2>7 DEF CompletedEvents, Terminal
    <3>2. event.session = turn.session
      <4>1. n = 1
        <5>1. n - 1 >= 1 => event \in ContentEvents
          BY <2>2, <2>3
        <5>2. event \notin ContentEvents
          BY <2>7 DEF ContentEvents, CompletedEvents
        <5> QED BY <2>3, <5>1, <5>2
      <4> QED BY <2>2, <2>3, <4>1
    <3> DEFINE u == [turn EXCEPT !.stage = "failing", !.code = "OTHER", !.queue = <<>>]
    <3>3. u \in Turn /\ u.stage = "failing" /\ u.session = turn.session /\ u.queue = <<>> /\ u.code = "OTHER"
      <4>1. <<>> \in Seq(ContentEvents \cup CompletedEvents)
        OBVIOUS
      <4> QED BY <1>1, <4>1 DEF Turn, ActiveStages
    <3> HIDE DEF u
    <3>4. u.queue \in Seq(ContentEvents)
      BY <3>3
    <3>5. TurnIsSound(u) /\ u.stage # "closed"
      BY <2>2, <3>3, <3>4 DEF TurnIsSound
    <3>6. Write(u, event)
      BY <2>1, <3>1 DEF Write
    <3>7. /\ ChatInv'
          /\ turn' \in {u, ClosedTurn}
          /\ \/ /\ ~ reply.open
                /\ turn' = ClosedTurn /\ reply' = reply
             \/ /\ reply.open /\ reply'.open
                /\ turn' = (IF Terminal(event) THEN ClosedTurn ELSE u)
                /\ reply'.sent = Append(reply.sent, event)
             \/ /\ reply.open /\ reply'.open
                /\ turn' = ClosedTurn /\ reply'.sent = Append(reply.sent, Failed("OTHER"))
      BY <2>1, <2>5, <3>3, <3>5, <3>6, WriteKeeps
    <3>8. Served
      BY <2>1, <2>5, <3>2, <3>3, <3>7, OutcomeOfWrite
    <3>9. turn' = ClosedTurn
      BY <3>1, <3>7
    <3>10. Approved(turn, reply.sent) => Approved(turn', reply'.sent)
      BY <2>6, <3>7, <3>9
    <3> QED BY <2>1, <3>7, <3>8, <3>10 DEF GuardInv, Guarding
  <2>8. CASE event \in ContentEvents
    <3>1. ~ Terminal(event) /\ event.type # "turn.completed"
      BY <2>8 DEF ContentEvents, Terminal
    <3>2. n >= 2
      <4>1. queue[n] \notin ContentEvents
        BY <2>2 DEF ContentEvents, CompletedEvents
      <4>2. n # 1
        BY <2>3, <2>8, <4>1
      <4> QED BY <2>3, <4>2
    <3>3. /\ rest # <<>> /\ rest[Len(rest)] = queue[n]
          /\ \A i \in 1 .. Len(rest) - 1 : rest[i] \in ContentEvents
      <4>1. Len(rest) = n - 1 /\ n - 1 \in 1 .. n - 1 /\ (n - 1) + 1 = n
        BY <2>3, <3>2
      <4>2. rest # <<>>
        BY <3>2, <4>1
      <4>3. rest[n - 1] = queue[(n - 1) + 1]
        BY <2>3, <4>1
      <4>4. ASSUME NEW i \in 1 .. Len(rest) - 1 PROVE rest[i] \in ContentEvents
        <5>1. i \in 1 .. n - 1 /\ i + 1 \in 1 .. n - 1
          BY <2>3, <4>1
        <5> QED BY <2>2, <2>3, <5>1
      <4> QED BY <4>1, <4>2, <4>3, <4>4
    <3>4. TurnIsSound(t) /\ t.stage # "closed"
      BY <2>2, <2>4, <3>3 DEF TurnIsSound
    <3>5. /\ ChatInv'
          /\ turn' \in {t, ClosedTurn}
          /\ \/ /\ ~ reply.open
                /\ turn' = ClosedTurn /\ reply' = reply
             \/ /\ reply.open /\ reply'.open
                /\ turn' = (IF Terminal(event) THEN ClosedTurn ELSE t)
                /\ reply'.sent = Append(reply.sent, event)
             \/ /\ reply.open /\ reply'.open
                /\ turn' = ClosedTurn /\ reply'.sent = Append(reply.sent, Failed("OTHER"))
      BY <2>1, <2>4, <2>5, <3>4, WriteKeeps
    <3>6. Served
      BY <2>1, <2>4, <2>5, <3>1, <3>5, OutcomeOfWrite
    <3>7. Approved(turn, reply.sent) => Approved(turn', reply'.sent)
      BY <2>6, <3>1, <3>5
    <3> QED BY <2>1, <3>5, <3>6, <3>7 DEF GuardInv, Guarding
  <2> QED BY <2>3, <2>7, <2>8
<1>13. CASE Fail
  <2>1. /\ turn.stage = "failing" /\ turn.stage # "closed" /\ guards' = guards
        /\ turn.stage \notin {"closed", "releasing"} /\ turn.stage \notin {"closed", "releasing", "committing"}
        /\ Write(turn, Failed(turn.code)) \/ Throw
    BY <1>13 DEF Fail
  <2> DEFINE event == Failed(turn.code)
  <2>2. /\ event \in Events /\ event # Started /\ event.type # "turn.completed"
        /\ ~ IsSource(event) /\ ~ IsText(event)
    <3>1. turn.code \in {"SESSION_NOT_FOUND", "OTHER"}
      BY <1>1, <2>1 DEF TurnIsSound, Turn
    <3> QED BY <3>1 DEF Failed, FailedEvents, Events, Started, IsSource, IsText
  <2>3. Write(turn, event) \/ Throw
    BY <2>1
  <2> HIDE DEF event, ChatInv
  <2>4. /\ ChatInv'
        /\ turn' \in {turn, ClosedTurn}
        /\ \/ ~ reply.open /\ reply' = reply
           \/ /\ reply.open /\ reply'.open
              /\ reply'.sent = Append(reply.sent, event)
           \/ /\ reply.open /\ reply'.open
              /\ reply'.sent = Append(reply.sent, Failed("OTHER"))
    <3>1. CASE Write(turn, event)
      BY <1>1, <2>1, <2>2, <3>1, WriteKeeps
    <3>2. CASE Throw
      BY <2>1, <3>2, ThrowKeeps
    <3> QED BY <2>3, <3>1, <3>2
  <2>5. Served
    BY <2>1, <2>2, <2>4, OutcomeOfWrite
  <2>6. Approved(turn, reply.sent) => turn.committed = FALSE
    BY <1>1, <2>1, TurnFields DEF Approved
  <2>7. Approved(turn, reply.sent) => Approved(turn', reply'.sent)
    BY <2>1, <2>2, <2>4, <2>6, WriteIsApproved
  <2> QED BY <2>1, <2>4, <2>5, <2>7 DEF GuardInv, Guarding
<1> HIDE DEF ChatInv
<1> QED BY <1>2, <1>3, <1>4, <1>5, <1>6, <1>7, <1>8, <1>9, <1>10, <1>11, <1>12, <1>13 DEF Proceed

-----------------------------------------------------------------------------
(* The cache                                                               *)

(* One cache has all the conversations and tokens of another.              *)
Keeps(new, old) ==
    \A s \in Known(old) : s \in Known(new) /\ (old.saved[s].token => new.saved[s].token)

(* What a cache is made of.                                                *)
LEMMA CacheParts ==
    ASSUME NEW c
    PROVE  CacheIsSound(c) <=>
              /\ c = [active |-> c.active, saved |-> c.saved]
              /\ c.active \in Known(c) \cup {None}
              /\ Known(c) \subseteq Sessions
              /\ c.saved \in [Known(c) -> Conversation]
              /\ \A s \in Known(c) : c.saved[s].messages \subseteq {s}
<1> DEFINE Saved0 == UNION {[K -> Conversation] : K \in SUBSET Sessions}
<1>1. ASSUME CacheIsSound(c)
      PROVE  /\ c = [active |-> c.active, saved |-> c.saved]
             /\ c.active \in Known(c) \cup {None}
             /\ Known(c) \subseteq Sessions
             /\ c.saved \in [Known(c) -> Conversation]
             /\ \A s \in Known(c) : c.saved[s].messages \subseteq {s}
  <2>1. /\ c \in [active : Sessions \cup {None}, saved : Saved0]
        /\ c.active # None => c.active \in Known(c)
        /\ \A s \in Known(c) : c.saved[s].messages \subseteq {s}
    BY <1>1 DEF CacheIsSound, Cache
  <2>2. c = [active |-> c.active, saved |-> c.saved] /\ c.saved \in Saved0
    <3> HIDE DEF Saved0
    <3> QED BY <2>1
  <2>3. PICK K \in SUBSET Sessions : c.saved \in [K -> Conversation]
    BY <2>2
  <2>4. Known(c) = K
    BY <2>3 DEF Known
  <2> QED BY <2>1, <2>2, <2>3, <2>4
<1>2. ASSUME /\ c = [active |-> c.active, saved |-> c.saved]
             /\ c.active \in Known(c) \cup {None}
             /\ Known(c) \subseteq Sessions
             /\ c.saved \in [Known(c) -> Conversation]
             /\ \A s \in Known(c) : c.saved[s].messages \subseteq {s}
      PROVE  CacheIsSound(c)
  <2>1. c.saved \in Saved0
    BY <1>2
  <2>2. c.active \in Sessions \cup {None} /\ (c.active # None => c.active \in Known(c))
    BY <1>2
  <2>3. c \in [active : Sessions \cup {None}, saved : Saved0]
    <3> HIDE DEF Saved0
    <3> QED BY <1>2, <2>1, <2>2
  <2>4. c \in Cache
    BY <2>2, <2>3 DEF Cache
  <2> QED BY <1>2, <2>4 DEF CacheIsSound
<1> QED BY <1>1, <1>2

(* A conversation that is saved is added, or takes the place of its own,   *)
(* and never loses its token.                                              *)
LEMMA UpsertIsSound ==
    ASSUME CacheIsSound(cache), NEW session \in Sessions, NEW messages \in SUBSET {session},
           NEW token \in BOOLEAN
    PROVE  /\ CacheIsSound(Upsert(session, messages, token))
           /\ Keeps(Upsert(session, messages, token), cache)
           /\ Upsert(session, messages, token).active = session
<1> DEFINE c == Upsert(session, messages, token)
           K == Known(cache) \cup {session}
           entry == [messages |-> messages, token |-> token \/ HasToken(cache, session)]
<1>1. /\ Known(cache) \subseteq Sessions
      /\ \A s \in Known(cache) : /\ cache.saved[s] \in Conversation
                                 /\ cache.saved[s].messages \subseteq {s}
  BY CacheParts
<1>2. entry \in Conversation /\ entry.messages = messages
      /\ (session \in Known(cache) /\ cache.saved[session].token => entry.token)
  BY <1>1 DEF Conversation, HasToken
<1> HIDE DEF entry
<1>3. c = [active |-> session, saved |-> [s \in K |-> IF s = session THEN entry ELSE cache.saved[s]]]
  BY DEF Upsert, entry
<1> HIDE DEF c
<1>4. /\ c.active = session /\ Known(c) = K /\ c = [active |-> c.active, saved |-> c.saved]
      /\ \A s \in K : c.saved[s] = IF s = session THEN entry ELSE cache.saved[s]
      /\ c.saved = [s \in K |-> c.saved[s]]
  BY <1>3 DEF Known
<1>5. \A s \in K : c.saved[s] \in Conversation /\ c.saved[s].messages \subseteq {s}
  BY <1>1, <1>2, <1>4
<1>6. CacheIsSound(c)
  <2>1. c.saved \in [Known(c) -> Conversation]
    BY <1>4, <1>5
  <2> QED BY <1>1, <1>4, <1>5, <2>1, CacheParts
<1>7. Keeps(c, cache)
  BY <1>2, <1>4 DEF Keeps
<1> QED BY <1>4, <1>6, <1>7 DEF c

(* Another conversation is the active one.                                 *)
LEMMA ActivateIsSound ==
    ASSUME CacheIsSound(cache), NEW session \in Known(cache) \cup {None}
    PROVE  /\ CacheIsSound(Activate(session)) /\ Keeps(Activate(session), cache)
           /\ Activate(session).active = session
<1> DEFINE c == Activate(session)
<1>1. cache = [active |-> cache.active, saved |-> cache.saved]
  BY CacheParts
<1>2. /\ c.active = session /\ c.saved = cache.saved /\ c = [active |-> c.active, saved |-> c.saved]
      /\ Known(c) = Known(cache)
  BY <1>1 DEF Activate, Known
<1> HIDE DEF c
<1>3. CacheIsSound(c)
  BY <1>2, CacheParts
<1>4. Keeps(c, cache)
  BY <1>2 DEF Keeps
<1> QED BY <1>2, <1>3, <1>4 DEF c

(* The cache changes, and the storage perhaps with it: what it holds is    *)
(* kept.                                                                   *)
LEMMA ApplyKeeps ==
    ASSUME CacheIsSound(cache), CacheIsSound(disk), DiskIsBehind, saving' = saving,
           NEW c, CacheIsSound(c), Keeps(c, cache), ApplyCache(c)
    PROVE  /\ cache' = c /\ CacheIsSound(cache') /\ CacheIsSound(disk') /\ DiskIsBehind'
           /\ Keeps(disk', disk)
<1>1. cache' = c /\ (disk' = disk \/ (saving /\ disk' = c))
  BY DEF ApplyCache, Saved
<1>2. saving => Keeps(cache, disk)
  BY DEF DiskIsBehind, Keeps
<1>3. \A x : Keeps(x, x)
  BY DEF Keeps
<1>4. saving => Keeps(c, disk)
  BY <1>2 DEF Keeps
<1>5. Keeps(disk', disk)
  BY <1>1, <1>3, <1>4
<1>6. saving' => Keeps(cache', disk')
  BY <1>1, <1>3, <1>4
<1>7. DiskIsBehind'
  BY <1>6 DEF DiskIsBehind, Keeps
<1> QED BY <1>1, <1>5, <1>7

(* The same for a conversation that is saved, or cannot be.                *)
LEMMA PersistKeeps ==
    ASSUME CacheIsSound(cache), CacheIsSound(disk), DiskIsBehind, saving' = saving,
           NEW session \in Sessions, NEW messages \in SUBSET {session}, NEW token \in BOOLEAN,
           Persist(session, messages, token)
    PROVE  /\ CacheIsSound(cache') /\ CacheIsSound(disk') /\ DiskIsBehind'
           /\ Keeps(disk', disk)
           /\ cache'.active \in {session, cache.active}
<1> DEFINE c == Upsert(session, messages, token)
<1>1. CacheIsSound(c) /\ Keeps(c, cache) /\ c.active = session
  BY UpsertIsSound
<1>2. ApplyCache(c) \/ UNCHANGED <<cache, disk>>
  BY DEF Persist
<1> HIDE DEF c
<1>3. CASE ApplyCache(c)
  BY <1>1, <1>3, ApplyKeeps
<1>4. CASE UNCHANGED <<cache, disk>>
  <2>1. DiskIsBehind' /\ Keeps(disk', disk)
    BY <1>4 DEF DiskIsBehind, Keeps, Known
  <2> QED BY <1>4, <2>1
<1> QED BY <1>2, <1>3, <1>4

-----------------------------------------------------------------------------
(* The steps of the client                                                 *)

(* A request is over: so is its turn, unless it runs on without a reader.  *)
LEMMA EndKeeps ==
    ASSUME ChatInv, GuardInv, EndRequest
    PROVE  ChatInv' /\ GuardInv' /\ request' = NoRequest /\ reply' = NoReply /\ stored' = stored
<1>1. turn \in Turn /\ TurnIsSound(turn) /\ turn' = Hangup /\ reply' = NoReply
      /\ guards' = guards /\ stored' = stored /\ request' = NoRequest
  BY DEF ChatInv, EndRequest
<1>2. turn' \in Turn /\ TurnIsSound(turn') /\ turn'.stage # "releasing"
  <2>1. CASE turn.stage = "releasing"
    BY <1>1, <2>1, ClosedIsSound DEF Hangup, ClosedTurn
  <2>2. CASE turn.stage # "releasing"
    BY <1>1, <2>2, AbortedIsSound DEF Hangup
  <2> QED BY <2>1, <2>2
<1>3. /\ NoReply \in Reply /\ NoReply.sent = <<>> /\ NoReply.open = FALSE /\ NoReply.ended = FALSE
      /\ DOMAIN NoReply.sent = {}
  <2>1. <<>> \in Seq(Events)
    OBVIOUS
  <2> QED BY <2>1 DEF NoReply, Reply
<1>4. ChatInv'
  BY <1>1, <1>2, <1>3 DEF ChatInv, ReplyIsSound, OneTerminalEvent
<1>5. Approved(turn, reply.sent) => Approved(turn', <<>>)
  <2> SUFFICES ASSUME Approved(turn, reply.sent) PROVE Approved(turn', <<>>)
    OBVIOUS
  <2>1. Approved(turn', reply.sent)
    <3>1. CASE turn.stage = "releasing"
      BY <1>1, <3>1, ClosedIsApproved DEF Hangup
    <3>2. CASE turn.stage # "releasing"
      BY <1>1, <3>2, AbortedIsApproved DEF Hangup
    <3> QED BY <3>1, <3>2
  <2> DEFINE none == <<>>
  <2>2. DOMAIN none = {} /\ ~ HasCredential(TextOf(none))
    BY NoText
  <2> HIDE DEF none
  <2>3. Approved(turn', none)
    BY <1>2, <2>1, <2>2 DEF Approved
  <2> QED BY <2>3 DEF none
<1> QED BY <1>1, <1>3, <1>4, <1>5 DEF GuardInv, Guarding

(* A request begins.                                                       *)
LEMMA OpenKeeps ==
    ASSUME ChatInv, GuardInv, guards' = guards, NEW s \in Sessions, Open(s)
    PROVE  /\ ChatInv' /\ GuardInv'
           /\ reply'.open = TRUE /\ reply'.sent = <<Started>>
           /\ turn'.session = s
<1>1. /\ turn' \in Turn /\ turn'.stage = "preparing" /\ turn'.session = s /\ turn'.queue = <<>>
      /\ turn'.committed = FALSE
  BY ClosedIsSound DEF Open, ClosedTurn, Turn, ActiveStages
<1>2. turn'.queue \in Seq(ContentEvents)
  BY <1>1
<1>3. TurnIsSound(turn')
  BY <1>1, <1>2 DEF TurnIsSound
<1>4. Started \in Events /\ ~ Terminal(Started) /\ ~ IsSource(Started) /\ ~ IsText(Started)
  BY DEF Started, Events, Terminal, IsSource, IsText
<1> DEFINE one == <<Started>>
<1>5. /\ one \in Seq(Events) /\ Len(one) = 1 /\ DOMAIN one = {1} /\ one[1] = Started /\ one # <<>>
  BY <1>4
<1>6. reply' = [sent |-> one, open |-> TRUE, ended |-> FALSE]
  BY DEF Open
<1> HIDE DEF one
<1>7. reply' \in Reply /\ reply'.sent = one /\ reply'.open = TRUE /\ reply'.ended = FALSE
  BY <1>5, <1>6 DEF Reply
<1>8. OneTerminalEvent'
  <2>1. \A i \in DOMAIN one : (one[i] = Started <=> i = 1) /\ (Terminal(one[i]) => i = Len(one))
    BY <1>4, <1>5
  <2>2. ~ Terminal(one[Len(one)])
    BY <1>4, <1>5
  <2> QED BY <1>5, <1>7, <2>1, <2>2 DEF OneTerminalEvent, Last, Terminal, Started
<1>9. ChatInv'
  BY <1>1, <1>3, <1>5, <1>7, <1>8 DEF ChatInv, ReplyIsSound
<1>10. Approved(turn', one)
  <2>1. \A i \in DOMAIN one : ~ IsSource(one[i]) /\ ~ IsText(one[i]) /\ Clean(one[i])
    BY <1>4, <1>5 DEF Clean
  <2>2. TextOf(one) = <<>>
    BY <1>5, <2>1, TextOfNoDelta DEF IsText, IsDelta
  <2> QED BY <1>1, <2>1, <2>2, NoText DEF Approved
<1> QED BY <1>1, <1>7, <1>9, <1>10 DEF GuardInv, Guarding, one

(* Everything together.                                                    *)
DemoInv == ChatInv /\ GuardInv /\ ClientInv

(* The parts of the client's invariant.                                    *)
LEMMA ClientParts ==
    ASSUME DemoInv
    PROVE  /\ stored \subseteq Sessions /\ saving \in BOOLEAN
           /\ screen.session \in Sessions \cup {None}
           /\ screen = [session |-> screen.session, messages |-> screen.messages]
           /\ screen.messages \subseteq {screen.session} /\ screen.messages \subseteq Sessions
           /\ request = [running |-> request.running, session |-> request.session, done |-> request.done]
           /\ request.running \in BOOLEAN /\ request.done \in BOOLEAN
           /\ request.session \in Sessions \cup {None}
           /\ recovery = [state |-> recovery.state, current |-> recovery.current]
           /\ recovery.state \in {"idle", "recovering", "failed"}
           /\ recovery.current \in {None, screen.session}
           /\ cache.active \in {None, screen.session}
           /\ reply.sent \in Seq(Events) /\ reply.open \in BOOLEAN /\ reply.ended \in BOOLEAN
           /\ turn.stage \in ActiveStages \cup {"closed"}
           /\ turn.session \in Sessions \cup {None}
           /\ turn.stage \in ActiveStages => turn.session \in Sessions
           /\ CacheIsSound(cache) /\ CacheIsSound(disk) /\ DiskIsBehind
           /\ request.running <=> reply.open
           /\ request.running =>
                 /\ recovery.current = None
                 /\ request.session \in {None, screen.session}
                 /\ turn.stage \in ActiveStages => request.session \in {None, turn.session}
                 /\ \A i \in DOMAIN reply.sent :
                       reply.sent[i].type = "turn.completed"
                         => request.session \in {None, reply.sent[i].session}
                 /\ ~ request.done => request.session = screen.session
           /\ recovery.state = "idle" => recovery.current = None
<1> USE DEF DemoInv, ClientInv
<1>1. /\ stored \subseteq Sessions /\ saving \in BOOLEAN
      /\ screen.session \in Sessions \cup {None} /\ screen.messages \subseteq Sessions
      /\ screen = [session |-> screen.session, messages |-> screen.messages]
      /\ request = [running |-> request.running, session |-> request.session, done |-> request.done]
      /\ request.running \in BOOLEAN /\ request.done \in BOOLEAN
      /\ request.session \in Sessions \cup {None}
      /\ recovery = [state |-> recovery.state, current |-> recovery.current]
      /\ recovery.state \in {"idle", "recovering", "failed"}
  BY DEF ClientTypes
<1>2. /\ reply.sent \in Seq(Events) /\ reply.open \in BOOLEAN /\ reply.ended \in BOOLEAN
      /\ turn.stage \in ActiveStages \cup {"closed"}
      /\ turn.session \in Sessions \cup {None}
      /\ turn.stage \in ActiveStages => turn.session \in Sessions
  BY DEF ChatInv, Reply, Turn, TurnIsSound
<1>3. /\ screen.messages \subseteq {screen.session}
      /\ recovery.current \in {None, screen.session}
      /\ cache.active \in {None, screen.session}
      /\ request.running => request.session \in {None, screen.session}
  BY DEF ScreenIsOneConversation
<1> QED BY <1>1, <1>2, <1>3 DEF RequestIsSound

(* And together again.                                                     *)
LEMMA ScreenIsSound ==
    ASSUME screen'.messages \subseteq {screen'.session}, CacheIsSound(cache'),
           recovery'.current \in {None, screen'.session},
           cache'.active \in {None, screen'.session},
           request'.running => request'.session \in {None, screen'.session}
    PROVE  ScreenIsOneConversation'
<1>1. \A s \in Known(cache') : cache'.saved[s].messages \subseteq {s}
  BY CacheParts
<1> QED BY <1>1 DEF ScreenIsOneConversation, Known

(* What the client's steps leave alone.                                    *)
LEMMA ChatStays ==
    ASSUME ChatInv, GuardInv, UNCHANGED chatVars
    PROVE  ChatInv' /\ GuardInv'
BY DEF ChatInv, GuardInv, chatVars, ReplyIsSound, OneTerminalEvent, Guarding

(* The cache and the storage, when neither changes.                        *)
LEMMA CacheStays ==
    ASSUME CacheIsSound(cache), CacheIsSound(disk), DiskIsBehind, UNCHANGED <<cache, disk, saving>>
    PROVE  CacheIsSound(cache') /\ CacheIsSound(disk') /\ DiskIsBehind' /\ Keeps(disk', disk)
BY DEF DiskIsBehind, Keeps, Known

(* What the client has after a step.                                       *)
Shows(s, messages, running, session, done, state, current) ==
    /\ guards' \in {"off", "default", "injected"} /\ stored' \subseteq Sessions /\ saving' \in BOOLEAN
    /\ CacheIsSound(cache') /\ CacheIsSound(disk') /\ DiskIsBehind'
    /\ s \in Sessions \cup {None} /\ messages \subseteq Sessions /\ messages \subseteq {s}
    /\ screen' = [session |-> s, messages |-> messages]
    /\ cache'.active \in {None, s}
    /\ running \in BOOLEAN /\ session \in Sessions \cup {None} /\ done \in BOOLEAN
    /\ request' = [running |-> running, session |-> session, done |-> done]
    /\ state \in {"idle", "recovering", "failed"} /\ current \in {None, s}
    /\ recovery' = [state |-> state, current |-> current]
    /\ state = "idle" => current = None
    /\ running <=> reply'.open
    /\ running =>
          /\ current = None
          /\ session \in {None, s}
          /\ turn'.stage \in ActiveStages => session \in {None, turn'.session}
          /\ \A i \in DOMAIN reply'.sent :
                reply'.sent[i].type = "turn.completed"
                  => session \in {None, reply'.sent[i].session}
          /\ ~ done => session = s

(* The client's invariant from its parts.                                  *)
LEMMA ClientIsSound ==
    ASSUME NEW s, NEW messages, NEW running, NEW session, NEW done, NEW state, NEW current,
           Shows(s, messages, running, session, done, state, current)
    PROVE  ClientInv'
<1>1. ClientTypes'
  BY DEF ClientTypes, Shows
<1>2. RequestIsSound'
  BY DEF RequestIsSound, Shows
<1>3. CacheIsSound(cache)' /\ CacheIsSound(disk)' /\ DiskIsBehind'
  BY DEF CacheIsSound, Known, Shows
<1>4. ScreenIsOneConversation'
  BY ScreenIsSound DEF Shows
<1> QED BY <1>1, <1>2, <1>3, <1>4 DEF ClientInv

(* The recovery of a conversation on the screen.                           *)
LEMMA RecoverIsSound ==
    ASSUME NEW s
    PROVE  /\ Recover(s) = [state |-> Recover(s).state, current |-> Recover(s).current]
           /\ Recover(s).state \in {"idle", "recovering", "failed"}
           /\ Recover(s).current \in {None, s}
           /\ Recover(s).state = "idle" => Recover(s).current = None
BY DEF Recover, Idle

(* A step that does nothing, but for an overtaken recovery.                *)
LEMMA DemoStutters ==
    ASSUME DemoInv,
           UNCHANGED chatVars /\ UNCHANGED <<stored, screen, request, recovery, cache, disk, saving>>
    PROVE  DemoInv' /\ Keeps(disk', disk)
<1>1. UNCHANGED chatVars /\ UNCHANGED <<stored, screen, request, recovery, cache, disk, saving>>
  OBVIOUS
<1>2. ChatInv' /\ GuardInv'
  BY <1>1, ChatStays DEF DemoInv
<1>3. guards' = guards /\ turn' = turn /\ reply' = reply
  BY <1>1 DEF chatVars
<1>4. ClientInv'
  BY <1>1, <1>3 DEF DemoInv, ClientInv, ClientTypes, CacheIsSound, Known, RequestIsSound,
                    DiskIsBehind, ScreenIsOneConversation
<1> QED BY <1>1, <1>2, <1>4 DEF DemoInv, Keeps

(* A step of the client.                                                   *)
LEMMA ClientStepKeeps ==
    ASSUME DemoInv, ClientStep
    PROVE  DemoInv' /\ Keeps(disk', disk)
<1>1. /\ stored \subseteq Sessions /\ saving \in BOOLEAN
      /\ screen.session \in Sessions \cup {None}
      /\ screen = [session |-> screen.session, messages |-> screen.messages]
      /\ screen.messages \subseteq {screen.session} /\ screen.messages \subseteq Sessions
      /\ request = [running |-> request.running, session |-> request.session, done |-> request.done]
      /\ request.running \in BOOLEAN /\ request.done \in BOOLEAN
      /\ request.session \in Sessions \cup {None}
      /\ recovery = [state |-> recovery.state, current |-> recovery.current]
      /\ recovery.state \in {"idle", "recovering", "failed"}
      /\ recovery.current \in {None, screen.session}
      /\ recovery.state = "idle" => recovery.current = None
  BY ClientParts
<1>2. /\ CacheIsSound(cache) /\ CacheIsSound(disk) /\ DiskIsBehind
      /\ cache.active \in {None, screen.session}
  BY ClientParts
<1>3. /\ request.running <=> reply.open
      /\ request.running =>
            /\ recovery.current = None
            /\ request.session \in {None, screen.session}
            /\ turn.stage \in ActiveStages => request.session \in {None, turn.session}
            /\ \A i \in DOMAIN reply.sent :
                  reply.sent[i].type = "turn.completed"
                    => request.session \in {None, reply.sent[i].session}
            /\ ~ request.done => request.session = screen.session
  BY ClientParts
<1>4. ChatInv /\ GuardInv /\ guards \in {"off", "default", "injected"}
  BY DEF DemoInv, GuardInv
<1>5. \A s, t : s \in {None, t} /\ None \notin Sessions => (s \in Sessions => s = t)
  OBVIOUS
<1>6. NoRequest = [running |-> FALSE, session |-> None, done |-> FALSE] /\ NoReply.open = FALSE
  BY DEF NoRequest, NoReply
<1>7. CASE Submit
  <2>1. PICK s \in IF screen.session = None THEN Sessions \ stored ELSE {screen.session} : Open(s)
    BY <1>7 DEF Submit
  <2>2. /\ request' = [running |-> TRUE, session |-> screen.session, done |-> FALSE]
        /\ UNCHANGED <<guards, stored, screen, recovery, cache, disk, saving>>
        /\ recovery.state = "idle"
    BY <1>7 DEF Submit
  <2>3. s \in Sessions /\ screen.session \in {None, s}
    BY <1>1, <2>1
  <2>4. /\ ChatInv' /\ GuardInv' /\ reply'.open = TRUE /\ reply'.sent = <<Started>> /\ turn'.session = s
    BY <1>4, <2>1, <2>2, <2>3, OpenKeeps
  <2>5. \A i \in DOMAIN reply'.sent : reply'.sent[i].type # "turn.completed"
    BY <2>4 DEF Started
  <2>6. CacheIsSound(cache') /\ CacheIsSound(disk') /\ DiskIsBehind' /\ Keeps(disk', disk)
    BY <1>2, <2>2, CacheStays
  <2>7. ClientInv'
    <3>a. Shows(screen.session, screen.messages, TRUE, screen.session, FALSE, recovery.state, recovery.current)
      BY <1>1, <1>2, <1>4, <2>2, <2>3, <2>4, <2>5, <2>6 DEF Shows
    <3> QED BY <3>a, ClientIsSound
  <2> QED BY <2>4, <2>6, <2>7 DEF DemoInv
<1>8. CASE ReceiveCompleted
  <2> DEFINE s == Last(reply.sent).session
             messages == screen.messages \cup {s}
  <2>1. /\ request.running /\ reply.open /\ ~ request.done /\ reply.ended
        /\ Last(reply.sent).type = "turn.completed"
        /\ request' = [request EXCEPT !.done = TRUE]
        /\ screen' = [screen EXCEPT !.session = s, !.messages = messages]
        /\ \E token \in BOOLEAN : Persist(s, messages, token)
        /\ UNCHANGED <<chatVars, stored, recovery, saving>>
    BY <1>8 DEF ReceiveCompleted, Receives
  <2>2. s \in Sessions /\ request.session \in {None, s}
    <3>1. reply.sent \in Seq(Events) /\ reply.sent # <<>>
      BY <1>4, <2>1 DEF ChatInv, Reply, ReplyIsSound
    <3>2. Len(reply.sent) \in DOMAIN reply.sent /\ Last(reply.sent) = reply.sent[Len(reply.sent)]
      BY <3>1 DEF Last
    <3>3. Last(reply.sent) \in CompletedEvents
      BY <2>1, <3>1, <3>2, EventTypes
    <3> QED BY <1>3, <2>1, <3>2, <3>3 DEF CompletedEvents
  <2> HIDE DEF s
  <2>3. request.session = screen.session /\ recovery.current = None
    BY <1>3, <2>1
  <2>4. messages \subseteq {s} /\ messages \subseteq Sessions
    BY <1>1, <2>2, <2>3, NoneAssumption
  <2> HIDE DEF messages
  <2>5. /\ CacheIsSound(cache') /\ CacheIsSound(disk') /\ DiskIsBehind' /\ Keeps(disk', disk)
        /\ cache'.active \in {s, cache.active}
    BY <1>2, <2>1, <2>2, <2>4, PersistKeeps
  <2>6. /\ screen' = [session |-> s, messages |-> messages]
        /\ request' = [running |-> TRUE, session |-> request.session, done |-> TRUE]
    BY <1>1, <2>1
  <2>7. cache'.active \in {None, s}
    BY <1>2, <2>2, <2>3, <2>5
  <2>8. ChatInv' /\ GuardInv'
    BY <1>4, <2>1, ChatStays
  <2>9. ClientInv'
    <3>1. /\ guards' = guards /\ turn' = turn /\ reply' = reply /\ stored' = stored
          /\ recovery' = recovery /\ saving' = saving
      BY <2>1 DEF chatVars
    <3>a. Shows(s, messages, TRUE, request.session, TRUE, recovery.state, recovery.current)
      BY <1>1, <1>3, <1>4, <2>1, <2>2, <2>3, <2>4, <2>5, <2>6, <2>7, <3>1 DEF Shows
    <3> QED BY <3>a, ClientIsSound
  <2> QED BY <2>5, <2>8, <2>9 DEF DemoInv
<1>9. ASSUME NEW state \in {"idle", "recovering", "failed"}, request.running,
             recovery' = [state |-> state, current |-> recovery.current],
             EndRequest, UNCHANGED <<screen, saving>>,
             CacheIsSound(cache'), CacheIsSound(disk'), DiskIsBehind', Keeps(disk', disk),
             cache'.active \in {None, screen.session}
      PROVE  DemoInv' /\ Keeps(disk', disk)
  <2>1. ChatInv' /\ GuardInv' /\ request' = NoRequest /\ reply' = NoReply /\ stored' = stored
    BY <1>4, <1>9, EndKeeps
  <2>2. guards' \in {"off", "default", "injected"}
    BY <2>1 DEF GuardInv
  <2>3. recovery.current = None
    BY <1>3, <1>9
  <2>4. ClientInv'
    <3>a. Shows(screen.session, screen.messages, FALSE, None, FALSE, state, recovery.current)
      BY <1>1, <1>6, <1>9, <2>1, <2>2, <2>3 DEF Shows
    <3> QED BY <3>a, ClientIsSound
  <2> QED BY <1>9, <2>1, <2>4 DEF DemoInv
<1>10. ASSUME NEW code, request.running, RequestFails(code) PROVE DemoInv' /\ Keeps(disk', disk)
  <2> DEFINE state == IF code = "SESSION_NOT_FOUND" /\ request.session # None
                        THEN "failed" ELSE recovery.state
  <2>1. EndRequest /\ UNCHANGED <<screen, cache, disk, saving>>
    BY <1>10 DEF RequestFails
  <2>2. recovery' = [state |-> state, current |-> recovery.current]
    BY <1>1, <1>10 DEF RequestFails
  <2>3. state \in {"idle", "recovering", "failed"}
    BY <1>1
  <2>4. CacheIsSound(cache') /\ CacheIsSound(disk') /\ DiskIsBehind' /\ Keeps(disk', disk)
    BY <1>2, <2>1, CacheStays
  <2> HIDE DEF state
  <2> QED BY <1>2, <1>9, <1>10, <2>1, <2>2, <2>3, <2>4
<1>11. CASE ReceiveFailed
  BY <1>10, <1>11 DEF ReceiveFailed, Receives
<1>12. CASE ConnectionLost
  BY <1>10, <1>12 DEF ConnectionLost
<1>13. CASE Finish
  <2>1. /\ request.running /\ EndRequest /\ UNCHANGED <<screen, recovery, cache, disk, saving>>
    BY <1>13 DEF Finish
  <2>2. CacheIsSound(cache') /\ CacheIsSound(disk') /\ DiskIsBehind' /\ Keeps(disk', disk)
    BY <1>2, <2>1, CacheStays
  <2> QED BY <1>1, <1>2, <1>9, <2>1, <2>2
<1>14. CASE Stop
  <2>1. /\ request.running /\ EndRequest /\ UNCHANGED <<screen, recovery, saving>>
        /\ \/ request.session = None /\ UNCHANGED <<cache, disk>>
           \/ request.session # None /\ Persist(request.session, screen.messages, FALSE)
    BY <1>14 DEF Stop
  <2>2. CASE UNCHANGED <<cache, disk>>
    <3>1. CacheIsSound(cache') /\ CacheIsSound(disk') /\ DiskIsBehind' /\ Keeps(disk', disk)
      BY <1>2, <2>1, <2>2, CacheStays
    <3> QED BY <1>1, <1>2, <1>9, <2>1, <2>2, <3>1
  <2>3. CASE request.session # None /\ Persist(request.session, screen.messages, FALSE)
    <3>1. request.session \in Sessions /\ request.session = screen.session
      BY <1>1, <1>3, <2>1, <2>3
    <3>2. screen.messages \in SUBSET {request.session}
      BY <1>1, <3>1
    <3>3. /\ CacheIsSound(cache') /\ CacheIsSound(disk') /\ DiskIsBehind' /\ Keeps(disk', disk)
          /\ cache'.active \in {request.session, cache.active}
      BY <1>2, <2>1, <2>3, <3>1, <3>2, PersistKeeps
    <3>4. cache'.active \in {None, screen.session}
      BY <1>2, <3>1, <3>3
    <3> QED BY <1>1, <1>9, <2>1, <3>3, <3>4
  <2> QED BY <2>1, <2>2, <2>3
<1>15. CASE Restored
  <2> DEFINE s == recovery.current
  <2>1. /\ s # None /\ s \in stored /\ screen' = [session |-> s, messages |-> {s}]
        /\ Persist(s, {s}, TRUE) /\ recovery' = Idle
        /\ UNCHANGED <<chatVars, stored, request, saving>>
    BY <1>15 DEF Restored
  <2>2. s \in Sessions /\ s = screen.session /\ ~ request.running
    BY <1>1, <1>3, <2>1
  <2> HIDE DEF s
  <2>3. /\ CacheIsSound(cache') /\ CacheIsSound(disk') /\ DiskIsBehind' /\ Keeps(disk', disk)
        /\ cache'.active \in {s, cache.active}
    BY <1>2, <2>1, <2>2, PersistKeeps
  <2>4. ChatInv' /\ GuardInv'
    BY <1>4, <2>1, ChatStays
  <2>5. ClientInv'
    <3>1. guards' = guards /\ turn' = turn /\ reply' = reply /\ request' = request
      BY <2>1 DEF chatVars
    <3>2. cache'.active \in {None, s}
      BY <1>2, <2>2, <2>3
    <3>3. {s} \in SUBSET Sessions /\ {s} \subseteq {s} /\ recovery' = [state |-> "idle", current |-> None]
      BY <2>1, <2>2 DEF Idle
    <3>a. Shows(s, {s}, request.running, request.session, request.done, "idle", None)
      BY <1>1, <1>3, <1>4, <2>1, <2>2, <2>3, <3>1, <3>2, <3>3 DEF Shows
    <3> QED BY <3>a, ClientIsSound
  <2> QED BY <2>3, <2>4, <2>5 DEF DemoInv
<1>16. CASE NotRestored \/ Timeout
  <2>1. /\ recovery' = [state |-> "failed", current |-> None]
        /\ UNCHANGED <<chatVars, stored, screen, request, cache, disk, saving>>
    BY <1>16 DEF NotRestored, Timeout
  <2>2. CacheIsSound(cache') /\ CacheIsSound(disk') /\ DiskIsBehind' /\ Keeps(disk', disk)
    BY <1>2, <2>1, CacheStays
  <2>3. ChatInv' /\ GuardInv'
    BY <1>4, <2>1, ChatStays
  <2>4. guards' = guards /\ turn' = turn /\ reply' = reply
    BY <2>1 DEF chatVars
  <2>5. ClientInv'
    <3>a. Shows(screen.session, screen.messages, request.running, request.session, request.done, "failed", None)
      BY <1>1, <1>2, <1>3, <1>4, <2>1, <2>2, <2>4 DEF Shows
    <3> QED BY <3>a, ClientIsSound
  <2> QED BY <2>2, <2>3, <2>5 DEF DemoInv
<1>17. CASE New
  <2>1. /\ ~ request.running /\ recovery' = [state |-> "idle", current |-> None]
        /\ screen' = [session |-> None, messages |-> {}]
        /\ ApplyCache(Activate(None)) /\ UNCHANGED <<chatVars, stored, request, saving>>
    BY <1>17 DEF New, Idle
  <2>2. CacheIsSound(Activate(None)) /\ Keeps(Activate(None), cache) /\ Activate(None).active = None
    BY <1>2, ActivateIsSound
  <2>3. /\ cache' = Activate(None) /\ CacheIsSound(cache') /\ CacheIsSound(disk') /\ DiskIsBehind'
        /\ Keeps(disk', disk)
    BY <1>2, <2>1, <2>2, ApplyKeeps
  <2>4. ChatInv' /\ GuardInv'
    BY <1>4, <2>1, ChatStays
  <2>5. guards' = guards /\ turn' = turn /\ reply' = reply
    BY <2>1 DEF chatVars
  <2>6. ClientInv'
    <3>a. Shows(None, {}, request.running, request.session, request.done, "idle", None)
      BY <1>1, <1>3, <1>4, <2>1, <2>2, <2>3, <2>5 DEF Shows
    <3> QED BY <3>a, ClientIsSound
  <2> QED BY <2>3, <2>4, <2>6 DEF DemoInv
<1>18. CASE Select
  <2>1. PICK s \in Known(cache) :
           /\ recovery' = Recover(s)
           /\ screen' = [session |-> s, messages |-> cache.saved[s].messages]
           /\ ApplyCache(Activate(s))
    BY <1>18 DEF Select
  <2>2. ~ request.running /\ UNCHANGED <<chatVars, stored, request, saving>>
    BY <1>18 DEF Select
  <2>3. s \in Sessions /\ cache.saved[s].messages \subseteq {s}
    BY <1>2, CacheParts
  <2>4. CacheIsSound(Activate(s)) /\ Keeps(Activate(s), cache) /\ Activate(s).active = s
    BY <1>2, ActivateIsSound
  <2>5. /\ cache' = Activate(s) /\ CacheIsSound(cache') /\ CacheIsSound(disk') /\ DiskIsBehind'
        /\ Keeps(disk', disk)
    BY <1>2, <2>1, <2>2, <2>4, ApplyKeeps
  <2>6. ChatInv' /\ GuardInv'
    BY <1>4, <2>2, ChatStays
  <2>7. guards' = guards /\ turn' = turn /\ reply' = reply
    BY <2>2 DEF chatVars
  <2>8. ClientInv'
    <3>1. cache.saved[s].messages \in SUBSET Sessions
      BY <2>3
    <3>a. Shows(s, cache.saved[s].messages, request.running, request.session, request.done,
                Recover(s).state, Recover(s).current)
      BY <1>1, <1>3, <1>4, <2>1, <2>2, <2>3, <2>4, <2>5, <2>7, <3>1, RecoverIsSound DEF Shows
    <3> QED BY <3>a, ClientIsSound
  <2> QED BY <2>5, <2>6, <2>8 DEF DemoInv
<1>19. CASE RetryRecovery
  <2>1. /\ ~ request.running /\ recovery' = Recover(screen.session)
        /\ UNCHANGED <<chatVars, stored, screen, request, cache, disk, saving>>
    BY <1>19 DEF RetryRecovery
  <2>2. CacheIsSound(cache') /\ CacheIsSound(disk') /\ DiskIsBehind' /\ Keeps(disk', disk)
    BY <1>2, <2>1, CacheStays
  <2>3. ChatInv' /\ GuardInv'
    BY <1>4, <2>1, ChatStays
  <2>4. guards' = guards /\ turn' = turn /\ reply' = reply
    BY <2>1 DEF chatVars
  <2>5. ClientInv'
    <3>a. Shows(screen.session, screen.messages, request.running, request.session, request.done,
              Recover(screen.session).state,
              Recover(screen.session).current)
      BY <1>1, <1>2, <1>3, <1>4, <2>1, <2>2, <2>4, RecoverIsSound DEF Shows
    <3> QED BY <3>a, ClientIsSound
  <2> QED BY <2>2, <2>3, <2>5 DEF DemoInv
<1>20. CASE Reload
  <2>1. EndRequest /\ disk' = disk /\ (Load(disk, TRUE) \/ Load(EmptyCache, FALSE))
    BY <1>20 DEF Reload
  <2>2. CacheIsSound(EmptyCache)
    <3> DEFINE empty == << >>
    <3>1. DOMAIN empty = {} /\ empty \in [{} -> Conversation]
      OBVIOUS
    <3>2. EmptyCache.active = None /\ EmptyCache.saved = empty
      BY DEF EmptyCache
    <3> HIDE DEF empty
    <3>3. Known(EmptyCache) = {} /\ EmptyCache = [active |-> EmptyCache.active, saved |-> EmptyCache.saved]
      BY <3>1, <3>2 DEF Known, EmptyCache
    <3> QED BY <3>1, <3>2, <3>3, CacheParts
  <2>3. PICK c, readable :
           /\ readable \in BOOLEAN /\ CacheIsSound(c) /\ Load(c, readable)
           /\ readable => c = disk
    BY <1>2, <2>1, <2>2
  <2> DEFINE s == c.active
             messages == IF s = None THEN {} ELSE c.saved[s].messages
             r == IF HasToken(c, s) THEN [state |-> "recovering", current |-> s] ELSE Idle
  <2>4. /\ cache' = c /\ saving' = readable /\ screen' = [session |-> s, messages |-> messages]
        /\ recovery' = r
    BY <2>3 DEF Load
  <2>5. s \in Sessions \cup {None} /\ messages \subseteq {s} /\ messages \subseteq Sessions
    BY <2>3, CacheParts
  <2>6. /\ r = [state |-> r.state, current |-> r.current] /\ r.state \in {"idle", "recovering", "failed"}
        /\ r.current \in {None, s} /\ (r.state = "idle" => r.current = None)
    BY DEF Idle
  <2>7. ChatInv' /\ GuardInv' /\ request' = NoRequest /\ reply' = NoReply /\ stored' = stored
    BY <1>4, <2>1, EndKeeps
  <2>8. guards' \in {"off", "default", "injected"}
    BY <2>7 DEF GuardInv
  <2> HIDE DEF messages, r
  <2>9. DiskIsBehind' /\ Keeps(disk', disk)
    BY <2>1, <2>3, <2>4 DEF DiskIsBehind, Keeps, Known
  <2>10. ClientInv'
    <3>a. Shows(s, messages, FALSE, None, FALSE, r.state, r.current)
      BY <1>1, <1>2, <1>6, <2>1, <2>3, <2>4, <2>5, <2>6, <2>7, <2>8, <2>9 DEF Shows
    <3> QED BY <3>a, ClientIsSound
  <2> QED BY <2>7, <2>9, <2>10 DEF DemoInv
<1>21. CASE LateAnswer
  BY <1>21, DemoStutters DEF LateAnswer
<1> QED BY <1>7, <1>8, <1>11, <1>12, <1>13, <1>14, <1>15, <1>16, <1>17, <1>18, <1>19, <1>20, <1>21
           DEF ClientStep

(* A step of the server leaves the client as it is: what it sends is of    *)
(* the session the request is for.                                         *)
LEMMA ServeKeeps ==
    ASSUME DemoInv, Serve
    PROVE  DemoInv' /\ Keeps(disk', disk)
<1>1. /\ Commit \/ Proceed \/ AbortSession
      /\ stored' = stored \/ (Commit /\ stored' = stored \cup {turn.session})
      /\ UNCHANGED <<screen, request, recovery, cache, disk, saving>>
  BY DEF Serve, clientVars
<1>2. ChatInv' /\ GuardInv' /\ Served
  BY <1>1, ServerStep DEF DemoInv
<1>3. /\ stored \subseteq Sessions /\ saving \in BOOLEAN
      /\ screen.session \in Sessions \cup {None}
      /\ screen = [session |-> screen.session, messages |-> screen.messages]
      /\ screen.messages \subseteq {screen.session} /\ screen.messages \subseteq Sessions
      /\ request = [running |-> request.running, session |-> request.session, done |-> request.done]
      /\ request.running \in BOOLEAN /\ request.done \in BOOLEAN
      /\ request.session \in Sessions \cup {None}
      /\ recovery = [state |-> recovery.state, current |-> recovery.current]
      /\ recovery.state \in {"idle", "recovering", "failed"}
      /\ recovery.current \in {None, screen.session}
      /\ recovery.state = "idle" => recovery.current = None
      /\ turn.stage \in ActiveStages => turn.session \in Sessions
  BY ClientParts
<1>4. /\ CacheIsSound(cache) /\ CacheIsSound(disk) /\ DiskIsBehind
      /\ cache.active \in {None, screen.session}
  BY ClientParts
<1>5. /\ request.running <=> reply.open
      /\ request.running =>
            /\ recovery.current = None
            /\ request.session \in {None, screen.session}
            /\ turn.stage \in ActiveStages => request.session \in {None, turn.session}
            /\ \A i \in DOMAIN reply.sent :
                  reply.sent[i].type = "turn.completed"
                    => request.session \in {None, reply.sent[i].session}
            /\ ~ request.done => request.session = screen.session
  BY ClientParts
<1>6. stored' \subseteq Sessions
  <2>1. Commit => turn.stage \in ActiveStages
    BY DEF Commit, ActiveStages
  <2> QED BY <1>1, <1>3, <2>1
<1>7. CacheIsSound(cache') /\ CacheIsSound(disk') /\ DiskIsBehind' /\ Keeps(disk', disk)
  BY <1>1, <1>4, CacheStays
<1>8. reply'.open = reply.open
  BY <1>2 DEF Served
<1>9. ASSUME request.running
      PROVE  /\ turn'.stage \in ActiveStages => request.session \in {None, turn'.session}
             /\ \A i \in DOMAIN reply'.sent :
                   reply'.sent[i].type = "turn.completed"
                     => request.session \in {None, reply'.sent[i].session}
  <2>1. turn'.stage \in ActiveStages => request.session \in {None, turn'.session}
    BY <1>2, <1>5, <1>9 DEF Served
  <2>2. ASSUME NEW i \in DOMAIN reply'.sent, reply'.sent[i].type = "turn.completed"
        PROVE  request.session \in {None, reply'.sent[i].session}
    <3>1. CASE \E j \in DOMAIN reply.sent : reply.sent[j] = reply'.sent[i]
      BY <1>5, <1>9, <2>2, <3>1
    <3>2. CASE turn.stage \in ActiveStages /\ reply'.sent[i].session = turn.session
      BY <1>5, <1>9, <3>2
    <3> QED BY <1>2, <2>2, <3>1, <3>2 DEF Served
  <2> QED BY <2>1, <2>2
<1>10. guards' \in {"off", "default", "injected"}
  BY <1>2 DEF GuardInv
<1>11. Shows(screen.session, screen.messages, request.running, request.session, request.done,
             recovery.state, recovery.current)
  BY <1>1, <1>3, <1>4, <1>5, <1>6, <1>7, <1>8, <1>9, <1>10 DEF Shows
<1>12. ClientInv'
  BY <1>11, ClientIsSound
<1> QED BY <1>2, <1>7, <1>12 DEF DemoInv

-----------------------------------------------------------------------------
(* The theorems                                                            *)

(* The invariant holds at the start.                                       *)
LEMMA DemoStarts ==
    ASSUME DemoInit
    PROVE  DemoInv
<1>1. /\ guards \in {"off", "default", "injected"} /\ turn = ClosedTurn /\ reply = NoReply
      /\ screen = [session |-> None, messages |-> {}] /\ request = NoRequest /\ recovery = Idle
      /\ saving = TRUE /\ disk = cache
  BY DEF DemoInit, ChatInit
<1>2. PICK known \in SUBSET Sessions, bound \in SUBSET Sessions :
         /\ stored = known
         /\ cache = [active |-> None,
                     saved  |-> [s \in known |-> [messages |-> {s}, token |-> s \in bound]]]
  BY DEF DemoInit
<1>3. CacheIsSound(cache)
  <2>1. /\ Known(cache) = known /\ cache.active = None
        /\ cache = [active |-> cache.active, saved |-> cache.saved]
        /\ cache.saved = [s \in known |-> [messages |-> {s}, token |-> s \in bound]]
    BY <1>2 DEF Known
  <2>2. \A s \in known : cache.saved[s] \in Conversation /\ cache.saved[s].messages \subseteq {s}
    BY <2>1 DEF Conversation
  <2>3. cache.saved \in [known -> Conversation]
    BY <2>1, <2>2
  <2> QED BY <2>1, <2>2, <2>3, CacheParts
<1>4. NoReply \in Reply /\ NoReply.sent = <<>> /\ ~ NoReply.open /\ ~ NoReply.ended /\ DOMAIN NoReply.sent = {}
  <2>1. <<>> \in Seq(Events)
    OBVIOUS
  <2> QED BY <2>1 DEF NoReply, Reply
<1>5. ChatInv
  BY <1>1, <1>4, ClosedIsSound DEF ChatInv, ReplyIsSound, OneTerminalEvent
<1>6. GuardInv
  <2> DEFINE none == <<>>
  <2>1. DOMAIN none = {} /\ ~ HasCredential(TextOf(none)) /\ reply.sent = none
    BY <1>1, <1>4, NoText
  <2> HIDE DEF none
  <2>2. Approved(turn, reply.sent)
    BY <1>1, <2>1 DEF Approved, ClosedTurn
  <2> QED BY <1>1, <2>2 DEF GuardInv
<1>7. DiskIsBehind
  BY <1>1 DEF DiskIsBehind
<1>8. ClientTypes
  BY <1>1, <1>2 DEF ClientTypes, NoRequest, Idle
<1>9. RequestIsSound
  BY <1>1, <1>4 DEF RequestIsSound, NoRequest, Idle
<1>10. ScreenIsOneConversation
  <2>1. cache.active = None
    BY <1>2
  <2>2. \A s \in Known(cache) : cache.saved[s].messages \subseteq {s}
    BY <1>3, CacheParts
  <2> QED BY <1>1, <2>1, <2>2 DEF ScreenIsOneConversation, NoRequest, Idle
<1> QED BY <1>1, <1>3, <1>5, <1>6, <1>7, <1>8, <1>9, <1>10 DEF DemoInv, ClientInv

(* The invariant of stream, guard and client, in every reachable state.    *)
THEOREM DemoInvariant == DemoSpec => []DemoInv
<1>1. DemoInit => DemoInv
  BY DemoStarts
<1>2. DemoInv /\ [DemoNext]_demoVars => DemoInv'
  <2>1. UNCHANGED demoVars =>
          UNCHANGED chatVars /\ UNCHANGED <<stored, screen, request, recovery, cache, disk, saving>>
    BY DEF demoVars, clientVars
  <2> QED BY <2>1, ServeKeeps, ClientStepKeeps, DemoStutters DEF DemoNext
<1> QED BY <1>1, <1>2, PTL DEF DemoSpec

(* A response that was read to its end holds exactly one terminal event,   *)
(* and nothing follows it (streamChat, sendStreamFailure).                 *)
THEOREM ResponsesEndOnce == DemoSpec => []OneTerminalEvent
<1>1. DemoInv => OneTerminalEvent
  BY DEF DemoInv, ChatInv, ReplyIsSound
<1> QED BY <1>1, DemoInvariant, PTL

(* With an output guard nothing of an answer leaves before the whole of it *)
(* was approved and its turn committed, and what leaves then, event by     *)
(* event and all of it together, is nothing the guard objects to           *)
(* (TurnRunner.stream, guardOutputText, guardedDeltaText).                 *)
THEOREM AnswersAreGuarded == DemoSpec => []NothingUnguarded
<1>1. DemoInv => NothingUnguarded
  <2> SUFFICES ASSUME DemoInv, Guarding PROVE NothingUnguarded
    BY DEF NothingUnguarded
  <2>1. Approved(turn, reply.sent)
    BY DEF DemoInv, GuardInv
  <2>2. \A i \in DOMAIN reply.sent : Clean(reply.sent[i])
    BY <2>1 DEF Approved
  <2>3. ~ HasCredential(TextOf(reply.sent))
    BY <2>1 DEF Approved
  <2>4. (\E i \in DOMAIN reply.sent : IsSource(reply.sent[i]) \/ IsText(reply.sent[i]))
           => turn.committed \/ turn.stage = "closed"
    BY <2>1 DEF Approved
  <2> QED BY <2>2, <2>3, <2>4 DEF NothingUnguarded, Clean
<1> QED BY <1>1, DemoInvariant, PTL

(* What is shown, and what is saved under a session, is of one session: a  *)
(* late answer or recovery replaces nothing (recoverySequence).            *)
THEOREM ScreenShowsOneConversation == DemoSpec => []ScreenIsOneConversation
<1>1. DemoInv => ScreenIsOneConversation
  BY DEF DemoInv, ClientInv
<1> QED BY <1>1, DemoInvariant, PTL

(* No step takes a saved conversation, or the token that recovers it, from *)
(* the storage (persistConversation, cachePersistenceEnabled).             *)
THEOREM StorageKeepsConversations == DemoSpec => SavedConversationsStay
<1>1. DemoInv /\ [DemoNext]_demoVars
         => [\A s \in Known(disk) :
               s \in Known(disk') /\ (disk.saved[s].token => disk'.saved[s].token)]_disk
  <2>1. DemoInv /\ DemoNext => Keeps(disk', disk)
    BY ServeKeeps, ClientStepKeeps DEF DemoNext
  <2>2. UNCHANGED demoVars => UNCHANGED disk
    BY DEF demoVars, clientVars
  <2> QED BY <2>1, <2>2 DEF Keeps
<1> QED BY <1>1, DemoInvariant, PTL DEF DemoSpec, SavedConversationsStay

=============================================================================

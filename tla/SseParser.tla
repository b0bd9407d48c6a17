------------------------------ MODULE SseParser ------------------------------
(***************************************************************************)
(* parseDifySseData: the body of the provider's answer, in whatever chunks *)
(* the network cuts it, becomes the data of server-sent events.            *)
(*                                                                         *)
(* A text is a sequence of four symbols: the two line breaks, "data" for   *)
(* the start of a data field, which anywhere else is a piece of a value,   *)
(* and "x" for any other piece.  A line that starts with "x" is a comment  *)
(* or another field.  Decoding bytes to text, which has a buffer of its    *)
(* own, is the platform's.                                                 *)
(***************************************************************************)
EXTENDS Integers, FiniteSets, Sequences, SequencesExt

CONSTANTS
    MaxBuffer,   \* how much text may wait for its line break (MAX_SSE_BUFFER_BYTES)
    MaxData,     \* how much data an event may have (MAX_SSE_FRAME_BYTES)
    MaxChunk,    \* bound: the length of a chunk
    MaxText      \* bound: the length of the body

ASSUME SseLimitsAssumption == {MaxBuffer, MaxData, MaxChunk, MaxText} \subseteq Nat

VARIABLE sse

Symbols == {"cr", "lf", "data", "x"}
IsBreak(symbol) == symbol \in {"cr", "lf"}

SseInit ==
    sse = [phase  |-> "reading",
           text   |-> <<>>,     \* all that has been read
           buffer |-> <<>>,
           lines  |-> <<>>,     \* dataLines
           events |-> <<>>]     \* what has been yielded: the data lines of each event

(* dataBytes: each line counts for its break as well.                      *)
Bytes(lines) == FoldLeft(LAMBDA sum, line : sum + Len(line) + 1, 0, lines)

-----------------------------------------------------------------------------
(* Mutant: a CR at the end of the buffer ends its line at once.            *)
HasLineAtOnce(buffer, final) ==
    (\E i \in DOMAIN buffer : IsBreak(buffer[i])) \/ (final /\ buffer # <<>>)

(* extractLine finds a line: a CR at the end of the buffer may be the      *)
(* first half of a break; the last line needs none.                        *)
HasLine(buffer, final) ==
    LET i == SelectInSeq(buffer, IsBreak)
    IN  IF i = 0 THEN final /\ buffer # <<>>
                 ELSE buffer[i] = "lf" \/ i < Len(buffer) \/ final

FirstLine(buffer) ==
    LET i == SelectInSeq(buffer, IsBreak) IN IF i = 0 THEN buffer ELSE SubSeq(buffer, 1, i - 1)

Rest(buffer) ==
    LET i == SelectInSeq(buffer, IsBreak)
        two == i # 0 /\ i < Len(buffer) /\ buffer[i] = "cr" /\ buffer[i + 1] = "lf"
    IN  IF i = 0 THEN <<>> ELSE SubSeq(buffer, i + (IF two THEN 2 ELSE 1), Len(buffer))

(* consumeLine: an empty line ends the event, a data line adds to it.      *)
Consumed(s, line) ==
    CASE line = <<>> /\ s.lines = <<>>  -> s
      [] line = <<>> /\ s.lines # <<>>  -> [s EXCEPT !.events = Append(@, s.lines), !.lines = <<>>]
      [] line # <<>> /\ Head(line) = "x" -> s
      [] OTHER -> LET lines == Append(s.lines, Tail(line))
                  IN  IF Bytes(lines) > MaxData THEN [s EXCEPT !.phase = "failed"]
                                                ELSE [s EXCEPT !.lines = lines]

(* The inner loop: line after line, until there is none or one is refused. *)
Drained(s, final) ==
    FoldLeft(LAMBDA t, symbol : IF t.phase = "reading" /\ HasLine(t.buffer, final)
                                  THEN Consumed([t EXCEPT !.buffer = Rest(@)], FirstLine(t.buffer))
                                  ELSE t,
             s, s.buffer)

ReadChunk ==
    /\ sse.phase = "reading"
    /\ \E n \in 1 .. MaxChunk : \E chunk \in [1 .. n -> Symbols] :
          /\ Len(sse.text) + n <= MaxText
          /\ LET next == [sse EXCEPT !.text = @ \o chunk, !.buffer = @ \o chunk]
             IN  sse' = IF Len(next.buffer) > MaxBuffer THEN [next EXCEPT !.phase = "failed"]
                                                        ELSE Drained(next, FALSE)

(* The body ends: the last line and the last event need no break.          *)
ReadEnd ==
    /\ sse.phase = "reading"
    /\ LET last == Drained(sse, TRUE)
       IN  sse' = IF last.phase = "failed" THEN last
                  ELSE [Consumed(last, <<>>) EXCEPT !.phase = "completed"]

(* The signal has fired, reading fails, or the consumer returns.           *)
StopReading ==
    /\ sse.phase = "reading"
    /\ sse' = [sse EXCEPT !.phase = "stopped"]

SseNext == ReadChunk \/ ReadEnd \/ StopReading

-----------------------------------------------------------------------------
(* The events of a text, however it is cut: its lines end at a CRLF, an LF *)
(* or a CR, and the data lines between two empty lines are an event.       *)

(* Of a finite set of places, the k-th; the part of a list at some places; *)
(* its parts before, between and after some places, the cuts.              *)
Nth(places, k) == CHOOSE i \in places : Cardinality({j \in places : j < i}) = k - 1

Only(list, places) == [k \in 1 .. Cardinality(places) |-> list[Nth(places, k)]]

Cut(list, cuts, k) ==
    IF k = 0 THEN 0 ELSE IF k = Cardinality(cuts) + 1 THEN Len(list) + 1 ELSE Nth(cuts, k)

Parts(list, cuts) ==
    [k \in 1 .. Cardinality(cuts) + 1 |->
        SubSeq(list, Cut(list, cuts, k - 1) + 1, Cut(list, cuts, k) - 1)]

(* Where a line ends: at a CR, or at an LF that has no CR before it.       *)
LineEnds(text) ==
    {i \in DOMAIN text : \/ text[i] = "cr"
                         \/ text[i] = "lf" /\ (i = 1 \/ text[i - 1] # "cr")}

(* The LF of a CRLF is no part of the next line.                           *)
Trimmed(line) == IF line # <<>> /\ Head(line) = "lf" THEN Tail(line) ELSE line

LinesOf(text) ==
    LET parts == Parts(text, LineEnds(text)) IN [k \in DOMAIN parts |-> Trimmed(parts[k])]

IsData(line) == line # <<>> /\ Head(line) = "data"

DataOf(group) ==
    LET kept == Only(group, {i \in DOMAIN group : IsData(group[i])})
    IN  [k \in DOMAIN kept |-> Tail(kept[k])]

DataIn(lines) ==
    LET groups == Parts(lines, {i \in DOMAIN lines : lines[i] = <<>>})
    IN  [k \in DOMAIN groups |-> DataOf(groups[k])]

EventsIn(lines) ==
    LET data == DataIn(lines) IN Only(data, {k \in DOMAIN data : data[k] # <<>>})

EventsOf(text) == EventsIn(LinesOf(text))

(* What is yielded does not depend on the chunks: at the end it is all the *)
(* events of the text, before it the first of them; and a text is refused  *)
(* only for an event or a line that is too long (parseDifySseData).        *)
ChunksDoNotMatter ==
    /\ IsPrefix(sse.events, EventsOf(sse.text))
    /\ sse.phase = "completed" => sse.events = EventsOf(sse.text)
    /\ sse.phase = "failed" =>
          \/ \E i \in DOMAIN EventsOf(sse.text) : Bytes(EventsOf(sse.text)[i]) > MaxData
          \/ \E i \in DOMAIN LinesOf(sse.text) :
                Len(LinesOf(sse.text)[i]) + 1 > MaxBuffer - MaxChunk

=============================================================================

----------------------------- MODULE DifyHistory -----------------------------
(***************************************************************************)
(* DifyConversationHistorySource.loadHistory: the messages of one provider *)
(* conversation, fetched in pages from the newest to the oldest while the  *)
(* conversation may grow, and returned oldest first.                       *)
(*                                                                         *)
(* A provider message is its id, a number for the order of the UUIDs as    *)
(* strings, and the second it was created in.  The provider (external) has *)
(* an order for the rows of a page and a reading of the cursor; a page is  *)
(* a stretch of the conversation, of any length, and only where it reaches *)
(* the conversation's first message may it say that there is no more.      *)
(***************************************************************************)
EXTENDS Integers, FiniteSets, Sequences, SequencesExt

CONSTANTS
    PageSize,         \* rows per request (pageSize)
    MaximumEntries,   \* rows in all (MAXIMUM_HISTORY_ENTRIES)
    MaxThread,        \* bound: the messages of the conversation
    MaxSecond         \* bound: the seconds they are created in

ASSUME PagesAssumption == PageSize \in Nat \ {0} /\ MaximumEntries \in Nat \ {0}

VARIABLES
    thread,    \* the conversation at the provider, oldest message first
    history    \* the call

historyVars == <<thread, history>>

Entry == [id : 1 .. MaxThread, at : 0 .. MaxSecond]

(* Ids are unique and in no order; time does not run backwards.            *)
Threads ==
    {list \in UNION {[1 .. n -> Entry] : n \in 0 .. MaxThread} :
        \A i, j \in DOMAIN list :
            i < j => list[i].id # list[j].id /\ list[i].at <= list[j].at}

HistoryInit ==
    /\ thread \in Threads
    /\ history = [phase   |-> "idle",
                  entries |-> <<>>,     \* in the order they arrive in
                  cursor  |-> 0,        \* the id sent as first_id, 0 when none is
                  cursors |-> {},
                  length  |-> 0,        \* how long the conversation was at the first page
                  order   |-> "oldestFirst",   \* of the rows of a page
                  reading |-> "before"]        \* of the cursor: see PageEnd

Smaller(a, b) == IF a < b THEN a ELSE b

(* The provider's conventions: where a page ends that is asked for with a  *)
(* cursor (before the row it names, with that row, or where the page       *)
(* before it began), and which end of a page comes first.                  *)
RowOrders == {"oldestFirst", "newestFirst"}
Readings == {"before", "from", "on"}

PlaceOf(id) == CHOOSE i \in DOMAIN thread : thread[i].id = id

LengthThen == IF history.cursor = 0 THEN Len(thread) ELSE history.length

PageEnd ==
    IF history.cursor = 0 THEN Len(thread)
    ELSE CASE history.reading = "before" -> PlaceOf(history.cursor) - 1
           [] history.reading = "from"   -> PlaceOf(history.cursor)
           [] history.reading = "on"     -> LengthThen - Len(history.entries)

Page(size) ==
    LET rows == SubSeq(thread, PageEnd - size + 1, PageEnd)
    IN  IF history.order = "oldestFirst" THEN rows ELSE Reverse(rows)

(* Mutant: every page is a full page.                                      *)
RequestedLimitFull(n) == PageSize

RequestedLimit(n) == Smaller(PageSize, MaximumEntries - n)

(* By second, and within a second by id; no two rows have one id.          *)
Earlier(a, b) == a.at < b.at \/ (a.at = b.at /\ a.id < b.id)

Chronological(entries) ==
    LET rows == ToSet(entries)
    IN  [i \in DOMAIN entries |->
           CHOOSE row \in rows : Cardinality({other \in rows : Earlier(other, row)}) = i - 1]

BeginHistory ==
    /\ history.phase = "idle"
    /\ \E order \in RowOrders, reading \in Readings :
          history' = [history EXCEPT !.phase = "asking", !.order = order, !.reading = reading]
    /\ UNCHANGED thread

HistoryFails == history' = [history EXCEPT !.phase = "failed", !.entries = <<>>]

Limit == RequestedLimit(Len(history.entries))

Repeats(page) ==
    \E i \in DOMAIN page : page[i].id \in {row.id : row \in ToSet(history.entries)}

(* The page is checked, its rows are kept, and the first of them is the    *)
(* next cursor.                                                            *)
Receive(size, more, foreign) ==
    LET page    == Page(size)
        entries == history.entries \o page
    IN  IF size > Limit \/ foreign \/ Repeats(page) THEN HistoryFails
        ELSE IF ~more \/ Len(entries) >= MaximumEntries
          THEN history' = [history EXCEPT !.phase = "done",
                                          !.entries = Chronological(entries),
                                          !.length = LengthThen]
        ELSE IF page = <<>> \/ page[1].id \in history.cursors THEN HistoryFails
        ELSE history' = [history EXCEPT !.entries = entries,
                                        !.cursor  = page[1].id,
                                        !.cursors = @ \cup {page[1].id},
                                        !.length  = LengthThen]

(* One request is answered: with up to one row more than asked for, with   *)
(* rows of another conversation, or with "more" where there is none.       *)
FetchPage ==
    /\ history.phase = "asking"
    /\ \E size \in 0 .. Smaller(Limit + 1, PageEnd), more, foreign \in BOOLEAN :
          /\ size < PageEnd => more
          /\ Receive(size, more, foreign)
    /\ UNCHANGED thread

(* The request or its answer fails, or the signal fires.                   *)
FetchFails ==
    /\ history.phase = "asking"
    /\ HistoryFails
    /\ UNCHANGED thread

CanFollow(entry) ==
    \A i \in DOMAIN thread : thread[i].id # entry.id /\ thread[i].at <= entry.at

(* A turn of the conversation ends: the provider has one more message.     *)
Grow ==
    /\ history.phase = "asking"
    /\ Len(thread) < MaxThread
    /\ \E entry \in Entry : CanFollow(entry) /\ thread' = Append(thread, entry)
    /\ UNCHANGED history

HistoryNext == BeginHistory \/ FetchPage \/ FetchFails \/ Grow

-----------------------------------------------------------------------------
(* What is returned is one stretch of the conversation without a gap: its  *)
(* newest messages as it was when the first page was fetched, as many as   *)
(* there were up to the limit, whatever was added meanwhile and in         *)
(* whatever order and from whatever place the provider answers; and later  *)
(* seconds come later (loadHistory).                                       *)
HistoryIsTheNewest ==
    history.phase = "done" =>
        LET n     == history.length
            count == Smaller(MaximumEntries, n)
            got   == history.entries
        IN  /\ ToSet(got) = {thread[i] : i \in n - count + 1 .. n}
            /\ Len(got) = count
            /\ \A i, j \in DOMAIN got : i < j => got[i].at <= got[j].at

(* The answer the request asks for: as many rows as there are up to the    *)
(* limit, of this conversation, and whether there are more.                *)
FetchRightPage ==
    LET size == Smaller(Limit, PageEnd)
    IN  history.phase = "asking" /\ Receive(size, size < PageEnd, FALSE)

(* Pages that come newest first are taken as well as others: where there   *)
(* is more to read, a provider that answers with the rows before the       *)
(* cursor, newest first, is not refused (loadHistory).                     *)
NewestFirstPagesAreNormalized ==
    [][history.order = "newestFirst" /\ history.reading = "before"
         /\ Len(history.entries) < LengthThen /\ FetchRightPage
         => history'.phase # "failed"]_historyVars

=============================================================================

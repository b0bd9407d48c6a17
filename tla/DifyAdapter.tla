----------------------------- MODULE DifyAdapter -----------------------------
(***************************************************************************)
(* The parts of the Dify adapter side by side: a stream, the parser its    *)
(* body goes through, and the history of a conversation.  They share no    *)
(* state: the parser's events are the frames of DifyStream, any sequence   *)
(* of them, and what a turn adds to a conversation while its history is    *)
(* read is a Grow, whichever stream it comes from.  One part at a time is  *)
(* followed here.                                                          *)
(***************************************************************************)
EXTENDS DifyStream, DifyHistory, SseParser

adapterVars == <<signal, stream, thread, history, sse>>

AdapterInit == StreamInit /\ HistoryInit /\ SseInit

StreamStep ==
    /\ history.phase = "idle" /\ thread = <<>> /\ sse.phase = "reading" /\ sse.text = <<>>
    /\ StreamNext
    /\ UNCHANGED <<historyVars, sse>>

StreamIsIdle == stream.phase = "idle" /\ signal = "none" /\ stream.bound = NoConversation

HistoryStep ==
    /\ StreamIsIdle /\ sse.phase = "reading" /\ sse.text = <<>>
    /\ HistoryNext
    /\ UNCHANGED <<streamVars, sse>>

ParserStep ==
    /\ StreamIsIdle /\ history.phase = "idle" /\ thread = <<>>
    /\ SseNext
    /\ UNCHANGED <<streamVars, historyVars>>

AdapterNext == StreamStep \/ HistoryStep \/ ParserStep

AdapterSpec == AdapterInit /\ [][AdapterNext]_adapterVars

(* A rejected read is delivered, and a consumer asks for the next event or *)
(* leaves: its loop does one or the other.                                 *)
FairAdapterSpec ==
    /\ AdapterSpec
    /\ WF_adapterVars(Cancel /\ UNCHANGED <<historyVars, sse>>)
    /\ WF_adapterVars((Pull \/ Return \/ Emit) /\ UNCHANGED <<historyVars, sse>>)

(* An abort or a timeout ends the stream even if the provider sends        *)
(* nothing any more (the signal given to fetch, throwIfRequestAborted).    *)
SignalEndsStream ==
    signal # "none" /\ stream.phase # "idle" ~> stream.phase \in Ended

=============================================================================

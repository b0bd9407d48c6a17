---------------------------- MODULE SessionLedger ----------------------------
(***************************************************************************)
(* What the runtime promises about sessions, said without revisions,       *)
(* summaries, aborts or failures: turns behave as if they ran one after    *)
(* the other.  A turn reads its session as a whole, possibly more than     *)
(* once, and is added to it only while the session is still what it read   *)
(* last; or it leaves the session as it is.                                *)
(***************************************************************************)
CONSTANTS
    Turns, Sessions, Users, Conversations,
    NoUser, NoConversation,
    Unread            \* a turn that holds no reading of its session

VARIABLES
    ledger,   \* for each session its owner, its turns and its conversation
    reading,  \* for each turn what it last read of its session, or Unread
    home      \* the session each turn is about

ledgerVars == <<ledger, reading, home>>

NoEntry == [owner |-> NoUser, turns |-> {}, conversation |-> NoConversation]

Init ==
    /\ ledger = [s \in Sessions |-> NoEntry]
    /\ reading = [t \in Turns |-> Unread]
    /\ home \in [Turns -> Sessions]

Read(t) ==
    /\ reading' = [reading EXCEPT ![t] = ledger[home[t]]]
    /\ UNCHANGED <<ledger, home>>

(* The first turn of a session owns it; a conversation is never exchanged. *)
Append(t) ==
    /\ reading[t] = ledger[home[t]]
    /\ \E user \in Users, conversation \in Conversations \cup {NoConversation} :
          /\ reading[t].owner \in {NoUser, user}
          /\ reading[t].conversation \in {NoConversation, conversation}
          /\ ledger' = [ledger EXCEPT ![home[t]] =
                          [owner        |-> user,
                           turns        |-> reading[t].turns \cup {t},
                           conversation |-> conversation]]
    /\ reading' = [reading EXCEPT ![t] = Unread]
    /\ UNCHANGED home

Leave(t) ==
    /\ reading' = [reading EXCEPT ![t] = Unread]
    /\ UNCHANGED <<ledger, home>>

(* A reset forgets the turns and the conversation, not the owner.          *)
Clear(s) ==
    /\ ledger[s].owner # NoUser
    /\ ledger' = [ledger EXCEPT ![s].turns = {}, ![s].conversation = NoConversation]
    /\ UNCHANGED <<reading, home>>

Next ==
    \/ \E t \in Turns : Read(t) \/ Append(t) \/ Leave(t)
    \/ \E s \in Sessions : Clear(s)

Spec == Init /\ [][Next]_ledgerVars

=============================================================================

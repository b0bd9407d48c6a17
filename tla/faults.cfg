SPECIFICATION FairSpec
CONSTANTS
    Turns = {t1, t2}
    Users = {u1}
    Conversations = {c1}
    NoUser = NoUser
    NoConversation = NoConversation
    Sessions = {s1}
    Resets = {r1}
    RecentMessages = 1
    Threshold = 2
    Faults = {"store", "ack", "observer"}
    GivesUp = {t1}
    MayAbort = {s1}
INVARIANTS
    LifecycleInv
    OutcomeMatchesStore
PROPERTIES
    AbortWins
    TurnsAndResetsEnd
CHECK_DEADLOCK FALSE

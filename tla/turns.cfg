SPECIFICATION Spec
CONSTANTS
    Turns = {t1, t2, t3}
    Users = {u1}
    Conversations = {c1, c2, c3}
    NoUser = NoUser
    NoConversation = NoConversation
    Sessions = {s1}
    Resets = {r1}
    RecentMessages = 1
    Threshold = 2
    Faults = {}
    GivesUp = {}
    MayAbort = {}
SYMMETRY Symmetry
INVARIANTS
    TypeOK
    ContextKeepsEveryCommit
    SummaryCoversCompacted
    CompactionKeepsRecent
    OneCompactionWins
PROPERTIES
    CommitSeesItsSnapshot
    LedgerSpec
CHECK_DEADLOCK FALSE

SPECIFICATION StoreSpec
CONSTANTS
    Turns = {t1, t2, p1}
    Commits = {t1, t2}
    Restores = {p1}
    Resets = {x1}
    Compactions = {k1, k2}
    Users = {u1}
    Conversations = {c1}
    NoUser = NoUser
    NoConversation = NoConversation
    Nobody = Nobody
    RecentMessages = 1
    MaxRevision = 2
    Concurrency = 2
SYMMETRY Symmetry
INVARIANTS
    StoreTypeOK
    LoadMissesNothing
PROPERTIES
    AtomicPort
    CompactionsKeepSummary
    ConflictsHaveAWinner
CHECK_DEADLOCK FALSE

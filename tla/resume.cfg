SPECIFICATION ResumeSpec
CONSTANTS
    Turns = {t1, t2}
    Users = {u1, u2}
    Conversations = {c1, c2}
    NoUser = NoUser
    NoConversation = NoConversation
    Sessions = {s1}
    Resets = {}
    RecentMessages = 2
    Threshold = 4
    Faults = {}
    GivesUp = {}
    MayAbort = {}
    Resumes = {r1, r2}
    MaximumEntries = 1
    MaxRestarts = 1
SYMMETRY Symmetry
INVARIANTS
    ResumeTypeOK
    ResumeShowsOwnMessages
PROPERTIES
    OwnerNeverChanges
    CommitSeesSessionOrRestore
    RestoreIsComplete
CHECK_DEADLOCK FALSE

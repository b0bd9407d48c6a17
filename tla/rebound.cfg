SPECIFICATION ResumeSpec
CONSTANTS
    Turns = {t1, t2}
    Users = {u1, u2}
    Conversations = {c1, c2}
    NoUser = NoUser
    NoConversation = NoConversation
    Sessions = {s1}
    Resets = {}
    RecentMessages = 2
    Threshold = 4
    Faults = {}
    GivesUp = {}
    MayAbort = {}
    Resumes = {r1}
    MaximumEntries = 1
    MaxRestarts = 1
SYMMETRY Symmetry
PROPERTIES
    BindingNeverRebound
CHECK_DEADLOCK FALSE

SPECIFICATION ResumeSpec
CONSTANTS
    Turns = {t1}
    Users = {u1}
    Conversations = {c1}
    NoUser = NoUser
    NoConversation = NoConversation
    Sessions = {s1}
    Resets = {x1}
    RecentMessages = 2
    Threshold = 4
    Faults = {}
    GivesUp = {}
    MayAbort = {}
    Resumes = {r1}
    MaximumEntries = 1
    MaxRestarts = 0
SYMMETRY Symmetry
PROPERTIES
    ResumeAnswerMatches
CHECK_DEADLOCK FALSE

SPECIFICATION FairDemoSpec
CONSTANTS
    Sessions = {s1, s2}
    None = None
    MaxPieces = 2
INVARIANTS
    OneTerminalEvent
    NothingUnguarded
    
PROPERTIES
    SavedConversationsStay
    RecoveriesEnd
CHECK_DEADLOCK FALSE

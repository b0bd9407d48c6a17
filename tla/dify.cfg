SPECIFICATION FairAdapterSpec
CONSTANTS
    Conversations = {c1, c2}
    NoConversation = NoConversation
    Sources = {d1, d2}
    MaxAnswer = 2
    MaxFrames = 6
    PageSize = 2
    MaximumEntries = 3
    MaxThread = 5
    MaxSecond = 1
    MaxBuffer = 6
    MaxData = 4
    MaxChunk = 2
    MaxText = 7
INVARIANTS
    OneConversation
    HistoryIsTheNewest
    ChunksDoNotMatter
PROPERTIES
    StreamContract
    SignalEndsStream
CHECK_DEADLOCK FALSE

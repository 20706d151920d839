SPECIFICATION FlowsSpec
CONSTANTS
    Conversations = {c1}
    Images = {a1}
    Clients = {k1, k2}
    MaxMessages = 3
    MaxImages = 1
    MaxQuestions = 2
    MaxExits = 1
    Demands = {"a", "b"}
    Unfit <- MCUnfit
    Pushes <- MCPushes
    MaxPr = 1
    MaxAsk = 2
    MaxMishap = 1
    MaxRound = 3
INVARIANTS
    AnswersAreSound
    OneActiveTurn
    ImagesKept
    ReadyMeansRunning
PROPERTIES
    TurnsEnd
    LastOutcomeRecorded
    PublishedOnRequest
    QueueServed
\* A delivery rests when the human decides nothing more, and the human may leave
\* every request and every PR alone for good.
CHECK_DEADLOCK FALSE

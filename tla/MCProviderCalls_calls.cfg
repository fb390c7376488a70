CONSTANTS
    Kinds = {"openai", "anthropic"}
    Clients = {"runtime", "stream"}
    Pieces = {"a", "b", "x", "y", "z"}
    Answers <- MCAnswers
    MaxCalls = 2
    MaxMessages = 9
SPECIFICATION FairSpec
INVARIANT WirePaired
INVARIANT FinishedIsWhole
PROPERTY StreamEnds
CHECK_DEADLOCK FALSE

CONSTANTS
    ActionIds = {a1, a2}
    MaxMessages = 2
    MaxAnswers = 3
    MaxQueuedTurns = 1
    MaxEarly = 1
    NoAction = NoAction

SPECIFICATION FairSpec
INVARIANT TypeOK
INVARIANT AnswerIsTheClients
INVARIANT EarlyAnswerSeen
PROPERTY RoundTripEnds
PROPERTY ConnectionReleased
CHECK_DEADLOCK FALSE

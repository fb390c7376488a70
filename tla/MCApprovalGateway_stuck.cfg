CONSTANTS
    ActionIds = {a1}
    MaxMessages = 1
    MaxAnswers = 2
    MaxQueuedTurns = 1
    MaxEarly = 1
    NoAction = NoAction

SPECIFICATION FairSpec
PROPERTY RoundTripBounded
CHECK_DEADLOCK FALSE

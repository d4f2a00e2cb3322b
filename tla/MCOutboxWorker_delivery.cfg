SPECIFICATION FairOutboxSpec
CONSTANTS
    w1 = w1
    w2 = w2
    NoPass = NoPass
    NoEvent = NoEvent
    Events = {1, 2}
    Handled = {1}
    Passes <- TwoPasses
    MaxAttempts = 2
    BatchLimit = 1
    MaxCrashes = 1
    MaxReplays = 1
INVARIANTS
    DeliveredWasApplied
    DeadLetterSpentItsAttempts
PROPERTIES
    DeliveredIsFinal
    EventsSettle
CHECK_DEADLOCK FALSE

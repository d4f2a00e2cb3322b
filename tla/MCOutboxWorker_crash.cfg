SPECIFICATION FairOutboxSpec
CONSTANTS
    w1 = w1
    w2 = w2
    NoPass = NoPass
    NoEvent = NoEvent
    Events = {1, 2}
    Handled = {1, 2}
    Passes <- OnePass
    MaxAttempts = 2
    BatchLimit = 2
    MaxCrashes = 1
    MaxReplays = 0
PROPERTIES
    CrashIsSurvivable
CHECK_DEADLOCK FALSE

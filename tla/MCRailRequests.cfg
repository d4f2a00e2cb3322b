SPECIFICATION RailQueueSpec
CONSTANTS
    p1 = p1
    p2 = p2
    p3 = p3
    s1 = s1
    s2 = s2
    Requests = {p1, p2, p3}
    RailWorkers = {s1, s2}
    MaxAttempts = 2
    BatchLimit = 2
INVARIANTS
    QueueIsNeverBlocked
CHECK_DEADLOCK FALSE

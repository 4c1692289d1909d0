CONSTANTS
    send = send
    infer = infer
    note = note
    Tasks = {send, infer, note}
    Kind <- KindOf
    MaxAttempts <- OneRetry
    NoTask = NoTask
    MaxFaults = 1
    MaxStops = 1
SPECIFICATION FairSpec
INVARIANTS
    AtMostOneEffect
    ReplayableIsUntouched
    SuccessIsBacked
    FailedSendUnlessFault
PROPERTIES
    SettledStays
    QueueDrains
CHECK_DEADLOCK FALSE

CONSTANTS
    Descriptors = {3, 4}
    MaxSent = 1
SPECIFICATION LeiSpec
INVARIANT QueueToItself
PROPERTY StopReturns
CHECK_DEADLOCK FALSE

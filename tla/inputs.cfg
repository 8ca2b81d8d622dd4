SPECIFICATION Spec
CONSTANTS
    Kinds = {"select", "epoll", "pcap", "jumbo", "raw"}
    MaxWaiting = 2
    MaxAir = 4
    Fragments = 3
    MaxSent = 3
    MaxFaults = 3
INVARIANTS
    KeepsReceiving
    ClosesItsOwn
    Reassembled
PROPERTY EveryPortServed
CHECK_DEADLOCK FALSE

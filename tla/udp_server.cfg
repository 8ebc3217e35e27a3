SPECIFICATION FairSpec
CONSTANTS
    d1 = d1  d2 = d2  d3 = d3  a1 = a1  a2 = a2
    None = None
    Datagrams = {d1, d2, d3}
    SenderOf <- Senders
    KindOf <- KindsOf
    maxConcurrentClient = 2
    MaxWrites = 2
INVARIANTS TypeOK SlotsAccounted RepliesGoHome
PROPERTY EveryReadEnds
CHECK_DEADLOCK FALSE

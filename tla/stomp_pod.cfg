SPECIFICATION FairSpec
CONSTANTS
    m1 = m1  m2 = m2  m3 = m3  t1 = t1  t2 = t2  e1 = e1  e2 = e2  e3 = e3
    NoEvent = NoEvent  ErrFrame = ErrFrame  None = None
    Pods = {p1}
    Topics = {t1, t2}
    Msgs = {m1, m2, m3}
    TopicOf <- TwoTopics
    EventOf <- FreshEvents
    AutoACK <- AckAll
    SharedLocker = TRUE
    Prefetch = 1
    MaxFaults = 1
    Stoppable = {p1}
INVARIANTS TypeOK SlotsAccounted AtMostOneLate ShutdownWaits
PROPERTIES EventuallyAcked ShutdownReturns
CHECK_DEADLOCK FALSE

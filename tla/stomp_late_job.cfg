SPECIFICATION Spec
CONSTANTS
    m1 = m1  m2 = m2  m3 = m3  t1 = t1  t2 = t2  e1 = e1  e2 = e2  e3 = e3
    NoEvent = NoEvent  ErrFrame = ErrFrame  None = None
    Pods = {p1}
    Topics = {t1}
    Msgs = {m1}
    TopicOf <- OneTopic
    EventOf <- FreshEvents
    AutoACK <- AckAll
    SharedLocker = FALSE
    Prefetch = 1
    MaxFaults = 0
    Stoppable = {p1}
INVARIANT NoJobAfterShutdown
CHECK_DEADLOCK FALSE

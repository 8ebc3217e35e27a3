SPECIFICATION Spec
CONSTANTS
    m1 = m1  m2 = m2  m3 = m3  t1 = t1  t2 = t2  e1 = e1  e2 = e2  e3 = e3
    NoEvent = NoEvent  ErrFrame = ErrFrame  None = None
    Pods = {p1, p2}
    Topics = {t1}
    Msgs = {m1, m2, m3}
    TopicOf <- OneTopic
    EventOf <- SomeEvents
    AutoACK <- AckAll
    SharedLocker = TRUE
    Prefetch = 2
    MaxFaults = 1
    Stoppable = {}
SYMMETRY PodSymmetry
INVARIANTS LockExclusion LocksAccounted TopicOrder AckedWasWorked
PROPERTY ConsumerSpec
CHECK_DEADLOCK FALSE

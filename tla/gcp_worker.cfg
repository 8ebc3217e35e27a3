SPECIFICATION FairSpec
CONSTANTS
    m1 = m1  m2 = m2  m3 = m3  t1 = t1  t2 = t2
    Topics = {t1, t2}
    Msgs = {m1, m2, m3}
    TopicOf <- TwoTopics
    AutoACK <- AckOne
    Panicking = {m1}
    Tracers = {"candi", "sentry"}
    MaxDeliveries <- OnceMore
    MaxFaults = 1
INVARIANTS TypeOK SlotsAccounted
PROPERTIES ConsumerSpec SetupConverges ShutdownReturns EventuallyAcked
CHECK_DEADLOCK FALSE

SPECIFICATION FairSpec
CONSTANTS
    a = a  b = b  x = x  m1 = m1  m2 = m2  m3 = m3
    Plus = Plus  Hash = Hash  Empty = Empty  Param = Param  None = None  PubAck = PubAck
    Tokens = {a, b, Empty}
    Names = {x}
    Patterns <- TwoPatterns
    Topics <- TwoTopics
    MaxRoutes = 2
    Msgs = {m1, m3}
    TopicOf <- TopicsOf
    AutoACK <- AckOne
    Publishing = {m1}
    ClientBuffer = 1
    Options <- KeptOrClean
    MaxFaults = 1
INVARIANTS TypeOK OneRunPastCancel AckedAsAsked
PROPERTIES ShutdownReturns EventuallyHandled
CHECK_DEADLOCK FALSE

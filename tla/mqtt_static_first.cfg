SPECIFICATION Spec
CONSTANTS
    a = a  b = b  x = x  y = y
    Plus = Plus  Hash = Hash  Empty = Empty  Param = Param  None = None
    Tokens = {a, b, Empty}
    Names = {x, y}
    Patterns <- TwoPatterns
    Topics <- AllTopics
    MaxRoutes = 4
INVARIANT TopicsHandled
CHECK_DEADLOCK FALSE

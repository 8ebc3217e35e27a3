SPECIFICATION Spec
CONSTANTS
    a = a  b = b  x = x  y = y
    Plus = Plus  Hash = Hash  Empty = Empty  Param = Param  None = None
    Tokens = {a, b, Empty}
    Names = {x, y}
    Patterns <- SomePatterns
    Topics <- AllTopics
    MaxRoutes = 4
INVARIANTS TypeOK MatchSound HandlersKept UnambiguousComplete
CHECK_DEADLOCK FALSE

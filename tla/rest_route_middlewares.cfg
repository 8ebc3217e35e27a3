SPECIFICATION Spec
CONSTANTS
    Pieces = {"v1", "a", "x", "graphql", "playground", "voyager", "memstats"}
    RootPath <- V1
    UseGraphQL = FALSE
    OptionLists <- NoOptions
    Patterns <- TwoPatterns
    Unknown <- Nowhere
    MaxCalls = 1
INVARIANT RouteMiddlewares
CHECK_DEADLOCK FALSE

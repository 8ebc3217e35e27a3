SPECIFICATION Spec
CONSTANTS
    Pieces = {"v1", "a", "x", "graphql", "playground", "voyager", "memstats"}
    RootPath <- V1
    UseGraphQL = TRUE
    OptionLists <- SomeOptions
    Patterns <- TwoPatterns
    Unknown <- Nowhere
    MaxCalls = 3
INVARIANTS TypeOK GuardedByGroups AnsweredOnce SurvivesPanic
CHECK_DEADLOCK FALSE

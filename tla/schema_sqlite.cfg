SPECIFICATION SchemaSpec
CONSTANTS
    Null = Null
    FirstDatabase <- OldDatabases
    Backend = {"postgres", "sqlite"}
CHECK_DEADLOCK FALSE
INVARIANTS StartsOnEveryBackend

SPECIFICATION LoadSpec
CONSTANTS
    Extensions = {e1, e2}
    Names = {core, n1}
    CoreNames = {core}
    Core = Core
    MaxNames = 1
INVARIANT EveryHookIsReached
CHECK_DEADLOCK FALSE

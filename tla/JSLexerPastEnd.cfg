SPECIFICATION UnfinishedSpec
CONSTANTS
    Longer = 0
INVARIANT CanContinue
CHECK_DEADLOCK FALSE

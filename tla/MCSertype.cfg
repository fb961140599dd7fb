SPECIFICATION Spec
CONSTANTS
    WordBytes = 2
    Topics <- MCTopics
    MaxSerdata = 3
CHECK_DEADLOCK FALSE
INVARIANTS
    NoUseAfterFree
    NothingLeaks
    
    InstancesAreKeys

CONSTANTS
    MaxRequests = 4
    MaxCalls = 2
    Meetings = {{"replies"}}
SPECIFICATION ChatSpec
CHECK_DEADLOCK FALSE
INVARIANTS
    EveryCallIsAnswered

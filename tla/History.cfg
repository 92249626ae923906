\* Requests and snapshots as long as the limit, in a conversation that repeats itself.
SPECIFICATION HistorySpec
CONSTANTS
    Nodes <- Repeating
    MaxNodes = 7
    MaxRequest = 7
INVARIANTS
    ViewContinued
    PlanIsLongest

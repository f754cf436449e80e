CONSTANTS
    Uris <- MCUris
    Wrap = 9
    Margin = 3
    First = 6
    MaxSent = 4
    MaxStale = 1
SPECIFICATION FairSpec
INVARIANTS TypeOK FreshIsKept AllDeregistered SummaryAfterAll
PROPERTIES NeverGoesBack EventuallyExits
CHECK_DEADLOCK FALSE

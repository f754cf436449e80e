CONSTANTS
    Uris <- MCOneUri
    Wrap = 32
    Margin = 4
    First = 27
    MaxSent = 5
    MaxStale = 2
SPECIFICATION Spec
INVARIANT FreshPerRfcIsKept
CHECK_DEADLOCK FALSE

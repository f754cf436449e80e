CONSTANTS
    Lengths <- MCLengths
    Boundaries <- MCBoundaries
    MaxSplits = 2
SPECIFICATION Spec
INVARIANTS TypeOK LengthsReadBack RequestsParse StreamsReassemble
    MatchIsGenuine VerdictIsGenuine SummaryIsTruthful
PROPERTIES OnlyWholeExchangesAreSaved Finishes
CHECK_DEADLOCK FALSE

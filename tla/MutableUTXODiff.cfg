SPECIFICATION MutableSpec
CONSTANTS
    Outpoints = {o1, o2}
    Scores = {1, 2, 3}
    NoEntry = NoEntry
INVARIANTS
    DiffIsExact
    NeverFails

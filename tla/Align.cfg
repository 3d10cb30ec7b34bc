SPECIFICATION AlignSpec
CONSTANTS
    Bases = {"A", "C", "G"}
    Space = "-"
    MaxLength = 3
INVARIANT OptimalScore
CHECK_DEADLOCK FALSE

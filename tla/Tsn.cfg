CONSTANTS
    Word = 8
    NSEC_PER_SEC = 4
    Procs = {p1, p2}
    MaxCommands = 2
    Earlier = {"qbv"}
    Clock <- MCClock
    Offsets <- MCOffsets
SYMMETRY Symmetry
SPECIFICATION Spec
CHECK_DEADLOCK FALSE
INVARIANTS TypeOK Restores EditKeeps BaseTimeRight

\* A human drops on its own turn: the code leaves the seat without a timer.
SPECIFICATION Spec
CONSTANTS
    None = None
    Deals <- MCShort
    WinningPoint = 50
    Humans <- MCHumans
    Creators <- MCHost
    Stale <- MCNobody
    MayDrop <- MCHumans
    EarlyMoves = FALSE
    MaxRound = 0
INVARIANTS NoRoomStranded
CHECK_DEADLOCK FALSE

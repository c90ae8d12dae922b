\* The seat the bomb is scored against, as documented: the code differs.
SPECIFICATION HistorySpec
CONSTANTS
    None = None
    Deals <- MCBombs
    WinningPoint = 50
    Humans <- MCAllHumans
    Creators <- MCHost
    Stale <- MCNobody
    MayDrop <- MCNobody
    EarlyMoves = FALSE
    MaxRound = 0
PROPERTIES BombHitsBombedSeat
CHECK_DEADLOCK FALSE

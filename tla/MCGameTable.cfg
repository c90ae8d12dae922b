\* Four humans who stay, all deals, the driver playing for the idle.
SPECIFICATION Spec
CONSTANTS
    None = None
    Deals <- MCMany
    WinningPoint = 50
    Humans <- MCAllHumans
    Creators <- MCHost
    Stale <- MCNobody
    MayDrop <- MCNobody
    EarlyMoves = FALSE
    MaxRound = 0
INVARIANTS TrickRotation RankingSoFar DriverMovesLegally
PROPERTIES RoundRanking EveryMoveCounts GoesAround
CHECK_DEADLOCK FALSE

\* Humans who stay but may never move: the driver ends every round, up to the
\* one in which a seat reaches the winning point.
SPECIFICATION FairSpec
CONSTANTS
    None = None
    Deals <- MCRounds
    WinningPoint = 15
    Humans <- MCHumans
    Creators <- MCHumans
    Stale <- MCNobody
    MayDrop <- MCNobody
    EarlyMoves = FALSE
    MaxRound = 2
INVARIANTS MatchEndsAtTarget
PROPERTIES RoundEnds RoundBakedOnce MovesRunOut GoesAround
CHECK_DEADLOCK FALSE

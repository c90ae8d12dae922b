\* Two humans who may drop, leave and come back at any time, and who may send
\* moves before the phase is Playing; two bots.
SPECIFICATION Spec
CONSTANTS
    None = None
    Deals <- MCMany
    WinningPoint = 50
    Humans <- MCHumans
    Creators <- MCHumans
    Stale <- MCStale
    MayDrop <- MCHumans
    EarlyMoves = TRUE
    MaxRound = 0
INVARIANTS TypeOK OneTimer GameInv
PROPERTIES StaysArmed
CHECK_DEADLOCK FALSE

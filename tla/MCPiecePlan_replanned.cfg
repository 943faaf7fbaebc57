SPECIFICATION Spec
CONSTANTS
    Sizes = {5, 6, 9}
    MaxPiece = 4
    MaxBlock = 2
    Segments = {1, 2}
    MaxLate = 1
    MaxRestarts = 2
INVARIANTS
    TypeOK
    LanesTile
    ClaimsAreWritten
    CompletedBlocksAreWritten
CHECK_DEADLOCK FALSE

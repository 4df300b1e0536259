CONSTANTS
    Methods = {m1}
    Positions <- MCPositions
    EntryBlocks <- MCEntryBlocks
    LaterPositions <- MCLaterPositions
    MaxRuns = 2

SPECIFICATION Spec
INVARIANT EntryCoveredAfterPass
INVARIANT CoverIsSmallestPosition
INVARIANT PassIdempotent

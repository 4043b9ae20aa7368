SPECIFICATION FairSpec
CONSTANTS
    MaxFrames = 3
    Coalesce = TRUE
    MaxDials = 3
INVARIANTS NoGapAfterOpen NoLeakedSocket
PROPERTY OnlyOpenStreamHangs
CHECK_DEADLOCK FALSE

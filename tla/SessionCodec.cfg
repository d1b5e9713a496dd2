CONSTANTS
    W8 = 4
    W16 = 8
    W32 = 16
    None = None
    MapColumn = FALSE
    NSProfiles = 3
    Inputs <- Sessions10
SPECIFICATION Spec
INVARIANTS
    TypeOK
    OnlyDroppedAreLost
    FilesResetWhatTheyLack
    RejectedOnlyWithoutChannels
\* A file that is refused is the end.
CHECK_DEADLOCK FALSE

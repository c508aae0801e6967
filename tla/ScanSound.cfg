SPECIFICATION FairSpec
CONSTANTS
    x = x
    y = y
    z = z
    Catalogue <- ThreeListings
    PageSize = 2
    MaxRetries = 1
    Sessions = {1, 2}
    CycleSessions = {2}
    Sync = {"archived"}
    NoStamp = NoStamp
    MaxChanges = 1
    Envs <- Surroundings
INVARIANTS
    ScanInv
PROPERTIES
    ArchivesOnlyGone
    SeenIsNotArchived
    CompletedMirrorsStore
    EndedStaysEnded
    ScanEnds
CHECK_DEADLOCK FALSE

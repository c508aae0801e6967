SPECIFICATION FairSpec
CONSTANTS
    Tasks = {1, 2, 3}
INVARIANTS
    RunsAfterDependencies
    NeverAfterFailure
PROPERTIES
    EveryTaskEnds
CHECK_DEADLOCK FALSE

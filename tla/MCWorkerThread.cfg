CONSTANTS
    Workers = {radio, power}
    EarlyReaders = {power}
SPECIFICATION FairSpec
INVARIANTS
    TypeOK
    EffectivePauseHolds
    ReleaseFailsOnlyIfForced
    NoLostWakeup
PROPERTIES
    ResumeTakesEffect
    TerminateStops

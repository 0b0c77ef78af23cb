CONSTANTS
    N <- MCN
    H <- MCH
    StepLim <- MCStepLim
    SeedWrap <- MCSeedWrap
    SeedCap <- MCSeedCap
    MaxCycles <- MCMaxCycles
    InitCanFail = FALSE
    ObsCanFail = FALSE
    CallAfterClear = FALSE

SPECIFICATION Spec

INVARIANT BatchFresh

CHECK_DEADLOCK FALSE

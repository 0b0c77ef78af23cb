CONSTANTS
    N <- MCN
    H <- MCH
    StepLim <- MCStepLim
    SeedWrap <- MCSeedWrap
    SeedCap <- MCSeedCap
    MaxCycles <- MCMaxCycles
    InitCanFail = TRUE
    ObsCanFail = FALSE
    CallAfterClear = FALSE

SPECIFICATION Spec

INVARIANT ReseedNeverFatal

CHECK_DEADLOCK FALSE

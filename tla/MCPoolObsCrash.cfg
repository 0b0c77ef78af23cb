CONSTANTS
    N <- MCN
    H <- MCH
    StepLim <- MCStepLim
    SeedWrap <- MCSeedWrap
    SeedCap <- MCSeedCap
    MaxCycles <- MCMaxCycles
    InitCanFail = FALSE
    ObsCanFail = TRUE
    CallAfterClear = FALSE

SPECIFICATION FairSpec

PROPERTY CallsReturn

\* The caller may stop calling: every worker then blocks on input_sem.
CHECK_DEADLOCK FALSE

CONSTANTS
    N <- MCN
    H <- MCH
    StepLim <- MCStepLim
    SeedWrap <- MCSeedWrap
    SeedCap <- MCSeedCap
    MaxCycles <- MCMaxCycles
    InitCanFail = TRUE
    ObsCanFail = FALSE
    CallAfterClear = FALSE

SPECIFICATION RSpec

INVARIANT ReseedOncePerWorker

\* The caller may stop calling: every worker then blocks on input_sem.
CHECK_DEADLOCK FALSE

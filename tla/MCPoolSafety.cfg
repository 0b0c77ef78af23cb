CONSTANTS
    N <- MCN
    H <- MCH
    StepLim <- MCStepLim
    SeedWrap <- MCSeedWrap
    SeedCap <- MCSeedCap
    MaxCycles <- MCMaxCycles
    InitCanFail = TRUE
    ObsCanFail = TRUE
    CallAfterClear = TRUE

SPECIFICATION Spec

INVARIANT TypeOK
INVARIANT NoWorkerInFlight
INVARIANT CursorCountsClaims
INVARIANT ResetCycleRunsNoChunk
INVARIANT AutoResetBeforePublish
PROPERTY SeedRefinement
PROPERTY SlotsStableWhileRead

\* The caller may stop calling: every worker then blocks on input_sem.
CHECK_DEADLOCK FALSE

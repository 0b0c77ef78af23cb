CONSTANTS
    N <- MCN
    H = 1
    ActionDim <- MCActionDim
    K <- MCK
    StepLim <- MCStepLim
    MaxCalls <- MCMaxCalls

SPECIFICATION Spec

INVARIANT TypeOK
INVARIANT TerminationReported

\* The caller stops after its last chunk_step call, or after step() raised.
CHECK_DEADLOCK FALSE

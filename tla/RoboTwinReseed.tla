---------------------------- MODULE RoboTwinReseed ----------------------------
(***************************************************************************)
(* RoboTwinPool with two history variables: the value of share_seed when  *)
(* the reset() call in progress released its permits, and the number of    *)
(* wrappers rebuilt with a claimed seed since then.  They let a property   *)
(* compare what one reset() cycle did to the seed cursor with the reseeds  *)
(* it performed.  The history variables only observe: every step of this  *)
(* specification is a step of RoboTwinPool.                                *)
(***************************************************************************)
EXTENDS MCRoboTwinPool

VARIABLES
    resetBase,    \* share_seed.value when the current reset() began
    resetBuilds   \* reseeded wrappers since then (ResetRebuild steps)

\* reset() releases its permits with the cursor at share_seed.value; no
\* worker holds a permit then, so nobody is inside a seed claim.
RInit == Init /\ resetBase = 0 /\ resetBuilds = 0

RNext ==
    /\ Next
    /\ resetBase' = IF ResetCall THEN shareSeed ELSE resetBase
    /\ resetBuilds' = IF ResetCall THEN 0
                      ELSE IF \E w \in Workers : ResetRebuild(w)
                           THEN resetBuilds + 1 ELSE resetBuilds

RSpec == RInit /\ [][RNext]_<<vars, resetBase, resetBuilds>>

\* reset() advances the seed cursor by exactly one per reseed: when the
\* call returns, share_seed has moved on (modulo its wrap) by the number of
\* wrappers the reseeding branch of worker() rebuilt in this cycle, even
\* when RobotwinEnvWrapper.initialize() fails and the branch retries.
ReseedOncePerWorker ==
    (ctlPc = "idle" /\ call = "reset") =>
        shareSeed = (resetBase + resetBuilds) % SeedWrap

=============================================================================

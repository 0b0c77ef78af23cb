------------------------------ MODULE ChunkStep ------------------------------
(***************************************************************************)
(* RoboTwin.chunk_step (RoboTwin_env.py) composed with what one step()     *)
(* call does to each environment.  chunk_step calls step() once per        *)
(* sub-step with the slice chunk_actions[:, i]; step() copies it into      *)
(* share_actions and runs one go/done barrier, in which every worker runs  *)
(* its rollout loop (one env step when the horizon is 1), auto-resets on   *)
(* termination, and reports terminated / truncated.  chunk_step then       *)
(* stacks the per-sub-step flags and returns them with the flags moved to  *)
(* the last position.                                                      *)
(*                                                                         *)
(* The barrier's interleavings are RoboTwinPool's subject; here a step()   *)
(* call is one atomic step over all environments.  Each environment keeps  *)
(* its wrapper's finish_step and an episode number (a history variable:    *)
(* the number of auto-resets so far), so that a property can say which     *)
(* episode every sub-step's result came from.                              *)
(***************************************************************************)
EXTENDS Naturals, Sequences

CONSTANTS
    N,          \* n_envs
    H,          \* horizon of the pool (share_actions holds H actions per env)
    ActionDim,  \* action_dim
    K,          \* chunk size: chunk_actions.shape[1]
    StepLim,    \* env.step_lim
    MaxCalls    \* model bound: number of chunk_step calls

ASSUME ChunkAssumption ==
    /\ N \in Nat \ {0}
    /\ H \in Nat \ {0}
    /\ ActionDim \in Nat \ {0}
    /\ K \in Nat \ {0}
    /\ StepLim \in Nat \ {0}
    /\ MaxCalls \in Nat \ {0}

VARIABLES
    status,       \* "running", "returned" or "error" (ValueError raised)
    calls,        \* chunk_step calls made so far
    i,            \* sub-steps done in the current call
    finishStep,   \* finishStep[e]: the wrapper's finish_step
    episode,      \* episode[e]: episodes env e has started (history)
    term,         \* term[e]: raw_chunk_terminations row of env e
    trunc,        \* trunc[e]: raw_chunk_truncations row of env e
    ep,           \* ep[e][k]: episode that took sub-step k (history)
    outTerm,      \* outTerm[e]: returned chunk_terminations row
    outTrunc      \* outTrunc[e]: returned chunk_truncations row

vars == <<status, calls, i, finishStep, episode, term, trunc, ep, outTerm,
          outTrunc>>

Envs == 1..N

\* The length of chunk_actions[:, i].flatten() and of share_actions.
SliceLen == N * ActionDim
BufferLen == N * H * ActionDim

NoRows == [e \in Envs |-> <<>>]

\* Sub-step outcome of one environment whose simulator reports done:
\* wrapper.step counts the step and computes truncated; the worker's loop
\* auto-resets a terminated episode (fresh wrapper, finish_step 0).
Truncated(e, done) == finishStep[e] + 1 >= StepLim /\ ~done
NextFinish(e, done) == IF done THEN 0 ELSE finishStep[e] + 1

\* One iteration of `for i in range(chunk_size)`: self.step(actions).
\* `self.share_actions[:] = actions.flatten()` raises ValueError unless
\* the slice fills the buffer exactly; then the barrier runs and every
\* environment reports its flags, which chunk_step appends to its lists.
SubStep ==
    /\ status = "running"
    /\ i < K
    /\ IF SliceLen = BufferLen
       THEN \E done \in [Envs -> BOOLEAN] :
              /\ term' = [e \in Envs |-> Append(term[e], done[e])]
              /\ trunc' = [e \in Envs |-> Append(trunc[e], Truncated(e, done[e]))]
              /\ ep' = [e \in Envs |-> Append(ep[e], episode[e])]
              /\ finishStep' = [e \in Envs |-> NextFinish(e, done[e])]
              /\ episode' = [e \in Envs |->
                               IF done[e] THEN episode[e] + 1 ELSE episode[e]]
              /\ i' = i + 1
              /\ UNCHANGED <<status, calls, outTerm, outTrunc>>
       ELSE /\ status' = "error"
            /\ UNCHANGED <<calls, i, finishStep, episode, term, trunc, ep,
                           outTerm, outTrunc>>

\* Whether any sub-step of a row is set: raw_chunk_*.any(dim=1).
AnySet(row) == \E k \in 1..Len(row) : row[k]

\* A row of zeros with the last position set to `flag`.
AtLast(flag) == [k \in 1..K |-> k = K /\ flag]

\* Mutant of Return: only the last sub-step's raw flag is reported.
ReturnLastOnly ==
    /\ status = "running"
    /\ i = K
    /\ outTerm' = [e \in Envs |-> AtLast(term[e][K])]
    /\ outTrunc' = [e \in Envs |-> AtLast(trunc[e][K])]
    /\ status' = "returned"
    /\ UNCHANGED <<calls, i, finishStep, episode, term, trunc, ep>>

\* After the loop: past_terminations / past_truncations, written into the
\* last column of zeroed sequences (auto_reset is False, so no reset).
Return ==
    /\ status = "running"
    /\ i = K
    /\ outTerm' = [e \in Envs |-> AtLast(AnySet(term[e]))]
    /\ outTrunc' = [e \in Envs |-> AtLast(AnySet(trunc[e]))]
    /\ status' = "returned"
    /\ UNCHANGED <<calls, i, finishStep, episode, term, trunc, ep>>

\* Mutant of NextCall: the per-call lists are not started afresh.
NextCallKeepsRows ==
    /\ status = "returned"
    /\ calls < MaxCalls
    /\ calls' = calls + 1
    /\ i' = 0
    /\ status' = "running"
    /\ UNCHANGED <<finishStep, episode, term, trunc, ep, outTerm, outTrunc>>

\* The caller's next chunk_step call: fresh lists.
NextCall ==
    /\ status = "returned"
    /\ calls < MaxCalls
    /\ calls' = calls + 1
    /\ i' = 0
    /\ status' = "running"
    /\ term' = NoRows /\ trunc' = NoRows /\ ep' = NoRows
    /\ outTerm' = NoRows /\ outTrunc' = NoRows
    /\ UNCHANGED <<finishStep, episode>>

\* First chunk_step call on a freshly reset pool.
Init ==
    /\ status = "running"
    /\ calls = 1
    /\ i = 0
    /\ finishStep = [e \in Envs |-> 0]
    /\ episode = [e \in Envs |-> 0]
    /\ term = NoRows /\ trunc = NoRows /\ ep = NoRows
    /\ outTerm = NoRows /\ outTrunc = NoRows

Next == SubStep \/ Return \/ NextCall

Spec == Init /\ [][Next]_vars

-----------------------------------------------------------------------------
(* Properties.                                                             *)

TypeOK ==
    /\ status \in {"running", "returned", "error"}
    /\ calls \in 1..MaxCalls
    /\ i \in 0..K
    /\ finishStep \in [Envs -> Nat]
    /\ episode \in [Envs -> Nat]
    /\ \A e \in Envs :
         /\ term[e] \in Seq(BOOLEAN) /\ Len(term[e]) = i
         /\ trunc[e] \in Seq(BOOLEAN) /\ Len(trunc[e]) = i
         /\ ep[e] \in Seq(Nat) /\ Len(ep[e]) = i
    /\ outTerm \in [Envs -> Seq(BOOLEAN)]
    /\ outTrunc \in [Envs -> Seq(BOOLEAN)]

\* No termination inside a chunk is lost: chunk_step reports an
\* environment as terminated exactly when that environment's worker has
\* started a new episode during the chunk (auto-reset), even when the
\* termination happened at an early sub-step and the fresh episode ran the
\* remaining ones.
TerminationReported ==
    status = "returned" =>
        \A e \in Envs : outTerm[e][K] <=> episode[e] # ep[e][1]

\* The caller's reading of the returned sequences: all sub-steps up to the
\* first one flagged terminated or truncated belong to one episode (spec
\* §8: terminated is set "on the corresponding sub-step").
RewardsOfOneEpisode ==
    status = "returned" =>
        \A e \in Envs, k \in 1..K :
            (\A j \in 1..(k - 1) : ~outTerm[e][j] /\ ~outTrunc[e][j])
                => ep[e][k] = ep[e][1]

=============================================================================

# Formal model of the RoboTwin environment pool

This directory holds TLA+ models of the RoboTwin environment pool in
`src/rlinf/envs/robotwin/`. It also holds the TLC configurations that check
them and the TLAPS proofs of their main invariants.

## 1. The system

`RoboTwin_env.py` runs `n_envs` simulator instances, each in its own OS
process (`worker`). They are driven by one controller object (`class RoboTwin`).
The two sides share the following state:

| shared object | created at | used for |
|---|---|---|
| `input_sem` (one counting semaphore for all workers) | `init_process` l.409 | go permits: the controller releases N, each worker takes one per cycle (l.83, l.108) |
| `output_sem` (one counting semaphore) | l.410 | done signals: each worker releases one per cycle (l.105, 162, 240), the controller acquires N |
| `reset_event` | l.411 | set by `reset()` for the whole cycle, cleared after the N done signals (l.484, 493) |
| `share_seed` (a `Value` with its lock) | l.413 | the seed cursor: a worker that reseeds reads it, adds one and wraps it at 30 (l.118-122, 203-207) |
| `share_actions` | l.414 | actions written by `step()` before the permits go out |
| `share_results` | l.417 | one flat result slot per worker, decoded by `de_initialize_result` |

Each worker owns a `RobotwinEnvWrapper` (`RoboTwin_wrapper.py`). The wrapper
counts `finish_step`, and `step()` computes `timeout = finish_step >= step_lim`,
`terminated = done` and `truncated = timeout and not terminated`. It sets
`active = False` when the episode ends. `initialize()` retries the simulator
set-up once and then lets the exception escape.

The worker loop runs as follows:
1. **Boot.** The worker builds and initializes its wrapper.
2. **Initial push.** It takes one permit, writes the initial observation with
   flags (0, 0, 0) and signals.
3. **Loop.** Each turn it takes a permit, then does one of two things:
   - If `reset_event` is set, it claims seeds and rebuilds the wrapper until
     `initialize()` succeeds (a `try` inside `while not valid_seed`). Then it
     writes flags (0, 0, 1) and signals.
   - Otherwise it steps the wrapper up to H times and breaks only on
     `terminated`. On termination it claims a seed and rebuilds the wrapper
     with no retry. Then it writes the last step's flags and signals.

The controller's calls:
- `__init__` sets `self.seed = 0` and calls `init_process`.
- `init_process` creates fresh shared objects and spawns N workers. It
  releases N permits and acquires N done signals.
- `step` writes the actions and runs the same barrier.
- `reset` runs the barrier with `reset_event` set.
- `clear` terminates the workers and saves the cursor into `self.seed`, reset
  to 0 above 3000.

## 2. Inventory

| component | source | status | module |
|---|---|---|---|
| Pool controller (`init_process`, `step`, `reset`, `clear`) | RoboTwin_env.py 407-499, 614-626 | partly (result decoding left out) | `RoboTwinPool` |
| Worker loop (`worker`) | RoboTwin_env.py 73-240 | modelled | `RoboTwinPool` |
| Seed cursor and its lock | RoboTwin_env.py 118-122, 203-209, 623-625 | modelled | `RoboTwinPool`, `SeedCursor` (abstract), `RoboTwinReseed` |
| Wrapper (`RobotwinEnvWrapper`) | RoboTwin_wrapper.py 104-216 | partly (`step` flags, `initialize` outcome, `get_obs` failure) | `RoboTwinPool` |
| Result codec | RoboTwin_env.py 94-104, 587-612 | partly (record abstraction) | `RoboTwinPool` |
| `chunk_step` | RoboTwin_env.py 541-585 | modelled | `ChunkStep` |
| `transform`, `update_obs`, JPEG round trip | RoboTwin_env.py 243-249, 501-539 | not modelled: image arithmetic (only `update_obs(None)` raising is kept) | — |
| `get_robotwin2_task`, `class_decorator` | RoboTwin_wrapper.py 1-102 | not modelled: configuration I/O | — |
| metrics helpers, video utilities (`utils.py`) | | not modelled: never reached by the pool protocol | — |
| `test_robotwin.py` | 42-59 | its call order is the caller behaviour `CallAfterClear` | `RoboTwinPool` |

The hazards that a test would hardly reach are listed with their lines in
`PROJECT.json` ("hazards"), together with the properties that cover them.
Every listed hazard has at least one property. The ones involving several
actors are:
- permits stolen through the shared semaphore;
- a stale result slot read after the barrier;
- the seed cursor's critical section, and the cursor carried over `clear()`;
- `reset_event` kept up for the whole reset cycle;
- a worker dying while it holds a permit (failed auto-reset, `obs = None`),
  which hangs the controller;
- flags of a chunk collapsed to its last position after a mid-chunk
  auto-reset.

## 3. The pool model: `RoboTwinPool.tla`

State:
- **Controller.** `ctlPc` is wait, idle or cleared; `call` is init, step or
  reset; `got` counts the done signals acquired; `cycle` counts the calls made.
- **Synchronisation.** `inputSem`, `outputSem` and `resetEvent`.
- **Seeds.** `shareSeed`, `seedLock`, `selfSeed` (`self.seed`) and `claims`.
  `claims` is a history variable that counts the seeds claimed, modulo the
  wrap.
- **Per worker.** `pc` is the control point in `worker()`. `t` is the loop
  index. `finishStep` and `active` belong to the wrapper.
  `lastTerminated`/`lastTruncated` hold the last step's flags. `nowSeed` holds
  the seed just claimed.
- **Results.** `results[w]` is the record last written in slot w: its kind
  (init, reset or step), the cycle that wrote it and the two flags.

One action per step of the code:
- Worker actions:
  - `Boot` (l.73-80);
  - `InitialPush` (82-105);
  - `StartReset` and `StartChunk` (107-116, 165-170);
  - `EnvStep` (171-192 with the wrapper's `step`); where the loop goes next
    is `AfterStep`: the next loop turn, publishing, the auto-reset, or, when a
    `get_obs` failure left `obs = None` among the two observations
    `update_obs` decodes, to a dead process;
  - `Publish` (223-239);
  - `ResetSeedRead`/`ResetSeedBump` and `AutoSeedRead`/`AutoSeedBump`, which
    split the locked claim into its read and its write so that the lock is
    what keeps them atomic;
  - `ResetRebuild`/`ResetRebuildFails` (123-163);
  - `AutoRebuild`/`AutoRebuildFails` (210-239, wrapper 120-144);
  - `Release`.
- Controller actions:
  - `StepCall`/`ResetCall`, which release the permits; the methods check
    nothing, so the guard `CallerMayCall` is the caller's discipline;
  - `CollectDone`, one acquire;
  - `FinishStep`/`FinishReset`, which decode and, for a reset, clear the event;
  - `Clear` (its cap is `Persist`);
  - `InitProcess`.

`Init` is the state in which the constructor's `init_process` is waiting.

Three simulator or caller behaviours are switched by constants:
- `InitCanFail`: `initialize()` may raise twice;
- `ObsCanFail`: the simulator's `get_obs()` may raise inside `wrapper.step`;
- `CallAfterClear`: the caller may call `step()`/`reset()` on a cleared
  pool, as `test_robotwin.py` does.

Whether `take_action` succeeds (`done`) is a free choice in every step.
Images, states and actions are left out: no property depends on them.

`MCRoboTwinPool.tla` sets N = 2, H = 2, step_lim = 2, a seed wrap of 3 and 4
calls:
- two workers are the fewest for which permits can be stolen, and for which
  two seed claims can race;
- H = 2 lets a chunk terminate before its end;
- step_lim = 2 makes truncation reachable inside the call bound;
- a wrap of 3 makes the cursor wrap within a few claims;
- four calls are enough for init, a chunk, a reset, `clear()` and the call
  after it.

`SeedCap` keeps the code's 3000, so the cap in `clear()` never fires (the
wrap keeps the cursor below 30); `CapAssumption` (wrap <= cap + 1) records
that, and the proofs use it.

## 4. The seed cursor as an abstract object: `SeedCursor.tla`

`SeedCursor` states what the cursor promises: `Claim(w)` hands worker w the
current value and advances the cursor by one modulo the wrap in one atomic
step; `Restart` (clear, then init_process) keeps the cursor, capped, and
the new workers hold no seed.

`RoboTwinPool` implements it (`SeedRefinement == SC!Spec`) under the mapping
- `cursor <- IF seedLock = NoOne THEN shareSeed ELSE Wrap(shareSeed + 1)`
  (while a worker holds the lock it has read its seed and the abstract
  cursor has already moved on);
- `claimed <- nowSeed`.

The locked read is the abstract `Claim`; the write under the lock, and
every other step, is a stutter; `InitProcess` is `Restart`.

`RoboTwinReseed.tla` adds two history variables to the pool: the cursor when
the `reset()` call began, and the number of wrappers the reseeding branch
rebuilt since then. They serve `ReseedOncePerWorker`.

## 5. `chunk_step`: `ChunkStep.tla`

`chunk_step` calls `step()` K times, with the slice `chunk_actions[:, i]`.
It stacks the per-sub-step flags, reduces them with `any()`, and returns
zero rows with the reduction in the last position. The module keeps:
- `SubStep`: one `step()` call as one atomic step over all environments,
  since the barrier is `RoboTwinPool`'s subject. It raises (`status =
  "error"`) when the slice of n_envs*action_dim values does not fill
  `share_actions` of n_envs*horizon*action_dim values. Otherwise every
  environment reports `done`, the wrapper's `truncated` (`Truncated`) and
  `finish_step` (`NextFinish`, 0 after the worker's auto-reset).
- `Return`: `AnySet` and `AtLast`.
- `NextCall`: the caller's next call, with fresh lists.

`episode[e]` (auto-resets so far) and `ep[e][k]` (the episode that took
sub-step k) are history variables. They let a property say from which
episode a sub-step's result came. `MCChunkStep.tla` uses 2 environments,
action_dim 2, chunks of 2 sub-steps, step_lim 2 and 3 calls; a chunk can
then terminate at its first sub-step and run its second in a new episode.

## 6. Runs

| run | cfg | result | what it shows |
|---|---|---|---|
| pool_safety | MCPoolSafety.cfg (all three switches on) | passes, 406,635 states | `TypeOK`, `NoWorkerInFlight`, `CursorCountsClaims`, `ResetCycleRunsNoChunk`, `AutoResetBeforePublish`, `SeedRefinement` and the action property `SlotsStableWhileRead` (no step changes a result slot while the controller may read them) hold in every interleaving, with failures and calls after `clear()` |
| pool_liveness | MCPoolLiveness.cfg (switches off, `FairSpec`) | passes, 156,879 states | `CallsReturn`: every call returns when every worker process is scheduled |
| pool_permit_stealing | MCPoolStealing.cfg | violation of `BatchFresh` | worker 1 makes its initial push, then takes worker 2's permit while worker 2 is still booting; the constructor decodes slot 2 unwritten. The trace needs no failure (`InitCanFail` is off): a slow boot is enough. A worker that dies at boot leaves its slot unwritten the same way. This run's shortest trace does not take that path, but with `InitCanFail` on TLC reaches the violation through a double `initialize()` failure at boot as well |
| pool_autoreset_crash | MCPoolAutoResetCrash.cfg | violation of `ReseedNeverFatal` | a failed re-initialisation on auto-reset kills a worker that holds a permit |
| pool_obs_crash | MCPoolObsCrash.cfg (`ObsCanFail`) | violation of `CallsReturn` | `obs = None` kills the worker in `update_obs`; the call never returns |
| pool_call_after_clear | MCPoolCallAfterClear.cfg (`CallAfterClear`) | violation of `CallsReturn` | `reset()` after `clear()` without `init_process()` waits forever |
| pool_reseed_count | MCPoolReseed.cfg (`RoboTwinReseed`) | violation of `ReseedOncePerWorker` | one failed `initialize()` in a reset cycle costs an extra seed |
| chunk_flags | MCChunk.cfg (H = 1) | passes, 2,553 states | `TypeOK` and `TerminationReported`: a termination anywhere in a chunk is reported |
| chunk_episode_mixing | MCChunkEpisodes.cfg (H = 1) | violation of `RewardsOfOneEpisode` | after a termination at sub-step 1, sub-step 2 belongs to a new episode and the flags do not say so |

Deadlock checking is off in every cfg. The caller may stop calling, and then
every worker blocks on `input_sem`; that is a legitimate final state.

Each property of a passing run has a mutant in `PROJECT.json`, and TLC finds
the property violated once the mutant replaces the code:
- `WrapLate` wraps on `>` instead of `>=`.
- `SeedReadUnlocked` claims a seed without the lock.
- `SeedBumpTakesNew` seeds the worker with the incremented value.
- `EnvStepNoAutoReset` leaves out the `if last_terminated` block.
- `ResetCallEarlyClear` clears the event early.
- `FinishStepEarly` collects one done signal too few (it breaks both
  `NoWorkerInFlight` and `SlotsStableWhileRead`).
- `ResetRebuildNoExit` never sets `valid_seed`.
- `ReturnLastOnly` reports only the last sub-step's flag.
- `NextCallKeepsRows` does not start fresh lists.

**Fairness.**
- Every worker is an OS process, so `WF_vars(Worker(w))` holds.
- The controller's loop of `output_sem.acquire()` runs without the caller, so
  `CollectDone`, `FinishStep` and `FinishReset` are weakly fair too.
- The caller's own calls are not fair: it may stop calling at any time.
- Liveness passes with the three switches off. Each switch alone breaks it
  (`pool_autoreset_crash` as an invariant, the other two as `CallsReturn`).

## 7. Proofs (TLAPS)

`RoboTwinPoolProofs.tla`:
- **`TypeCorrect`**: `Spec => []TypeOK`, through `TypeInv == TypeOK /\
  RunBound` (a running worker has `t < H`), one case per action.
- **`BarrierSafe`**: `Spec => []NoWorkerInFlight` for every N. It is proved
  through the inductive invariant `IInv == TypeInv /\ PermitCount`:
  - during a call, `inputSem + |holders| + outputSem + got = N`;
  - outside a call, the semaphores are zero and there are no holders.

  Each permit moves in turn from `inputSem` to a holder, to `outputSem`, to
  `got`; with `got = N` the other three are zero. The cardinality steps use
  `FiniteSetTheorems`.

`RoboTwinSeedProofs.tla`:
- **`SeedCounting`**: `Spec => []CursorCountsClaims`.
- **`SeedCursorImplemented`**: `Spec => SeedRefinement`.

Both rest on `SeedInv`:
- a worker holds the seed lock exactly when it is between its read and its
  write;
- the holder's `now_seed` is still the cursor;
- the cursor equals `claims`;
- a cleared pool has persisted the cursor and nobody holds the lock.

`SeedInv` alone is not inductive. `SInv == IInv /\ SeedInv` is, because only
the permit count rules out a claim on a cleared pool. The refinement step
lemma shows that every step is `SC!Claim`, `SC!Restart` or a stutter of
`<<cursor, claimed>>`.

`ChunkStepProofs.tla`:
- **`ChunkTypeCorrect`**: `Spec => []TypeOK`.
- **`TerminationsKept`**: `Spec => []TerminationReported`, for every number
  of environments, horizon and chunk size.

The inductive invariant is `CInv == TypeOK /\ EpisodeCount /\ ReturnedShape`:
- after sub-step 1, an environment is still in the episode that took
  sub-step 1 exactly when no raw flag gathered so far is set;
- a returned call has all K flags and reports their disjunction at K.

`RoboTwinCycleProofs.tla`:
- **`ResetRunsNoChunk`**: `Spec => []ResetCycleRunsNoChunk`. It goes through
  `IInv /\ ResetInv`. `ResetInv` says that during a reset call
  `reset_event` is set and no worker is in a chunk or its auto-reset.
  - `StartChunk` needs `reset_event` down, so no worker enters a chunk
    during the call.
  - `ResetCall` starts from outside a call. There `PermitCount` (part of
    `IInv`) says no worker holds a permit, so no worker is in a chunk
    either.
  - Without the `reset_event` conjunct, a `StartChunk` step would be allowed
    in the induction step.
- **`AutoResetDone`**: `Spec => []AutoResetBeforePublish`.
  `AutoResetBeforePublish` is not inductive on its own, because `Publish`
  copies `last_terminated` into the slot. `AutoInv` adds that a worker at
  `"publish"` has not terminated: `EnvStep` sends a terminated chunk to the
  auto-reset and never to `Publish`.
- **`SlotsStable`**: `Spec => SlotsStableWhileRead`, the action property. It
  follows from `IInv` step by step, since the only steps that write a slot
  are these:
  - a worker's step while it holds or takes a go permit;
  - `init_process()` on a cleared pool.

TLC checked both strengthened invariants on the `pool_safety` instance
before they were proved.

The proofs rest on `ConstAssumption`/`ChunkAssumption` (positive sizes) and
`CapAssumption`.

Left to TLC only:
- Liveness (`CallsReturn`). Temporal reasoning under fairness, and ENABLED,
  are beyond these provers.
- The violated properties of the violation runs. They are counterexamples,
  not theorems.

## 8. Findings

1. **Permits can be stolen** (`RoboTwin_env.py:108`). One semaphore serves
   every worker, so the barrier guarantees N done signals but not one per
   worker. The N signals give `NoWorkerInFlight` (proved) but not
   `BatchFresh`.
2. **Auto-reset failure is fatal** (`:221`). The reset path retries
   `initialize()`; the auto-reset path does not.
3. **`get_obs` failure hangs the pool** (`RoboTwin_wrapper.py:184`).
   `wrapper.step` turns it into `obs = None`, and `update_obs` raises in the
   worker, which holds a permit.
4. **`test_robotwin.py` calls `reset()` after `clear()`** (`:44`) without
   `init_process()`; the second iteration hangs.
5. **Retries consume seeds** (`RoboTwin_env.py:118`). The claim is inside the
   retry loop, so a reset advances the cursor by more than one per worker.
6. **Chunk flags hide an episode boundary** (`:575`). A sub-step that
   terminates is followed, in the same chunk, by sub-steps of the worker's
   new episode, while the flag is reported only at the last position.

Two questions were dropped as findings, and the reasons are recorded here:
- **Truncation.** The worker keeps stepping after truncation, because
  the rollout loop breaks only on termination (`:178`). The spec
  (section 4.3) leaves truncation to the caller, so this is not a
  disagreement with the code.
- **Chunk slice size.** `chunk_step`'s per-sub-step slice fills
  `share_actions` only when the horizon is 1. The layout comment at `:542`
  shows the method is written for that case. `ChunkStep` keeps the
  `ValueError` branch of `SubStep`, but no run asks about it.

## 9. Not modelled, and the plan

Next:
1. A result codec module: the flat layout with `RESULT_SIZE` and the offsets
   of `de_initialize_result`, checked as a round trip.
2. An abstract barrier specification (one result per worker per call), with
   a refinement from `RoboTwinPool` where permits cannot be stolen.
3. TLAPS proofs for `RoboTwinReseed`'s history variables: that a reset call
   with no failures claims exactly N seeds.

Out of reach, or of no use to model:
- image conversion;
- YAML configuration loading;
- video and metrics utilities;
- `_handle_auto_reset`, which `chunk_step` calls only when
  `auto_reset = True`. The code never sets it, and the method does not exist.

----------------------------- MODULE RoboTwinPool -----------------------------
(***************************************************************************)
(* The RoboTwin process pool of src/rlinf/envs/robotwin/RoboTwin_env.py:   *)
(* the controller (class RoboTwin: init_process, step, reset, clear) and   *)
(* N worker processes (function worker), which share                       *)
(*   - input_sem / output_sem: two counting semaphores shared by ALL       *)
(*     workers (one go permit and one done signal per worker per cycle),   *)
(*   - reset_event: the pool-wide reset flag,                              *)
(*   - share_seed: the seed cursor, guarded by its own lock,               *)
(*   - share_results: one result slot per worker.                          *)
(* The wrapper RobotwinEnvWrapper (RoboTwin_wrapper.py) is folded into the *)
(* worker actions that call it: its finish_step counter and active flag    *)
(* are per-worker state; the simulator's success signal and the raising    *)
(* of initialize() are nondeterministic choices.                           *)
(*                                                                         *)
(* Data is abstracted to what the properties tell apart: a result slot is  *)
(* the kind of record last written in it, the cycle that wrote it and the  *)
(* terminated / truncated flags; images, states and actions are left out   *)
(* (the simulator outcome does not depend on them in this model).          *)
(***************************************************************************)
EXTENDS Naturals

CONSTANTS
    N,            \* n_envs: number of worker processes
    H,            \* horizon: sub-steps per rollout chunk
    StepLim,      \* env.step_lim of the simulator task
    SeedWrap,     \* the seed cursor wraps at this value (30 in worker())
    SeedCap,      \* clear() resets the persisted seed above this value (3000)
    InitCanFail,  \* whether RobotwinEnvWrapper.initialize() may raise twice
    ObsCanFail,   \* whether the simulator's get_obs() may raise in step()
    CallAfterClear, \* whether the caller calls step()/reset() after clear()
    MaxCycles     \* model bound: number of go/done cycles the caller starts

ASSUME ConstAssumption ==
    /\ N \in Nat \ {0}
    /\ H \in Nat \ {0}
    /\ StepLim \in Nat \ {0}
    /\ SeedWrap \in Nat \ {0}
    /\ SeedCap \in Nat
    /\ InitCanFail \in BOOLEAN
    /\ ObsCanFail \in BOOLEAN
    /\ CallAfterClear \in BOOLEAN
    /\ MaxCycles \in Nat \ {0}

\* The persisted cursor is never above the cap that clear() applies: the
\* wrap (30) is far below the cap (3000).
ASSUME CapAssumption == SeedWrap <= SeedCap + 1

\* process_id + 1: worker w owns result slot w.
Workers == 1..N

\* Nobody holds the seed lock.
NoOne == 0

VARIABLES
    ctlPc,         \* controller: "wait" (in a call), "idle", "cleared"
    call,          \* the call in progress: "init", "step" or "reset"
    got,           \* done signals the controller has acquired in this call
    cycle,         \* number of go/done cycles started so far
    inputSem,      \* value of input_sem (go permits)
    outputSem,     \* value of output_sem (done signals)
    resetEvent,    \* reset_event.is_set()
    shareSeed,     \* share_seed.value, the seed cursor
    seedLock,      \* holder of share_seed.get_lock(), or NoOne
    selfSeed,      \* self.seed: the cursor persisted by clear()
    claims,        \* history: seeds claimed so far, modulo SeedWrap
    pc,            \* pc[w]: control point of worker w
    t,             \* t[w]: index of the rollout loop
    finishStep,    \* finish_step of worker w's current wrapper
    active,        \* active flag of worker w's current wrapper
    lastTerminated, \* last_terminated of the chunk in progress
    lastTruncated, \* last_truncated of the chunk in progress
    nowSeed,       \* now_seed: the seed worker w claimed last
    results        \* results[w]: the record in worker w's slot

ctlVars == <<ctlPc, call, got, cycle>>
syncVars == <<inputSem, outputSem, resetEvent>>
seedVars == <<shareSeed, seedLock, selfSeed, claims>>
workerVars == <<pc, t, finishStep, active, lastTerminated, lastTruncated, nowSeed>>
vars == <<ctlVars, syncVars, seedVars, workerVars, results>>

\* Control points of a worker.  A worker between taking a go permit and
\* releasing its done signal holds the permit: it is "in flight".
PcValues == {"boot", "wait0", "wait", "run", "publish",
             "claimR", "bumpR", "buildR", "claimA", "bumpA", "buildA",
             "signal", "dead", "exited"}
InFlight == {"run", "publish", "claimR", "bumpR", "buildR",
             "claimA", "bumpA", "buildA", "signal", "dead"}

Kinds == {"none", "init", "reset", "step"}
Record == [kind : Kinds, cyc : Nat, term : BOOLEAN, trunc : BOOLEAN]

\* The record np.concatenate builds, written into the worker's slot.
Rec(kind, term, trunc) ==
    [kind |-> kind, cyc |-> cycle, term |-> term, trunc |-> trunc]

\* A zero-filled slot of a freshly allocated share_results.
Empty == [kind |-> "none", cyc |-> 0, term |-> FALSE, trunc |-> FALSE]

\* Mutant of Wrap: wraps only above SeedWrap (`> 30` for `>= 30`).
WrapLate(v) == IF v > SeedWrap THEN v % SeedWrap ELSE v

\* `seed_id.value += 1; if seed_id.value >= 30: seed_id.value %= 30`
Wrap(v) == IF v >= SeedWrap THEN v % SeedWrap ELSE v

-----------------------------------------------------------------------------
(* Worker process: worker(process_id, ...).                                *)

\* Construct the wrapper with trial_id 0 and initialize() it; a second
\* failure of initialize() raises and ends the process before it ever
\* takes a permit.
Boot(w) ==
    /\ pc[w] = "boot"
    /\ \/ pc' = [pc EXCEPT ![w] = "wait0"]
       \/ InitCanFail /\ pc' = [pc EXCEPT ![w] = "exited"]
    /\ UNCHANGED <<ctlVars, syncVars, seedVars, t, finishStep, active,
                   lastTerminated, lastTruncated, nowSeed, results>>

\* Take a go permit, observe, write the initial record (flags 0, 0, 0).
InitialPush(w) ==
    /\ pc[w] = "wait0"
    /\ inputSem > 0
    /\ inputSem' = inputSem - 1
    /\ results' = [results EXCEPT ![w] = Rec("init", FALSE, FALSE)]
    /\ pc' = [pc EXCEPT ![w] = "signal"]
    /\ UNCHANGED <<ctlVars, outputSem, resetEvent, seedVars, t, finishStep,
                   active, lastTerminated, lastTruncated, nowSeed>>

\* Take a go permit while reset_event is set: enter the reseed loop.
StartReset(w) ==
    /\ pc[w] = "wait"
    /\ inputSem > 0
    /\ resetEvent
    /\ inputSem' = inputSem - 1
    /\ pc' = [pc EXCEPT ![w] = "claimR"]
    /\ UNCHANGED <<ctlVars, outputSem, resetEvent, seedVars, t, finishStep,
                   active, lastTerminated, lastTruncated, nowSeed, results>>

\* Take a go permit while reset_event is clear: start a rollout chunk.
StartChunk(w) ==
    /\ pc[w] = "wait"
    /\ inputSem > 0
    /\ ~resetEvent
    /\ inputSem' = inputSem - 1
    /\ pc' = [pc EXCEPT ![w] = "run"]
    /\ t' = [t EXCEPT ![w] = 0]
    /\ lastTerminated' = [lastTerminated EXCEPT ![w] = FALSE]
    /\ lastTruncated' = [lastTruncated EXCEPT ![w] = FALSE]
    /\ UNCHANGED <<ctlVars, outputSem, resetEvent, seedVars, finishStep,
                   active, nowSeed, results>>

\* Mutant of EnvStep: a terminated chunk is published without the
\* auto-reset (the `if last_terminated:` block is missing).
EnvStepNoAutoReset(w) ==
    /\ pc[w] = "run"
    /\ \E done \in BOOLEAN :
         LET fs    == finishStep[w] + 1
             trunc == fs >= StepLim /\ ~done
         IN  /\ finishStep' = [finishStep EXCEPT ![w] = fs]
             /\ active' = [active EXCEPT ![w] = active[w] /\ ~done /\ ~trunc]
             /\ lastTerminated' = [lastTerminated EXCEPT ![w] = done]
             /\ lastTruncated' = [lastTruncated EXCEPT ![w] = trunc]
             /\ t' = [t EXCEPT ![w] = t[w] + 1]
             /\ pc' = [pc EXCEPT ![w] =
                         IF done \/ t[w] + 1 = H THEN "publish" ELSE "run"]
    /\ UNCHANGED <<ctlVars, syncVars, seedVars, nowSeed, results>>

\* Where the worker goes after env_wrapper.step: on termination (break) or
\* after the H-th step the loop ends and update_obs decodes the last two
\* observations.  wrapper.step swallows a get_obs failure and returns
\* obs = None; update_obs(None) then raises and ends the process, which
\* still holds its go permit.  Only the last two observations are decoded,
\* so the chunk's last step is where the failure bites.
AfterStep(w, done) ==
    IF done \/ t[w] + 1 = H
    THEN {IF done THEN "claimA" ELSE "publish"}
           \cup (IF ObsCanFail THEN {"dead"} ELSE {})
    ELSE {"run"}

\* One iteration of the rollout loop: env_wrapper.step(action).  The
\* simulator reports success (done) or not; finish_step grows by one;
\* timeout is finish_step >= step_lim; truncated is timeout and not done.
\* The loop breaks only on termination; a terminated chunk goes on to the
\* auto-reset, a finished one to publishing (AfterStep).
EnvStep(w) ==
    /\ pc[w] = "run"
    /\ \E done \in BOOLEAN :
         LET fs    == finishStep[w] + 1
             trunc == fs >= StepLim /\ ~done
         IN  /\ finishStep' = [finishStep EXCEPT ![w] = fs]
             /\ active' = [active EXCEPT ![w] = active[w] /\ ~done /\ ~trunc]
             /\ lastTerminated' = [lastTerminated EXCEPT ![w] = done]
             /\ lastTruncated' = [lastTruncated EXCEPT ![w] = trunc]
             /\ t' = [t EXCEPT ![w] = t[w] + 1]
             /\ \E next \in AfterStep(w, done) : pc' = [pc EXCEPT ![w] = next]
    /\ UNCHANGED <<ctlVars, syncVars, seedVars, nowSeed, results>>

\* No termination: prev_obs = last_obs; write the chunk's record.
Publish(w) ==
    /\ pc[w] = "publish"
    /\ results' = [results EXCEPT ![w] =
                     Rec("step", lastTerminated[w], lastTruncated[w])]
    /\ pc' = [pc EXCEPT ![w] = "signal"]
    /\ UNCHANGED <<ctlVars, syncVars, seedVars, t, finishStep, active,
                   lastTerminated, lastTruncated, nowSeed>>

\* Mutant of SeedRead: the claim does not take share_seed's lock.
SeedReadUnlocked(w, next) ==
    /\ seedLock' = w
    /\ nowSeed' = [nowSeed EXCEPT ![w] = shareSeed]
    /\ pc' = [pc EXCEPT ![w] = next]
    /\ UNCHANGED <<ctlVars, syncVars, shareSeed, selfSeed, claims, t,
                   finishStep, active, lastTerminated, lastTruncated, results>>

\* `with seed_id.get_lock(): now_seed = seed_id.value`
SeedRead(w, next) ==
    /\ seedLock = NoOne
    /\ seedLock' = w
    /\ nowSeed' = [nowSeed EXCEPT ![w] = shareSeed]
    /\ pc' = [pc EXCEPT ![w] = next]
    /\ UNCHANGED <<ctlVars, syncVars, shareSeed, selfSeed, claims, t,
                   finishStep, active, lastTerminated, lastTruncated, results>>

\* Mutant of SeedBump: now_seed is taken after the increment, so the
\* worker seeds with the value it hands on to the next claimer.
SeedBumpTakesNew(w, next) ==
    /\ shareSeed' = Wrap(nowSeed[w] + 1)
    /\ claims' = (claims + 1) % SeedWrap
    /\ seedLock' = NoOne
    /\ nowSeed' = [nowSeed EXCEPT ![w] = Wrap(nowSeed[w] + 1)]
    /\ pc' = [pc EXCEPT ![w] = next]
    /\ UNCHANGED <<ctlVars, syncVars, selfSeed, t, finishStep, active,
                   lastTerminated, lastTruncated, results>>

\* `seed_id.value += 1` with its wrap, then leave the lock.  Under the lock
\* the cursor still holds the value read as now_seed.
SeedBump(w, next) ==
    /\ shareSeed' = Wrap(nowSeed[w] + 1)
    /\ claims' = (claims + 1) % SeedWrap
    /\ seedLock' = NoOne
    /\ pc' = [pc EXCEPT ![w] = next]
    /\ UNCHANGED <<ctlVars, syncVars, selfSeed, t, finishStep, active,
                   lastTerminated, lastTruncated, nowSeed, results>>

ResetSeedRead(w) == pc[w] = "claimR" /\ SeedRead(w, "bumpR")
ResetSeedBump(w) == pc[w] = "bumpR" /\ SeedBump(w, "buildR")

\* Mutant of ResetRebuild: valid_seed is never set, so a successful
\* rebuild goes round the retry loop again.
ResetRebuildNoExit(w) ==
    /\ pc[w] = "buildR"
    /\ finishStep' = [finishStep EXCEPT ![w] = 0]
    /\ active' = [active EXCEPT ![w] = TRUE]
    /\ pc' = [pc EXCEPT ![w] = "claimR"]
    /\ UNCHANGED <<ctlVars, syncVars, seedVars, t, lastTerminated,
                   lastTruncated, nowSeed, results>>

\* Close the old wrapper, construct one with now_seed and initialize() it;
\* then observe and write the reset record (flags 0, 0, 1).
ResetRebuild(w) ==
    /\ pc[w] = "buildR"
    /\ finishStep' = [finishStep EXCEPT ![w] = 0]
    /\ active' = [active EXCEPT ![w] = TRUE]
    /\ results' = [results EXCEPT ![w] = Rec("reset", FALSE, TRUE)]
    /\ pc' = [pc EXCEPT ![w] = "signal"]
    /\ UNCHANGED <<ctlVars, syncVars, seedVars, t, lastTerminated,
                   lastTruncated, nowSeed>>

\* initialize() raised twice: log it and claim another seed.
ResetRebuildFails(w) ==
    /\ pc[w] = "buildR"
    /\ InitCanFail
    /\ pc' = [pc EXCEPT ![w] = "claimR"]
    /\ UNCHANGED <<ctlVars, syncVars, seedVars, t, finishStep, active,
                   lastTerminated, lastTruncated, nowSeed, results>>

AutoSeedRead(w) == pc[w] = "claimA" /\ SeedRead(w, "bumpA")
AutoSeedBump(w) == pc[w] = "bumpA" /\ SeedBump(w, "buildA")

\* Auto-reset after termination: close, construct with now_seed,
\* initialize(), prev_obs = get_obs(); the record still carries the flags
\* of the episode that just ended.
AutoRebuild(w) ==
    /\ pc[w] = "buildA"
    /\ finishStep' = [finishStep EXCEPT ![w] = 0]
    /\ active' = [active EXCEPT ![w] = TRUE]
    /\ results' = [results EXCEPT ![w] =
                     Rec("step", lastTerminated[w], lastTruncated[w])]
    /\ pc' = [pc EXCEPT ![w] = "signal"]
    /\ UNCHANGED <<ctlVars, syncVars, seedVars, t, lastTerminated,
                   lastTruncated, nowSeed>>

\* initialize() raised twice outside any retry loop: the exception ends the
\* worker process while it holds its go permit.
AutoRebuildFails(w) ==
    /\ pc[w] = "buildA"
    /\ InitCanFail
    /\ pc' = [pc EXCEPT ![w] = "dead"]
    /\ UNCHANGED <<ctlVars, syncVars, seedVars, t, finishStep, active,
                   lastTerminated, lastTruncated, nowSeed, results>>

\* result_output_sem.release(), back to the top of the loop.
Release(w) ==
    /\ pc[w] = "signal"
    /\ outputSem' = outputSem + 1
    /\ pc' = [pc EXCEPT ![w] = "wait"]
    /\ UNCHANGED <<ctlVars, inputSem, resetEvent, seedVars, t, finishStep,
                   active, lastTerminated, lastTruncated, nowSeed, results>>

Worker(w) ==
    \/ Boot(w) \/ InitialPush(w) \/ StartReset(w) \/ StartChunk(w)
    \/ EnvStep(w) \/ Publish(w)
    \/ ResetSeedRead(w) \/ ResetSeedBump(w) \/ ResetRebuild(w)
    \/ ResetRebuildFails(w)
    \/ AutoSeedRead(w) \/ AutoSeedBump(w) \/ AutoRebuild(w)
    \/ AutoRebuildFails(w)
    \/ Release(w)

-----------------------------------------------------------------------------
(* Controller: class RoboTwin.                                             *)

\* The worker state of a freshly spawned pool.
SpawnWorkers ==
    /\ pc' = [w \in Workers |-> "boot"]
    /\ t' = [w \in Workers |-> 0]
    /\ finishStep' = [w \in Workers |-> 0]
    /\ active' = [w \in Workers |-> TRUE]
    /\ lastTerminated' = [w \in Workers |-> FALSE]
    /\ lastTruncated' = [w \in Workers |-> FALSE]
    /\ nowSeed' = [w \in Workers |-> 0]
    /\ results' = [w \in Workers |-> Empty]

\* step() and reset() check nothing about the pool: the caller calls them
\* after a call has returned, and a caller that goes on after clear()
\* without init_process() (CallAfterClear) calls them on a cleared pool,
\* whose processes are terminated and whose semaphores are the old ones.
CallerMayCall == ctlPc = "idle" \/ (CallAfterClear /\ ctlPc = "cleared")

\* step(actions): write share_actions, release N go permits, then wait.
StepCall ==
    /\ CallerMayCall
    /\ cycle < MaxCycles
    /\ inputSem' = inputSem + N
    /\ ctlPc' = "wait"
    /\ call' = "step"
    /\ got' = 0
    /\ cycle' = cycle + 1
    /\ UNCHANGED <<outputSem, resetEvent, seedVars, workerVars, results>>

\* Mutant of ResetCall: reset_event.clear() moved before the wait for the
\* done signals, so the flag is down again once the permits are out.
ResetCallEarlyClear ==
    /\ CallerMayCall
    /\ cycle < MaxCycles
    /\ resetEvent' = FALSE
    /\ inputSem' = inputSem + N
    /\ ctlPc' = "wait"
    /\ call' = "reset"
    /\ got' = 0
    /\ cycle' = cycle + 1
    /\ UNCHANGED <<outputSem, seedVars, workerVars, results>>

\* reset(): set reset_event, release N go permits, then wait.
ResetCall ==
    /\ CallerMayCall
    /\ cycle < MaxCycles
    /\ resetEvent' = TRUE
    /\ inputSem' = inputSem + N
    /\ ctlPc' = "wait"
    /\ call' = "reset"
    /\ got' = 0
    /\ cycle' = cycle + 1
    /\ UNCHANGED <<outputSem, seedVars, workerVars, results>>

\* One output_sem.acquire() of the loop `for i in range(n_envs)`.
CollectDone ==
    /\ ctlPc = "wait"
    /\ got < N
    /\ outputSem > 0
    /\ outputSem' = outputSem - 1
    /\ got' = got + 1
    /\ UNCHANGED <<ctlPc, call, cycle, inputSem, resetEvent, seedVars,
                   workerVars, results>>

\* Mutant of FinishStep: the collecting loop stops one done signal short.
FinishStepEarly ==
    /\ ctlPc = "wait"
    /\ call \in {"init", "step"}
    /\ got >= N - 1
    /\ ctlPc' = "idle"
    /\ UNCHANGED <<call, got, cycle, syncVars, seedVars, workerVars, results>>

\* init_process / step: all done signals taken; decode share_results.
FinishStep ==
    /\ ctlPc = "wait"
    /\ call \in {"init", "step"}
    /\ got = N
    /\ ctlPc' = "idle"
    /\ UNCHANGED <<call, got, cycle, syncVars, seedVars, workerVars, results>>

\* reset: all done signals taken; reset_event.clear(); decode.
FinishReset ==
    /\ ctlPc = "wait"
    /\ call = "reset"
    /\ got = N
    /\ resetEvent' = FALSE
    /\ ctlPc' = "idle"
    /\ UNCHANGED <<call, got, cycle, inputSem, outputSem, seedVars,
                   workerVars, results>>

\* `self.seed = self.share_seed.value; if self.seed > 3000: self.seed = 0`
Persist(v) == IF v > SeedCap THEN 0 ELSE v

\* clear(): terminate the worker processes, persist the seed cursor.
Clear ==
    /\ ctlPc = "idle"
    /\ pc' = [w \in Workers |-> "exited"]
    /\ selfSeed' = Persist(shareSeed)
    /\ ctlPc' = "cleared"
    /\ UNCHANGED <<call, got, cycle, syncVars, shareSeed, seedLock, claims,
                   t, finishStep, active, lastTerminated, lastTruncated,
                   nowSeed, results>>

\* init_process() after clear(): new semaphores, event, seed Value from
\* self.seed, zeroed buffers, N spawned workers, N go permits released.
InitProcess ==
    /\ ctlPc = "cleared"
    /\ cycle < MaxCycles
    /\ inputSem' = N
    /\ outputSem' = 0
    /\ resetEvent' = FALSE
    /\ shareSeed' = selfSeed
    /\ seedLock' = NoOne
    /\ SpawnWorkers
    /\ ctlPc' = "wait"
    /\ call' = "init"
    /\ got' = 0
    /\ cycle' = cycle + 1
    /\ UNCHANGED <<selfSeed, claims>>

Controller ==
    \/ StepCall \/ ResetCall \/ CollectDone \/ FinishStep \/ FinishReset
    \/ Clear \/ InitProcess

-----------------------------------------------------------------------------

\* RoboTwin.__init__: self.seed = 0, then init_process().
Init ==
    /\ ctlPc = "wait"
    /\ call = "init"
    /\ got = 0
    /\ cycle = 1
    /\ inputSem = N
    /\ outputSem = 0
    /\ resetEvent = FALSE
    /\ shareSeed = 0
    /\ seedLock = NoOne
    /\ selfSeed = 0
    /\ claims = 0
    /\ pc = [w \in Workers |-> "boot"]
    /\ t = [w \in Workers |-> 0]
    /\ finishStep = [w \in Workers |-> 0]
    /\ active = [w \in Workers |-> TRUE]
    /\ lastTerminated = [w \in Workers |-> FALSE]
    /\ lastTruncated = [w \in Workers |-> FALSE]
    /\ nowSeed = [w \in Workers |-> 0]
    /\ results = [w \in Workers |-> Empty]

Next == Controller \/ \E w \in Workers : Worker(w)

\* Every worker is an OS process and the controller's collection of done
\* signals runs without the caller: both are weakly fair.  The caller's
\* calls (step, reset, clear, init_process) are not.
Fairness ==
    /\ \A w \in Workers : WF_vars(Worker(w))
    /\ WF_vars(CollectDone \/ FinishStep \/ FinishReset)

Spec == Init /\ [][Next]_vars
FairSpec == Spec /\ Fairness

-----------------------------------------------------------------------------
(* Properties.                                                             *)

TypeOK ==
    /\ ctlPc \in {"wait", "idle", "cleared"}
    /\ call \in {"init", "step", "reset"}
    /\ got \in 0..N
    /\ cycle \in 1..MaxCycles
    /\ inputSem \in Nat
    /\ outputSem \in Nat
    /\ resetEvent \in BOOLEAN
    /\ shareSeed \in 0..(SeedWrap - 1)
    /\ seedLock \in Workers \cup {NoOne}
    /\ selfSeed \in 0..(SeedWrap - 1)
    /\ claims \in 0..(SeedWrap - 1)
    /\ pc \in [Workers -> PcValues]
    /\ t \in [Workers -> 0..H]
    /\ finishStep \in [Workers -> Nat]
    /\ active \in [Workers -> BOOLEAN]
    /\ lastTerminated \in [Workers -> BOOLEAN]
    /\ lastTruncated \in [Workers -> BOOLEAN]
    /\ nowSeed \in [Workers -> Nat]
    /\ results \in [Workers -> Record]

\* The barrier's memory-safety rule: whenever the controller is outside a
\* call, or has acquired all N done signals of the current one (and so may
\* read share_results and, next, overwrite share_actions), no worker holds a
\* go permit or is still running, writing its slot or about to signal, and
\* no permit or done signal is left over for the next cycle.
NoWorkerInFlight ==
    (ctlPc \in {"idle", "cleared"} \/ got = N) =>
        /\ inputSem = 0
        /\ outputSem = 0
        /\ \A w \in Workers : pc[w] \notin InFlight

\* The seed cursor share_seed advances by exactly one, modulo its wrap, for
\* every seed any worker claims, across concurrent claims of several
\* workers and across clear() / init_process(): no claim is lost.
CursorCountsClaims == shareSeed = claims

\* reset() keeps reset_event set until every done signal of the reset cycle
\* is in: no worker runs a rollout chunk during a reset() call.
ResetCycleRunsNoChunk ==
    (ctlPc = "wait" /\ call = "reset") =>
        \A w \in Workers :
            pc[w] \notin {"run", "publish", "claimA", "bumpA", "buildA"}

\* Auto-reset is folded into the cycle that saw termination: once a worker
\* has written a terminated record and signalled (or is about to), its
\* wrapper is already a fresh episode.
AutoResetBeforePublish ==
    \A w \in Workers :
        (/\ pc[w] \in {"signal", "wait"}
         /\ results[w].kind = "step"
         /\ results[w].term)
        => finishStep[w] = 0 /\ active[w]

\* Every call of the controller returns: once it waits for done signals it
\* gets all N of them and goes back to idle.
CallsReturn == (ctlPc = "wait") ~> (ctlPc = "idle")

\* The controller decodes share_results after its last output_sem.acquire()
\* and the caller reads the batch after the call returns: no step changes
\* a result slot while the controller is outside a call or has taken all
\* N done signals of the current one.
SlotsStableWhileRead ==
    [][(ctlPc = "idle" \/ (ctlPc = "wait" /\ got = N)) => UNCHANGED results]_vars

\* The spec's rule "exactly one writer per result slice per cycle": when the
\* controller has all N done signals, every slot holds a record its worker
\* wrote in this cycle.
BatchFresh ==
    (ctlPc = "wait" /\ got = N) => \A w \in Workers : results[w].cyc = cycle

\* The seed cursor as the atomic object of module SeedCursor.  While a
\* worker holds share_seed's lock it has read now_seed and not yet written
\* the cursor back: the abstract cursor has already moved on.
SC == INSTANCE SeedCursor WITH
        cursor  <- IF seedLock = NoOne THEN shareSeed
                                       ELSE Wrap(shareSeed + 1),
        claimed <- nowSeed

\* The locked read-then-write of seed_id in worker(), in both the reset and
\* the auto-reset path, together with clear() and init_process() carrying
\* the cursor over, implements an atomic seed counter: every claim gets the
\* current cursor and advances it by one, whatever the interleaving.
SeedRefinement == SC!Spec

\* Reseeding errors are retried, never fatal to a worker: no worker process
\* ever dies while it holds a go permit.
ReseedNeverFatal == \A w \in Workers : pc[w] # "dead"

=============================================================================

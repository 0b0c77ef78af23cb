------------------------- MODULE RoboTwinCycleProofs -------------------------
(***************************************************************************)
(* Proofs about the cycles of RoboTwinPool for every value of the          *)
(* constants: what a reset() cycle lets the workers do, what a terminated  *)
(* chunk leaves in its slot, and when the result slots may change.         *)
(*                                                                         *)
(* ResetRunsNoChunk: ResetCycleRunsNoChunk is not inductive by itself (a   *)
(* StartChunk step during a reset call would break it only if              *)
(* reset_event were down).  ResetInv adds that reset_event is up for the   *)
(* whole reset call.  It is established by ResetCall, which starts the     *)
(* call from outside a call, when PermitCount says no worker holds a       *)
(* permit, so none is inside a chunk either.                               *)
(*                                                                         *)
(* AutoResetDone: AutoResetBeforePublish is not inductive by itself (a     *)
(* Publish step writes lastTerminated into the slot).  AutoInv adds that a *)
(* worker about to publish has not terminated: EnvStep sends a terminated  *)
(* chunk to the auto-reset, never to Publish.                              *)
(*                                                                         *)
(* SlotsStable: SlotsStableWhileRead follows from BarrierSafe's invariant: *)
(* the only steps that write a slot are those of a worker holding a go     *)
(* permit (or taking one) and init_process() on a cleared pool.            *)
(***************************************************************************)
EXTENDS RoboTwinPoolProofs

USE ConstAssumption

\* The control points of a rollout chunk and of the auto-reset after it.
ChunkPcs == {"run", "publish", "claimA", "bumpA", "buildA"}

ResetInv ==
    (ctlPc = "wait" /\ call = "reset") =>
        /\ resetEvent
        /\ \A w \in Workers : pc[w] \notin ChunkPcs

AutoInv ==
    /\ \A w \in Workers : pc[w] = "publish" => ~lastTerminated[w]
    /\ AutoResetBeforePublish

\* The step SlotsStableWhileRead allows.
SlotStep == (ctlPc = "idle" \/ (ctlPc = "wait" /\ got = N)) => UNCHANGED results

-----------------------------------------------------------------------------

LEMMA IInvInit == Init => IInv
BY TypeInit, PermitInit DEF IInv

LEMMA IInvStep == IInv /\ [Next]_vars => IInv'
BY TypeStep, PermitStep DEF IInv

LEMMA ResetInit == Init => ResetInv
BY DEF Init, ResetInv

\* The worker steps keep ResetInv: they leave the controller and
\* reset_event alone, and during a reset call the only one that could
\* enter a chunk, StartChunk, needs reset_event down.
LEMMA ResetWorkerStep ==
    ASSUME TypeOK, ResetInv, NEW w \in Workers, Worker(w)
    PROVE  ResetInv'
<1>1. UNCHANGED <<ctlPc, call, resetEvent>>
    BY DEF Worker, Boot, InitialPush, StartReset, StartChunk, EnvStep, Publish,
           ResetSeedRead, ResetSeedBump, ResetRebuild, ResetRebuildFails,
           AutoSeedRead, AutoSeedBump, AutoRebuild, AutoRebuildFails, Release,
           SeedRead, SeedBump, ctlVars, syncVars
<1>2. SUFFICES ASSUME ctlPc = "wait", call = "reset"
               PROVE  \A v \in Workers : pc'[v] \notin ChunkPcs
    BY <1>1 DEF ResetInv
<1>3. resetEvent /\ \A v \in Workers : pc[v] \notin ChunkPcs
    BY <1>2 DEF ResetInv
<1>4. PICK x : pc' = [pc EXCEPT ![w] = x]
    BY DEF Worker, Boot, InitialPush, StartReset, StartChunk, EnvStep, Publish,
           ResetSeedRead, ResetSeedBump, ResetRebuild, ResetRebuildFails,
           AutoSeedRead, AutoSeedBump, AutoRebuild, AutoRebuildFails, Release,
           SeedRead, SeedBump
<1>5. x \notin ChunkPcs
    <2>1. CASE Boot(w)
        BY <1>4, <2>1 DEF Boot, TypeOK, ChunkPcs
    <2>2. CASE InitialPush(w) \/ ResetRebuild(w) \/ Release(w)
        BY <1>4, <2>2 DEF InitialPush, ResetRebuild, Release, TypeOK, ChunkPcs
    <2>3. CASE StartReset(w) \/ ResetRebuildFails(w)
        BY <1>4, <2>3 DEF StartReset, ResetRebuildFails, TypeOK, ChunkPcs
    <2>4. CASE ResetSeedRead(w) \/ ResetSeedBump(w)
        BY <1>4, <2>4 DEF ResetSeedRead, ResetSeedBump, SeedRead, SeedBump,
                          TypeOK, ChunkPcs
    <2>5. CASE StartChunk(w)
        BY <1>3, <2>5 DEF StartChunk
    <2>6. CASE EnvStep(w) \/ Publish(w) \/ AutoSeedRead(w) \/ AutoSeedBump(w)
               \/ AutoRebuild(w) \/ AutoRebuildFails(w)
        BY <1>3, <2>6 DEF EnvStep, Publish, AutoSeedRead, AutoSeedBump,
                          AutoRebuild, AutoRebuildFails, ChunkPcs
    <2>7. QED
        BY <2>1, <2>2, <2>3, <2>4, <2>5, <2>6 DEF Worker
<1>6. QED
    BY <1>3, <1>4, <1>5 DEF TypeOK

LEMMA ResetStep == IInv /\ ResetInv /\ [Next]_vars => ResetInv'
<1> SUFFICES ASSUME IInv, ResetInv, [Next]_vars PROVE ResetInv'
    OBVIOUS
<1>0. TypeOK
    BY DEF IInv, TypeInv
<1>1. ASSUME NEW w \in Workers, Worker(w) PROVE ResetInv'
    BY <1>0, <1>1, ResetWorkerStep
\* reset() starts outside a call: no worker holds a permit, so none is in
\* a chunk, and it raises reset_event.
<1>2. CASE ResetCall
    <2>1. ctlPc # "wait"
        BY <1>2 DEF ResetCall, CallerMayCall
    <2>2. InFlightSet = {}
        BY <2>1 DEF IInv, PermitCount
    <2>3. \A v \in Workers : pc[v] \notin ChunkPcs
        BY <2>2 DEF InFlightSet, InFlight, ChunkPcs
    <2>4. QED
        BY <1>2, <2>3 DEF ResetCall, ResetInv, workerVars
<1>3. CASE StepCall \/ InitProcess
    BY <1>3 DEF StepCall, InitProcess, ResetInv
<1>4. CASE FinishStep \/ FinishReset \/ Clear
    BY <1>4 DEF FinishStep, FinishReset, Clear, ResetInv
<1>5. CASE CollectDone
    BY <1>5 DEF CollectDone, ResetInv, workerVars
<1>6. CASE UNCHANGED vars
    BY <1>6 DEF vars, ctlVars, syncVars, workerVars, ResetInv
<1>7. QED
    BY <1>1, <1>2, <1>3, <1>4, <1>5, <1>6 DEF Next, Controller

\* reset() keeps reset_event set until all N done signals of its cycle are
\* in, so no worker runs a rollout chunk (or auto-resets after one) during
\* a reset() call, for every number of workers.
THEOREM ResetRunsNoChunk == Spec => []ResetCycleRunsNoChunk
<1>1. Init => IInv /\ ResetInv
    BY IInvInit, ResetInit
<1>2. IInv /\ ResetInv /\ [Next]_vars => IInv' /\ ResetInv'
    BY IInvStep, ResetStep
<1>3. ResetInv => ResetCycleRunsNoChunk
    BY DEF ResetInv, ResetCycleRunsNoChunk, ChunkPcs
<1>4. QED
    BY <1>1, <1>2, <1>3, PTL DEF Spec


LEMMA AutoInit == Init => AutoInv
BY DEF Init, AutoInv, AutoResetBeforePublish

\* The worker steps keep AutoInv.  A worker reaches "publish" only from
\* EnvStep with done false; the records with the terminated flag set are
\* written by AutoRebuild, which also starts the fresh episode; and
\* nothing else touches finish_step or active while the worker is at
\* "signal" or "wait".
LEMMA AutoWorkerStep ==
    ASSUME TypeOK, AutoInv, NEW w \in Workers, Worker(w)
    PROVE  AutoInv'
<1>1. CASE Boot(w) \/ StartReset(w) \/ ResetRebuildFails(w)
           \/ AutoRebuildFails(w)
    BY <1>1 DEF Boot, StartReset, ResetRebuildFails, AutoRebuildFails,
                AutoInv, AutoResetBeforePublish, TypeOK
<1>2. CASE InitialPush(w) \/ ResetRebuild(w)
    BY <1>2 DEF InitialPush, ResetRebuild, Rec, AutoInv,
                AutoResetBeforePublish, TypeOK
<1>3. CASE StartChunk(w)
    BY <1>3 DEF StartChunk, AutoInv, AutoResetBeforePublish, TypeOK
<1>4. CASE EnvStep(w)
    <2>1. PICK done \in BOOLEAN :
              /\ finishStep' = [finishStep EXCEPT ![w] = finishStep[w] + 1]
              /\ active' = [active EXCEPT ![w] = active[w] /\ ~done
                                /\ ~(finishStep[w] + 1 >= StepLim /\ ~done)]
              /\ lastTerminated' = [lastTerminated EXCEPT ![w] = done]
              /\ \E next \in AfterStep(w, done) : pc' = [pc EXCEPT ![w] = next]
              /\ UNCHANGED results
        BY <1>4 DEF EnvStep
    <2>2. PICK next \in AfterStep(w, done) : pc' = [pc EXCEPT ![w] = next]
        BY <2>1
    <2>3. next \notin {"signal", "wait"} /\ (next = "publish" => ~done)
        BY DEF AfterStep
    <2>4. pc[w] = "run"
        BY <1>4 DEF EnvStep
    <2>5. QED
        BY <2>1, <2>2, <2>3, <2>4 DEF AutoInv, AutoResetBeforePublish, TypeOK
<1>5. CASE Publish(w)
    BY <1>5 DEF Publish, Rec, AutoInv, AutoResetBeforePublish, TypeOK
<1>6. CASE ResetSeedRead(w) \/ ResetSeedBump(w) \/ AutoSeedRead(w)
           \/ AutoSeedBump(w)
    BY <1>6 DEF ResetSeedRead, ResetSeedBump, AutoSeedRead, AutoSeedBump,
                SeedRead, SeedBump, AutoInv, AutoResetBeforePublish, TypeOK
<1>7. CASE AutoRebuild(w)
    BY <1>7 DEF AutoRebuild, Rec, AutoInv, AutoResetBeforePublish, TypeOK
<1>8. CASE Release(w)
    BY <1>8 DEF Release, AutoInv, AutoResetBeforePublish, TypeOK
<1>9. QED
    BY <1>1, <1>2, <1>3, <1>4, <1>5, <1>6, <1>7, <1>8 DEF Worker

LEMMA AutoStep == TypeOK /\ AutoInv /\ [Next]_vars => AutoInv'
<1> SUFFICES ASSUME TypeOK, AutoInv, [Next]_vars PROVE AutoInv'
    OBVIOUS
<1>1. ASSUME NEW w \in Workers, Worker(w) PROVE AutoInv'
    BY <1>1, AutoWorkerStep
<1>2. CASE StepCall \/ ResetCall \/ CollectDone \/ FinishStep \/ FinishReset
    BY <1>2 DEF StepCall, ResetCall, CollectDone, FinishStep, FinishReset,
                workerVars, AutoInv, AutoResetBeforePublish
<1>3. CASE Clear
    BY <1>3 DEF Clear, AutoInv, AutoResetBeforePublish
<1>4. CASE InitProcess
    BY <1>4 DEF InitProcess, SpawnWorkers, AutoInv, AutoResetBeforePublish
<1>5. CASE UNCHANGED vars
    BY <1>5 DEF vars, workerVars, AutoInv, AutoResetBeforePublish
<1>6. QED
    BY <1>1, <1>2, <1>3, <1>4, <1>5 DEF Next, Controller

\* A terminated episode is auto-reset in the same cycle, for every number
\* of workers, horizon and step ceiling: a worker whose slot holds a
\* terminated step record and that is signalling or waiting for the next
\* permit already has a fresh wrapper (finish_step 0, active).
THEOREM AutoResetDone == Spec => []AutoResetBeforePublish
<1>1. Init => TypeOK /\ AutoInv
    BY TypeInit, AutoInit DEF TypeInv
<1>2. TypeInv /\ AutoInv /\ [Next]_vars => TypeInv' /\ AutoInv'
    BY TypeStep, AutoStep DEF TypeInv
<1>3. Init => TypeInv
    BY TypeInit
<1>4. QED
    BY <1>2, <1>3, AutoInit, PTL DEF Spec, AutoInv

\* The only slot writers are workers holding a go permit (or taking one
\* with InitialPush) and init_process() on a cleared pool.
LEMMA SlotStepHolds == IInv /\ [Next]_vars => [SlotStep]_vars
<1> SUFFICES ASSUME IInv, [Next]_vars,
                    ctlPc = "idle" \/ (ctlPc = "wait" /\ got = N)
             PROVE  UNCHANGED results
    BY DEF SlotStep
<1>1. inputSem = 0 /\ \A v \in Workers : pc[v] \notin InFlight
    BY PermitImpliesSafe DEF IInv, TypeInv, NoWorkerInFlight
<1>2. ASSUME NEW w \in Workers, Worker(w) PROVE UNCHANGED results
    <2>1. CASE InitialPush(w)
        BY <1>1, <2>1 DEF InitialPush
    <2>2. CASE Publish(w) \/ ResetRebuild(w) \/ AutoRebuild(w)
        BY <1>1, <2>2 DEF Publish, ResetRebuild, AutoRebuild, InFlight
    <2>3. CASE Boot(w) \/ StartReset(w) \/ StartChunk(w) \/ EnvStep(w)
               \/ ResetRebuildFails(w) \/ AutoRebuildFails(w) \/ Release(w)
        BY <2>3 DEF Boot, StartReset, StartChunk, EnvStep, ResetRebuildFails,
                    AutoRebuildFails, Release
    <2>4. CASE ResetSeedRead(w) \/ ResetSeedBump(w) \/ AutoSeedRead(w)
               \/ AutoSeedBump(w)
        BY <2>4 DEF ResetSeedRead, ResetSeedBump, AutoSeedRead, AutoSeedBump,
                    SeedRead, SeedBump
    <2>5. QED
        BY <1>2, <2>1, <2>2, <2>3, <2>4 DEF Worker
<1>3. CASE InitProcess
    BY <1>3 DEF InitProcess
<1>4. CASE StepCall \/ ResetCall \/ CollectDone \/ FinishStep \/ FinishReset
           \/ Clear
    BY <1>4 DEF StepCall, ResetCall, CollectDone, FinishStep, FinishReset, Clear
<1>5. CASE UNCHANGED vars
    BY <1>5 DEF vars
<1>6. QED
    BY <1>2, <1>3, <1>4, <1>5 DEF Next, Controller

\* For every number of workers, no step changes share_results while the
\* controller is outside a call or holds all N done signals of its call:
\* what step() and reset() decode is what the workers wrote before
\* signalling.
THEOREM SlotsStable == Spec => SlotsStableWhileRead
<1>1. Init => IInv
    BY IInvInit
<1>2. IInv /\ [Next]_vars => IInv'
    BY IInvStep
<1>3. IInv /\ [Next]_vars => [SlotStep]_vars
    BY SlotStepHolds
<1>4. QED
    BY <1>1, <1>2, <1>3, PTL DEF Spec, SlotsStableWhileRead, SlotStep

=============================================================================

-------------------------- MODULE RoboTwinSeedProofs --------------------------
(***************************************************************************)
(* Proofs that the seed cursor of RoboTwinPool is an atomic counter.       *)
(*                                                                         *)
(* The argument rests on the lock discipline around share_seed: a worker   *)
(* holds the lock exactly while it is between its read of the cursor and   *)
(* its write (pc "bumpR" or "bumpA"), and during that window its now_seed  *)
(* still equals the cursor.  The write then advances the cursor by one     *)
(* from the value read, which is what the abstract counter did at the      *)
(* read.  Across clear() / init_process() the cursor is carried by         *)
(* self.seed; clear() is only called outside a call, when no worker holds  *)
(* a permit (BarrierSafe's invariant), so no worker holds the lock then.   *)
(***************************************************************************)
EXTENDS RoboTwinPoolProofs

USE ConstAssumption, CapAssumption

\* The control points at which a worker holds share_seed's lock.
Bump == {"bumpR", "bumpA"}

SeedInv ==
    /\ \A w \in Workers : (seedLock = w) <=> (pc[w] \in Bump)
    /\ seedLock # NoOne => nowSeed[seedLock] = shareSeed
    /\ shareSeed = claims
    /\ ctlPc = "cleared" => selfSeed = shareSeed /\ seedLock = NoOne

SInv == IInv /\ SeedInv

\* The abstract cursor of the refinement mapping SC.
cursorBar == IF seedLock = NoOne THEN shareSeed ELSE Wrap(shareSeed + 1)

\* What a step must establish: the invariant, and an abstract step or a
\* stutter of the seed counter.
SeedGoal == SeedInv' /\ [SC!Next]_<<cursorBar, nowSeed>>

-----------------------------------------------------------------------------

LEMMA WrapSucc ==
    ASSUME NEW x \in 0..(SeedWrap - 1)
    PROVE  Wrap(x + 1) = (x + 1) % SeedWrap
<1>1. CASE x + 1 = SeedWrap
    BY <1>1 DEF Wrap
<1>2. CASE x + 1 < SeedWrap
    BY <1>2 DEF Wrap
<1>3. QED
    BY <1>1, <1>2

\* Below the cap, persisting the cursor keeps it.
LEMMA PersistKeeps ==
    ASSUME NEW x \in 0..(SeedWrap - 1)
    PROVE  Persist(x) = x
BY CapAssumption DEF Persist

LEMMA SeedInit == Init => SeedInv /\ SC!Init
BY DEF Init, SeedInv, SC!Init, NoOne, Workers, Bump, cursorBar

\* A worker step that neither takes nor leaves the lock and touches no
\* seed state keeps the invariant and is a stutter of the counter.
LEMMA QuietWorker ==
    ASSUME TypeOK, SeedInv, NEW w \in Workers, NEW v,
           pc' = [pc EXCEPT ![w] = v], pc[w] \notin Bump, v \notin Bump,
           UNCHANGED <<ctlPc, shareSeed, seedLock, claims, nowSeed, selfSeed>>
    PROVE  SeedGoal
<1>1. SeedInv'
    BY DEF SeedInv, TypeOK
<1>2. UNCHANGED <<cursorBar, nowSeed>>
    BY DEF cursorBar
<1>3. QED
    BY <1>1, <1>2 DEF SeedGoal

\* A controller step that leaves the workers and the seed state alone.
LEMMA QuietController ==
    ASSUME SeedInv, ctlPc' # "cleared",
           UNCHANGED <<pc, shareSeed, seedLock, claims, nowSeed, selfSeed>>
    PROVE  SeedGoal
BY DEF SeedGoal, SeedInv, cursorBar

LEMMA ReadStep ==
    ASSUME TypeOK, SeedInv, NEW w \in Workers, NEW next \in Bump,
           pc[w] \notin Bump, ctlPc # "cleared", UNCHANGED ctlPc,
           SeedRead(w, next)
    PROVE  SeedGoal
<1>1. seedLock = NoOne /\ seedLock' = w
    BY DEF SeedRead
<1>2. SeedInv'
    <2>1. pc' = [pc EXCEPT ![w] = next] /\ nowSeed'[w] = shareSeed
          /\ UNCHANGED <<shareSeed, claims>>
        BY DEF SeedRead, TypeOK
    <2>2. \A v \in Workers : (seedLock' = v) <=> (pc'[v] \in Bump)
        BY <1>1, <2>1 DEF SeedInv, TypeOK, NoOne, Workers
    <2>3. QED
        BY <1>1, <2>1, <2>2 DEF SeedInv
<1>3. SC!Claim(w)
    <2>1. nowSeed' = [nowSeed EXCEPT ![w] = cursorBar]
        BY <1>1 DEF SeedRead, cursorBar
    <2>2. cursorBar' = (cursorBar + 1) % SeedWrap
        BY <1>1, WrapSucc DEF SeedRead, cursorBar, TypeOK, NoOne, Workers
    <2>3. QED
        BY <2>1, <2>2 DEF SC!Claim, cursorBar
<1>4. QED
    BY <1>2, <1>3 DEF SeedGoal, SC!Next

LEMMA BumpStep ==
    ASSUME TypeOK, SeedInv, NEW w \in Workers, NEW next \in {"buildR", "buildA"},
           pc[w] \in Bump, UNCHANGED ctlPc, SeedBump(w, next)
    PROVE  SeedGoal
<1>1. seedLock = w /\ nowSeed[w] = shareSeed
    BY DEF SeedInv, NoOne, Workers
<1>2. shareSeed' = Wrap(shareSeed + 1) /\ claims' = (claims + 1) % SeedWrap
    BY <1>1 DEF SeedBump
<1>3. shareSeed' = claims'
    BY <1>2, WrapSucc DEF SeedInv, TypeOK
<1>4. SeedInv'
    <2>1. seedLock' = NoOne /\ pc' = [pc EXCEPT ![w] = next]
          /\ UNCHANGED <<ctlPc, selfSeed, nowSeed>>
        BY DEF SeedBump, ctlVars, NoOne
    <2>2. \A v \in Workers : (seedLock' = v) <=> (pc'[v] \in Bump)
        BY <1>1, <2>1 DEF SeedInv, TypeOK, NoOne, Workers, Bump
    <2>3. ctlPc # "cleared"
        BY <1>1 DEF SeedInv, NoOne, Workers
    <2>4. QED
        BY <1>3, <2>1, <2>2, <2>3 DEF SeedInv
<1>5. UNCHANGED <<cursorBar, nowSeed>>
    BY <1>1, <1>2 DEF SeedBump, cursorBar, NoOne, Workers
<1>6. QED
    BY <1>4, <1>5 DEF SeedGoal

\* A worker with a go permit is only possible during a call.
LEMMA HolderInCall ==
    ASSUME IInv, NEW w \in Workers, pc[w] \in InFlight
    PROVE  ctlPc = "wait"
BY DEF IInv, PermitCount, InFlightSet

LEMMA SeedStep == SInv /\ [Next]_vars => SeedGoal
<1> SUFFICES ASSUME SInv, [Next]_vars PROVE SeedGoal
    OBVIOUS
<1>0. IInv /\ TypeOK /\ SeedInv
    BY DEF SInv, IInv, TypeInv
<1> USE <1>0
<1>1. ASSUME NEW w \in Workers, Boot(w) PROVE SeedGoal
    <2>1. PICK v \in {"wait0", "exited"} : pc' = [pc EXCEPT ![w] = v]
        BY <1>1 DEF Boot
    <2>2. QED
        BY <1>1, <2>1, QuietWorker DEF Boot, ctlVars, seedVars, Bump
<1>2. ASSUME NEW w \in Workers, InitialPush(w) PROVE SeedGoal
    BY <1>2, QuietWorker DEF InitialPush, ctlVars, seedVars, Bump
<1>3. ASSUME NEW w \in Workers, StartReset(w) PROVE SeedGoal
    BY <1>3, QuietWorker DEF StartReset, ctlVars, seedVars, Bump
<1>4. ASSUME NEW w \in Workers, StartChunk(w) PROVE SeedGoal
    BY <1>4, QuietWorker DEF StartChunk, ctlVars, seedVars, Bump
<1>5. ASSUME NEW w \in Workers, EnvStep(w) PROVE SeedGoal
    <2>1. PICK v \in {"claimA", "publish", "run", "dead"} :
                   pc' = [pc EXCEPT ![w] = v]
        BY <1>5 DEF EnvStep, AfterStep
    <2>2. QED
        BY <1>5, <2>1, QuietWorker DEF EnvStep, ctlVars, syncVars, seedVars,
                                       Bump
<1>6. ASSUME NEW w \in Workers, Publish(w) PROVE SeedGoal
    BY <1>6, QuietWorker DEF Publish, ctlVars, seedVars, Bump
<1>7. ASSUME NEW w \in Workers, ResetRebuild(w) PROVE SeedGoal
    BY <1>7, QuietWorker DEF ResetRebuild, ctlVars, seedVars, Bump
<1>8. ASSUME NEW w \in Workers, ResetRebuildFails(w) PROVE SeedGoal
    BY <1>8, QuietWorker DEF ResetRebuildFails, ctlVars, seedVars, Bump
<1>9. ASSUME NEW w \in Workers, AutoRebuild(w) PROVE SeedGoal
    BY <1>9, QuietWorker DEF AutoRebuild, ctlVars, seedVars, Bump
<1>10. ASSUME NEW w \in Workers, AutoRebuildFails(w) PROVE SeedGoal
    BY <1>10, QuietWorker DEF AutoRebuildFails, ctlVars, seedVars, Bump
<1>11. ASSUME NEW w \in Workers, Release(w) PROVE SeedGoal
    BY <1>11, QuietWorker DEF Release, ctlVars, seedVars, Bump
<1>12. ASSUME NEW w \in Workers, ResetSeedRead(w) \/ AutoSeedRead(w)
       PROVE SeedGoal
    <2>1. CASE ResetSeedRead(w)
        <3>1. ctlPc # "cleared"
            BY <2>1, HolderInCall DEF ResetSeedRead, InFlight
        <3>2. QED
            BY <2>1, <3>1, ReadStep DEF ResetSeedRead, SeedRead, ctlVars,
                                       Bump
    <2>2. CASE AutoSeedRead(w)
        <3>1. ctlPc # "cleared"
            BY <2>2, HolderInCall DEF AutoSeedRead, InFlight
        <3>2. QED
            BY <2>2, <3>1, ReadStep DEF AutoSeedRead, SeedRead, ctlVars,
                                       Bump
    <2>3. QED
        BY <1>12, <2>1, <2>2
<1>13. ASSUME NEW w \in Workers, ResetSeedBump(w) \/ AutoSeedBump(w)
       PROVE SeedGoal
    <2>1. CASE ResetSeedBump(w)
        BY <2>1, BumpStep DEF ResetSeedBump, SeedBump, ctlVars, Bump
    <2>2. CASE AutoSeedBump(w)
        BY <2>2, BumpStep DEF AutoSeedBump, SeedBump, ctlVars, Bump
    <2>3. QED
        BY <1>13, <2>1, <2>2
<1>14. CASE StepCall \/ ResetCall \/ CollectDone \/ FinishStep \/ FinishReset
    BY <1>14, QuietController DEF StepCall, ResetCall, CollectDone,
                                  FinishStep, FinishReset, seedVars,
                                  workerVars
<1>15. CASE Clear
    <2>1. ctlPc = "idle"
        BY <1>15 DEF Clear
    <2>2. \A v \in Workers : pc[v] \notin Bump
        BY <2>1 DEF IInv, PermitCount, InFlightSet, InFlight, Bump
    <2>3. seedLock = NoOne
        BY <2>2 DEF SeedInv, TypeOK, NoOne, Workers
    <2>4. selfSeed' = shareSeed
        BY <1>15, PersistKeeps DEF Clear, TypeOK
    <2>5. SeedInv'
        BY <1>15, <2>3, <2>4 DEF Clear, syncVars, SeedInv, Bump, NoOne,
                                  Workers
    <2>6. UNCHANGED <<cursorBar, nowSeed>>
        BY <1>15 DEF Clear, cursorBar
    <2>7. QED
        BY <2>5, <2>6 DEF SeedGoal
<1>16. CASE InitProcess
    <2>1. ctlPc = "cleared"
        BY <1>16 DEF InitProcess
    <2>2. seedLock = NoOne /\ selfSeed = shareSeed
        BY <2>1 DEF SeedInv
    <2>3. /\ shareSeed' = shareSeed /\ seedLock' = NoOne
          /\ pc' = [v \in Workers |-> "boot"]
          /\ nowSeed' = [v \in Workers |-> 0]
          /\ UNCHANGED claims /\ ctlPc' = "wait"
        BY <1>16, <2>2 DEF InitProcess, SpawnWorkers
    <2>4. SeedInv'
        BY <2>3 DEF SeedInv, Bump, NoOne, Workers
    <2>5. SC!Restart
        <3>1. cursorBar = shareSeed /\ cursorBar' = shareSeed
            BY <2>2, <2>3 DEF cursorBar
        <3>2. Persist(shareSeed) = shareSeed
            BY PersistKeeps DEF TypeOK
        <3>3. QED
            BY <2>2, <2>3, <3>1, <3>2 DEF SC!Restart, Persist, cursorBar
    <2>6. QED
        BY <2>4, <2>5 DEF SeedGoal, SC!Next
<1>17. CASE UNCHANGED vars
    <2>1. SeedInv'
        BY <1>17 DEF vars, ctlVars, seedVars, workerVars, SeedInv
    <2>2. UNCHANGED <<cursorBar, nowSeed>>
        BY <1>17 DEF vars, seedVars, workerVars, cursorBar
    <2>3. QED
        BY <2>1, <2>2 DEF SeedGoal
<1>18. QED
    BY <1>1, <1>2, <1>3, <1>4, <1>5, <1>6, <1>7, <1>8, <1>9, <1>10, <1>11,
       <1>12, <1>13, <1>14, <1>15, <1>16, <1>17 DEF Next, Controller, Worker

LEMMA SInvariant == Spec => []SInv
<1>1. Init => SInv
    BY TypeInit, PermitInit, SeedInit DEF SInv, IInv
<1>2. SInv /\ [Next]_vars => SInv'
    BY TypeStep, PermitStep, SeedStep DEF SInv, IInv, SeedGoal
<1>3. QED
    BY <1>1, <1>2, PTL DEF Spec

\* No seed claim is lost: share_seed equals the number of claims made by
\* all workers, modulo the wrap, for every number of workers and every
\* interleaving of their locked read-increment-wrap blocks, and across
\* clear() and init_process().
THEOREM SeedCounting == Spec => []CursorCountsClaims
BY SInvariant, PTL DEF SInv, SeedInv, CursorCountsClaims

\* The pool's seed cursor implements the atomic counter SeedCursor: the
\* lock of share_seed makes each worker's two-step claim one atomic claim,
\* and clear() / init_process() carry the cursor over.
THEOREM SeedCursorImplemented == Spec => SeedRefinement
<1>1. Init => SC!Init
    BY SeedInit
<1>2. SInv /\ [Next]_vars => [SC!Next]_<<cursorBar, nowSeed>>
    BY SeedStep DEF SeedGoal
<1>3. QED
    BY <1>1, <1>2, SInvariant, PTL DEF Spec, SeedRefinement, SC!Spec,
       cursorBar
=============================================================================

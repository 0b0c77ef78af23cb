-------------------------- MODULE RoboTwinPoolProofs --------------------------
(***************************************************************************)
(* Proofs about RoboTwinPool for every value of the constants.             *)
(*                                                                         *)
(* TypeCorrect: the type invariant, strengthened with the bound of the     *)
(* rollout loop (a worker in the loop has t < H).                          *)
(*                                                                         *)
(* BarrierSafe: NoWorkerInFlight.  It is not inductive by itself; it       *)
(* follows from the permit-counting invariant PermitCount: during a call   *)
(* the go permits still in input_sem, the workers holding a permit, the    *)
(* done signals still in output_sem and the done signals the controller    *)
(* has taken add up to N; outside a call all of them are zero.             *)
(***************************************************************************)
EXTENDS RoboTwinPool, FiniteSets, FiniteSetTheorems, TLAPS

USE ConstAssumption

\* Inside the rollout loop the loop index is below the horizon.
RunBound == \A w \in Workers : pc[w] = "run" => t[w] < H

TypeInv == TypeOK /\ RunBound

\* The workers that hold a go permit.
InFlightSet == {w \in Workers : pc[w] \in InFlight}

PermitCount ==
    /\ ctlPc = "wait" =>
         inputSem + Cardinality(InFlightSet) + outputSem + got = N
    /\ ctlPc # "wait" =>
         inputSem = 0 /\ outputSem = 0 /\ InFlightSet = {}

IInv == TypeInv /\ PermitCount

-----------------------------------------------------------------------------

LEMMA WrapType ==
    ASSUME NEW v \in Nat
    PROVE  Wrap(v) \in 0..(SeedWrap - 1)
BY DEF Wrap

LEMMA TypeInit == Init => TypeInv
<1> SUFFICES ASSUME Init PROVE TypeInv
    OBVIOUS
<1>1. results \in [Workers -> Record]
    BY DEF Init, Empty, Record, Kinds
<1>2. pc \in [Workers -> PcValues] /\ RunBound
    BY DEF Init, PcValues, RunBound
<1>3. resetEvent \in BOOLEAN
    BY DEF Init
<1>4. /\ ctlPc \in {"wait", "idle", "cleared"}
      /\ call \in {"init", "step", "reset"}
      /\ got \in 0..N
      /\ cycle \in 1..MaxCycles
      /\ inputSem \in Nat
      /\ outputSem \in Nat
      /\ shareSeed \in 0..(SeedWrap - 1)
      /\ seedLock \in Workers \cup {NoOne}
      /\ selfSeed \in 0..(SeedWrap - 1)
      /\ claims \in 0..(SeedWrap - 1)
      /\ t \in [Workers -> 0..H]
      /\ finishStep \in [Workers -> Nat]
      /\ active \in [Workers -> BOOLEAN]
      /\ lastTerminated \in [Workers -> BOOLEAN]
      /\ lastTruncated \in [Workers -> BOOLEAN]
      /\ nowSeed \in [Workers -> Nat]
    BY DEF Init, Workers, NoOne
<1>5. QED
    BY <1>1, <1>2, <1>3, <1>4, Zenon DEF TypeInv, TypeOK

LEMMA TypeStep == TypeInv /\ [Next]_vars => TypeInv'
<1> SUFFICES ASSUME TypeInv, [Next]_vars PROVE TypeInv'
    OBVIOUS
<1> USE DEF TypeInv, TypeOK, RunBound, PcValues, Record, Kinds,
          ctlVars, syncVars, seedVars, workerVars
<1>1. ASSUME NEW w \in Workers, Boot(w) PROVE TypeInv'
    BY <1>1 DEF Boot
<1>2. ASSUME NEW w \in Workers, InitialPush(w) PROVE TypeInv'
    BY <1>2 DEF InitialPush, Rec
<1>3. ASSUME NEW w \in Workers, StartReset(w) PROVE TypeInv'
    BY <1>3 DEF StartReset
<1>4. ASSUME NEW w \in Workers, StartChunk(w) PROVE TypeInv'
    BY <1>4 DEF StartChunk
<1>5. ASSUME NEW w \in Workers, EnvStep(w) PROVE TypeInv'
    <2>1. PICK done \in BOOLEAN :
              /\ \E next \in AfterStep(w, done) : pc' = [pc EXCEPT ![w] = next]
              /\ t' = [t EXCEPT ![w] = t[w] + 1]
        BY <1>5 DEF EnvStep
    <2>2. PICK next \in AfterStep(w, done) : pc' = [pc EXCEPT ![w] = next]
        BY <2>1
    <2>3. next \in PcValues /\ (next = "run" => t[w] + 1 < H)
        <3>1. CASE done \/ t[w] + 1 = H
            <4>1. next \in {"claimA", "publish", "dead"}
                BY <3>1 DEF AfterStep
            <4>2. QED
                BY <4>1
        <3>2. CASE ~(done \/ t[w] + 1 = H)
            <4>1. next = "run"
                BY <3>2 DEF AfterStep
            <4>2. pc[w] = "run" /\ t[w] \in 0..H
                BY <1>5 DEF EnvStep
            <4>3. t[w] < H /\ t[w] + 1 # H
                BY <3>2, <4>2
            <4>4. QED
                BY <4>1, <4>3
        <3>3. QED
            BY <3>1, <3>2
    <2>4. QED
        BY <1>5, <2>1, <2>2, <2>3 DEF EnvStep
<1>6. ASSUME NEW w \in Workers, Publish(w) PROVE TypeInv'
    BY <1>6 DEF Publish, Rec
<1>7. ASSUME NEW w \in Workers, ResetSeedRead(w) PROVE TypeInv'
    BY <1>7 DEF ResetSeedRead, SeedRead, NoOne
<1>8. ASSUME NEW w \in Workers, AutoSeedRead(w) PROVE TypeInv'
    BY <1>8 DEF AutoSeedRead, SeedRead, NoOne
<1>9. ASSUME NEW w \in Workers, ResetSeedBump(w) \/ AutoSeedBump(w)
      PROVE TypeInv'
    <2>1. shareSeed' \in 0..(SeedWrap - 1)
        BY <1>9, WrapType DEF ResetSeedBump, AutoSeedBump, SeedBump
    <2>2. QED
        BY <1>9, <2>1 DEF ResetSeedBump, AutoSeedBump, SeedBump, NoOne
<1>10. ASSUME NEW w \in Workers, ResetRebuild(w) PROVE TypeInv'
    BY <1>10 DEF ResetRebuild, Rec
<1>11. ASSUME NEW w \in Workers, ResetRebuildFails(w) PROVE TypeInv'
    BY <1>11 DEF ResetRebuildFails
<1>12. ASSUME NEW w \in Workers, AutoRebuild(w) PROVE TypeInv'
    BY <1>12 DEF AutoRebuild, Rec
<1>13. ASSUME NEW w \in Workers, AutoRebuildFails(w) PROVE TypeInv'
    BY <1>13 DEF AutoRebuildFails
<1>14. ASSUME NEW w \in Workers, Release(w) PROVE TypeInv'
    BY <1>14 DEF Release
<1>15. CASE StepCall
    BY <1>15 DEF StepCall, CallerMayCall
<1>16. CASE ResetCall
    BY <1>16 DEF ResetCall, CallerMayCall
<1>17. CASE CollectDone
    BY <1>17 DEF CollectDone
<1>18. CASE FinishStep
    BY <1>18 DEF FinishStep
<1>19. CASE FinishReset
    BY <1>19 DEF FinishReset
<1>20. CASE Clear
    BY <1>20 DEF Clear, Persist
<1>21. CASE InitProcess
    <2>1. resetEvent' \in BOOLEAN
        BY <1>21 DEF InitProcess
    <2>2. results' \in [Workers -> Record] /\ RunBound'
        BY <1>21 DEF InitProcess, SpawnWorkers, Empty
    <2>3. /\ ctlPc' \in {"wait", "idle", "cleared"}
          /\ call' \in {"init", "step", "reset"}
          /\ got' \in 0..N
          /\ cycle' \in 1..MaxCycles
          /\ inputSem' \in Nat
          /\ outputSem' \in Nat
          /\ shareSeed' \in 0..(SeedWrap - 1)
          /\ seedLock' \in Workers \cup {NoOne}
          /\ selfSeed' \in 0..(SeedWrap - 1)
          /\ claims' \in 0..(SeedWrap - 1)
          /\ pc' \in [Workers -> PcValues]
          /\ t' \in [Workers -> 0..H]
          /\ finishStep' \in [Workers -> Nat]
          /\ active' \in [Workers -> BOOLEAN]
          /\ lastTerminated' \in [Workers -> BOOLEAN]
          /\ lastTruncated' \in [Workers -> BOOLEAN]
          /\ nowSeed' \in [Workers -> Nat]
        BY <1>21 DEF InitProcess, SpawnWorkers, NoOne
    <2>4. QED
        BY <2>1, <2>2, <2>3, Zenon
<1>22. CASE UNCHANGED vars
    BY <1>22 DEF vars
<1>23. QED
    BY <1>1, <1>2, <1>3, <1>4, <1>5, <1>6, <1>7, <1>8, <1>9, <1>10, <1>11,
       <1>12, <1>13, <1>14, <1>15, <1>16, <1>17, <1>18, <1>19, <1>20, <1>21,
       <1>22 DEF Next, Controller, Worker

\* The type invariant holds in every reachable state.
THEOREM TypeCorrect == Spec => []TypeOK
<1>1. Spec => []TypeInv
    BY TypeInit, TypeStep, PTL DEF Spec
<1>2. QED
    BY <1>1, PTL DEF TypeInv

-----------------------------------------------------------------------------
(* The permit count.                                                       *)

LEMMA InFlightFinite ==
    ASSUME TypeOK
    PROVE  /\ IsFiniteSet(InFlightSet)
           /\ Cardinality(InFlightSet) \in Nat
<1>1. IsFiniteSet(Workers)
    BY FS_Interval DEF Workers
<1>2. IsFiniteSet(InFlightSet)
    BY <1>1, FS_Subset DEF InFlightSet
<1>3. QED
    BY <1>2, FS_CardinalityType

\* Moving one worker to control point v adds it to, or removes it from, the
\* set of permit holders.
LEMMA InFlightUpdate ==
    ASSUME TypeOK, NEW w \in Workers, NEW v, pc' = [pc EXCEPT ![w] = v]
    PROVE  InFlightSet' = IF v \in InFlight THEN InFlightSet \cup {w}
                                             ELSE InFlightSet \ {w}
BY DEF InFlightSet, TypeOK

\* A worker step that neither takes nor returns a permit leaves the set of
\* permit holders as it is.
LEMMA InFlightStays ==
    ASSUME TypeOK, NEW w \in Workers, NEW v, pc' = [pc EXCEPT ![w] = v],
           (pc[w] \in InFlight) <=> (v \in InFlight)
    PROVE  InFlightSet' = InFlightSet
BY DEF InFlightSet, TypeOK

\* Zero permit holders means an empty set of them.
LEMMA NoneInFlight ==
    ASSUME TypeOK, Cardinality(InFlightSet) = 0
    PROVE  InFlightSet = {}
BY InFlightFinite, FS_EmptySet

\* The counters of PermitCount that a step leaves alone.
CountVars == <<ctlPc, got, inputSem, outputSem>>

\* A worker step that keeps the counters and the permit holders keeps the
\* count.
LEMMA CountStays ==
    ASSUME PermitCount, UNCHANGED CountVars, InFlightSet' = InFlightSet
    PROVE  PermitCount'
BY DEF PermitCount, CountVars

LEMMA PermitInit == Init => PermitCount
<1> SUFFICES ASSUME Init PROVE PermitCount
    OBVIOUS
<1>1. InFlightSet = {}
    BY DEF Init, InFlightSet, InFlight
<1>2. QED
    BY <1>1, FS_EmptySet DEF Init, PermitCount

LEMMA PermitStep == IInv /\ [Next]_vars => PermitCount'
<1> SUFFICES ASSUME IInv, [Next]_vars PROVE PermitCount'
    OBVIOUS
<1>0. TypeOK /\ PermitCount
    BY DEF IInv, TypeInv
<1> USE <1>0
<1>1. ASSUME NEW w \in Workers, Boot(w) PROVE PermitCount'
    <2>1. PICK v \in {"wait0", "exited"} : pc' = [pc EXCEPT ![w] = v]
        BY <1>1 DEF Boot
    <2>2. InFlightSet' = InFlightSet
        BY <1>1, <2>1, InFlightStays DEF Boot, InFlight
    <2>3. QED
        BY <1>1, <2>2, CountStays DEF Boot, ctlVars, syncVars, CountVars
\* The steps that take a go permit.
<1>2. ASSUME NEW w \in Workers,
             InitialPush(w) \/ StartReset(w) \/ StartChunk(w)
      PROVE PermitCount'
    <2>1. /\ pc[w] \in {"wait0", "wait"}
          /\ inputSem > 0
          /\ inputSem' = inputSem - 1
          /\ UNCHANGED <<ctlPc, got, outputSem>>
          /\ \E v \in InFlight : pc' = [pc EXCEPT ![w] = v]
        BY <1>2 DEF InitialPush, StartReset, StartChunk, ctlVars, InFlight
    <2>2. ctlPc = "wait"
        BY <2>1 DEF PermitCount
    <2>3. InFlightSet' = InFlightSet \cup {w} /\ w \notin InFlightSet
        BY <2>1, InFlightUpdate DEF InFlightSet, InFlight
    <2>4. Cardinality(InFlightSet') = Cardinality(InFlightSet) + 1
        BY <2>3, InFlightFinite, FS_AddElement
    <2>5. QED
        BY <2>1, <2>2, <2>4, InFlightFinite DEF PermitCount, TypeOK
\* The steps of a permit holder before it signals.
<1>3. ASSUME NEW w \in Workers,
             \/ EnvStep(w) \/ Publish(w)
             \/ ResetSeedRead(w) \/ ResetSeedBump(w)
             \/ ResetRebuild(w) \/ ResetRebuildFails(w)
             \/ AutoSeedRead(w) \/ AutoSeedBump(w)
             \/ AutoRebuild(w) \/ AutoRebuildFails(w)
      PROVE PermitCount'
    <2>1. /\ pc[w] \in InFlight
          /\ \E v \in InFlight : pc' = [pc EXCEPT ![w] = v]
          /\ UNCHANGED CountVars
        BY <1>3 DEF EnvStep, AfterStep, Publish, ResetSeedRead, ResetSeedBump,
                    ResetRebuild, ResetRebuildFails, AutoSeedRead,
                    AutoSeedBump, AutoRebuild, AutoRebuildFails, SeedRead,
                    SeedBump, InFlight, CountVars, ctlVars, syncVars
    <2>2. InFlightSet' = InFlightSet
        BY <2>1, InFlightStays
    <2>3. QED
        BY <2>1, <2>2, CountStays
<1>4. ASSUME NEW w \in Workers, Release(w) PROVE PermitCount'
    <2>1. /\ pc[w] = "signal"
          /\ outputSem' = outputSem + 1
          /\ pc' = [pc EXCEPT ![w] = "wait"]
          /\ UNCHANGED <<ctlPc, got, inputSem>>
        BY <1>4 DEF Release, ctlVars
    <2>2. w \in InFlightSet
        BY <2>1 DEF InFlightSet, InFlight
    <2>3. ctlPc = "wait"
        BY <2>2 DEF PermitCount
    <2>4. InFlightSet' = InFlightSet \ {w}
        BY <2>1 DEF InFlightSet, InFlight, TypeOK
    <2>5. Cardinality(InFlightSet') = Cardinality(InFlightSet) - 1
        BY <2>2, <2>4, InFlightFinite, FS_RemoveElement
    <2>6. QED
        BY <2>1, <2>3, <2>5, InFlightFinite DEF PermitCount, TypeOK
<1>5. CASE CollectDone
    <2>1. InFlightSet' = InFlightSet
        BY <1>5 DEF CollectDone, InFlightSet, workerVars
    <2>2. ctlPc = "wait" /\ ctlPc' = "wait"
          /\ outputSem' = outputSem - 1 /\ got' = got + 1
          /\ UNCHANGED inputSem
        BY <1>5 DEF CollectDone
    <2>3. QED
        BY <2>1, <2>2, InFlightFinite DEF PermitCount, TypeOK
<1>6. CASE FinishStep \/ FinishReset
    <2>1. /\ ctlPc = "wait" /\ got = N /\ ctlPc' = "idle"
          /\ UNCHANGED <<inputSem, outputSem>>
          /\ InFlightSet' = InFlightSet
        BY <1>6 DEF FinishStep, FinishReset, syncVars, workerVars, InFlightSet
    <2>2. inputSem = 0 /\ outputSem = 0 /\ Cardinality(InFlightSet) = 0
        BY <2>1, InFlightFinite DEF PermitCount, TypeOK
    <2>3. InFlightSet = {}
        BY <2>2, NoneInFlight
    <2>4. QED
        BY <2>1, <2>2, <2>3 DEF PermitCount
<1>7. CASE StepCall \/ ResetCall
    <2>1. /\ ctlPc # "wait" /\ ctlPc' = "wait"
          /\ inputSem' = inputSem + N /\ got' = 0
          /\ UNCHANGED outputSem
          /\ InFlightSet' = InFlightSet
        BY <1>7 DEF StepCall, ResetCall, CallerMayCall, workerVars, InFlightSet
    <2>2. inputSem = 0 /\ outputSem = 0 /\ InFlightSet = {}
        BY <2>1 DEF PermitCount
    <2>3. QED
        BY <2>1, <2>2, FS_EmptySet DEF PermitCount
<1>8. CASE Clear
    <2>1. /\ ctlPc = "idle" /\ ctlPc' = "cleared"
          /\ UNCHANGED <<inputSem, outputSem>>
          /\ InFlightSet' = {}
        BY <1>8 DEF Clear, syncVars, InFlightSet, InFlight
    <2>2. QED
        BY <2>1 DEF PermitCount
<1>9. CASE InitProcess
    <2>1. /\ ctlPc' = "wait" /\ inputSem' = N /\ outputSem' = 0 /\ got' = 0
          /\ InFlightSet' = {}
        BY <1>9 DEF InitProcess, SpawnWorkers, InFlightSet, InFlight
    <2>2. QED
        BY <2>1, FS_EmptySet DEF PermitCount
<1>10. CASE UNCHANGED vars
    <2>1. InFlightSet' = InFlightSet /\ UNCHANGED CountVars
        BY <1>10 DEF vars, ctlVars, syncVars, workerVars, InFlightSet,
                     CountVars
    <2>2. QED
        BY <2>1, CountStays
<1>11. QED
    BY <1>1, <1>2, <1>3, <1>4, <1>5, <1>6, <1>7, <1>8, <1>9, <1>10
       DEF Next, Controller, Worker

LEMMA PermitImpliesSafe == TypeOK /\ PermitCount => NoWorkerInFlight
<1> SUFFICES ASSUME TypeOK, PermitCount,
                    ctlPc \in {"idle", "cleared"} \/ got = N
             PROVE  /\ inputSem = 0
                    /\ outputSem = 0
                    /\ \A w \in Workers : pc[w] \notin InFlight
    BY DEF NoWorkerInFlight
<1>1. inputSem = 0 /\ outputSem = 0 /\ InFlightSet = {}
    <2>1. CASE ctlPc # "wait"
        BY <2>1 DEF PermitCount
    <2>2. CASE ctlPc = "wait"
        <3>1. got = N
            BY <2>2
        <3>2. inputSem = 0 /\ outputSem = 0 /\ Cardinality(InFlightSet) = 0
            BY <2>2, <3>1, InFlightFinite DEF PermitCount, TypeOK
        <3>3. QED
            BY <3>2, NoneInFlight
    <2>3. QED
        BY <2>1, <2>2
<1>2. QED
    BY <1>1 DEF InFlightSet

\* The barrier is safe for every N: whenever the controller may read
\* share_results or write share_actions (outside a call, or with all N done
\* signals taken), no worker holds a go permit or is running, and no permit
\* or done signal is left over from the cycle.
THEOREM BarrierSafe == Spec => []NoWorkerInFlight
<1>1. Init => IInv
    BY TypeInit, PermitInit DEF IInv
<1>2. IInv /\ [Next]_vars => IInv'
    BY TypeStep, PermitStep DEF IInv
<1>3. IInv => NoWorkerInFlight
    BY PermitImpliesSafe DEF IInv, TypeInv
<1>4. QED
    BY <1>1, <1>2, <1>3, PTL DEF Spec

=============================================================================

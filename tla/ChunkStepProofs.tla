--------------------------- MODULE ChunkStepProofs ---------------------------
(***************************************************************************)
(* Proofs about ChunkStep for every number of environments, chunk size,    *)
(* horizon and step ceiling.                                               *)
(*                                                                         *)
(* TerminationsKept: chunk_step reports termination exactly when the       *)
(* worker started a new episode during the chunk.  The inductive argument  *)
(* (EpisodeCount) is that, after the first sub-step of a call, an          *)
(* environment's episode number is still the one that took sub-step 1     *)
(* exactly when none of the raw termination flags gathered so far is set,  *)
(* and never below it; and a returned call has all K flags gathered and    *)
(* reports their disjunction (ReturnedShape).                              *)
(***************************************************************************)
EXTENDS ChunkStep, SequenceTheorems, TLAPS

USE ChunkAssumption

EpisodeCount ==
    \A e \in Envs : i > 0 =>
        /\ ep[e][1] \in Nat
        /\ episode[e] >= ep[e][1]
        /\ (episode[e] = ep[e][1] <=> \A k \in 1..i : ~term[e][k])

ReturnedShape ==
    status = "returned" =>
        /\ i = K
        /\ \A e \in Envs : outTerm[e] = AtLast(AnySet(term[e]))

CInv == TypeOK /\ EpisodeCount /\ ReturnedShape

-----------------------------------------------------------------------------

LEMMA AtLastSeq ==
    ASSUME NEW b \in BOOLEAN
    PROVE  AtLast(b) \in Seq(BOOLEAN)
BY DEF AtLast

LEMMA ChunkInit == Init => CInv
<1> SUFFICES ASSUME Init PROVE CInv
    OBVIOUS
<1>1. NoRows \in [Envs -> Seq(BOOLEAN)] /\ \A e \in Envs : Len(NoRows[e]) = 0
    BY EmptySeq DEF NoRows
<1>2. \A e \in Envs : NoRows[e] \in Seq(Nat)
    BY EmptySeq DEF NoRows
<1>3. TypeOK
    BY <1>1, <1>2 DEF Init, TypeOK
<1>4. QED
    BY <1>3 DEF Init, CInv, EpisodeCount, ReturnedShape

LEMMA ChunkStepInv == CInv /\ [Next]_vars => CInv'
<1> SUFFICES ASSUME CInv, [Next]_vars PROVE CInv'
    OBVIOUS
<1>0. TypeOK
    BY DEF CInv
<1>1. CASE SubStep /\ SliceLen = BufferLen
    <2>1. PICK done \in [Envs -> BOOLEAN] :
              /\ term' = [e \in Envs |-> Append(term[e], done[e])]
              /\ trunc' = [e \in Envs |-> Append(trunc[e], Truncated(e, done[e]))]
              /\ ep' = [e \in Envs |-> Append(ep[e], episode[e])]
              /\ finishStep' = [e \in Envs |-> NextFinish(e, done[e])]
              /\ episode' = [e \in Envs |->
                               IF done[e] THEN episode[e] + 1 ELSE episode[e]]
              /\ i' = i + 1
              /\ UNCHANGED <<status, calls, outTerm, outTrunc>>
        BY <1>1 DEF SubStep
    <2>2. status = "running" /\ i < K
        BY <1>1 DEF SubStep
    <2>3. TypeOK'
        <3>1. \A e \in Envs : Truncated(e, done[e]) \in BOOLEAN
            BY DEF Truncated
        <3>2. \A e \in Envs : NextFinish(e, done[e]) \in Nat
            BY <1>0 DEF NextFinish, TypeOK
        <3>3. \A e \in Envs :
                /\ term'[e] \in Seq(BOOLEAN) /\ Len(term'[e]) = i'
                /\ trunc'[e] \in Seq(BOOLEAN) /\ Len(trunc'[e]) = i'
                /\ ep'[e] \in Seq(Nat) /\ Len(ep'[e]) = i'
            <4> SUFFICES ASSUME NEW e \in Envs
                         PROVE  /\ term'[e] \in Seq(BOOLEAN) /\ Len(term'[e]) = i'
                                /\ trunc'[e] \in Seq(BOOLEAN) /\ Len(trunc'[e]) = i'
                                /\ ep'[e] \in Seq(Nat) /\ Len(ep'[e]) = i'
                OBVIOUS
            <4>1. /\ term[e] \in Seq(BOOLEAN) /\ Len(term[e]) = i
                  /\ trunc[e] \in Seq(BOOLEAN) /\ Len(trunc[e]) = i
                  /\ ep[e] \in Seq(Nat) /\ Len(ep[e]) = i
                  /\ episode[e] \in Nat /\ done[e] \in BOOLEAN
                BY <1>0 DEF TypeOK
            <4>2. /\ term'[e] = Append(term[e], done[e])
                  /\ trunc'[e] = Append(trunc[e], Truncated(e, done[e]))
                  /\ ep'[e] = Append(ep[e], episode[e])
                  /\ i' = i + 1
                BY <2>1
            <4>3. QED
                BY <4>1, <4>2, <3>1, AppendProperties
        <3>4. /\ finishStep' \in [Envs -> Nat] /\ episode' \in [Envs -> Nat]
            BY <1>0, <2>1, <3>2 DEF TypeOK
        <3>5. /\ status' \in {"running", "returned", "error"}
              /\ calls' \in 1..MaxCalls /\ i' \in 0..K
              /\ outTerm' \in [Envs -> Seq(BOOLEAN)]
              /\ outTrunc' \in [Envs -> Seq(BOOLEAN)]
            BY <1>0, <2>1, <2>2 DEF TypeOK
        <3>6. QED
            BY <3>3, <3>4, <3>5 DEF TypeOK
    <2>4. EpisodeCount'
        <3> SUFFICES ASSUME NEW e \in Envs
                     PROVE  /\ ep'[e][1] \in Nat
                            /\ episode'[e] >= ep'[e][1]
                            /\ (episode'[e] = ep'[e][1] <=> \A k \in 1..i' : ~term'[e][k])
            BY DEF EpisodeCount
        <3>1. /\ i \in Nat /\ term[e] \in Seq(BOOLEAN) /\ ep[e] \in Seq(Nat)
              /\ Len(term[e]) = i /\ Len(ep[e]) = i /\ episode[e] \in Nat
              /\ done[e] \in BOOLEAN
            BY <1>0 DEF TypeOK
        <3>2. i > 0 => /\ ep[e][1] \in Nat /\ episode[e] >= ep[e][1]
                       /\ (episode[e] = ep[e][1] <=> \A k \in 1..i : ~term[e][k])
            BY DEF CInv, EpisodeCount
        <3>3. /\ term'[e] = Append(term[e], done[e])
              /\ ep'[e] = Append(ep[e], episode[e])
              /\ episode'[e] = IF done[e] THEN episode[e] + 1 ELSE episode[e]
              /\ i' = i + 1
            BY <2>1
        <3>4. /\ Len(term'[e]) = i + 1
              /\ \A k \in 1..i : term'[e][k] = term[e][k]
              /\ term'[e][i + 1] = done[e]
              /\ \A k \in 1..i : ep'[e][k] = ep[e][k]
              /\ ep'[e][i + 1] = episode[e]
            BY <3>1, <3>3, AppendProperties
        <3>5. CASE i = 0
            BY <3>1, <3>3, <3>4, <3>5
        <3>6. CASE i > 0
            <4>1. ep'[e][1] = ep[e][1]
                BY <3>1, <3>4, <3>6
            <4>2. ep[e][1] \in Nat /\ episode[e] >= ep[e][1]
                BY <3>2, <3>6
            <4>3. (\A k \in 1..i' : ~term'[e][k])
                    <=> (\A k \in 1..i : ~term[e][k]) /\ ~done[e]
                BY <3>1, <3>3, <3>4
            <4>4. episode'[e] = ep'[e][1]
                    <=> episode[e] = ep[e][1] /\ ~done[e]
                BY <3>1, <3>3, <4>1, <4>2
            <4>5. QED
                BY <3>1, <3>2, <3>3, <3>6, <4>1, <4>2, <4>3, <4>4
        <3>7. QED
            BY <3>1, <3>5, <3>6
    <2>5. ReturnedShape'
        BY <2>1, <2>2 DEF ReturnedShape
    <2>6. QED
        BY <2>3, <2>4, <2>5 DEF CInv
<1>2. CASE SubStep /\ SliceLen # BufferLen
    <2>1. status' = "error" /\ UNCHANGED <<calls, i, finishStep, episode, term,
                                           trunc, ep, outTerm, outTrunc>>
        BY <1>2 DEF SubStep
    <2>2. QED
        BY <1>0, <2>1 DEF CInv, TypeOK, EpisodeCount, ReturnedShape
<1>3. CASE Return
    <2>1. \A e \in Envs : AnySet(term[e]) \in BOOLEAN /\ AnySet(trunc[e]) \in BOOLEAN
        BY DEF AnySet
    <2>2. TypeOK'
        BY <1>0, <1>3, <2>1, AtLastSeq DEF Return, TypeOK
    <2>3. QED
        BY <1>3, <2>2 DEF Return, CInv, EpisodeCount, ReturnedShape
<1>4. CASE NextCall
    <2>1. NoRows \in [Envs -> Seq(BOOLEAN)] /\ \A e \in Envs : NoRows[e] \in Seq(Nat)
        BY EmptySeq DEF NoRows
    <2>2. TypeOK'
        BY <1>0, <1>4, <2>1, EmptySeq DEF NextCall, TypeOK, NoRows
    <2>3. QED
        BY <1>4, <2>2 DEF NextCall, CInv, EpisodeCount, ReturnedShape
<1>5. CASE UNCHANGED vars
    BY <1>5 DEF vars, CInv, TypeOK, EpisodeCount, ReturnedShape
<1>6. QED
    BY <1>1, <1>2, <1>3, <1>4, <1>5 DEF Next

\* A returned call's last termination flag is the disjunction of the raw
\* flags, and that disjunction holds exactly when the episode moved on.
LEMMA CInvReported == CInv => TerminationReported
<1> SUFFICES ASSUME CInv, status = "returned", NEW e \in Envs
             PROVE  outTerm[e][K] <=> episode[e] # ep[e][1]
    BY DEF TerminationReported
<1>1. i = K /\ outTerm[e] = AtLast(AnySet(term[e]))
    BY DEF CInv, ReturnedShape
<1>2. Len(term[e]) = K
    BY <1>1 DEF CInv, TypeOK
<1>3. outTerm[e][K] = AnySet(term[e])
    <2>1. AnySet(term[e]) \in BOOLEAN
        BY DEF AnySet
    <2>2. AtLast(AnySet(term[e]))[K] = (K = K /\ AnySet(term[e]))
        BY DEF AtLast
    <2>3. QED
        BY <1>1, <2>1, <2>2
<1>4. (episode[e] = ep[e][1] <=> \A k \in 1..K : ~term[e][k])
    BY <1>1 DEF CInv, EpisodeCount
<1>5. AnySet(term[e]) <=> ~\A k \in 1..K : ~term[e][k]
    BY <1>2 DEF AnySet
<1>6. QED
    BY <1>3, <1>4, <1>5

\* chunk_step's bookkeeping is well typed: every raw row has one entry per
\* sub-step done, for every number of environments and chunk size.
THEOREM ChunkTypeCorrect == Spec => []TypeOK
<1>1. Init => CInv
    BY ChunkInit
<1>2. CInv /\ [Next]_vars => CInv'
    BY ChunkStepInv
<1>3. CInv => TypeOK
    BY DEF CInv
<1>4. QED
    BY <1>1, <1>2, <1>3, PTL DEF Spec

\* No termination inside a chunk is lost by chunk_step's flag moving: a
\* returned call reports an environment terminated exactly when its worker
\* auto-reset during the chunk.
THEOREM TerminationsKept == Spec => []TerminationReported
<1>1. Init => CInv
    BY ChunkInit
<1>2. CInv /\ [Next]_vars => CInv'
    BY ChunkStepInv
<1>3. QED
    BY <1>1, <1>2, CInvReported, PTL DEF Spec

=============================================================================

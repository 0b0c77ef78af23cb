------------------------------ MODULE SeedCursor ------------------------------
(***************************************************************************)
(* What the shared seed cursor of RoboTwin_env.py promises, as an atomic   *)
(* object: a worker that (re)seeds takes the cursor's current value as its *)
(* seed and the cursor moves on by one, modulo its wrap, in one indivisible *)
(* step; tearing the pool down and recreating it carries the cursor over,   *)
(* reset to 0 above the cap, and the new worker processes hold no seed.     *)
(* RoboTwinPool implements this object with share_seed, its lock and a     *)
(* read and a write in two separate steps.                                 *)
(***************************************************************************)
EXTENDS Naturals

CONSTANTS
    Workers,   \* worker process ids
    SeedWrap,  \* the cursor wraps at this value
    SeedCap    \* the persisted cursor is reset to 0 above this value

VARIABLES
    cursor,    \* the next seed to hand out
    claimed    \* claimed[w]: the seed worker w took last

Init ==
    /\ cursor = 0
    /\ claimed = [w \in Workers |-> 0]

\* One seed claim: now_seed = seed_id.value; seed_id.value += 1 (wrapped).
Claim(w) ==
    /\ claimed' = [claimed EXCEPT ![w] = cursor]
    /\ cursor' = (cursor + 1) % SeedWrap

\* clear() then init_process(): the cursor survives, capped; the fresh
\* processes have claimed nothing.
Restart ==
    /\ cursor' = IF cursor > SeedCap THEN 0 ELSE cursor
    /\ claimed' = [w \in Workers |-> 0]

Next == Restart \/ \E w \in Workers : Claim(w)

Spec == Init /\ [][Next]_<<cursor, claimed>>

=============================================================================

------------------------------ MODULE KeyPool -------------------------------
(***************************************************************************)
(* One KeyPool shared by the coroutines of a process: any of them may pick *)
(* a key, park or kill any key, in any order, while time passes.           *)
(***************************************************************************)
EXTENDS KeyPoolOps

CONSTANTS Cooldowns,  \* the cooldowns callers pass to mark_exhausted
          MaxTime     \* bound of the clock

ASSUME ClockAssumption == Cooldowns \subseteq Nat /\ MaxTime \in Nat

VARIABLES pool,      \* the KeyPool
          now,       \* datetime.utcnow()
          returned   \* what the last method call returned

poolVars == <<pool, now, returned>>

PoolInit ==
    /\ pool = FreshPool
    /\ now = 0
    /\ returned = NoEntry

PickKey(e) ==
    /\ FirstUsable(pool, now, e)
    /\ pool' = Taken(pool, e)
    /\ returned' = e
    /\ UNCHANGED now

PickNone ==
    /\ NoneUsable(pool, now)
    /\ returned' = NoEntry
    /\ UNCHANGED <<pool, now>>

MarkExhausted(k, d) ==
    /\ pool' = Parked(pool, now, k, d)
    /\ returned' = NoEntry
    /\ UNCHANGED now

MarkDead(k) ==
    /\ pool' = Killed(pool, k)
    /\ returned' = NoEntry
    /\ UNCHANGED now

Tick ==
    /\ now < MaxTime
    /\ now' = now + 1
    /\ returned' = NoEntry
    /\ UNCHANGED pool

PoolNext ==
    \/ \E e \in Entries : PickKey(e)
    \/ PickNone
    \/ \E k \in Key, d \in Cooldowns : MarkExhausted(k, d)
    \/ \E k \in Key : MarkDead(k)
    \/ Tick

PoolSpec == PoolInit /\ [][PoolNext]_poolVars
=============================================================================

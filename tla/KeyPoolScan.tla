---------------------------- MODULE KeyPoolScan -----------------------------
(***************************************************************************)
(* The loop of pick() statement by statement, key_pool.py:58-72: the       *)
(* cursor moves past every entry it examines, the clock is read once, and  *)
(* the loop gives up after NumKeys entries.  The lock keeps every other    *)
(* method out while the loop runs, and no time passes for it; the other    *)
(* methods, and time, are the steps of KeyPool.tla.                        *)
(*                                                                         *)
(* Atomic is that module again, its pool seen through the moving cursor:   *)
(* it checks that a loop that starts anywhere and skips what it must is    *)
(* the one atomic choice PickKey makes.                                    *)
(***************************************************************************)
EXTENDS KeyPool

VARIABLES looking,   \* a pick() is in its loop
          looked     \* iterations of its loop done

scanVars == <<pool, now, returned, looking, looked>>

ScanInit ==
    /\ PoolInit
    /\ looking = FALSE
    /\ looked = 0

StartPick ==
    /\ ~looking
    /\ looking' = TRUE
    /\ UNCHANGED <<pool, now, returned, looked>>

SkipEntry ==
    /\ looking /\ looked < NumKeys
    /\ ~Usable(pool, now, pool.cursor)
    /\ pool' = [pool EXCEPT !.cursor = Successor(@)]
    /\ looked' = looked + 1
    /\ UNCHANGED <<now, returned, looking>>

LoopEnds(e) ==
    /\ returned' = e
    /\ looking' = FALSE
    /\ looked' = 0
    /\ UNCHANGED now

(* A fault: the cursor is moved only when an entry is skipped.             *)
ReturnWithoutAdvance ==
    /\ looking /\ looked < NumKeys
    /\ Usable(pool, now, pool.cursor)
    /\ pool' = TakenWithoutAdvance(pool, pool.cursor)
    /\ LoopEnds(pool.cursor)

ReturnEntry ==
    /\ looking /\ looked < NumKeys
    /\ Usable(pool, now, pool.cursor)
    /\ pool' = [pool EXCEPT !.cursor = Successor(@), !.until[pool.cursor] = 0]
    /\ LoopEnds(pool.cursor)

ReturnNone ==
    /\ looking /\ looked = NumKeys
    /\ LoopEnds(NoEntry)
    /\ UNCHANGED pool

(* The methods that mark a key, and time, find no pick() in its loop.      *)
NoPickLooking == ~looking /\ UNCHANGED <<looking, looked>>

ScanNext ==
    \/ StartPick \/ SkipEntry \/ ReturnEntry \/ ReturnNone
    \/ \E k \in Key, d \in Cooldowns : NoPickLooking /\ MarkExhausted(k, d)
    \/ \E k \in Key : NoPickLooking /\ MarkDead(k)
    \/ NoPickLooking /\ Tick

ScanSpec == ScanInit /\ [][ScanNext]_scanVars

-----------------------------------------------------------------------------
(* Refinement *)

(* The cursor before the loop moved it.                                    *)
StartOfScan ==
    IF pool.cursor >= looked THEN pool.cursor - looked
                             ELSE pool.cursor + NumKeys - looked

Atomic == INSTANCE KeyPool WITH pool <- [pool EXCEPT !.cursor = StartOfScan]

(* The loop hands out exactly the entry the atomic pick of KeyPool.tla     *)
(* chooses, None exactly when nothing is usable, and leaves the cursor     *)
(* where KeyPool.tla leaves it (key_pool.py:58-72).                        *)
ImplementsKeyPool == Atomic!PoolSpec
=============================================================================

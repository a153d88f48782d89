--------------------------- MODULE KeyPoolHistory ---------------------------
(***************************************************************************)
(* KeyPool.tla with history variables that record what the callers have    *)
(* been told, so that what the docstring of key_pool.py promises (round    *)
(* robin, a parked key rests, a dead key is gone) can be stated over whole *)
(* runs.                                                                   *)
(***************************************************************************)
EXTENDS KeyPool

VARIABLES killed,    \* keys reported permanently dead
          rest,      \* rest[k]: the latest instant k was parked until
          turns      \* turns[f][e]: how often e was handed out since f was
                     \* handed out or was not usable at a pick

vars == <<pool, now, returned, killed, rest, turns>>

NoTurns == [e \in Entries |-> 0]

TypeOK ==
    /\ pool \in PoolType /\ CursorInRange(pool)
    /\ now \in Nat
    /\ returned \in Entries \cup {NoEntry}
    /\ killed \subseteq Key
    /\ rest \in [Key -> Nat]
    /\ turns \in [Entries -> [Entries -> Nat]]

Init ==
    /\ PoolInit
    /\ killed = {}
    /\ rest = [k \in Key |-> 0]
    /\ turns = [f \in Entries |-> NoTurns]

Picks(e) ==
    /\ PickKey(e)
    /\ turns' = [f \in Entries |->
                    IF f = e \/ ~Usable(pool, now, f)
                    THEN NoTurns
                    ELSE [turns[f] EXCEPT ![e] = @ + 1]]
    /\ UNCHANGED <<killed, rest>>

PicksNothing ==
    /\ PickNone
    /\ turns' = [f \in Entries |-> NoTurns]
    /\ UNCHANGED <<killed, rest>>

Parks(k, d) ==
    /\ MarkExhausted(k, d)
    /\ rest' = [rest EXCEPT ![k] = IF @ > now + d THEN @ ELSE now + d]
    /\ UNCHANGED <<killed, turns>>

Kills(k) ==
    /\ MarkDead(k)
    /\ killed' = killed \cup {k}
    /\ UNCHANGED <<rest, turns>>

Passes == Tick /\ UNCHANGED <<killed, rest, turns>>

Next ==
    \/ \E e \in Entries : Picks(e)
    \/ PicksNothing
    \/ \E k \in Key, d \in Cooldowns : Parks(k, d)
    \/ \E k \in Key : Kills(k)
    \/ Passes

Spec == Init /\ [][Next]_vars

-----------------------------------------------------------------------------
(* Properties *)

(* Round robin: while a key has been usable at every pick and was never    *)
(* chosen, no other key is handed out twice, whatever parks, kills and     *)
(* passing time come in between (key_pool.py:54-72).                       *)
NoKeyOvertakenTwice == \A f, e \in Entries : turns[f][e] <= 1

(* A key some caller reported dead is never handed out again               *)
(* (key_pool.py:91-99).  True when no key is configured twice.             *)
DeadKeyRetired == returned # NoEntry => ApiKey[returned] \notin killed

(* No key is handed out before every park it was given has run out         *)
(* (key_pool.py:74-89).  True when no key is configured twice and every    *)
(* caller parks for the same time, as the callers of a Prospeo pool do.    *)
ParkedKeyRests == returned # NoEntry => rest[ApiKey[returned]] <= now
=============================================================================

----------------------------- MODULE KeyPoolOps -----------------------------
(***************************************************************************)
(* contacts/key_pool.py as operators on the value of one KeyPool object.   *)
(*                                                                         *)
(* Every method of KeyPool runs under the pool's asyncio.Lock and awaits   *)
(* nothing while it holds it, so the lock is never contended and a method  *)
(* is one atomic step of the event loop.  A caller may run several of them *)
(* in one step (mark_dead, then pick), so they are operators on a pool     *)
(* value here and the state machines that own a pool apply them.           *)
(*                                                                         *)
(* Instants and durations are naturals; exhausted_until = None is 0, which *)
(* is never in the future.                                                 *)
(***************************************************************************)
EXTENDS Integers

CONSTANTS NumKeys,   \* len(self._keys): the configured keys, duplicates kept
          Key,       \* the API keys
          ApiKey     \* [Entries -> Key]: the api_key of each _KeyState

Entries == 0 .. NumKeys - 1

NoEntry == -1        \* pick() returned None

ASSUME KeyPoolAssumption ==
    /\ NumKeys \in Nat
    /\ ApiKey \in [Entries -> Key]

(* __init__ keeps a key that is configured twice as two entries.           *)
DistinctKeys == \A e, f \in Entries : ApiKey[e] = ApiKey[f] => e = f

PoolType == [cursor : Nat, until : [Entries -> Nat], dead : SUBSET Entries]

CursorInRange(p) == p.cursor = 0 \/ p.cursor < NumKeys

FreshPool == [cursor |-> 0, until |-> [e \in Entries |-> 0], dead |-> {}]

Enabled(p) == \E e \in Entries : e \notin p.dead

(* An entry pick() would not skip at instant t.                            *)
Usable(p, t, e) == e \notin p.dead /\ p.until[e] <= t

(* How many entries the loop of pick() examines before entry e.            *)
Distance(p, e) == IF e >= p.cursor THEN e - p.cursor ELSE e + NumKeys - p.cursor

(* A fault: the cursor runs off the end of the list.                       *)
SuccessorWithoutWrap(e) == e + 1

Successor(e) == IF e + 1 = NumKeys THEN 0 ELSE e + 1

(* The entry pick() returns at instant t: the first usable one the loop    *)
(* meets, starting at the cursor and wrapping round once.                  *)
FirstUsable(p, t, e) ==
    /\ Usable(p, t, e)
    /\ \A f \in Entries : Usable(p, t, f) => Distance(p, e) <= Distance(p, f)

(* pick() returns None.  Its loop then moved the cursor NumKeys times,     *)
(* that is, back to where it was.                                          *)
NoneUsable(p, t) == \A e \in Entries : ~Usable(p, t, e)

(* A fault: the cursor stays on the entry that was handed out.             *)
TakenWithoutAdvance(p, e) == [p EXCEPT !.until[e] = 0]

(* The pool after pick() returned e.                                       *)
Taken(p, e) ==
    [p EXCEPT !.cursor = Successor(e), !.until = [@ EXCEPT ![e] = 0]]

(* The entry the loops of the mark_ methods stop at: the first with the    *)
(* key, whichever entry the caller was handed.                             *)
FirstWith(k, e) ==
    /\ ApiKey[e] = k
    /\ \A f \in Entries : ApiKey[f] = k => e <= f

(* A fault: the cooldown is taken for an instant.                          *)
ParkedUntilDuration(p, t, k, d) ==
    [p EXCEPT !.until = [e \in Entries |->
                            IF FirstWith(k, e) THEN d ELSE p.until[e]]]

(* mark_exhausted(k, d) at instant t; a later park replaces an earlier one.*)
Parked(p, t, k, d) ==
    [p EXCEPT !.until = [e \in Entries |->
                            IF FirstWith(k, e) THEN t + d ELSE p.until[e]]]

(* A fault: a rejected key is only parked.                                 *)
ParkedForDead(p, k) ==
    [p EXCEPT !.until = [e \in Entries |->
                            IF FirstWith(k, e) THEN p.until[e] + 2 ELSE p.until[e]]]

(* mark_dead(k); nothing ever revives an entry.                            *)
Killed(p, k) == [p EXCEPT !.dead = @ \cup {e \in Entries : FirstWith(k, e)}]
=============================================================================

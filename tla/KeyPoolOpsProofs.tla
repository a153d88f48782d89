-------------------------- MODULE KeyPoolOpsProofs --------------------------
(***************************************************************************)
(* Lemmas about the operators of KeyPoolOps.tla, for any number of keys.   *)
(***************************************************************************)
EXTENDS KeyPoolOps, TLAPS

LEMMA TakenFields ==
    ASSUME NEW p \in PoolType, NEW e \in Entries
    PROVE  /\ Taken(p, e).cursor = Successor(e)
           /\ Taken(p, e).until = [p.until EXCEPT ![e] = 0]
           /\ Taken(p, e).dead = p.dead
           /\ Taken(p, e) \in [cursor : {Successor(e)},
                               until : {[p.until EXCEPT ![e] = 0]},
                               dead : {p.dead}]
BY DEF PoolType, Taken

LEMMA TakenType ==
    ASSUME NEW p \in PoolType, NEW e \in Entries
    PROVE  Taken(p, e) \in PoolType /\ CursorInRange(Taken(p, e))
<1>1. Successor(e) \in Nat /\ (Successor(e) = 0 \/ Successor(e) < NumKeys)
  BY KeyPoolAssumption DEF Successor, Entries
<1>2. [p.until EXCEPT ![e] = 0] \in [Entries -> Nat]
  BY DEF PoolType
<1> QED BY <1>1, <1>2, TakenFields DEF PoolType, CursorInRange

LEMMA ParkedType ==
    ASSUME NEW p \in PoolType, NEW t \in Nat, NEW k, NEW d \in Nat
    PROVE  /\ Parked(p, t, k, d) \in PoolType
           /\ Parked(p, t, k, d).cursor = p.cursor
           /\ Parked(p, t, k, d).dead = p.dead
BY DEF PoolType, Parked

LEMMA KilledType ==
    ASSUME NEW p \in PoolType, NEW k
    PROVE  /\ Killed(p, k) \in PoolType
           /\ Killed(p, k).cursor = p.cursor
           /\ Killed(p, k).until = p.until
           /\ p.dead \subseteq Killed(p, k).dead
BY DEF PoolType, Killed

(* With no key configured twice, a key is found at each of its entries.    *)
LEMMA FirstIsOnly ==
    ASSUME DistinctKeys, NEW e \in Entries
    PROVE  FirstWith(ApiKey[e], e)
BY KeyPoolAssumption DEF DistinctKeys, FirstWith, Entries

LEMMA DistanceType ==
    ASSUME NEW p \in PoolType, NEW e \in Entries
    PROVE  Distance(p, e) \in Int
<1>1. p.cursor \in Int
  BY DEF PoolType
<1> QED BY <1>1, KeyPoolAssumption DEF Distance, Entries

(* The cursor, once past e, meets the entries in the order in which it     *)
(* would have met them before, with e last.                                *)
LEMMA DistanceAfterTaken ==
    ASSUME NEW p \in PoolType, CursorInRange(p), NEW e \in Entries,
           NEW f \in Entries, NEW g \in Entries,
           Distance(p, e) < Distance(p, f)
    PROVE  /\ Distance(Taken(p, e), f) < Distance(Taken(p, e), e)
           /\ Distance(p, f) < Distance(p, g)
                => Distance(Taken(p, e), f) < Distance(Taken(p, e), g)
<1>1. Taken(p, e).cursor = Successor(e)
  BY TakenFields
<1>2. p.cursor \in Nat
  BY DEF PoolType
<1> QED BY <1>1, <1>2, KeyPoolAssumption
        DEF CursorInRange, Distance, Successor, Entries

(* What pick() returns lies nearer to the cursor than any other usable key.*)
LEMMA PickedIsNearest ==
    ASSUME NEW p \in PoolType, CursorInRange(p), NEW t, NEW e \in Entries,
           NEW f \in Entries, FirstUsable(p, t, e), Usable(p, t, f), f # e
    PROVE  Distance(p, e) < Distance(p, f)
<1>1. Distance(p, e) <= Distance(p, f)
  BY DEF FirstUsable
<1>2. p.cursor \in Nat
  BY DEF PoolType
<1> QED BY <1>1, <1>2, KeyPoolAssumption DEF CursorInRange, Distance, Entries
=============================================================================

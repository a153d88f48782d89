--------------------------- MODULE KeyPoolProofs ----------------------------
(***************************************************************************)
(* Theorems about KeyPoolHistory.tla and KeyPoolScan.tla for every number  *)
(* of keys, every set of cooldowns and every length of run.                *)
(***************************************************************************)
EXTENDS KeyPoolHistory, KeyPoolScan, KeyPoolOpsProofs

-----------------------------------------------------------------------------
(* Type correctness *)

LEMMA InitTypeOK == Init => TypeOK
BY KeyPoolAssumption
   DEF Init, PoolInit, TypeOK, FreshPool, PoolType, CursorInRange, NoTurns,
       NoEntry

LEMMA NextTypeOK == TypeOK /\ [Next]_vars => TypeOK'
<1> SUFFICES ASSUME TypeOK, [Next]_vars PROVE TypeOK'
  OBVIOUS
<1> USE DEF TypeOK
<1>1. ASSUME NEW e \in Entries, Picks(e) PROVE TypeOK'
  <2>1. pool' \in PoolType /\ CursorInRange(pool)'
    BY <1>1, TakenType DEF Picks, PickKey, CursorInRange
  <2>2. turns' \in [Entries -> [Entries -> Nat]]
    BY <1>1 DEF Picks, NoTurns
  <2> QED BY <1>1, <2>1, <2>2 DEF Picks, PickKey
<1>2. CASE PicksNothing
  BY <1>2 DEF PicksNothing, PickNone, NoTurns, CursorInRange
<1>3. ASSUME NEW k \in Key, NEW d \in Cooldowns, Parks(k, d) PROVE TypeOK'
  <2>1. d \in Nat
    BY ClockAssumption
  <2>2. pool' \in PoolType /\ CursorInRange(pool)'
    BY <1>3, <2>1, ParkedType DEF Parks, MarkExhausted, CursorInRange
  <2>3. rest' \in [Key -> Nat]
    BY <1>3, <2>1 DEF Parks
  <2> QED BY <1>3, <2>2, <2>3 DEF Parks, MarkExhausted
<1>4. ASSUME NEW k \in Key, Kills(k) PROVE TypeOK'
  BY <1>4, KilledType DEF Kills, MarkDead, CursorInRange
<1>5. CASE Passes
  BY <1>5 DEF Passes, Tick, CursorInRange
<1>6. CASE UNCHANGED vars
  BY <1>6 DEF vars, CursorInRange
<1> QED BY <1>1, <1>2, <1>3, <1>4, <1>5, <1>6 DEF Next

(* Every pool value, clock and history stays of its type, and the cursor   *)
(* inside the list, however many keys there are and whatever callers do.   *)
THEOREM TypeCorrect == Spec => []TypeOK
BY InitTypeOK, NextTypeOK, PTL DEF Spec

-----------------------------------------------------------------------------
(* Round robin *)

(* Whoever was handed out since f last had its turn lies behind f: the     *)
(* cursor meets f first.                                                   *)
TurnsInOrder ==
    \A f, e \in Entries :
        turns[f][e] = 0 \/ (turns[f][e] = 1 /\ Distance(pool, f) < Distance(pool, e))

LEMMA NextTurnsInOrder ==
    TypeOK /\ TurnsInOrder /\ [Next]_vars => TurnsInOrder'
<1> SUFFICES ASSUME TypeOK, TurnsInOrder, [Next]_vars,
                    NEW f \in Entries, NEW g \in Entries
             PROVE  \/ turns'[f][g] = 0
                    \/ turns'[f][g] = 1 /\ Distance(pool', f) < Distance(pool', g)
  BY DEF TurnsInOrder, Distance
<1> USE DEF TypeOK
<1>1. ASSUME NEW e \in Entries, Picks(e)
      PROVE  \/ turns'[f][g] = 0
             \/ turns'[f][g] = 1 /\ Distance(pool', f) < Distance(pool', g)
  <2>1. CASE f = e \/ ~Usable(pool, now, f)
    BY <1>1, <2>1 DEF Picks, NoTurns
  <2>2. CASE f # e /\ Usable(pool, now, f)
    <3>1. Distance(pool, e) < Distance(pool, f)
      <4>1. FirstUsable(pool, now, e)
        BY <1>1 DEF Picks, PickKey
      <4> QED BY <2>2, <4>1, PickedIsNearest
    <3>2. pool' = Taken(pool, e)
      BY <1>1 DEF Picks, PickKey
    <3>3. turns'[f] = [turns[f] EXCEPT ![e] = @ + 1]
      BY <1>1, <2>2 DEF Picks
    <3>4. CASE g = e
      <4>1. turns[f][e] = 0
        <5>1. ~(Distance(pool, f) < Distance(pool, e))
          <6>1. Distance(pool, e) \in Int /\ Distance(pool, f) \in Int
            BY DistanceType
          <6> QED BY <3>1, <6>1
        <5> QED BY <5>1 DEF TurnsInOrder
      <4> QED BY <3>1, <3>2, <3>3, <3>4, <4>1, DistanceAfterTaken
    <3>5. CASE g # e
      <4>1. turns'[f][g] = turns[f][g]
        BY <3>3, <3>5
      <4> QED BY <3>1, <3>2, <4>1, DistanceAfterTaken DEF TurnsInOrder
    <3> QED BY <3>4, <3>5
  <2> QED BY <2>1, <2>2
<1>2. CASE PicksNothing
  BY <1>2 DEF PicksNothing, NoTurns
<1>3. ASSUME NEW k \in Key, NEW d \in Cooldowns, Parks(k, d)
      PROVE  pool'.cursor = pool.cursor /\ turns' = turns
  BY <1>3, ParkedType, ClockAssumption DEF Parks, MarkExhausted
<1>4. ASSUME NEW k \in Key, Kills(k)
      PROVE  pool'.cursor = pool.cursor /\ turns' = turns
  BY <1>4, KilledType DEF Kills, MarkDead
<1>5. CASE pool'.cursor = pool.cursor /\ turns' = turns
  BY <1>5 DEF TurnsInOrder, Distance
<1>6. CASE Passes
  BY <1>5, <1>6 DEF Passes, Tick
<1>7. CASE UNCHANGED vars
  BY <1>5, <1>7 DEF vars
<1> QED BY <1>1, <1>2, <1>3, <1>4, <1>5, <1>6, <1>7 DEF Next

(* No key is handed out twice while another has been waiting, usable, for  *)
(* its turn: the round robin of pick() is fair for every number of keys.   *)
THEOREM RoundRobinFair == Spec => []NoKeyOvertakenTwice
<1>1. Init => TurnsInOrder
  BY DEF Init, NoTurns, TurnsInOrder
<1>2. TypeOK /\ TurnsInOrder => NoKeyOvertakenTwice
  BY DEF TurnsInOrder, NoKeyOvertakenTwice
<1> QED BY <1>1, <1>2, NextTurnsInOrder, TypeCorrect, PTL DEF Spec

-----------------------------------------------------------------------------
(* A dead key is gone *)

KilledEntriesDead == \A e \in Entries : ApiKey[e] \in killed => e \in pool.dead

LEMMA NextKilledEntriesDead ==
    ASSUME DistinctKeys, TypeOK, KilledEntriesDead, [Next]_vars
    PROVE  KilledEntriesDead'
<1>1. ASSUME NEW e \in Entries, Picks(e) PROVE KilledEntriesDead'
  BY <1>1, TakenFields DEF TypeOK, Picks, PickKey, KilledEntriesDead
<1>2. CASE PicksNothing
  BY <1>2 DEF PicksNothing, PickNone, KilledEntriesDead
<1>3. ASSUME NEW k \in Key, NEW d \in Cooldowns, Parks(k, d)
      PROVE  KilledEntriesDead'
  BY <1>3, ParkedType, ClockAssumption
     DEF TypeOK, Parks, MarkExhausted, KilledEntriesDead
<1>4. ASSUME NEW k \in Key, Kills(k) PROVE KilledEntriesDead'
  <2> SUFFICES ASSUME NEW e \in Entries, ApiKey[e] \in killed'
               PROVE  e \in pool'.dead
    BY DEF KilledEntriesDead
  <2>1. pool' = Killed(pool, k) /\ killed' = killed \cup {k}
    BY <1>4 DEF Kills, MarkDead
  <2>2. pool'.dead = pool.dead \cup {f \in Entries : FirstWith(k, f)}
    BY <2>1 DEF TypeOK, PoolType, Killed
  <2>3. CASE ApiKey[e] \in killed
    BY <2>2, <2>3 DEF KilledEntriesDead
  <2>4. CASE ApiKey[e] = k
    BY <2>2, <2>4, FirstIsOnly
  <2> QED BY <2>1, <2>3, <2>4
<1>5. CASE Passes
  BY <1>5 DEF Passes, Tick, KilledEntriesDead
<1>6. CASE UNCHANGED vars
  BY <1>6 DEF vars, KilledEntriesDead
<1> QED BY <1>1, <1>2, <1>3, <1>4, <1>5, <1>6 DEF Next

LEMMA NextDeadKeyRetired ==
    ASSUME TypeOK, KilledEntriesDead, DeadKeyRetired, [Next]_vars
    PROVE  DeadKeyRetired'
<1>1. ASSUME NEW e \in Entries, Picks(e) PROVE DeadKeyRetired'
  <2>1. e \notin pool.dead /\ returned' = e /\ killed' = killed
    BY <1>1 DEF Picks, PickKey, FirstUsable, Usable
  <2> QED BY <2>1 DEF KilledEntriesDead, DeadKeyRetired
<1>2. CASE returned' = NoEntry
  BY <1>2 DEF DeadKeyRetired
<1>3. CASE UNCHANGED vars
  BY <1>3 DEF vars, DeadKeyRetired
<1> QED BY <1>1, <1>2, <1>3
        DEF Next, PicksNothing, PickNone, Parks, MarkExhausted, Kills, MarkDead,
            Passes, Tick

(* When no key is configured twice, a key that any caller reported dead is *)
(* never handed out again, whatever else the other callers do to the pool. *)
THEOREM DeadForGood == ASSUME DistinctKeys PROVE Spec => []DeadKeyRetired
<1>1. Init => KilledEntriesDead /\ DeadKeyRetired
  BY DEF Init, PoolInit, KilledEntriesDead, DeadKeyRetired
<1>2. TypeOK /\ KilledEntriesDead /\ DeadKeyRetired /\ [Next]_vars
        => KilledEntriesDead' /\ DeadKeyRetired'
  BY NextKilledEntriesDead, NextDeadKeyRetired
<1> QED BY <1>1, <1>2, TypeCorrect, PTL DEF Spec

-----------------------------------------------------------------------------
(* A parked key rests *)

OneCooldownOnly == \A c, d \in Cooldowns : c = d

(* No rest reaches further than a park ordered now would.                  *)
RestInReach == \A k \in Key : rest[k] = 0 \/ \E d \in Cooldowns : rest[k] <= now + d

(* The entry still holds every rest that has not run out.                  *)
RestHeld ==
    \A e \in Entries :
        rest[ApiKey[e]] > now => pool.until[e] >= rest[ApiKey[e]]

LEMMA NextRestInReach ==
    ASSUME TypeOK, RestInReach, [Next]_vars
    PROVE  RestInReach'
<1> SUFFICES ASSUME NEW k \in Key
             PROVE  rest'[k] = 0 \/ \E d \in Cooldowns : rest'[k] <= now' + d
  BY DEF RestInReach
<1>1. rest[k] = 0 \/ \E d \in Cooldowns : rest[k] <= now + d
  BY DEF RestInReach
<1>2. now \in Nat /\ rest \in [Key -> Nat] /\ Cooldowns \subseteq Nat
  BY ClockAssumption DEF TypeOK
<1>3. ASSUME NEW j \in Key, NEW d \in Cooldowns, Parks(j, d)
      PROVE  rest'[k] = 0 \/ \E c \in Cooldowns : rest'[k] <= now' + c
  <2>1. now' = now /\ rest' = [rest EXCEPT ![j] = IF @ > now + d THEN @ ELSE now + d]
    BY <1>3 DEF Parks, MarkExhausted
  <2>2. rest'[k] = rest[k] \/ rest'[k] = now + d
    BY <1>2, <2>1
  <2> QED BY <1>1, <1>2, <2>1, <2>2
<1>4. CASE rest' = rest /\ now' = now
  BY <1>1, <1>4
<1>5. CASE Passes
  <2>1. rest' = rest /\ now' = now + 1
    BY <1>5 DEF Passes, Tick
  <2> QED BY <1>1, <1>2, <2>1
<1> QED BY <1>3, <1>4, <1>5
        DEF Next, Picks, PickKey, PicksNothing, PickNone, Kills, MarkDead, vars

LEMMA NextRestHeld ==
    ASSUME DistinctKeys, OneCooldownOnly, TypeOK, RestInReach, RestHeld, [Next]_vars
    PROVE  RestHeld'
<1> SUFFICES ASSUME NEW f \in Entries, rest'[ApiKey[f]] > now'
             PROVE  pool'.until[f] >= rest'[ApiKey[f]]
  BY DEF RestHeld
<1>1. /\ now \in Nat /\ rest \in [Key -> Nat] /\ Cooldowns \subseteq Nat
      /\ pool \in PoolType /\ pool.until \in [Entries -> Nat]
      /\ ApiKey[f] \in Key
  BY ClockAssumption, KeyPoolAssumption DEF TypeOK, PoolType
<1>2. rest[ApiKey[f]] > now => pool.until[f] >= rest[ApiKey[f]]
  BY DEF RestHeld
<1>3. ASSUME NEW e \in Entries, Picks(e) PROVE pool'.until[f] >= rest'[ApiKey[f]]
  <2>1. pool' = Taken(pool, e) /\ rest' = rest /\ now' = now /\ pool.until[e] <= now
    BY <1>3 DEF Picks, PickKey, FirstUsable, Usable
  <2>2. pool'.until = [pool.until EXCEPT ![e] = 0]
    BY <1>1, <2>1, TakenFields
  <2>3. e # f
    BY <1>1, <1>2, <2>1
  <2> QED BY <1>1, <1>2, <2>1, <2>2, <2>3
<1>4. ASSUME NEW k \in Key, NEW d \in Cooldowns, Parks(k, d)
      PROVE  pool'.until[f] >= rest'[ApiKey[f]]
  <2>1. now' = now /\ rest' = [rest EXCEPT ![k] = IF @ > now + d THEN @ ELSE now + d]
    BY <1>4 DEF Parks, MarkExhausted
  <2>2. pool' = Parked(pool, now, k, d)
    BY <1>4 DEF Parks, MarkExhausted
  <2>3. pool'.until[f] = IF FirstWith(k, f) THEN now + d ELSE pool.until[f]
    BY <1>1, <2>2 DEF PoolType, Parked
  <2>4. CASE ApiKey[f] = k
    <3>1. rest[k] <= now + d
      BY <1>1 DEF RestInReach, OneCooldownOnly
    <3>2. rest'[k] = now + d
      BY <1>1, <2>1, <3>1
    <3> QED BY <1>1, <2>3, <2>4, <3>2, FirstIsOnly
  <2>5. CASE ApiKey[f] # k
    BY <1>1, <1>2, <2>1, <2>3, <2>5 DEF FirstWith
  <2> QED BY <2>4, <2>5
<1>5. ASSUME NEW k \in Key, Kills(k) PROVE pool'.until[f] >= rest'[ApiKey[f]]
  <2>1. pool'.until = pool.until /\ rest' = rest /\ now' = now
    BY <1>1, <1>5, KilledType DEF Kills, MarkDead
  <2> QED BY <1>2, <2>1
<1>6. CASE Passes
  BY <1>1, <1>2, <1>6 DEF Passes, Tick
<1>7. CASE PicksNothing \/ UNCHANGED vars
  BY <1>2, <1>7 DEF PicksNothing, PickNone, vars
<1> QED BY <1>3, <1>4, <1>5, <1>6, <1>7 DEF Next

LEMMA NextParkedKeyRests ==
    ASSUME TypeOK, RestHeld, ParkedKeyRests, [Next]_vars
    PROVE  ParkedKeyRests'
<1>1. ASSUME NEW e \in Entries, Picks(e) PROVE ParkedKeyRests'
  <2>1. /\ pool.until[e] <= now /\ returned' = e
        /\ rest' = rest /\ now' = now
    BY <1>1 DEF Picks, PickKey, FirstUsable, Usable
  <2>2. /\ now \in Nat /\ pool.until[e] \in Nat
        /\ rest[ApiKey[e]] \in Nat
    BY KeyPoolAssumption DEF TypeOK, PoolType
  <2>3. rest[ApiKey[e]] > now => pool.until[e] >= rest[ApiKey[e]]
    BY DEF RestHeld
  <2>4. rest[ApiKey[e]] <= now
    BY <2>1, <2>2, <2>3
  <2> QED BY <2>1, <2>4 DEF ParkedKeyRests
<1>2. CASE returned' = NoEntry
  BY <1>2 DEF ParkedKeyRests
<1>3. CASE UNCHANGED vars
  BY <1>3 DEF vars, ParkedKeyRests
<1> QED BY <1>1, <1>2, <1>3
        DEF Next, PicksNothing, PickNone, Parks, MarkExhausted, Kills, MarkDead,
            Passes, Tick

(* When no key is configured twice and all callers park for the same time, *)
(* a parked key is not handed out before its time, however late the        *)
(* answers that park it arrive.                                            *)
THEOREM ParkIsHonoured ==
    ASSUME DistinctKeys, OneCooldownOnly PROVE Spec => []ParkedKeyRests
<1>1. Init => RestInReach /\ RestHeld /\ ParkedKeyRests
  <2> SUFFICES ASSUME Init PROVE RestInReach /\ RestHeld /\ ParkedKeyRests
    OBVIOUS
  <2>1. \A k \in Key : rest[k] = 0
    BY DEF Init
  <2>2. \A e \in Entries : rest[ApiKey[e]] = 0
    BY <2>1, KeyPoolAssumption
  <2>3. now = 0 /\ returned = NoEntry
    BY DEF Init, PoolInit
  <2> QED BY <2>1, <2>2, <2>3 DEF RestInReach, RestHeld, ParkedKeyRests
<1>2. TypeOK /\ RestInReach /\ RestHeld /\ ParkedKeyRests /\ [Next]_vars
        => RestInReach' /\ RestHeld' /\ ParkedKeyRests'
  BY NextRestInReach, NextRestHeld, NextParkedKeyRests
<1> QED BY <1>1, <1>2, TypeCorrect, PTL DEF Spec

-----------------------------------------------------------------------------
(* The loop of pick(): KeyPoolScan.tla *)

(* The pool as KeyPool.tla sees it.                                        *)
AtomicPool == [pool EXCEPT !.cursor = StartOfScan]

(* Every entry the loop has passed was dead or parked.                     *)
OnlyUnusableSkipped ==
    \A e \in Entries : Distance(AtomicPool, e) < looked => ~Usable(pool, now, e)

ScanInv ==
    /\ pool \in PoolType /\ CursorInRange(pool)
    /\ now \in Nat
    /\ looked \in 0 .. NumKeys
    /\ ~looking => looked = 0
    /\ OnlyUnusableSkipped

-----------------------------------------------------------------------------

LEMMA SetCursor ==
    ASSUME NEW p \in PoolType, NEW c
    PROVE  [p EXCEPT !.cursor = c] = [cursor |-> c, until |-> p.until, dead |-> p.dead]
BY DEF PoolType

LEMMA TakenIs ==
    ASSUME NEW p \in PoolType, NEW e
    PROVE  Taken(p, e) = [cursor |-> Successor(e),
                          until |-> [p.until EXCEPT ![e] = 0],
                          dead |-> p.dead]
<1> DEFINE u == [p.until EXCEPT ![e] = 0]
<1>1. Taken(p, e) = [p EXCEPT !.cursor = Successor(e), !.until = u]
  BY DEF Taken, PoolType
<1> HIDE DEF u
<1>2. Taken(p, e) = [cursor |-> Successor(e), until |-> u, dead |-> p.dead]
  BY <1>1 DEF PoolType
<1> QED BY <1>2 DEF u

LEMMA AtomicPoolIs ==
    ASSUME ScanInv
    PROVE  /\ AtomicPool = [cursor |-> StartOfScan, until |-> pool.until, dead |-> pool.dead]
           /\ pool = [cursor |-> pool.cursor, until |-> pool.until, dead |-> pool.dead]
           /\ StartOfScan \in Nat /\ (StartOfScan = 0 \/ StartOfScan < NumKeys)
<1>1. AtomicPool = [cursor |-> StartOfScan, until |-> pool.until, dead |-> pool.dead]
  BY SetCursor DEF ScanInv, AtomicPool
<1>2. pool = [cursor |-> pool.cursor, until |-> pool.until, dead |-> pool.dead]
  BY DEF ScanInv, PoolType
<1>3. pool.cursor \in Nat
  BY DEF ScanInv, PoolType
<1>4. StartOfScan \in Nat /\ (StartOfScan = 0 \/ StartOfScan < NumKeys)
  BY <1>3, KeyPoolAssumption DEF ScanInv, StartOfScan, CursorInRange
<1> QED BY <1>1, <1>2, <1>4

(* While no pick() runs, both views of the pool are the same.              *)
LEMMA IdleViews == ASSUME ScanInv, looked = 0 PROVE AtomicPool = pool
<1>1. pool.cursor \in Nat
  BY DEF ScanInv, PoolType
<1>2. StartOfScan = pool.cursor
  BY <1>1 DEF StartOfScan
<1> QED BY <1>2, AtomicPoolIs

LEMMA IdleViewsAfter ==
    ASSUME pool' \in PoolType, looked' = 0 PROVE AtomicPool' = pool'
<1>1. pool'.cursor \in Nat
  BY DEF PoolType
<1>2. StartOfScan' = pool'.cursor
  BY <1>1 DEF StartOfScan
<1>3. AtomicPool' = [cursor |-> StartOfScan', until |-> pool'.until, dead |-> pool'.dead]
  BY SetCursor DEF AtomicPool
<1>4. pool' = [cursor |-> pool'.cursor, until |-> pool'.until, dead |-> pool'.dead]
  BY DEF PoolType
<1> QED BY <1>2, <1>3, <1>4

(* The cursor is looked entries past the start, wrapping round.            *)
LEMMA CursorIsLooked ==
    ASSUME ScanInv, looked < NumKeys
    PROVE  /\ pool.cursor \in Entries
           /\ Distance(AtomicPool, pool.cursor) = looked
<1>1. pool.cursor \in Entries
  BY KeyPoolAssumption DEF ScanInv, PoolType, CursorInRange, Entries
<1>2. AtomicPool.cursor = StartOfScan
  BY AtomicPoolIs
<1> QED BY <1>1, <1>2, KeyPoolAssumption
        DEF ScanInv, Distance, StartOfScan, Entries

LEMMA DistanceBounds ==
    ASSUME ScanInv, NEW e \in Entries
    PROVE  /\ Distance(AtomicPool, e) \in 0 .. NumKeys - 1
           /\ looked < NumKeys /\ Distance(AtomicPool, e) = looked => e = pool.cursor
<1> DEFINE s == StartOfScan
<1>1. AtomicPool.cursor = StartOfScan /\ StartOfScan \in Nat
      /\ (StartOfScan = 0 \/ StartOfScan < NumKeys)
  BY AtomicPoolIs
<1>2. e \in Int /\ 0 <= e /\ e < NumKeys /\ NumKeys \in Nat
  BY KeyPoolAssumption DEF Entries
<1>3. Distance(AtomicPool, e) = IF e >= s THEN e - s ELSE e + NumKeys - s
  BY <1>1 DEF Distance
<1>4. Distance(AtomicPool, e) \in 0 .. NumKeys - 1
  <2> HIDE DEF s
  <2>1. s \in Nat /\ (s = 0 \/ s < NumKeys)
    BY <1>1 DEF s
  <2> QED BY <1>2, <1>3, <2>1
<1>5. ASSUME looked < NumKeys, Distance(AtomicPool, e) = looked PROVE e = pool.cursor
  <2>1. /\ pool.cursor \in Nat /\ (pool.cursor = 0 \/ pool.cursor < NumKeys)
        /\ looked \in Nat
    BY <1>2 DEF ScanInv, PoolType, CursorInRange
  <2>2. s = IF pool.cursor >= looked THEN pool.cursor - looked
                                     ELSE pool.cursor + NumKeys - looked
    BY DEF StartOfScan
  <2> QED BY <1>2, <1>3, <1>5, <2>1, <2>2
<1> QED BY <1>4, <1>5

(* An iteration that skips an entry does not move the start of the scan.   *)
LEMMA SkipKeepsAtomicPool ==
    ASSUME ScanInv, SkipEntry
    PROVE  /\ AtomicPool' = AtomicPool
           /\ pool' \in PoolType /\ CursorInRange(pool')
<1>1. pool.cursor \in Nat /\ pool.cursor \in Entries /\ looked \in Nat
  BY CursorIsLooked, KeyPoolAssumption DEF ScanInv, SkipEntry, PoolType
<1>2. pool' = [cursor |-> Successor(pool.cursor), until |-> pool.until, dead |-> pool.dead]
  BY SetCursor DEF ScanInv, SkipEntry
<1>3. /\ Successor(pool.cursor) \in Nat
      /\ Successor(pool.cursor) = 0 \/ Successor(pool.cursor) < NumKeys
  BY <1>1, KeyPoolAssumption DEF Successor, Entries
<1>4. pool' \in PoolType /\ CursorInRange(pool')
  BY <1>2, <1>3 DEF ScanInv, PoolType, CursorInRange
<1>5. StartOfScan' = StartOfScan
  <2>1. looked' = looked + 1 /\ looked < NumKeys
    BY DEF SkipEntry
  <2>2. pool'.cursor = IF pool.cursor + 1 = NumKeys THEN 0 ELSE pool.cursor + 1
    BY <1>2 DEF Successor
  <2>3. pool.cursor < NumKeys /\ NumKeys \in Nat
    BY <1>1, KeyPoolAssumption DEF Entries
  <2> QED BY <1>1, <2>1, <2>2, <2>3 DEF StartOfScan
<1>6. AtomicPool' = [cursor |-> StartOfScan', until |-> pool'.until, dead |-> pool'.dead]
  BY <1>4, SetCursor DEF AtomicPool
<1> QED BY <1>2, <1>4, <1>5, <1>6, AtomicPoolIs

-----------------------------------------------------------------------------
(* The invariant *)

LEMMA InitScanInv == ScanInit => ScanInv
<1> SUFFICES ASSUME ScanInit PROVE ScanInv
  OBVIOUS
<1>1. pool \in PoolType /\ CursorInRange(pool) /\ now \in Nat
  BY DEF ScanInit, PoolInit, FreshPool, PoolType, CursorInRange
<1>2. AtomicPool = [cursor |-> StartOfScan, until |-> pool.until, dead |-> pool.dead]
  BY <1>1, SetCursor DEF AtomicPool
<1>3. pool.cursor = 0 /\ looked = 0
  BY DEF ScanInit, PoolInit, FreshPool
<1>4. StartOfScan = 0
  BY <1>3 DEF StartOfScan
<1>5. \A e \in Entries : ~(Distance(AtomicPool, e) < looked)
  BY <1>2, <1>3, <1>4, KeyPoolAssumption DEF Distance, Entries
<1> QED BY <1>1, <1>3, <1>5, KeyPoolAssumption
        DEF ScanInit, ScanInv, OnlyUnusableSkipped

(* A step that ends with no loop running has nothing skipped to answer for.*)
LEMMA NothingLooked ==
    ASSUME NumKeys \in Nat, pool' \in PoolType, CursorInRange(pool)', now' \in Nat,
           looked' = 0
    PROVE  ScanInv'
<1>1. AtomicPool' = [cursor |-> StartOfScan', until |-> pool'.until, dead |-> pool'.dead]
  BY SetCursor DEF AtomicPool
<1>2. pool'.cursor \in Nat
  BY DEF PoolType
<1>3. StartOfScan' = pool'.cursor
  BY <1>2 DEF StartOfScan
<1>4. \A e \in Entries : ~(Distance(AtomicPool', e) < 0)
  BY <1>1, <1>2, <1>3 DEF CursorInRange, Distance, Entries
<1> QED BY <1>4 DEF ScanInv, OnlyUnusableSkipped

LEMMA TakenAtCursor ==
    ASSUME ScanInv, ReturnEntry
    PROVE  /\ pool' = [cursor |-> Successor(pool.cursor),
                       until |-> [pool.until EXCEPT ![pool.cursor] = 0],
                       dead |-> pool.dead]
           /\ pool' \in PoolType /\ CursorInRange(pool')
<1>1. pool.cursor \in Entries
  BY CursorIsLooked DEF ReturnEntry
<1>2. /\ Successor(pool.cursor) \in Nat
      /\ Successor(pool.cursor) = 0 \/ Successor(pool.cursor) < NumKeys
  BY <1>1, KeyPoolAssumption DEF Successor, Entries
<1>3. pool' = [cursor |-> Successor(pool.cursor),
               until |-> [pool.until EXCEPT ![pool.cursor] = 0],
               dead |-> pool.dead]
  BY DEF ScanInv, ReturnEntry, PoolType
<1>4. [pool.until EXCEPT ![pool.cursor] = 0] \in [Entries -> Nat]
  BY DEF ScanInv, PoolType
<1> QED BY <1>2, <1>3, <1>4 DEF ScanInv, PoolType, CursorInRange

LEMMA NextScanInv == ScanInv /\ [ScanNext]_scanVars => ScanInv'
<1> SUFFICES ASSUME ScanInv, [ScanNext]_scanVars PROVE ScanInv'
  OBVIOUS
<1>1. CASE StartPick
  BY <1>1 DEF StartPick, ScanInv, OnlyUnusableSkipped, AtomicPool, StartOfScan,
              CursorInRange
<1>2. CASE SkipEntry
  <2>1. AtomicPool' = AtomicPool /\ pool' \in PoolType /\ CursorInRange(pool')
    BY <1>2, SkipKeepsAtomicPool
  <2>2. pool'.until = pool.until /\ pool'.dead = pool.dead
    BY <1>2 DEF SkipEntry, ScanInv, PoolType
  <2>3. looked < NumKeys /\ looked' = looked + 1 /\ now' = now /\ looking'
    BY <1>2 DEF SkipEntry
  <2>4. ASSUME NEW e \in Entries, Distance(AtomicPool, e) < looked + 1
        PROVE  ~Usable(pool, now, e)
    <3>1. CASE Distance(AtomicPool, e) < looked
      BY <3>1 DEF ScanInv, OnlyUnusableSkipped
    <3>2. CASE Distance(AtomicPool, e) = looked
      BY <1>2, <2>3, <3>2, DistanceBounds DEF SkipEntry
    <3> QED BY <2>4, <3>1, <3>2, DistanceBounds DEF ScanInv
  <2>5. OnlyUnusableSkipped'
    BY <2>1, <2>2, <2>3, <2>4 DEF OnlyUnusableSkipped, Usable
  <2> QED BY <2>1, <2>3, <2>5, KeyPoolAssumption DEF ScanInv, CursorInRange
<1>3. CASE ReturnEntry
  BY <1>3, TakenAtCursor, NothingLooked, KeyPoolAssumption
     DEF ReturnEntry, LoopEnds, ScanInv, CursorInRange
<1>4. CASE ReturnNone
  BY <1>4, NothingLooked, KeyPoolAssumption DEF ReturnNone, LoopEnds, ScanInv, CursorInRange
<1>5. ASSUME NoPickLooking, UNCHANGED now, pool' \in PoolType, pool'.cursor = pool.cursor
      PROVE  ScanInv'
  BY <1>5, NothingLooked, KeyPoolAssumption DEF NoPickLooking, ScanInv, CursorInRange
<1>6. ASSUME NEW k \in Key, NEW d \in Cooldowns, NoPickLooking, MarkExhausted(k, d)
      PROVE  ScanInv'
  BY <1>5, <1>6, ParkedType, ClockAssumption DEF MarkExhausted, ScanInv
<1>7. ASSUME NEW k \in Key, NoPickLooking, MarkDead(k)
      PROVE  ScanInv'
  BY <1>5, <1>7, KilledType DEF MarkDead, ScanInv
<1>8. CASE NoPickLooking /\ Tick
  BY <1>8, NothingLooked, KeyPoolAssumption
     DEF NoPickLooking, Tick, ScanInv, CursorInRange
<1>9. CASE UNCHANGED scanVars
  BY <1>9 DEF scanVars, ScanInv, OnlyUnusableSkipped, AtomicPool, StartOfScan,
              CursorInRange
<1> QED BY <1>1, <1>2, <1>3, <1>4, <1>6, <1>7, <1>8, <1>9 DEF ScanNext

-----------------------------------------------------------------------------
(* Refinement *)

LEMMA InitImplements == ScanInit => Atomic!PoolInit
<1> SUFFICES ASSUME ScanInit PROVE AtomicPool = FreshPool /\ now = 0 /\ returned = NoEntry
  BY DEF Atomic!PoolInit, Atomic!FreshPool, Atomic!Entries, Atomic!NoEntry,
         AtomicPool, FreshPool, Entries, NoEntry
<1>1. ScanInv /\ looked = 0
  BY InitScanInv DEF ScanInit
<1> QED BY <1>1, IdleViews DEF ScanInit, PoolInit

LEMMA NextImplements == ScanInv /\ [ScanNext]_scanVars => [Atomic!PoolNext]_(Atomic!poolVars)
<1> SUFFICES ASSUME ScanInv, ScanInv', [ScanNext]_scanVars
             PROVE  [Atomic!PoolNext]_(Atomic!poolVars)
  BY NextScanInv
<1>1. CASE StartPick
  BY <1>1 DEF StartPick, StartOfScan, Atomic!poolVars
<1>2. CASE SkipEntry
  BY <1>2, SkipKeepsAtomicPool DEF SkipEntry, AtomicPool, Atomic!poolVars
<1>3. CASE ReturnEntry
  <2> DEFINE e == pool.cursor
  <2>1. e \in Entries /\ Distance(AtomicPool, e) = looked
    BY <1>3, CursorIsLooked DEF ReturnEntry
  <2>2. AtomicPool.until = pool.until /\ AtomicPool.dead = pool.dead
    BY AtomicPoolIs
  <2>3. \A f \in Entries : Usable(pool, now, f) => Distance(AtomicPool, e) <= Distance(AtomicPool, f)
    BY <2>1, DistanceBounds, KeyPoolAssumption DEF ScanInv, OnlyUnusableSkipped
  <2>4. FirstUsable(AtomicPool, now, e)
    BY <1>3, <2>2, <2>3 DEF FirstUsable, Usable, ReturnEntry
  <2>5. AtomicPool' = pool'
    BY <1>3, IdleViewsAfter DEF ReturnEntry, LoopEnds, ScanInv
  <2>6. AtomicPool' = Taken(AtomicPool, e)
    <3>1. AtomicPool = [cursor |-> StartOfScan, until |-> pool.until,
                        dead |-> pool.dead]
      BY AtomicPoolIs
    <3>2. Taken(AtomicPool, e) = [cursor |-> Successor(e),
                                  until |-> [pool.until EXCEPT ![e] = 0],
                                  dead |-> pool.dead]
      <4>1. AtomicPool \in PoolType
        BY AtomicPoolIs DEF ScanInv, PoolType
      <4> QED BY <3>1, <4>1, TakenIs
    <3> QED BY <1>3, <2>5, <3>2, TakenAtCursor
  <2>7. Atomic!PickKey(e)
    BY <1>3, <2>4, <2>6
       DEF ReturnEntry, LoopEnds, Atomic!PickKey, Atomic!FirstUsable, Atomic!Usable,
           Atomic!Distance, Atomic!Taken, Atomic!Successor, Atomic!Entries,
           FirstUsable, Usable, Distance, Taken, Successor, Entries, AtomicPool
  <2> QED BY <2>1, <2>7 DEF Atomic!PoolNext, Atomic!Entries, Entries
<1>4. CASE ReturnNone
  <2>1. StartOfScan = pool.cursor /\ AtomicPool = pool
    <3>1. pool.cursor \in Nat /\ looked = NumKeys /\ NumKeys \in Nat
          /\ (pool.cursor = 0 \/ pool.cursor < NumKeys)
      BY <1>4, KeyPoolAssumption DEF ReturnNone, ScanInv, PoolType, CursorInRange
    <3>2. StartOfScan = pool.cursor
      BY <3>1 DEF StartOfScan
    <3> QED BY <3>2, AtomicPoolIs
  <2>2. AtomicPool' = pool'
    BY <1>4, IdleViewsAfter DEF ReturnNone, LoopEnds, ScanInv
  <2>3. \A f \in Entries : ~Usable(AtomicPool, now, f)
    <3>1. \A f \in Entries : Distance(AtomicPool, f) < NumKeys
      BY DistanceBounds, KeyPoolAssumption
    <3> QED BY <1>4, <2>1, <3>1 DEF ReturnNone, ScanInv, OnlyUnusableSkipped
  <2> QED BY <1>4, <2>1, <2>2, <2>3
          DEF ReturnNone, LoopEnds, Atomic!PoolNext, Atomic!PickNone, Atomic!NoneUsable,
              Atomic!Usable, Atomic!Entries, Atomic!NoEntry, NoEntry, Usable,
              Entries, AtomicPool
<1>5. ASSUME NoPickLooking
      PROVE  /\ AtomicPool = pool
             /\ pool' \in PoolType => AtomicPool' = pool'
  BY <1>5, IdleViews, IdleViewsAfter DEF NoPickLooking, ScanInv
<1>6. ASSUME NEW k \in Key, NEW d \in Cooldowns, NoPickLooking, MarkExhausted(k, d)
      PROVE  Atomic!MarkExhausted(k, d)
  <2>1. Atomic!Parked(pool, now, k, d) = Parked(pool, now, k, d)
    BY DEF Atomic!Parked, Atomic!FirstWith, Atomic!Entries, Parked, FirstWith, Entries
  <2>2. AtomicPool = pool /\ AtomicPool' = pool'
    BY <1>5, <1>6 DEF ScanInv
  <2> QED BY <1>6, <2>1, <2>2
          DEF MarkExhausted, Atomic!MarkExhausted, AtomicPool, NoEntry, Atomic!NoEntry
<1>7. ASSUME NEW k \in Key, NoPickLooking, MarkDead(k)
      PROVE  Atomic!MarkDead(k)
  <2>1. Atomic!Killed(pool, k) = Killed(pool, k)
    BY DEF Atomic!Killed, Atomic!FirstWith, Atomic!Entries, Killed, FirstWith, Entries
  <2>2. AtomicPool = pool /\ AtomicPool' = pool'
    BY <1>5, <1>7 DEF ScanInv
  <2> QED BY <1>7, <2>1, <2>2
          DEF MarkDead, Atomic!MarkDead, AtomicPool, NoEntry, Atomic!NoEntry
<1>8. CASE NoPickLooking /\ Tick
  <2>1. AtomicPool' = AtomicPool
    BY <1>8 DEF NoPickLooking, Tick, AtomicPool, StartOfScan
  <2> QED BY <1>8, <2>1
          DEF Tick, Atomic!PoolNext, Atomic!Tick, Atomic!NoEntry, NoEntry, AtomicPool
<1>9. CASE UNCHANGED scanVars
  BY <1>9 DEF scanVars, StartOfScan, Atomic!poolVars
<1> QED BY <1>1, <1>2, <1>3, <1>4, <1>6, <1>7, <1>8, <1>9 DEF ScanNext, Atomic!PoolNext

(* The loop of pick() is a correct implementation of "hand out the first   *)
(* usable key after the cursor, or None when there is none".               *)
THEOREM ScanImplementsPool == ScanSpec => ImplementsKeyPool
<1>1. ScanSpec => []ScanInv
  BY InitScanInv, NextScanInv, PTL DEF ScanSpec
<1> QED BY <1>1, InitImplements, NextImplements, PTL
        DEF ScanSpec, ImplementsKeyPool, Atomic!PoolSpec
=============================================================================

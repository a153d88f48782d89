-------------------------- MODULE ResolutionProofs ---------------------------
(***************************************************************************)
(* Theorems about Resolution.tla for every number of keys of each tier, of *)
(* overlapping calls, of replies and of settings.                          *)
(***************************************************************************)
EXTENDS Resolution, FiniteSetTheorems, TLAPS

(* The word of a client's find that has its answer and is writing its row. *)
Word(t, find) == IF find.pc = "log" THEN {<<t, find.answer>>} ELSE {}

MissedBy(t, missed) == IF missed THEN {<<t, "miss">>} ELSE {}

(* The truth of a reason, given what was heard of the person.              *)
TrueOf(r, words) ==
    LET Got(kind) == \E t \in 1..2 : <<t, kind>> \in words
    IN  CASE r.reason = "no_match" -> Got("miss") /\ ~Got("hit")
          [] r.reason \in {"provider_unavailable", "insufficient_input"} -> words = {}
          [] OTHER -> Got("hit")

OneHit(words) ==
    /\ ~({<<1, "hit">>, <<2, "hit">>} \subseteq words)
    /\ ~fallback => Cardinality(words) <= 1

(* A find of a client is on its way exactly while the chain waits for that *)
(* tier, and what was heard so far is what the chain's flags remember and  *)
(* what the client is about to return.                                     *)
CallInv(c) ==
    /\ pFind[c].pc = "log" => pFind[c].answer \in {"hit", "miss"}
    /\ aFind[c].pc = "log" => aFind[c].answer \in {"hit", "miss"}
    /\ P!InFlight(c) <=> chain[c].tier = 1
    /\ A!InFlight(c) <=> chain[c].tier = 2
    /\ chain[c].tier = 1 => ~chain[c].noMatch /\ heard[c] = Word(1, pFind[c])
    /\ chain[c].tier = 2 => /\ chain[c].noMatch => fallback
                            /\ heard[c] = MissedBy(1, chain[c].noMatch)
                                              \cup Word(2, aFind[c])
    /\ request[c].pc = "verify" => \E t \in 1..2 : <<t, "hit">> \in heard[c]
    /\ request[c].pc = "done" => TrueOf(request[c], heard[c])
    /\ OneHit(heard[c])

ResolutionInv == TypeOK /\ \A c \in Calls : CallInv(c)

-----------------------------------------------------------------------------
(* The Prospeo client *)

LEMMA ProspeoTaken ==
    ASSUME NEW p \in P!PoolType, NEW e \in P!Entries
    PROVE  /\ P!Taken(p, e) \in P!PoolType /\ P!CursorInRange(P!Taken(p, e))
           /\ P!Taken(p, e).dead = p.dead
<1>1. P!Successor(e) \in Nat /\ (P!Successor(e) = 0 \/ P!Successor(e) < NumProspeo)
  BY ResolutionAssumption DEF P!Successor, P!Entries
<1>2. [p.until EXCEPT ![e] = 0] \in [P!Entries -> Nat]
  BY DEF P!PoolType
<1> QED BY <1>1, <1>2 DEF P!PoolType, P!Taken, P!CursorInRange

LEMMA ProspeoMarked ==
    ASSUME NEW p \in P!PoolType, P!CursorInRange(p), NEW k
    PROVE  /\ \A t, d \in Nat : /\ P!Parked(p, t, k, d) \in P!PoolType
                               /\ P!CursorInRange(P!Parked(p, t, k, d))
                               /\ P!Parked(p, t, k, d).dead = p.dead
           /\ P!Killed(p, k) \in P!PoolType /\ P!CursorInRange(P!Killed(p, k))
           /\ p.dead \subseteq P!Killed(p, k).dead
BY DEF P!PoolType, P!Parked, P!Killed, P!CursorInRange

LEMMA ProspeoFinds ==
    ASSUME NEW e \in P!Entries, NEW n \in Nat,
           NEW a \in {"none", "hit", "miss", "unavailable"}
    PROVE  /\ P!OnWire(e, n) \in P!CallType /\ P!OnWire(e, n).pc = "wire"
           /\ P!OnWire(e, n).entry = e /\ P!OnWire(e, n).left = n
           /\ P!Answered(a) \in P!CallType /\ P!Answered(a).pc = "done"
           /\ P!Answered(a).answer = a
BY DEF P!OnWire, P!Answered, P!NoFind, P!CallType

(* The find of call c becomes x, the pool p; nothing else of the client    *)
(* moves but its counter and its usage rows.                               *)
LEMMA ProspeoFindMoves ==
    ASSUME P!ClientTypeOK, NEW c \in Calls, NEW p \in P!PoolType, P!CursorInRange(p),
           NEW x \in P!CallType, x.pc \in {"wire", "log"} => x.entry \in P!Entries,
           pFind' = [pFind EXCEPT ![c] = x], pPool' = p, now' = now,
           pBegun' \in Nat, pUsage' \in [P!Entries -> [rows : Nat, credits : Nat]]
    PROVE  /\ P!ClientTypeOK' /\ pFind'[c] = x
           /\ \A d \in Calls \ {c} : pFind'[d] = pFind[d]
<1>1. pFind' \in [Calls -> P!CallType] /\ pFind'[c] = x
      /\ \A d \in Calls \ {c} : pFind'[d] = pFind[d]
  BY DEF P!ClientTypeOK
<1>2. \A d \in Calls : pFind'[d].pc \in {"wire", "log"} => pFind'[d].entry \in P!Entries
  BY <1>1 DEF P!ClientTypeOK
<1> QED BY <1>1, <1>2 DEF P!ClientTypeOK, P!CursorInRange

(* What a step of the client did to the find of call c.                    *)
ProspeoAfter(c) ==
    /\ P!ClientTypeOK'
    /\ \A d \in Calls \ {c} : pFind'[d] = pFind[d]
    /\ \/ pFind'[c].pc = "wire" /\ P!Enabled(pPool)'
       \/ pFind'[c].pc = "log" /\ pFind'[c].answer \in {"hit", "miss"}
       \/ pFind'[c].pc = "done"

LEMMA ProspeoTryNext ==
    ASSUME P!ClientTypeOK, NEW c \in Calls, NEW p \in P!PoolType, P!CursorInRange(p),
           NEW n \in Nat, P!TryNext(c, p, n), now' = now, pBegun' \in Nat, pUsage' = pUsage
    PROVE  /\ ProspeoAfter(c) /\ pPool'.dead = p.dead
           /\ \/ pFind'[c].pc = "wire" /\ pFind'[c].left < n
              \/ pFind'[c].pc = "done" /\ pFind'[c].answer = "unavailable"
<1>1. ASSUME NEW e \in P!Entries, n > 0, P!FirstUsable(p, now, e),
             pPool' = P!Taken(p, e), pFind' = [pFind EXCEPT ![c] = P!OnWire(e, n - 1)]
      PROVE  /\ ProspeoAfter(c) /\ pPool'.dead = p.dead
             /\ pFind'[c].pc = "wire" /\ pFind'[c].left < n
  <2>1. /\ P!OnWire(e, n - 1) \in P!CallType /\ P!OnWire(e, n - 1).pc = "wire"
        /\ P!OnWire(e, n - 1).entry = e /\ P!OnWire(e, n - 1).left = n - 1
    BY <1>1, ProspeoFinds
  <2>2. /\ P!Taken(p, e) \in P!PoolType /\ P!CursorInRange(P!Taken(p, e))
        /\ P!Taken(p, e).dead = p.dead
    BY ProspeoTaken
  <2>3. /\ P!ClientTypeOK' /\ pFind'[c] = P!OnWire(e, n - 1)
        /\ \A d \in Calls \ {c} : pFind'[d] = pFind[d]
    <3>1. pUsage' \in [P!Entries -> [rows : Nat, credits : Nat]]
      BY DEF P!ClientTypeOK
    <3> QED BY <1>1, <2>1, <2>2, <3>1, ProspeoFindMoves
  <2>4. P!Enabled(pPool)'
    BY <1>1, <2>2 DEF P!Enabled, P!FirstUsable, P!Usable
  <2> QED BY <1>1, <2>1, <2>2, <2>3, <2>4 DEF ProspeoAfter
<1>2. ASSUME pPool' = p, pFind' = [pFind EXCEPT ![c] = P!Answered("unavailable")]
      PROVE  /\ ProspeoAfter(c) /\ pPool'.dead = p.dead
             /\ pFind'[c].pc = "done" /\ pFind'[c].answer = "unavailable"
  <2>1. /\ P!Answered("unavailable") \in P!CallType
        /\ P!Answered("unavailable").pc = "done"
        /\ P!Answered("unavailable").answer = "unavailable"
    BY DEF P!Answered, P!NoFind, P!CallType
  <2>2. /\ P!ClientTypeOK' /\ pFind'[c] = P!Answered("unavailable")
        /\ \A d \in Calls \ {c} : pFind'[d] = pFind[d]
    <3>1. pUsage' \in [P!Entries -> [rows : Nat, credits : Nat]]
      BY DEF P!ClientTypeOK
    <3> QED BY <1>2, <2>1, <3>1, ProspeoFindMoves
  <2> QED BY <1>2, <2>1, <2>2 DEF ProspeoAfter
<1> QED BY <1>1, <1>2 DEF P!TryNext

LEMMA ProspeoBegins ==
    ASSUME P!ClientTypeOK, NEW c \in Calls, P!Begin(c)
    PROVE  /\ ProspeoAfter(c) /\ pPool'.dead = pPool.dead /\ now' = now
           /\ ~P!InFlight(c)
           /\ \/ pFind'[c].pc = "wire" /\ pFind'[c].left < NumProspeo
              \/ pFind'[c].pc = "done" /\ pFind'[c].answer = "unavailable"
<1>1. /\ pPool \in P!PoolType /\ P!CursorInRange(pPool) /\ NumProspeo \in Nat
      /\ pBegun \in Nat
  BY ResolutionAssumption DEF P!ClientTypeOK
<1>2. /\ P!TryNext(c, pPool, NumProspeo) /\ now' = now /\ pUsage' = pUsage
      /\ pBegun' \in Nat /\ ~P!InFlight(c)
  BY <1>1 DEF P!Begin
<1> QED BY <1>1, <1>2, ProspeoTryNext

LEMMA ProspeoRotates ==
    ASSUME P!ClientTypeOK, NEW c \in Calls, NEW f \in ProspeoEffects, P!Rotate(c, f)
    PROVE  /\ ProspeoAfter(c) /\ pPool.dead \subseteq pPool'.dead /\ now' = now
           /\ pFind[c].pc = "wire" /\ f.kind \notin {"hit", "miss"}
           /\ \/ pFind'[c].pc = "wire" /\ pFind'[c].left < pFind[c].left
              \/ pFind'[c].pc = "done" /\ pFind'[c].answer = "unavailable"
<1> DEFINE k == ProspeoKey[pFind[c].entry]
           p == P!Marked(f, k)
<1>1. /\ pPool \in P!PoolType /\ P!CursorInRange(pPool) /\ now \in Nat
      /\ pBegun \in Nat /\ pFind[c] \in P!CallType
  BY DEF P!ClientTypeOK
<1>2. /\ f.kind \in {"retry", "dead", "park"} /\ f.for \in Nat
      /\ f.kind \notin {"hit", "miss"}
  BY ResolutionAssumption DEF P!Rotate, P!EffectType, P!AnswerKinds
<1>3. p \in P!PoolType /\ P!CursorInRange(p) /\ pPool.dead \subseteq p.dead
  <2>1. CASE f.kind = "dead"
    BY <1>1, <2>1, ProspeoMarked DEF P!Marked
  <2>2. CASE f.kind = "park"
    BY <1>1, <1>2, <2>2, ProspeoMarked DEF P!Marked
  <2>3. CASE f.kind = "retry"
    BY <1>1, <2>3 DEF P!Marked
  <2> QED BY <1>2, <2>1, <2>2, <2>3
<1>4. pFind[c].left \in Nat
  BY <1>1 DEF P!CallType
<1>5. /\ P!TryNext(c, p, pFind[c].left) /\ now' = now /\ pUsage' = pUsage
      /\ pBegun' \in Nat /\ pFind[c].pc = "wire"
  BY <1>1 DEF P!Rotate
<1> HIDE DEF p
<1> QED BY <1>2, <1>3, <1>4, <1>5, ProspeoTryNext

LEMMA ProspeoAnswers ==
    ASSUME P!ClientTypeOK, NEW c \in Calls, NEW f \in ProspeoEffects, P!Answer(c, f)
    PROVE  /\ ProspeoAfter(c) /\ pPool' = pPool /\ now' = now
           /\ pFind[c].pc = "wire" /\ f.kind \in {"hit", "miss"}
           /\ pFind'[c].pc = "log" /\ pFind'[c].answer = f.kind
<1> DEFINE x == [pFind[c] EXCEPT !.pc = "log", !.answer = f.kind, !.credits = f.credits]
<1>1. f.kind \in {"hit", "miss"} /\ f.credits \in Nat
  BY ResolutionAssumption DEF P!Answer, P!AnswerKinds, P!EffectType
<1>2. /\ pFind[c] \in P!CallType /\ pFind[c].pc = "wire"
      /\ pFind[c].entry \in P!Entries
  BY DEF P!ClientTypeOK, P!Answer
<1>3. /\ x \in P!CallType /\ x.pc = "log" /\ x.answer = f.kind
      /\ x.entry = pFind[c].entry
  BY <1>1, <1>2 DEF P!CallType
<1>4. /\ pFind' = [pFind EXCEPT ![c] = x] /\ pPool' = pPool /\ now' = now
      /\ pBegun' = pBegun /\ pUsage' = pUsage
  BY DEF P!Answer
<1>5. /\ pPool \in P!PoolType /\ P!CursorInRange(pPool) /\ pBegun \in Nat
      /\ pUsage \in [P!Entries -> [rows : Nat, credits : Nat]]
  BY DEF P!ClientTypeOK
<1> HIDE DEF x
<1>6. /\ P!ClientTypeOK' /\ pFind'[c] = x
      /\ \A d \in Calls \ {c} : pFind'[d] = pFind[d]
  BY <1>2, <1>3, <1>4, <1>5, ProspeoFindMoves
<1> QED BY <1>1, <1>2, <1>3, <1>4, <1>6 DEF ProspeoAfter

LEMMA ProspeoLogs ==
    ASSUME P!ClientTypeOK, NEW c \in Calls, NEW written \in BOOLEAN,
           P!LogUsage(c, written)
    PROVE  /\ ProspeoAfter(c) /\ pPool' = pPool /\ now' = now /\ pFind[c].pc = "log"
           /\ pFind'[c].pc = "done" /\ pFind'[c].answer = pFind[c].answer
<1> DEFINE x == P!Answered(pFind[c].answer)
           e == pFind[c].entry
<1>1. /\ pFind[c] \in P!CallType /\ pFind[c].pc = "log" /\ e \in P!Entries
      /\ pUsage \in [P!Entries -> [rows : Nat, credits : Nat]]
      /\ pPool \in P!PoolType /\ P!CursorInRange(pPool) /\ pBegun \in Nat
  BY DEF P!ClientTypeOK, P!LogUsage
<1>2. x \in P!CallType /\ x.pc = "done" /\ x.answer = pFind[c].answer
  BY <1>1 DEF P!Answered, P!NoFind, P!CallType
<1>3. /\ pFind' = [pFind EXCEPT ![c] = x] /\ pPool' = pPool /\ now' = now
      /\ pBegun' = pBegun
  BY DEF P!LogUsage
<1>4. pUsage' \in [P!Entries -> [rows : Nat, credits : Nat]]
  <2>1. pUsage[e].rows + 1 \in Nat /\ pUsage[e].credits + pFind[c].credits \in Nat
    BY <1>1 DEF P!CallType
  <2> QED BY <1>1, <2>1 DEF P!LogUsage
<1> HIDE DEF x
<1>5. /\ P!ClientTypeOK' /\ pFind'[c] = x
      /\ \A d \in Calls \ {c} : pFind'[d] = pFind[d]
  BY <1>1, <1>2, <1>3, <1>4, ProspeoFindMoves
<1> QED BY <1>1, <1>2, <1>3, <1>5 DEF ProspeoAfter

LEMMA ProspeoStarts ==
    /\ P!ClientInit => P!ClientTypeOK /\ P!Enabled(pPool)
    /\ P!ClientTypeOK /\ P!Restart => P!ClientTypeOK' /\ P!Enabled(pPool)'
    /\ P!ClientTypeOK /\ P!Tick => P!ClientTypeOK'
    /\ P!ClientTypeOK /\ UNCHANGED prospeoVars /\ UNCHANGED now => P!ClientTypeOK'
<1>1. 0 \in P!Entries
  BY ResolutionAssumption DEF P!Entries
<1>2. P!NoFind \in P!CallType /\ P!NoFind.pc = "idle"
  BY DEF P!NoFind, P!CallType, P!NoEntry
<1>3. P!FreshPool \in P!PoolType /\ P!FreshPool.dead = {} /\ P!CursorInRange(P!FreshPool)
  BY DEF P!FreshPool, P!PoolType, P!CursorInRange
<1>4. P!ClientInit => P!ClientTypeOK /\ P!Enabled(pPool)
  BY <1>1, <1>2, <1>3 DEF P!ClientInit, P!ClientTypeOK, P!Enabled
<1>5. P!ClientTypeOK /\ P!Restart => P!ClientTypeOK' /\ P!Enabled(pPool)'
  BY <1>1, <1>2, <1>3 DEF P!Restart, P!ClientTypeOK, P!Enabled, P!CursorInRange
<1>6. P!ClientTypeOK /\ P!Tick => P!ClientTypeOK'
  BY DEF P!Tick, P!ClientTypeOK, P!CursorInRange
<1>7. P!ClientTypeOK /\ UNCHANGED prospeoVars /\ UNCHANGED now => P!ClientTypeOK'
  BY DEF prospeoVars, P!ClientTypeOK, P!CursorInRange
<1> QED BY <1>4, <1>5, <1>6, <1>7

-----------------------------------------------------------------------------
(* The Apollo client *)

LEMMA ApolloTaken ==
    ASSUME NEW p \in A!PoolType, NEW e \in A!Entries
    PROVE  /\ A!Taken(p, e) \in A!PoolType /\ A!CursorInRange(A!Taken(p, e))
           /\ A!Taken(p, e).dead = p.dead
<1>1. A!Successor(e) \in Nat /\ (A!Successor(e) = 0 \/ A!Successor(e) < NumApollo)
  BY ResolutionAssumption DEF A!Successor, A!Entries
<1>2. [p.until EXCEPT ![e] = 0] \in [A!Entries -> Nat]
  BY DEF A!PoolType
<1> QED BY <1>1, <1>2 DEF A!PoolType, A!Taken, A!CursorInRange

LEMMA ApolloMarked ==
    ASSUME NEW p \in A!PoolType, A!CursorInRange(p), NEW k
    PROVE  /\ \A t, d \in Nat : /\ A!Parked(p, t, k, d) \in A!PoolType
                               /\ A!CursorInRange(A!Parked(p, t, k, d))
                               /\ A!Parked(p, t, k, d).dead = p.dead
           /\ A!Killed(p, k) \in A!PoolType /\ A!CursorInRange(A!Killed(p, k))
           /\ p.dead \subseteq A!Killed(p, k).dead
BY DEF A!PoolType, A!Parked, A!Killed, A!CursorInRange

LEMMA ApolloFinds ==
    ASSUME NEW e \in A!Entries, NEW n \in Nat,
           NEW a \in {"none", "hit", "miss", "unavailable"}
    PROVE  /\ A!OnWire(e, n) \in A!CallType /\ A!OnWire(e, n).pc = "wire"
           /\ A!OnWire(e, n).entry = e /\ A!OnWire(e, n).left = n
           /\ A!Answered(a) \in A!CallType /\ A!Answered(a).pc = "done"
           /\ A!Answered(a).answer = a
BY DEF A!OnWire, A!Answered, A!NoFind, A!CallType

(* The find of call c becomes x, the pool p; nothing else of the client    *)
(* moves but its counter and its usage rows.                               *)
LEMMA ApolloFindMoves ==
    ASSUME A!ClientTypeOK, NEW c \in Calls, NEW p \in A!PoolType, A!CursorInRange(p),
           NEW x \in A!CallType, x.pc \in {"wire", "log"} => x.entry \in A!Entries,
           aFind' = [aFind EXCEPT ![c] = x], aPool' = p, now' = now,
           aBegun' \in Nat, aUsage' \in [A!Entries -> [rows : Nat, credits : Nat]]
    PROVE  /\ A!ClientTypeOK' /\ aFind'[c] = x
           /\ \A d \in Calls \ {c} : aFind'[d] = aFind[d]
<1>1. aFind' \in [Calls -> A!CallType] /\ aFind'[c] = x
      /\ \A d \in Calls \ {c} : aFind'[d] = aFind[d]
  BY DEF A!ClientTypeOK
<1>2. \A d \in Calls : aFind'[d].pc \in {"wire", "log"} => aFind'[d].entry \in A!Entries
  BY <1>1 DEF A!ClientTypeOK
<1> QED BY <1>1, <1>2 DEF A!ClientTypeOK, A!CursorInRange

(* What a step of the client did to the find of call c.                    *)
ApolloAfter(c) ==
    /\ A!ClientTypeOK'
    /\ \A d \in Calls \ {c} : aFind'[d] = aFind[d]
    /\ \/ aFind'[c].pc = "wire" /\ A!Enabled(aPool)'
       \/ aFind'[c].pc = "log" /\ aFind'[c].answer \in {"hit", "miss"}
       \/ aFind'[c].pc = "done"

LEMMA ApolloTryNext ==
    ASSUME A!ClientTypeOK, NEW c \in Calls, NEW p \in A!PoolType, A!CursorInRange(p),
           NEW n \in Nat, A!TryNext(c, p, n), now' = now, aBegun' \in Nat, aUsage' = aUsage
    PROVE  /\ ApolloAfter(c) /\ aPool'.dead = p.dead
           /\ \/ aFind'[c].pc = "wire" /\ aFind'[c].left < n
              \/ aFind'[c].pc = "done" /\ aFind'[c].answer = "unavailable"
<1>1. ASSUME NEW e \in A!Entries, n > 0, A!FirstUsable(p, now, e),
             aPool' = A!Taken(p, e), aFind' = [aFind EXCEPT ![c] = A!OnWire(e, n - 1)]
      PROVE  /\ ApolloAfter(c) /\ aPool'.dead = p.dead
             /\ aFind'[c].pc = "wire" /\ aFind'[c].left < n
  <2>1. /\ A!OnWire(e, n - 1) \in A!CallType /\ A!OnWire(e, n - 1).pc = "wire"
        /\ A!OnWire(e, n - 1).entry = e /\ A!OnWire(e, n - 1).left = n - 1
    BY <1>1, ApolloFinds
  <2>2. /\ A!Taken(p, e) \in A!PoolType /\ A!CursorInRange(A!Taken(p, e))
        /\ A!Taken(p, e).dead = p.dead
    BY ApolloTaken
  <2>3. /\ A!ClientTypeOK' /\ aFind'[c] = A!OnWire(e, n - 1)
        /\ \A d \in Calls \ {c} : aFind'[d] = aFind[d]
    <3>1. aUsage' \in [A!Entries -> [rows : Nat, credits : Nat]]
      BY DEF A!ClientTypeOK
    <3> QED BY <1>1, <2>1, <2>2, <3>1, ApolloFindMoves
  <2>4. A!Enabled(aPool)'
    BY <1>1, <2>2 DEF A!Enabled, A!FirstUsable, A!Usable
  <2> QED BY <1>1, <2>1, <2>2, <2>3, <2>4 DEF ApolloAfter
<1>2. ASSUME aPool' = p, aFind' = [aFind EXCEPT ![c] = A!Answered("unavailable")]
      PROVE  /\ ApolloAfter(c) /\ aPool'.dead = p.dead
             /\ aFind'[c].pc = "done" /\ aFind'[c].answer = "unavailable"
  <2>1. /\ A!Answered("unavailable") \in A!CallType
        /\ A!Answered("unavailable").pc = "done"
        /\ A!Answered("unavailable").answer = "unavailable"
    BY DEF A!Answered, A!NoFind, A!CallType
  <2>2. /\ A!ClientTypeOK' /\ aFind'[c] = A!Answered("unavailable")
        /\ \A d \in Calls \ {c} : aFind'[d] = aFind[d]
    <3>1. aUsage' \in [A!Entries -> [rows : Nat, credits : Nat]]
      BY DEF A!ClientTypeOK
    <3> QED BY <1>2, <2>1, <3>1, ApolloFindMoves
  <2> QED BY <1>2, <2>1, <2>2 DEF ApolloAfter
<1> QED BY <1>1, <1>2 DEF A!TryNext

LEMMA ApolloBegins ==
    ASSUME A!ClientTypeOK, NEW c \in Calls, A!Begin(c)
    PROVE  /\ ApolloAfter(c) /\ aPool'.dead = aPool.dead /\ now' = now
           /\ ~A!InFlight(c)
           /\ \/ aFind'[c].pc = "wire" /\ aFind'[c].left < NumApollo
              \/ aFind'[c].pc = "done" /\ aFind'[c].answer = "unavailable"
<1>1. /\ aPool \in A!PoolType /\ A!CursorInRange(aPool) /\ NumApollo \in Nat
      /\ aBegun \in Nat
  BY ResolutionAssumption DEF A!ClientTypeOK
<1>2. /\ A!TryNext(c, aPool, NumApollo) /\ now' = now /\ aUsage' = aUsage
      /\ aBegun' \in Nat /\ ~A!InFlight(c)
  BY <1>1 DEF A!Begin
<1> QED BY <1>1, <1>2, ApolloTryNext

LEMMA ApolloRotates ==
    ASSUME A!ClientTypeOK, NEW c \in Calls, NEW f \in ApolloEffects, A!Rotate(c, f)
    PROVE  /\ ApolloAfter(c) /\ aPool.dead \subseteq aPool'.dead /\ now' = now
           /\ aFind[c].pc = "wire" /\ f.kind \notin {"hit", "miss"}
           /\ \/ aFind'[c].pc = "wire" /\ aFind'[c].left < aFind[c].left
              \/ aFind'[c].pc = "done" /\ aFind'[c].answer = "unavailable"
<1> DEFINE k == ApolloKey[aFind[c].entry]
           p == A!Marked(f, k)
<1>1. /\ aPool \in A!PoolType /\ A!CursorInRange(aPool) /\ now \in Nat
      /\ aBegun \in Nat /\ aFind[c] \in A!CallType
  BY DEF A!ClientTypeOK
<1>2. /\ f.kind \in {"retry", "dead", "park"} /\ f.for \in Nat
      /\ f.kind \notin {"hit", "miss"}
  BY ResolutionAssumption DEF A!Rotate, A!EffectType, A!AnswerKinds
<1>3. p \in A!PoolType /\ A!CursorInRange(p) /\ aPool.dead \subseteq p.dead
  <2>1. CASE f.kind = "dead"
    BY <1>1, <2>1, ApolloMarked DEF A!Marked
  <2>2. CASE f.kind = "park"
    BY <1>1, <1>2, <2>2, ApolloMarked DEF A!Marked
  <2>3. CASE f.kind = "retry"
    BY <1>1, <2>3 DEF A!Marked
  <2> QED BY <1>2, <2>1, <2>2, <2>3
<1>4. aFind[c].left \in Nat
  BY <1>1 DEF A!CallType
<1>5. /\ A!TryNext(c, p, aFind[c].left) /\ now' = now /\ aUsage' = aUsage
      /\ aBegun' \in Nat /\ aFind[c].pc = "wire"
  BY <1>1 DEF A!Rotate
<1> HIDE DEF p
<1> QED BY <1>2, <1>3, <1>4, <1>5, ApolloTryNext

LEMMA ApolloAnswers ==
    ASSUME A!ClientTypeOK, NEW c \in Calls, NEW f \in ApolloEffects, A!Answer(c, f)
    PROVE  /\ ApolloAfter(c) /\ aPool' = aPool /\ now' = now
           /\ aFind[c].pc = "wire" /\ f.kind \in {"hit", "miss"}
           /\ aFind'[c].pc = "log" /\ aFind'[c].answer = f.kind
<1> DEFINE x == [aFind[c] EXCEPT !.pc = "log", !.answer = f.kind, !.credits = f.credits]
<1>1. f.kind \in {"hit", "miss"} /\ f.credits \in Nat
  BY ResolutionAssumption DEF A!Answer, A!AnswerKinds, A!EffectType
<1>2. /\ aFind[c] \in A!CallType /\ aFind[c].pc = "wire"
      /\ aFind[c].entry \in A!Entries
  BY DEF A!ClientTypeOK, A!Answer
<1>3. /\ x \in A!CallType /\ x.pc = "log" /\ x.answer = f.kind
      /\ x.entry = aFind[c].entry
  BY <1>1, <1>2 DEF A!CallType
<1>4. /\ aFind' = [aFind EXCEPT ![c] = x] /\ aPool' = aPool /\ now' = now
      /\ aBegun' = aBegun /\ aUsage' = aUsage
  BY DEF A!Answer
<1>5. /\ aPool \in A!PoolType /\ A!CursorInRange(aPool) /\ aBegun \in Nat
      /\ aUsage \in [A!Entries -> [rows : Nat, credits : Nat]]
  BY DEF A!ClientTypeOK
<1> HIDE DEF x
<1>6. /\ A!ClientTypeOK' /\ aFind'[c] = x
      /\ \A d \in Calls \ {c} : aFind'[d] = aFind[d]
  BY <1>2, <1>3, <1>4, <1>5, ApolloFindMoves
<1> QED BY <1>1, <1>2, <1>3, <1>4, <1>6 DEF ApolloAfter

LEMMA ApolloLogs ==
    ASSUME A!ClientTypeOK, NEW c \in Calls, NEW written \in BOOLEAN,
           A!LogUsage(c, written)
    PROVE  /\ ApolloAfter(c) /\ aPool' = aPool /\ now' = now /\ aFind[c].pc = "log"
           /\ aFind'[c].pc = "done" /\ aFind'[c].answer = aFind[c].answer
<1> DEFINE x == A!Answered(aFind[c].answer)
           e == aFind[c].entry
<1>1. /\ aFind[c] \in A!CallType /\ aFind[c].pc = "log" /\ e \in A!Entries
      /\ aUsage \in [A!Entries -> [rows : Nat, credits : Nat]]
      /\ aPool \in A!PoolType /\ A!CursorInRange(aPool) /\ aBegun \in Nat
  BY DEF A!ClientTypeOK, A!LogUsage
<1>2. x \in A!CallType /\ x.pc = "done" /\ x.answer = aFind[c].answer
  BY <1>1 DEF A!Answered, A!NoFind, A!CallType
<1>3. /\ aFind' = [aFind EXCEPT ![c] = x] /\ aPool' = aPool /\ now' = now
      /\ aBegun' = aBegun
  BY DEF A!LogUsage
<1>4. aUsage' \in [A!Entries -> [rows : Nat, credits : Nat]]
  <2>1. aUsage[e].rows + 1 \in Nat /\ aUsage[e].credits + aFind[c].credits \in Nat
    BY <1>1 DEF A!CallType
  <2> QED BY <1>1, <2>1 DEF A!LogUsage
<1> HIDE DEF x
<1>5. /\ A!ClientTypeOK' /\ aFind'[c] = x
      /\ \A d \in Calls \ {c} : aFind'[d] = aFind[d]
  BY <1>1, <1>2, <1>3, <1>4, ApolloFindMoves
<1> QED BY <1>1, <1>2, <1>3, <1>5 DEF ApolloAfter

LEMMA ApolloStarts ==
    /\ A!ClientInit => A!ClientTypeOK /\ A!Enabled(aPool)
    /\ A!ClientTypeOK /\ A!Restart => A!ClientTypeOK' /\ A!Enabled(aPool)'
    /\ A!ClientTypeOK /\ A!Tick => A!ClientTypeOK'
    /\ A!ClientTypeOK /\ UNCHANGED apolloVars /\ UNCHANGED now => A!ClientTypeOK'
<1>1. 0 \in A!Entries
  BY ResolutionAssumption DEF A!Entries
<1>2. A!NoFind \in A!CallType /\ A!NoFind.pc = "idle"
  BY DEF A!NoFind, A!CallType, A!NoEntry
<1>3. A!FreshPool \in A!PoolType /\ A!FreshPool.dead = {} /\ A!CursorInRange(A!FreshPool)
  BY DEF A!FreshPool, A!PoolType, A!CursorInRange
<1>4. A!ClientInit => A!ClientTypeOK /\ A!Enabled(aPool)
  BY <1>1, <1>2, <1>3 DEF A!ClientInit, A!ClientTypeOK, A!Enabled
<1>5. A!ClientTypeOK /\ A!Restart => A!ClientTypeOK' /\ A!Enabled(aPool)'
  BY <1>1, <1>2, <1>3 DEF A!Restart, A!ClientTypeOK, A!Enabled, A!CursorInRange
<1>6. A!ClientTypeOK /\ A!Tick => A!ClientTypeOK'
  BY DEF A!Tick, A!ClientTypeOK, A!CursorInRange
<1>7. A!ClientTypeOK /\ UNCHANGED apolloVars /\ UNCHANGED now => A!ClientTypeOK'
  BY DEF apolloVars, A!ClientTypeOK, A!CursorInRange
<1> QED BY <1>4, <1>5, <1>6, <1>7

-----------------------------------------------------------------------------
(* What a call is told *)

HitHeard(words) == \E t \in 1..2 : <<t, "hit">> \in words

MissHeard(words) == \E t \in 1..2 : <<t, "miss">> \in words

(* The chain may answer so, given what was heard.                          *)
Justified(answer, words) ==
    /\ answer = "hit" => HitHeard(words)
    /\ answer = "miss" => MissHeard(words) /\ ~HitHeard(words)
    /\ answer \in {"unavailable", "not_enabled"} => words = {}

LEMMA NotFoundIs ==
    ASSUME NEW x \in Reasons
    PROVE  NotFound(x) \in RequestType /\ NotFound(x).pc = "done" /\ NotFound(x).reason = x
BY DEF NotFound, NoRequest, RequestType, Reasons

LEMMA ProfileOnlyIs ==
    ASSUME NEW h \in HitType, NEW x \in {"no_email", "email_unverified"}
    PROVE  /\ ProfileOnly(h, x) \in RequestType /\ ProfileOnly(h, x).pc = "done"
           /\ ProfileOnly(h, x).reason \in {"", x}
<1> DEFINE y == IF h.email = "none" /\ h.linkedin THEN "" ELSE x
<1>1. y \in Reasons /\ y \in {"", x}
  BY DEF Reasons
<1>2. ProfileOnly(h, x) = [NotFound(y) EXCEPT !.found = h.linkedin, !.linkedin = h.linkedin]
  BY DEF ProfileOnly
<1>3. PICK b \in BOOLEAN : b = h.linkedin
  BY DEF HitType
<1> HIDE DEF y
<1>4. ProfileOnly(h, x) = [NotFound(y) EXCEPT !.found = b, !.linkedin = b]
  BY <1>2, <1>3
<1>5. /\ ProfileOnly(h, x) \in RequestType /\ ProfileOnly(h, x).pc = "done"
      /\ ProfileOnly(h, x).reason = y
  BY <1>1, <1>4 DEF NotFound, NoRequest, RequestType, Reasons
<1> QED BY <1>1, <1>5

LEMMA WithEmailIs ==
    ASSUME NEW b \in BOOLEAN
    PROVE  /\ WithEmail(b) \in RequestType /\ WithEmail(b).pc = "done"
           /\ WithEmail(b).reason = ""
BY DEF WithEmail, NoRequest, RequestType, Reasons

LEMMA MatchedIs ==
    ASSUME NEW h \in Hits, hasVerifier \in BOOLEAN
    PROVE  /\ Matched(h) \in RequestType /\ Matched(h).pc \in {"verify", "done"}
           /\ Matched(h).reason \in {"", "no_email", "email_unverified"}
<1>1. /\ h \in HitType /\ h.email \in {"none", "unverified", "verified"}
      /\ h.linkedin \in BOOLEAN
  BY ResolutionAssumption DEF HitType
<1>2. CASE h.email = "none"
  <2>1. Matched(h) = ProfileOnly(h, "no_email")
    BY <1>2 DEF Matched
  <2> QED BY <1>1, <2>1, ProfileOnlyIs
<1>3. CASE h.email = "verified"
  BY <1>1, <1>3, WithEmailIs DEF Matched
<1>4. CASE h.email = "unverified" /\ hasVerifier
  BY <1>1, <1>4 DEF Matched, NoRequest, RequestType, Reasons
<1>5. CASE h.email = "unverified" /\ ~hasVerifier
  <2>1. Matched(h) = ProfileOnly(h, "email_unverified")
    BY <1>5 DEF Matched
  <2> QED BY <1>1, <2>1, ProfileOnlyIs
<1> QED BY <1>1, <1>2, <1>3, <1>4, <1>5

(* What resolve_contact makes of an answer is as true as the answer.       *)
LEMMA ConclusionIsTrue ==
    ASSUME NEW c \in Calls, NEW answer \in {"hit", "miss", "unavailable", "not_enabled"},
           NEW words, hasVerifier \in BOOLEAN, Concludes(c, answer), Justified(answer, words)
    PROVE  \E r \in RequestType :
              /\ request' = [request EXCEPT ![c] = r]
              /\ r.pc \in {"verify", "done"}
              /\ r.pc = "verify" => HitHeard(words)
              /\ r.pc = "done" => TrueOf(r, words)
<1>1. CASE answer = "miss"
  <2>1. request' = [request EXCEPT ![c] = NotFound("no_match")]
    BY <1>1 DEF Concludes, Becomes
  <2>2. /\ NotFound("no_match") \in RequestType /\ NotFound("no_match").pc = "done"
        /\ NotFound("no_match").reason = "no_match"
    BY NotFoundIs DEF Reasons
  <2>3. TrueOf(NotFound("no_match"), words)
    BY <1>1, <2>2 DEF TrueOf, Justified, MissHeard, HitHeard
  <2> QED BY <2>1, <2>2, <2>3
<1>2. CASE answer \in {"unavailable", "not_enabled"}
  <2>1. request' = [request EXCEPT ![c] = NotFound("provider_unavailable")]
    BY <1>2 DEF Concludes, Becomes
  <2>2. /\ NotFound("provider_unavailable") \in RequestType
        /\ NotFound("provider_unavailable").pc = "done"
        /\ NotFound("provider_unavailable").reason = "provider_unavailable"
    BY NotFoundIs DEF Reasons
  <2>3. TrueOf(NotFound("provider_unavailable"), words)
    BY <1>2, <2>2 DEF TrueOf, Justified
  <2> QED BY <2>1, <2>2, <2>3
<1>3. CASE answer = "hit"
  <2>1. PICK h \in Hits : request' = [request EXCEPT ![c] = Matched(h)]
    BY <1>3 DEF Concludes, Becomes
  <2>2. /\ Matched(h) \in RequestType /\ Matched(h).pc \in {"verify", "done"}
        /\ Matched(h).reason \in {"", "no_email", "email_unverified"}
    BY MatchedIs
  <2>3. HitHeard(words) /\ TrueOf(Matched(h), words)
    BY <1>3, <2>2 DEF TrueOf, Justified, HitHeard
  <2> QED BY <2>1, <2>2, <2>3
<1> QED BY <1>1, <1>2, <1>3

-----------------------------------------------------------------------------
(* The chain's loop *)

SaidType == [C!Tiers -> C!Outcomes \cup {"unasked", "skipped"}]

ChainTypeOK ==
    /\ fallback \in BOOLEAN /\ hasVerifier \in BOOLEAN
    /\ chain \in [Calls -> C!CallType]
    /\ \A c \in Calls : (chain[c].answer = "pending") <=> (chain[c].tier # 0)
    /\ said \in [Calls -> SaidType]
    /\ request \in [Calls -> RequestType]
    /\ \A c \in Calls : (request[c].pc = "find") <=> (chain[c].answer = "pending")

LEMMA EnabledType ==
    /\ enabled \in [C!Tiers -> BOOLEAN]
    /\ enabled' \in [C!Tiers -> BOOLEAN]
<1>1. ASSUME NEW x \in BOOLEAN, NEW y \in BOOLEAN PROVE <<x, y>> \in [1..2 -> BOOLEAN]
  OBVIOUS
<1>2. ASSUME NEW p PROVE P!Enabled(p) \in BOOLEAN /\ A!Enabled(p) \in BOOLEAN
  BY DEF P!Enabled, A!Enabled
<1> QED BY <1>1, <1>2 DEF enabled, C!Tiers

LEMMA TypeParts ==
    TypeOK <=> /\ P!ClientTypeOK /\ A!ClientTypeOK /\ ChainTypeOK
               /\ begun \in Nat /\ heard \in [Calls -> SUBSET Answered]
BY EnabledType DEF TypeOK, C!TypeOK, ChainTypeOK, SaidType

(* Only call c moved, and its parts agree on whether it still waits.       *)
CallAfter(c) ==
    /\ chain' \in [Calls -> C!CallType] /\ said' \in [Calls -> SaidType]
    /\ request' \in [Calls -> RequestType]
    /\ (chain'[c].answer = "pending") <=> (chain'[c].tier # 0)
    /\ (request'[c].pc = "find") <=> (chain'[c].answer = "pending")
    /\ \A d \in Calls \ {c} : /\ chain'[d] = chain[d] /\ said'[d] = said[d]
                              /\ request'[d] = request[d]

LEMMA CallMoves ==
    ASSUME ChainTypeOK, NEW c \in Calls, NEW g \in C!CallType, NEW w \in SaidType,
           NEW r \in RequestType,
           (g.answer = "pending") <=> (g.tier # 0), (r.pc = "find") <=> (g.answer = "pending"),
           chain' = [chain EXCEPT ![c] = g], said' = [said EXCEPT ![c] = w],
           request' = [request EXCEPT ![c] = r]
    PROVE  CallAfter(c) /\ chain'[c] = g /\ request'[c] = r
BY DEF ChainTypeOK, CallAfter

LEMMA LocalsOfLoop ==
    ASSUME NEW f \in C!CallType, NEW t \in 1..2, NEW a \in C!Answers
    PROVE  /\ C!Asking(t, f) \in C!CallType /\ C!Asking(t, f).tier = t
           /\ C!Asking(t, f).answer = "pending" /\ C!Asking(t, f).noMatch = f.noMatch
           /\ C!Ended(f, a) \in C!CallType /\ C!Ended(f, a).tier = 0
           /\ C!Ended(f, a).answer = a
BY DEF C!CallType, C!Asking, C!Ended, C!Answers, C!Tiers

LEMMA FlagsOfLoop ==
    ASSUME NEW f \in C!CallType, NEW v
    PROVE  /\ C!Flagged(f, v) \in C!CallType
           /\ C!Flagged(f, v).noMatch <=> (f.noMatch \/ v = "miss")
<1> DEFINE m == f.noMatch \/ v = "miss"
           x == f.lastExc \/ v = "unavailable"
<1>1. m \in BOOLEAN /\ x \in BOOLEAN
  OBVIOUS
<1>2. C!Flagged(f, v) = [f EXCEPT !.noMatch = m, !.lastExc = x]
  BY DEF C!Flagged
<1> HIDE DEF m, x
<1>3. C!Flagged(f, v) \in C!CallType /\ C!Flagged(f, v).noMatch = m
  BY <1>1, <1>2 DEF C!CallType
<1> QED BY <1>3 DEF m

LEMMA LoopWaits ==
    ASSUME ChainTypeOK, NEW c \in Calls, NEW t \in 1..2, NEW f \in C!CallType,
           NEW w \in SaidType, WaitsFor(c, t, f, w)
    PROVE  /\ CallAfter(c) /\ chain'[c].tier = t /\ chain'[c].noMatch = f.noMatch
           /\ request'[c].pc = "find"
<1>1. /\ C!Asking(t, f) \in C!CallType /\ C!Asking(t, f).tier = t /\ t # 0
      /\ C!Asking(t, f).answer = "pending" /\ C!Asking(t, f).noMatch = f.noMatch
  BY LocalsOfLoop DEF C!Answers
<1>2. Searching \in RequestType /\ Searching.pc = "find"
  BY DEF Searching, NoRequest, RequestType, Reasons
<1>3. /\ chain' = [chain EXCEPT ![c] = C!Asking(t, f)]
      /\ said' = [said EXCEPT ![c] = w] /\ request' = [request EXCEPT ![c] = Searching]
  BY DEF WaitsFor, Becomes
<1> QED BY <1>1, <1>2, <1>3, CallMoves

(* Call c is through with the chain, told what was heard.                  *)
Over(c, words) ==
    /\ CallAfter(c) /\ chain'[c].tier = 0
    /\ request'[c].pc \in {"verify", "done"}
    /\ request'[c].pc = "verify" => HitHeard(words)
    /\ request'[c].pc = "done" => TrueOf(request'[c], words)

LEMMA LoopEnds ==
    ASSUME ChainTypeOK, NEW c \in Calls, NEW f \in C!CallType, NEW w \in SaidType,
           NEW answer \in {"hit", "miss", "unavailable", "not_enabled"},
           NEW words, Ends(c, f, answer, w), Justified(answer, words)
    PROVE  Over(c, words)
<1>1. PICK r \in RequestType :
              /\ request' = [request EXCEPT ![c] = r]
              /\ r.pc \in {"verify", "done"}
              /\ r.pc = "verify" => HitHeard(words)
              /\ r.pc = "done" => TrueOf(r, words)
  BY ConclusionIsTrue DEF Ends, ChainTypeOK
<1>2. /\ C!Ended(f, answer) \in C!CallType /\ C!Ended(f, answer).tier = 0
      /\ C!Ended(f, answer).answer = answer
  BY DEF C!Ended, C!CallType, C!Answers, C!Outcomes, C!Tiers
<1>3. /\ chain' = [chain EXCEPT ![c] = C!Ended(f, answer)]
      /\ said' = [said EXCEPT ![c] = w]
  BY DEF Ends
<1>4. CallAfter(c) /\ chain'[c] = C!Ended(f, answer) /\ request'[c] = r
  BY <1>1, <1>2, <1>3, CallMoves
<1> QED BY <1>1, <1>2, <1>4 DEF Over

-----------------------------------------------------------------------------
(* From one tier to the next *)

ApolloKept(c) ==
    /\ A!ClientTypeOK'
    /\ \A d \in Calls \ {c} : aFind'[d] = aFind[d]

(* The loop has come to rest in Apollo, or past it.                        *)
RestsAtApollo(c, words) ==
    /\ ApolloKept(c)
    /\ \/ /\ CallAfter(c) /\ chain'[c].tier = 2
          /\ aFind'[c].pc = "wire"
          /\ chain'[c].noMatch => fallback
          /\ words = MissedBy(1, chain'[c].noMatch)
       \/ Over(c, words) /\ ~A!InFlight(c)'

LEMMA ApolloTells ==
    ASSUME ChainTypeOK, NEW c \in Calls, NEW f \in C!CallType, NEW w \in SaidType,
           NEW v \in {"hit", "miss", "unavailable"}, NEW words, ApolloSays(c, f, w, v),
           v = "hit" => HitHeard(words),
           v = "miss" => MissHeard(words) /\ ~HitHeard(words),
           v = "unavailable" => words = MissedBy(1, f.noMatch)
    PROVE  Over(c, words)
<1> DEFINE g == C!Flagged(f, v)
           a == IF C!GoesOn(v) THEN C!AfterLoop(g) ELSE v
           told == [w EXCEPT ![2] = v]
<1>1. g \in C!CallType /\ (g.noMatch <=> (f.noMatch \/ v = "miss"))
  BY FlagsOfLoop
<1>2. told \in SaidType
  BY DEF SaidType, C!Outcomes
<1>3. Ends(c, g, a, told)
  BY DEF ApolloSays
<1> HIDE DEF g, told
<1>4. a \in {"hit", "miss", "unavailable", "not_enabled"}
  BY DEF C!AfterLoop
<1>5. Justified(a, words)
  <2>1. CASE v = "hit"
    BY <2>1 DEF Justified, C!GoesOn
  <2>2. CASE v = "miss"
    BY <1>1, <2>2 DEF Justified, C!GoesOn, C!AfterLoop
  <2>3. CASE v = "unavailable"
    <3>1. CASE f.noMatch
      <4>1. a = "miss" /\ words = {<<1, "miss">>}
        BY <1>1, <2>3, <3>1 DEF MissedBy, C!GoesOn, C!AfterLoop
      <4> QED BY <4>1 DEF Justified, HitHeard, MissHeard
    <3>2. CASE ~f.noMatch
      <4>1. a \in {"unavailable", "not_enabled"} /\ words = {}
        BY <1>1, <2>3, <3>2 DEF MissedBy, C!GoesOn, C!AfterLoop
      <4> QED BY <4>1 DEF Justified
    <3> QED BY <3>1, <3>2
  <2> QED BY <2>1, <2>2, <2>3
<1> HIDE DEF a
<1> QED BY <1>1, <1>2, <1>3, <1>4, <1>5, LoopEnds

LEMMA ApolloIsAsked ==
    ASSUME ChainTypeOK, A!ClientTypeOK, NEW c \in Calls, NEW f \in C!CallType,
           NEW w \in SaidType, AskApollo(c, f, w), f.noMatch => fallback,
           ~A!InFlight(c), now' = now
    PROVE  RestsAtApollo(c, MissedBy(1, f.noMatch))
<1> DEFINE words == MissedBy(1, f.noMatch)
<1>1. CASE ~A!Enabled(aPool)
  <2> DEFINE told == [w EXCEPT ![2] = "skipped"]
             a == C!AfterLoop(f)
  <2>1. Ends(c, f, a, told) /\ UNCHANGED apolloVars
    BY <1>1 DEF AskApollo
  <2>2. told \in SaidType
    BY DEF SaidType
  <2>3. a \in {"miss", "unavailable", "not_enabled"}
    BY DEF C!AfterLoop
  <2>4. Justified(a, words)
    <3>1. CASE f.noMatch
      <4>1. a = "miss" /\ words = {<<1, "miss">>}
        BY <3>1 DEF MissedBy, C!AfterLoop
      <4> QED BY <4>1 DEF Justified, HitHeard, MissHeard
    <3>2. CASE ~f.noMatch
      <4>1. a \in {"unavailable", "not_enabled"} /\ words = {}
        BY <3>2 DEF MissedBy, C!AfterLoop
      <4> QED BY <4>1 DEF Justified
    <3> QED BY <3>1, <3>2
  <2> HIDE DEF told, a, words
  <2>5. Over(c, words)
    BY <2>1, <2>2, <2>3, <2>4, LoopEnds
  <2>6. ApolloKept(c) /\ ~A!InFlight(c)'
    BY <2>1, ApolloStarts DEF ApolloKept, apolloVars, A!InFlight
  <2> QED BY <2>5, <2>6 DEF RestsAtApollo, words
<1>2. CASE A!Enabled(aPool)
  <2>1. A!Begin(c)
    BY <1>2 DEF AskApollo
  <2>2. /\ ApolloKept(c)
        /\ \/ aFind'[c].pc = "wire"
           \/ aFind'[c].pc = "done" /\ aFind'[c].answer = "unavailable"
    BY <2>1, ApolloBegins DEF ApolloAfter, ApolloKept
  <2>3. CASE aFind'[c].pc = "wire"
    <3>1. A!InFlight(c)'
      BY <2>3 DEF A!InFlight
    <3>2. WaitsFor(c, 2, f, w)
      BY <1>2, <3>1 DEF AskApollo
    <3>3. CallAfter(c) /\ chain'[c].tier = 2 /\ chain'[c].noMatch = f.noMatch
      BY <3>2, LoopWaits
    <3> QED BY <2>2, <2>3, <3>3 DEF RestsAtApollo
  <2>4. CASE aFind'[c].pc = "done" /\ aFind'[c].answer = "unavailable"
    <3>1. ~A!InFlight(c)'
      BY <2>4 DEF A!InFlight
    <3>2. ApolloSays(c, f, w, "unavailable")
      BY <1>2, <2>4, <3>1 DEF AskApollo
    <3>3. Over(c, words)
      BY <3>2, ApolloTells
    <3> QED BY <2>2, <3>1, <3>3 DEF RestsAtApollo
  <2> QED BY <2>2, <2>3, <2>4
<1> QED BY <1>1, <1>2

LEMMA ProspeoTells ==
    ASSUME ChainTypeOK, A!ClientTypeOK, NEW c \in Calls, NEW f \in C!CallType,
           NEW w \in SaidType, NEW v \in {"hit", "miss", "unavailable"}, NEW words,
           ProspeoSays(c, f, w, v), ~f.noMatch, ~A!InFlight(c), now' = now,
           v = "hit" => HitHeard(words),
           v = "miss" => words = {<<1, "miss">>},
           v = "unavailable" => words = {}
    PROVE  RestsAtApollo(c, words)
<1> DEFINE g == C!Flagged(f, v)
           told == [w EXCEPT ![1] = v]
<1>1. g \in C!CallType /\ (g.noMatch <=> v = "miss")
  BY FlagsOfLoop
<1>2. told \in SaidType
  BY DEF SaidType, C!Outcomes
<1> HIDE DEF g, told
<1>3. CASE C!GoesOn(v)
  <2>1. AskApollo(c, g, told)
    BY <1>3 DEF ProspeoSays, g, told
  <2>2. words = MissedBy(1, g.noMatch) /\ (g.noMatch => fallback)
    BY <1>1, <1>3 DEF MissedBy, C!GoesOn
  <2> QED BY <1>1, <1>2, <2>1, <2>2, ApolloIsAsked
<1>4. CASE ~C!GoesOn(v)
  <2>1. Ends(c, g, v, told) /\ UNCHANGED apolloVars
    BY <1>4 DEF ProspeoSays, g, told
  <2>2. Justified(v, words)
    BY DEF Justified, HitHeard, MissHeard
  <2>3. Over(c, words)
    BY <1>1, <1>2, <2>1, <2>2, LoopEnds
  <2>4. ApolloKept(c) /\ ~A!InFlight(c)'
    BY <2>1, ApolloStarts DEF ApolloKept, apolloVars, A!InFlight
  <2> QED BY <2>3, <2>4 DEF RestsAtApollo
<1> QED BY <1>3, <1>4

LEMMA ProspeoIsAsked ==
    ASSUME ChainTypeOK, P!ClientTypeOK, A!ClientTypeOK, NEW c \in Calls,
           AskProspeo(c, C!NoFind, C!Silence), ~P!InFlight(c), ~A!InFlight(c), now' = now
    PROVE  /\ P!ClientTypeOK' /\ A!ClientTypeOK'
           /\ \A d \in Calls \ {c} : pFind'[d] = pFind[d] /\ aFind'[d] = aFind[d]
           /\ \/ /\ CallAfter(c) /\ chain'[c].tier = 1 /\ ~chain'[c].noMatch
                 /\ pFind'[c].pc = "wire" /\ ~A!InFlight(c)'
              \/ ~P!InFlight(c)' /\ RestsAtApollo(c, {})
<1>1. C!NoFind \in C!CallType /\ ~C!NoFind.noMatch /\ C!Silence \in SaidType
  BY DEF C!NoFind, C!Silence, C!CallType, C!Answers, SaidType, C!Tiers
<1>2. CASE ~P!Enabled(pPool)
  <2> DEFINE told == [C!Silence EXCEPT ![1] = "skipped"]
  <2>1. UNCHANGED prospeoVars /\ AskApollo(c, C!NoFind, told)
    BY <1>2 DEF AskProspeo
  <2>2. told \in SaidType
    BY <1>1 DEF SaidType
  <2> HIDE DEF told
  <2>3. RestsAtApollo(c, {})
    <3>1. MissedBy(1, C!NoFind.noMatch) = {}
      BY <1>1 DEF MissedBy
    <3> QED BY <1>1, <2>1, <2>2, <3>1, ApolloIsAsked
  <2>4. /\ P!ClientTypeOK' /\ ~P!InFlight(c)'
        /\ \A d \in Calls \ {c} : pFind'[d] = pFind[d]
    BY <2>1, ProspeoStarts DEF prospeoVars, P!InFlight
  <2> QED BY <2>3, <2>4 DEF RestsAtApollo, ApolloKept
<1>3. CASE P!Enabled(pPool)
  <2>1. P!Begin(c)
    BY <1>3 DEF AskProspeo
  <2>2. /\ P!ClientTypeOK' /\ \A d \in Calls \ {c} : pFind'[d] = pFind[d]
        /\ \/ pFind'[c].pc = "wire"
           \/ pFind'[c].pc = "done" /\ pFind'[c].answer = "unavailable"
    BY <2>1, ProspeoBegins DEF ProspeoAfter
  <2>3. CASE pFind'[c].pc = "wire"
    <3>1. P!InFlight(c)'
      BY <2>3 DEF P!InFlight
    <3>2. WaitsFor(c, 1, C!NoFind, C!Silence) /\ UNCHANGED apolloVars
      BY <1>3, <3>1 DEF AskProspeo
    <3>3. CallAfter(c) /\ chain'[c].tier = 1 /\ ~chain'[c].noMatch
      BY <1>1, <3>2, LoopWaits
    <3>4. /\ A!ClientTypeOK' /\ ~A!InFlight(c)'
          /\ \A d \in Calls \ {c} : aFind'[d] = aFind[d]
      BY <3>2, ApolloStarts DEF apolloVars, A!InFlight
    <3> QED BY <2>2, <2>3, <3>3, <3>4
  <2>4. CASE pFind'[c].pc = "done" /\ pFind'[c].answer = "unavailable"
    <3>1. ~P!InFlight(c)'
      BY <2>4 DEF P!InFlight
    <3>2. ProspeoSays(c, C!NoFind, C!Silence, "unavailable")
      BY <1>3, <2>4, <3>1 DEF AskProspeo
    <3>3. RestsAtApollo(c, {})
      BY <1>1, <3>2, ProspeoTells
    <3> QED BY <2>2, <3>1, <3>3 DEF RestsAtApollo, ApolloKept
  <2> QED BY <2>2, <2>3, <2>4
<1> QED BY <1>2, <1>3

-----------------------------------------------------------------------------
(* The invariant, step by step *)

LEMMA FewWords ==
    /\ OneHit({}) /\ \A x : OneHit({x})
    /\ fallback => \A k : OneHit({<<1, "miss">>, <<2, k>>})
<1>1. ASSUME NEW x PROVE OneHit({x})
  BY FS_Singleton DEF OneHit
<1>2. ASSUME fallback, NEW k PROVE OneHit({<<1, "miss">>, <<2, k>>})
  BY <1>2 DEF OneHit
<1> QED BY <1>1, <1>2, FS_EmptySet DEF OneHit

(* What a step of call c has to keep.                                      *)
LEMMA StepOfCall ==
    ASSUME ResolutionInv, NEW c \in Calls, P!ClientTypeOK', A!ClientTypeOK', CallAfter(c),
           \A d \in Calls \ {c} : /\ pFind'[d] = pFind[d] /\ aFind'[d] = aFind[d]
                                  /\ heard'[d] = heard[d],
           UNCHANGED settings, begun' \in Nat, heard' \in [Calls -> SUBSET Answered],
           CallInv(c)'
    PROVE  ResolutionInv'
<1>1. /\ fallback' = fallback /\ hasVerifier' = hasVerifier /\ ChainTypeOK
      /\ \A d \in Calls : CallInv(d)
  BY TypeParts DEF ResolutionInv, settings
<1>2. ASSUME NEW d \in Calls \ {c}
      PROVE  /\ chain'[d] = chain[d] /\ request'[d] = request[d]
             /\ pFind'[d] = pFind[d] /\ aFind'[d] = aFind[d] /\ heard'[d] = heard[d]
  BY DEF CallAfter
<1>3. ChainTypeOK'
  <2>1. ASSUME NEW d \in Calls
        PROVE  /\ (chain'[d].answer = "pending") <=> (chain'[d].tier # 0)
               /\ (request'[d].pc = "find") <=> (chain'[d].answer = "pending")
    <3>1. CASE d = c
      BY <3>1 DEF CallAfter
    <3>2. CASE d # c
      BY <1>1, <1>2, <3>2 DEF ChainTypeOK
    <3> QED BY <3>1, <3>2
  <2> QED BY <1>1, <2>1 DEF ChainTypeOK, CallAfter
<1>4. TypeOK'
  <2>1. (enabled \in [C!Tiers -> BOOLEAN])'
    BY EnabledType
  <2> QED BY <1>3, <2>1 DEF TypeOK, C!TypeOK, ChainTypeOK, SaidType
<1>5. ASSUME NEW d \in Calls \ {c} PROVE CallInv(d)'
  <2>1. /\ chain'[d] = chain[d] /\ request'[d] = request[d] /\ fallback' = fallback
        /\ pFind'[d] = pFind[d] /\ aFind'[d] = aFind[d] /\ heard'[d] = heard[d]
    BY <1>1, <1>2
  <2>2. CallInv(d)
    BY <1>1
  <2>3. /\ P!InFlight(d)' <=> P!InFlight(d)
        /\ A!InFlight(d)' <=> A!InFlight(d)
    BY <2>1 DEF P!InFlight, A!InFlight
  <2> QED BY <2>1, <2>2, <2>3 DEF CallInv, OneHit
<1> QED BY <1>4, <1>5 DEF ResolutionInv

(* Call c, of which words were heard, rests at Apollo or is over.          *)
LEMMA RestingCallInv ==
    ASSUME NEW c \in Calls, NEW words, ~P!InFlight(c)', RestsAtApollo(c, words),
           heard'[c] = words, fallback' = fallback, OneHit(words)
    PROVE  CallInv(c)'
<1>1. pFind'[c].pc # "log" /\ (OneHit(heard[c]))'
  BY DEF P!InFlight, OneHit
<1>2. CASE /\ CallAfter(c) /\ chain'[c].tier = 2
           /\ aFind'[c].pc = "wire"
           /\ chain'[c].noMatch => fallback
           /\ words = MissedBy(1, chain'[c].noMatch)
  <2>1. request'[c].pc = "find"
    BY <1>2 DEF CallAfter
  <2>2. Word(2, aFind'[c]) = {} /\ A!InFlight(c)'
    BY <1>2 DEF Word, A!InFlight
  <2> QED BY <1>1, <1>2, <2>1, <2>2 DEF CallInv
<1>3. CASE Over(c, words) /\ ~A!InFlight(c)'
  <2>1. aFind'[c].pc # "log" /\ chain'[c].tier = 0
    BY <1>3 DEF A!InFlight, Over
  <2> QED BY <1>1, <1>3, <2>1 DEF CallInv, Over, HitHeard
<1> QED BY <1>2, <1>3 DEF RestsAtApollo

LEMMA IdleCall ==
    ASSUME ResolutionInv, NEW c \in Calls, Free(c)
    PROVE  /\ ~P!InFlight(c) /\ ~A!InFlight(c) /\ chain[c].tier = 0
           /\ request[c].pc \in {"idle", "done"}
BY TypeParts DEF Free, ResolutionInv, CallInv, ChainTypeOK

LEMMA HeardReset ==
    ASSUME ResolutionInv, NEW c \in Calls, Starts(c)
    PROVE  /\ heard' \in [Calls -> SUBSET Answered] /\ heard'[c] = {} /\ begun' \in Nat
           /\ \A d \in Calls \ {c} : heard'[d] = heard[d]
BY TypeParts DEF Starts, ResolutionInv

(* A request answered at once: the chain is not touched.                   *)
LEMMA AnsweredAtOnce ==
    ASSUME ResolutionInv, NEW c \in Calls, Free(c), Starts(c),
           NEW x \in {"insufficient_input", "provider_unavailable"},
           Becomes(c, NotFound(x)),
           UNCHANGED <<now, prospeoVars, apolloVars, chainVars, settings>>
    PROVE  ResolutionInv'
<1>1. /\ ~P!InFlight(c) /\ ~A!InFlight(c) /\ chain[c].tier = 0
  BY IdleCall
<1>2. P!ClientTypeOK' /\ A!ClientTypeOK'
  BY TypeParts, ProspeoStarts, ApolloStarts DEF ResolutionInv
<1>3. pFind' = pFind /\ aFind' = aFind /\ chain' = chain /\ said' = said
  BY DEF prospeoVars, apolloVars, chainVars
<1>4. /\ NotFound(x) \in RequestType /\ NotFound(x).pc = "done"
      /\ NotFound(x).reason = x
  BY NotFoundIs DEF Reasons
<1>5. CallAfter(c) /\ request'[c] = NotFound(x)
  BY <1>1, <1>3, <1>4, TypeParts DEF CallAfter, Becomes, ResolutionInv, ChainTypeOK
<1>6. TrueOf(NotFound(x), {})
  BY <1>4 DEF TrueOf
<1>7. heard'[c] = {} /\ (OneHit(heard[c]))'
  BY HeardReset, FewWords DEF OneHit, settings
<1>8. CallInv(c)'
  BY <1>1, <1>3, <1>4, <1>5, <1>6, <1>7 DEF CallInv, P!InFlight, A!InFlight
<1> QED BY <1>2, <1>3, <1>5, <1>8, HeardReset, StepOfCall

LEMMA ResolveKeeps ==
    ASSUME ResolutionInv, NEW c \in Calls, Resolve(c)
    PROVE  ResolutionInv'
<1>1. CASE enabled = <<FALSE, FALSE>>
  BY <1>1, AnsweredAtOnce DEF Resolve
<1>2. CASE enabled # <<FALSE, FALSE>>
  <2>1. /\ AskProspeo(c, C!NoFind, C!Silence) /\ Free(c) /\ Starts(c)
        /\ UNCHANGED <<now, settings>>
    BY <1>2 DEF Resolve
  <2>2. ~P!InFlight(c) /\ ~A!InFlight(c)
    BY <2>1, IdleCall
  <2>3. /\ P!ClientTypeOK' /\ A!ClientTypeOK'
        /\ \A d \in Calls \ {c} : pFind'[d] = pFind[d] /\ aFind'[d] = aFind[d]
        /\ \/ /\ CallAfter(c) /\ chain'[c].tier = 1 /\ ~chain'[c].noMatch
              /\ pFind'[c].pc = "wire" /\ ~A!InFlight(c)'
           \/ ~P!InFlight(c)' /\ RestsAtApollo(c, {})
    BY <2>1, <2>2, TypeParts, ProspeoIsAsked DEF ResolutionInv
  <2>4. heard'[c] = {} /\ (OneHit(heard[c]))' /\ OneHit({}) /\ fallback' = fallback
    BY <2>1, HeardReset, FewWords DEF OneHit, settings
  <2>5. CallAfter(c)
    BY <2>3 DEF RestsAtApollo, Over
  <2>6. ASSUME chain'[c].tier = 1, ~chain'[c].noMatch, pFind'[c].pc = "wire",
               ~A!InFlight(c)'
        PROVE  CallInv(c)'
    <3>1. request'[c].pc = "find"
      BY <2>5, <2>6 DEF CallAfter
    <3>2. Word(1, pFind'[c]) = {} /\ P!InFlight(c)' /\ aFind'[c].pc # "log"
      BY <2>6 DEF Word, P!InFlight, A!InFlight
    <3> QED BY <2>3, <2>4, <2>6, <3>1, <3>2 DEF CallInv
  <2>7. ASSUME ~P!InFlight(c)', RestsAtApollo(c, {}) PROVE CallInv(c)'
    BY <2>4, <2>7, RestingCallInv
  <2>8. CallInv(c)'
    BY <2>3, <2>6, <2>7
  <2> QED BY <2>1, <2>3, <2>5, <2>8, HeardReset, StepOfCall
<1> QED BY <1>1, <1>2

-----------------------------------------------------------------------------
(* Steps of a client *)

LEMMA UnmovedCall ==
    ASSUME ChainTypeOK, NEW c \in Calls, UNCHANGED <<chainVars, request>>
    PROVE  CallAfter(c) /\ chain'[c] = chain[c] /\ request'[c] = request[c]
BY DEF ChainTypeOK, CallAfter, chainVars

LEMMA HeardOnce ==
    ASSUME ResolutionInv, NEW c \in Calls, NEW t \in 1..2, NEW f, Hears(c, t, f)
    PROVE  /\ heard' \in [Calls -> SUBSET Answered]
           /\ \A d \in Calls \ {c} : heard'[d] = heard[d]
           /\ f.kind \notin {"hit", "miss"} => heard'[c] = heard[c]
           /\ f.kind \in {"hit", "miss"} => heard'[c] = heard[c] \cup {<<t, f.kind>>}
BY TypeParts DEF Hears, ResolutionInv, Answered

(* Call c waits for Prospeo.                                               *)
LEMMA WaitingForProspeo ==
    ASSUME ResolutionInv, NEW c \in Calls, pFind[c].pc \in {"wire", "log"}
    PROVE  /\ chain[c].tier = 1 /\ ~chain[c].noMatch /\ heard[c] = Word(1, pFind[c])
           /\ ~A!InFlight(c) /\ chain[c] \in C!CallType /\ said[c] \in SaidType
           /\ request[c].pc = "find" /\ P!ClientTypeOK /\ A!ClientTypeOK /\ ChainTypeOK
           /\ begun \in Nat
           /\ pFind[c].pc = "log" => pFind[c].answer \in {"hit", "miss"}
<1>1. CallInv(c) /\ P!InFlight(c)
  BY DEF ResolutionInv, P!InFlight
<1>2. P!ClientTypeOK /\ A!ClientTypeOK /\ ChainTypeOK /\ begun \in Nat
  BY TypeParts DEF ResolutionInv
<1>3. /\ chain[c].tier = 1 /\ chain[c] \in C!CallType /\ said[c] \in SaidType
      /\ request[c].pc = "find"
  BY <1>1, <1>2 DEF CallInv, ChainTypeOK
<1>4. /\ ~chain[c].noMatch /\ heard[c] = Word(1, pFind[c]) /\ ~A!InFlight(c)
      /\ pFind[c].pc = "log" => pFind[c].answer \in {"hit", "miss"}
  BY <1>1, <1>3 DEF CallInv
<1> QED BY <1>2, <1>3, <1>4

(* Prospeo's client moved and its find is still on its way.                *)
LEMMA ProspeoStays ==
    ASSUME ResolutionInv, NEW c \in Calls, pFind[c].pc \in {"wire", "log"},
           ProspeoAfter(c), P!InFlight(c)', now' = now, AfterProspeo(c),
           heard' \in [Calls -> SUBSET Answered],
           \A d \in Calls \ {c} : heard'[d] = heard[d],
           heard'[c] = Word(1, pFind'[c])
    PROVE  ResolutionInv'
<1>1. /\ UNCHANGED <<apolloVars, chainVars, request>>
      /\ UNCHANGED <<settings, begun>>
  BY DEF AfterProspeo
<1>2. /\ A!ClientTypeOK' /\ aFind' = aFind /\ ~A!InFlight(c) /\ ~A!InFlight(c)'
  BY <1>1, WaitingForProspeo, ApolloStarts DEF apolloVars, A!InFlight
<1>3. CallAfter(c) /\ chain'[c] = chain[c] /\ request'[c] = request[c]
  BY <1>1, WaitingForProspeo, UnmovedCall
<1>4. (OneHit(heard[c]))'
  BY <1>1, FewWords DEF Word, OneHit, settings
<1>5. pFind'[c].pc = "log" => pFind'[c].answer \in {"hit", "miss"}
  BY DEF ProspeoAfter
<1>6. aFind'[c].pc # "log"
  BY <1>2 DEF A!InFlight
<1>7. CallInv(c)'
  BY <1>2, <1>3, <1>4, <1>5, <1>6, WaitingForProspeo DEF CallInv
<1> QED BY <1>1, <1>2, <1>3, <1>7, WaitingForProspeo, StepOfCall DEF ProspeoAfter

(* Prospeo's find ended with v, and the loop went on.                      *)
LEMMA ProspeoMovesOn ==
    ASSUME ResolutionInv, NEW c \in Calls, pFind[c].pc \in {"wire", "log"},
           ProspeoAfter(c), ~P!InFlight(c)', now' = now, AfterProspeo(c),
           NEW v \in {"hit", "miss", "unavailable"}, pFind'[c].answer = v,
           heard' \in [Calls -> SUBSET Answered],
           \A d \in Calls \ {c} : heard'[d] = heard[d],
           v # "unavailable" => heard'[c] = {<<1, v>>},
           v = "unavailable" => heard'[c] = {}
    PROVE  ResolutionInv'
<1>1. /\ ProspeoSays(c, chain[c], said[c], v)
      /\ UNCHANGED <<settings, begun>>
  BY DEF AfterProspeo
<1> DEFINE words == IF v = "unavailable" THEN {} ELSE {<<1, v>>}
<1>2. heard'[c] = words
  OBVIOUS
<1>3. /\ v = "hit" => HitHeard(words)
      /\ v = "miss" => words = {<<1, "miss">>}
      /\ v = "unavailable" => words = {}
  BY DEF HitHeard
<1>4. OneHit(words)
  BY FewWords
<1> HIDE DEF words
<1>5. RestsAtApollo(c, words)
  BY <1>1, <1>3, WaitingForProspeo, ProspeoTells
<1>6. CallInv(c)'
  BY <1>1, <1>2, <1>4, <1>5, RestingCallInv DEF settings
<1>7. /\ CallAfter(c) /\ A!ClientTypeOK'
      /\ \A d \in Calls \ {c} : aFind'[d] = aFind[d]
  BY <1>5 DEF RestsAtApollo, Over, ApolloKept
<1> QED BY <1>1, <1>6, <1>7, WaitingForProspeo, StepOfCall DEF ProspeoAfter

LEMMA ProspeoRepliedKeeps ==
    ASSUME ResolutionInv, NEW c \in Calls, NEW f \in ProspeoEffects, ProspeoReplied(c, f)
    PROVE  ResolutionInv'
<1>1. /\ Hears(c, 1, f) /\ AfterProspeo(c)
      /\ P!Rotate(c, f) \/ P!Answer(c, f)
      /\ P!ClientTypeOK
  BY TypeParts DEF ProspeoReplied, ResolutionInv
<1>2. /\ heard' \in [Calls -> SUBSET Answered]
      /\ \A d \in Calls \ {c} : heard'[d] = heard[d]
      /\ f.kind \notin {"hit", "miss"} => heard'[c] = heard[c]
      /\ f.kind \in {"hit", "miss"} => heard'[c] = heard[c] \cup {<<1, f.kind>>}
  <2>1. 1 \in 1..2
    OBVIOUS
  <2> QED BY <1>1, <2>1, HeardOnce
<1>3. pFind[c].pc = "wire" => heard[c] = {}
  BY WaitingForProspeo DEF Word
<1>4. CASE P!Rotate(c, f)
  <2>1. /\ ProspeoAfter(c) /\ now' = now /\ pFind[c].pc = "wire"
        /\ f.kind \notin {"hit", "miss"}
        /\ \/ pFind'[c].pc = "wire"
           \/ pFind'[c].pc = "done" /\ pFind'[c].answer = "unavailable"
    BY <1>1, <1>4, ProspeoRotates
  <2>2. heard'[c] = {}
    BY <1>2, <1>3, <2>1
  <2>3. CASE pFind'[c].pc = "wire"
    BY <1>1, <1>2, <2>1, <2>2, <2>3, ProspeoStays DEF Word, P!InFlight
  <2>4. CASE pFind'[c].pc = "done" /\ pFind'[c].answer = "unavailable"
    BY <1>1, <1>2, <2>1, <2>2, <2>4, ProspeoMovesOn DEF P!InFlight
  <2> QED BY <2>1, <2>3, <2>4
<1>5. CASE P!Answer(c, f)
  <2>1. /\ ProspeoAfter(c) /\ now' = now /\ pFind[c].pc = "wire"
        /\ f.kind \in {"hit", "miss"}
        /\ pFind'[c].pc = "log" /\ pFind'[c].answer = f.kind
    BY <1>1, <1>5, ProspeoAnswers
  <2>2. heard'[c] = Word(1, pFind'[c])
    BY <1>2, <1>3, <2>1 DEF Word
  <2> QED BY <1>1, <1>2, <2>1, <2>2, ProspeoStays DEF P!InFlight
<1> QED BY <1>1, <1>4, <1>5

LEMMA ProspeoLoggedKeeps ==
    ASSUME ResolutionInv, NEW c \in Calls, NEW written \in BOOLEAN,
           ProspeoLogged(c, written)
    PROVE  ResolutionInv'
<1>1. /\ P!LogUsage(c, written) /\ AfterProspeo(c) /\ now' = now /\ heard' = heard
      /\ P!ClientTypeOK /\ heard \in [Calls -> SUBSET Answered]
  BY TypeParts DEF ProspeoLogged, ResolutionInv
<1>2. /\ ProspeoAfter(c) /\ pFind[c].pc = "log" /\ pFind'[c].pc = "done"
      /\ pFind'[c].answer = pFind[c].answer
  BY <1>1, ProspeoLogs
<1>3. /\ pFind[c].answer \in {"hit", "miss"} /\ heard[c] = {<<1, pFind[c].answer>>}
  BY <1>2, WaitingForProspeo DEF Word
<1> QED BY <1>1, <1>2, <1>3, ProspeoMovesOn DEF P!InFlight

(* Call c waits for Apollo.                                                *)
LEMMA WaitingForApollo ==
    ASSUME ResolutionInv, NEW c \in Calls, aFind[c].pc \in {"wire", "log"}
    PROVE  /\ chain[c].tier = 2
           /\ chain[c].noMatch => fallback
           /\ heard[c] = MissedBy(1, chain[c].noMatch) \cup Word(2, aFind[c])
           /\ ~P!InFlight(c) /\ chain[c] \in C!CallType /\ said[c] \in SaidType
           /\ request[c].pc = "find" /\ P!ClientTypeOK /\ A!ClientTypeOK /\ ChainTypeOK
           /\ begun \in Nat
           /\ aFind[c].pc = "log" => aFind[c].answer \in {"hit", "miss"}
<1>1. CallInv(c) /\ A!InFlight(c)
  BY DEF ResolutionInv, A!InFlight
<1>2. P!ClientTypeOK /\ A!ClientTypeOK /\ ChainTypeOK /\ begun \in Nat
  BY TypeParts DEF ResolutionInv
<1>3. /\ chain[c].tier = 2 /\ chain[c] \in C!CallType /\ said[c] \in SaidType
      /\ request[c].pc = "find"
  BY <1>1, <1>2 DEF CallInv, ChainTypeOK
<1>4. /\ chain[c].noMatch => fallback
      /\ heard[c] = MissedBy(1, chain[c].noMatch) \cup Word(2, aFind[c])
      /\ ~P!InFlight(c)
      /\ aFind[c].pc = "log" => aFind[c].answer \in {"hit", "miss"}
  BY <1>1, <1>3 DEF CallInv
<1> QED BY <1>2, <1>3, <1>4

(* Apollo's word after a miss, or none.                                    *)
LEMMA WordsAtApollo ==
    ASSUME NEW m \in BOOLEAN, m => fallback, NEW x
    PROVE  OneHit(MissedBy(1, m)) /\ OneHit(MissedBy(1, m) \cup {<<2, x>>})
<1>1. CASE m
  <2>1. /\ MissedBy(1, m) = {<<1, "miss">>}
        /\ MissedBy(1, m) \cup {<<2, x>>} = {<<1, "miss">>, <<2, x>>}
    BY <1>1 DEF MissedBy
  <2> QED BY <1>1, <2>1, FewWords
<1>2. CASE ~m
  <2>1. MissedBy(1, m) = {} /\ MissedBy(1, m) \cup {<<2, x>>} = {<<2, x>>}
    BY <1>2 DEF MissedBy
  <2> QED BY <2>1, FewWords
<1> QED BY <1>1, <1>2

LEMMA ApolloStays ==
    ASSUME ResolutionInv, NEW c \in Calls, aFind[c].pc \in {"wire", "log"},
           ApolloAfter(c), A!InFlight(c)', now' = now, AfterApollo(c),
           heard' \in [Calls -> SUBSET Answered],
           \A d \in Calls \ {c} : heard'[d] = heard[d],
           heard'[c] = MissedBy(1, chain[c].noMatch) \cup Word(2, aFind'[c])
    PROVE  ResolutionInv'
<1>1. /\ UNCHANGED <<prospeoVars, chainVars, request>>
      /\ UNCHANGED <<settings, begun>>
  BY DEF AfterApollo
<1>2. /\ P!ClientTypeOK' /\ pFind' = pFind /\ ~P!InFlight(c) /\ ~P!InFlight(c)'
  BY <1>1, WaitingForApollo, ProspeoStarts DEF prospeoVars, P!InFlight
<1>3. CallAfter(c) /\ chain'[c] = chain[c] /\ request'[c] = request[c]
  BY <1>1, WaitingForApollo, UnmovedCall
<1>4. OneHit(MissedBy(1, chain[c].noMatch) \cup Word(2, aFind'[c]))
  <2>1. chain[c].noMatch \in BOOLEAN /\ (chain[c].noMatch => fallback)
    BY WaitingForApollo DEF C!CallType
  <2>2. CASE aFind'[c].pc = "log"
    <3>1. Word(2, aFind'[c]) = {<<2, aFind'[c].answer>>}
      BY <2>2 DEF Word
    <3> QED BY <2>1, <3>1, WordsAtApollo
  <2>3. CASE aFind'[c].pc # "log"
    <3>1. MissedBy(1, chain[c].noMatch) \cup Word(2, aFind'[c])
             = MissedBy(1, chain[c].noMatch)
      BY <2>3 DEF Word
    <3> QED BY <2>1, <3>1, WordsAtApollo
  <2> QED BY <2>2, <2>3
<1>5. (OneHit(heard[c]))' /\ fallback' = fallback
  BY <1>1, <1>4 DEF OneHit, settings
<1>6. aFind'[c].pc = "log" => aFind'[c].answer \in {"hit", "miss"}
  BY DEF ApolloAfter
<1>7. pFind'[c].pc # "log"
  BY <1>2 DEF P!InFlight
<1>8. CallInv(c)'
  BY <1>2, <1>3, <1>5, <1>6, <1>7, WaitingForApollo DEF CallInv
<1> QED BY <1>1, <1>2, <1>3, <1>8, WaitingForApollo, StepOfCall DEF ApolloAfter

LEMMA ApolloMovesOn ==
    ASSUME ResolutionInv, NEW c \in Calls, aFind[c].pc \in {"wire", "log"},
           ApolloAfter(c), ~A!InFlight(c)', now' = now, AfterApollo(c),
           NEW v \in {"hit", "miss", "unavailable"}, aFind'[c].answer = v,
           heard' \in [Calls -> SUBSET Answered],
           \A d \in Calls \ {c} : heard'[d] = heard[d],
           v # "unavailable" =>
              heard'[c] = MissedBy(1, chain[c].noMatch) \cup {<<2, v>>},
           v = "unavailable" => heard'[c] = MissedBy(1, chain[c].noMatch)
    PROVE  ResolutionInv'
<1>1. /\ ApolloSays(c, chain[c], said[c], v)
      /\ UNCHANGED <<prospeoVars, settings, begun>>
  BY DEF AfterApollo
<1> DEFINE before == MissedBy(1, chain[c].noMatch)
           words == IF v = "unavailable" THEN before ELSE before \cup {<<2, v>>}
<1>2. heard'[c] = words
  OBVIOUS
<1>3. /\ v = "hit" => HitHeard(words)
      /\ v = "miss" => MissHeard(words) /\ ~HitHeard(words)
      /\ v = "unavailable" => words = MissedBy(1, chain[c].noMatch)
  BY DEF HitHeard, MissHeard, MissedBy
<1>4. OneHit(words)
  <2>1. chain[c].noMatch \in BOOLEAN /\ (chain[c].noMatch => fallback)
    BY WaitingForApollo DEF C!CallType
  <2> QED BY <2>1, WordsAtApollo
<1> HIDE DEF words
<1>5. Over(c, words)
  BY <1>1, <1>3, WaitingForApollo, ApolloTells
<1>6. /\ P!ClientTypeOK' /\ pFind' = pFind /\ ~P!InFlight(c)'
  BY <1>1, WaitingForApollo, ProspeoStarts DEF prospeoVars, P!InFlight
<1>7. RestsAtApollo(c, words)
  BY <1>5 DEF RestsAtApollo, ApolloKept, ApolloAfter
<1>8. CallInv(c)'
  BY <1>1, <1>2, <1>4, <1>6, <1>7, RestingCallInv DEF settings
<1>9. CallAfter(c)
  BY <1>5 DEF Over
<1> QED BY <1>1, <1>6, <1>8, <1>9, WaitingForApollo, StepOfCall DEF ApolloAfter

LEMMA ApolloRepliedKeeps ==
    ASSUME ResolutionInv, NEW c \in Calls, NEW f \in ApolloEffects, ApolloReplied(c, f)
    PROVE  ResolutionInv'
<1> DEFINE before == MissedBy(1, chain[c].noMatch)
<1>1. /\ Hears(c, 2, f) /\ AfterApollo(c)
      /\ A!Rotate(c, f) \/ A!Answer(c, f)
      /\ A!ClientTypeOK
  BY TypeParts DEF ApolloReplied, ResolutionInv
<1>2. /\ heard' \in [Calls -> SUBSET Answered]
      /\ \A d \in Calls \ {c} : heard'[d] = heard[d]
      /\ f.kind \notin {"hit", "miss"} => heard'[c] = heard[c]
      /\ f.kind \in {"hit", "miss"} => heard'[c] = heard[c] \cup {<<2, f.kind>>}
  <2>1. 2 \in 1..2
    OBVIOUS
  <2> QED BY <1>1, <2>1, HeardOnce
<1>3. aFind[c].pc = "wire" => heard[c] = before
  BY WaitingForApollo DEF Word
<1> HIDE DEF before
<1>4. CASE A!Rotate(c, f)
  <2>1. /\ ApolloAfter(c) /\ now' = now /\ aFind[c].pc = "wire"
        /\ f.kind \notin {"hit", "miss"}
        /\ \/ aFind'[c].pc = "wire"
           \/ aFind'[c].pc = "done" /\ aFind'[c].answer = "unavailable"
    BY <1>1, <1>4, ApolloRotates
  <2>2. heard'[c] = before
    BY <1>2, <1>3, <2>1
  <2>3. CASE aFind'[c].pc = "wire"
    <3>1. heard'[c] = before \cup Word(2, aFind'[c]) /\ A!InFlight(c)'
      BY <2>2, <2>3 DEF Word, A!InFlight
    <3> QED BY <1>1, <1>2, <2>1, <3>1, ApolloStays DEF before
  <2>4. CASE aFind'[c].pc = "done" /\ aFind'[c].answer = "unavailable"
    BY <1>1, <1>2, <2>1, <2>2, <2>4, ApolloMovesOn DEF A!InFlight, before
  <2> QED BY <2>1, <2>3, <2>4
<1>5. CASE A!Answer(c, f)
  <2>1. /\ ApolloAfter(c) /\ now' = now /\ aFind[c].pc = "wire"
        /\ f.kind \in {"hit", "miss"}
        /\ aFind'[c].pc = "log" /\ aFind'[c].answer = f.kind
    BY <1>1, <1>5, ApolloAnswers
  <2>2. heard'[c] = before \cup Word(2, aFind'[c])
    BY <1>2, <1>3, <2>1 DEF Word
  <2> QED BY <1>1, <1>2, <2>1, <2>2, ApolloStays DEF A!InFlight, before
<1> QED BY <1>1, <1>4, <1>5

LEMMA ApolloLoggedKeeps ==
    ASSUME ResolutionInv, NEW c \in Calls, NEW written \in BOOLEAN,
           ApolloLogged(c, written)
    PROVE  ResolutionInv'
<1>1. /\ A!LogUsage(c, written) /\ AfterApollo(c) /\ now' = now /\ heard' = heard
      /\ A!ClientTypeOK /\ heard \in [Calls -> SUBSET Answered]
  BY TypeParts DEF ApolloLogged, ResolutionInv
<1>2. /\ ApolloAfter(c) /\ aFind[c].pc = "log" /\ aFind'[c].pc = "done"
      /\ aFind'[c].answer = aFind[c].answer
  BY <1>1, ApolloLogs
<1>3. /\ aFind[c].answer \in {"hit", "miss"}
      /\ heard[c] = MissedBy(1, chain[c].noMatch) \cup {<<2, aFind[c].answer>>}
  BY <1>2, WaitingForApollo DEF Word
<1> QED BY <1>1, <1>2, <1>3, ApolloMovesOn DEF A!InFlight

-----------------------------------------------------------------------------
(* The other steps *)

LEMMA VerifiedEnds ==
    ASSUME ResolutionInv, NEW c \in Calls, Verified(c)
    PROVE  /\ request'[c] \in RequestType /\ request' = [request EXCEPT ![c] = request'[c]]
           /\ request'[c].pc = "done" /\ request'[c].reason \in {"", "email_unverified"}
<1> DEFINE l == request[c].linkedin
           h == [email |-> "unverified", linkedin |-> l]
<1>1. request[c] \in RequestType /\ request \in [Calls -> RequestType]
  BY TypeParts DEF ResolutionInv, ChainTypeOK
<1>2. l \in BOOLEAN /\ h \in HitType
  BY <1>1 DEF RequestType, HitType
<1>3. /\ WithEmail(l) \in RequestType /\ WithEmail(l).pc = "done"
      /\ WithEmail(l).reason = ""
  BY <1>2, WithEmailIs
<1>4. /\ ProfileOnly(h, "email_unverified") \in RequestType
      /\ ProfileOnly(h, "email_unverified").pc = "done"
      /\ ProfileOnly(h, "email_unverified").reason \in {"", "email_unverified"}
  BY <1>2, ProfileOnlyIs
<1>5. Becomes(c, WithEmail(l)) \/ Becomes(c, ProfileOnly(h, "email_unverified"))
  BY DEF Verified, Unconfirmed
<1> HIDE DEF h, l
<1> QED BY <1>1, <1>3, <1>4, <1>5 DEF Becomes

LEMMA VerifiedKeeps ==
    ASSUME ResolutionInv, NEW c \in Calls, Verified(c)
    PROVE  ResolutionInv'
<1>1. /\ request[c].pc = "verify" /\ request[c] \in RequestType
      /\ UNCHANGED <<now, prospeoVars, apolloVars, chainVars, settings, begun, heard>>
      /\ chain[c].answer # "pending" /\ chain[c].tier = 0 /\ CallInv(c)
  BY TypeParts DEF Verified, ResolutionInv, ChainTypeOK
<1>2. PICK r : /\ request' = [request EXCEPT ![c] = r] /\ r \in RequestType
               /\ r.pc = "done" /\ r.reason \in {"", "email_unverified"}
  BY VerifiedEnds
<1>3. /\ pFind' = pFind /\ aFind' = aFind /\ chain' = chain /\ said' = said
      /\ heard' = heard /\ fallback' = fallback
  BY <1>1 DEF prospeoVars, apolloVars, chainVars, settings
<1>4. P!ClientTypeOK' /\ A!ClientTypeOK'
  BY <1>1, TypeParts, ProspeoStarts, ApolloStarts DEF ResolutionInv
<1>5. CallAfter(c) /\ request'[c] = r
  BY <1>1, <1>2, <1>3, TypeParts DEF CallAfter, ResolutionInv, ChainTypeOK
<1>6. TrueOf(r, heard[c])
  BY <1>1, <1>2 DEF CallInv, TrueOf
<1>7. CallInv(c)'
  <2>1. /\ P!InFlight(c)' <=> P!InFlight(c)
        /\ A!InFlight(c)' <=> A!InFlight(c)
    BY <1>3 DEF P!InFlight, A!InFlight
  <2> QED BY <1>1, <1>2, <1>3, <1>5, <1>6, <2>1 DEF CallInv, OneHit
<1>8. begun' \in Nat /\ heard' \in [Calls -> SUBSET Answered]
  BY <1>1, TypeParts DEF ResolutionInv
<1> QED BY <1>1, <1>3, <1>4, <1>5, <1>7, <1>8, StepOfCall

LEMMA TickKeeps == ResolutionInv /\ Tick => ResolutionInv'
<1> SUFFICES ASSUME ResolutionInv, Tick PROVE ResolutionInv'
  OBVIOUS
<1>1. P!ClientTypeOK' /\ A!ClientTypeOK'
  BY TypeParts, ProspeoStarts, ApolloStarts DEF Tick, ResolutionInv
<1>2. /\ pFind' = pFind /\ aFind' = aFind /\ chain' = chain /\ said' = said
      /\ heard' = heard /\ fallback' = fallback /\ hasVerifier' = hasVerifier
      /\ request' = request /\ begun' = begun
  BY DEF Tick, P!Tick, A!Tick, chainVars, settings
<1>3. TypeOK'
  BY <1>1, <1>2, TypeParts, EnabledType
     DEF ResolutionInv, ChainTypeOK, TypeOK, C!TypeOK, SaidType
<1>4. ASSUME NEW c \in Calls PROVE CallInv(c)'
  BY <1>2 DEF ResolutionInv, CallInv, OneHit, P!InFlight, A!InFlight
<1> QED BY <1>3, <1>4 DEF ResolutionInv

LEMMA StutterKeeps == ResolutionInv /\ UNCHANGED vars => ResolutionInv'
<1> SUFFICES ASSUME ResolutionInv, UNCHANGED vars PROVE ResolutionInv'
  OBVIOUS
<1>1. P!ClientTypeOK' /\ A!ClientTypeOK'
  BY TypeParts, ProspeoStarts, ApolloStarts DEF vars, ResolutionInv
<1>2. /\ pFind' = pFind /\ aFind' = aFind /\ chain' = chain /\ said' = said
      /\ heard' = heard /\ fallback' = fallback /\ hasVerifier' = hasVerifier
      /\ request' = request /\ begun' = begun
  BY DEF vars, prospeoVars, apolloVars, chainVars, settings
<1>3. TypeOK'
  BY <1>1, <1>2, TypeParts, EnabledType
     DEF ResolutionInv, ChainTypeOK, TypeOK, C!TypeOK, SaidType
<1>4. ASSUME NEW c \in Calls PROVE CallInv(c)'
  BY <1>2 DEF ResolutionInv, CallInv, OneHit, P!InFlight, A!InFlight
<1> QED BY <1>3, <1>4 DEF ResolutionInv

LEMMA NothingBegun ==
    /\ P!NoFind.pc = "idle" /\ A!NoFind.pc = "idle" /\ C!NoFind.tier = 0
    /\ NoRequest.pc = "idle" /\ OneHit({}) /\ (OneHit({}))'
BY FS_EmptySet DEF P!NoFind, A!NoFind, C!NoFind, NoRequest, OneHit

LEMMA InitialTypes ==
    /\ C!NoFind \in C!CallType /\ C!NoFind.answer # "pending" /\ C!NoFind.tier = 0
    /\ C!Silence \in SaidType
    /\ NoRequest \in RequestType /\ NoRequest.pc # "find"
BY DEF C!NoFind, C!CallType, C!Answers, C!Silence, SaidType, C!Tiers, NoRequest,
       RequestType, Reasons

LEMMA InitInv == Init => ResolutionInv
<1> SUFFICES ASSUME Init PROVE ResolutionInv
  OBVIOUS
<1>1. P!ClientTypeOK /\ A!ClientTypeOK
  BY ProspeoStarts, ApolloStarts DEF Init
<1>2. TypeOK
  BY <1>1, InitialTypes, EnabledType DEF Init, TypeOK, C!TypeOK, SaidType
<1>3. ASSUME NEW c \in Calls PROVE CallInv(c)
  <2>1. /\ pFind[c] = P!NoFind /\ aFind[c] = A!NoFind /\ chain[c] = C!NoFind
        /\ request[c] = NoRequest /\ heard[c] = {}
    BY DEF Init, P!ClientInit, A!ClientInit
  <2> QED BY <2>1, NothingBegun DEF CallInv, P!InFlight, A!InFlight
<1> QED BY <1>2, <1>3 DEF ResolutionInv

LEMMA RestartKeeps == ResolutionInv /\ Restart => ResolutionInv'
<1> SUFFICES ASSUME ResolutionInv, Restart PROVE ResolutionInv'
  OBVIOUS
<1>1. P!ClientTypeOK' /\ A!ClientTypeOK' /\ begun \in Nat
  BY TypeParts, ProspeoStarts, ApolloStarts DEF Restart, ResolutionInv
<1>2. TypeOK'
  BY <1>1, InitialTypes, EnabledType DEF Restart, TypeOK, C!TypeOK, SaidType
<1>3. ASSUME NEW c \in Calls PROVE CallInv(c)'
  <2>1. /\ pFind'[c] = P!NoFind /\ aFind'[c] = A!NoFind /\ chain'[c] = C!NoFind
        /\ request'[c] = NoRequest /\ heard'[c] = {}
    BY DEF Restart, P!Restart, A!Restart
  <2>2. (OneHit(heard[c]))'
    BY <2>1, NothingBegun DEF OneHit
  <2> QED BY <2>1, <2>2, NothingBegun DEF CallInv, P!InFlight, A!InFlight
<1> QED BY <1>2, <1>3 DEF ResolutionInv

LEMMA NextInv == ResolutionInv /\ [Next]_vars => ResolutionInv'
<1> SUFFICES ASSUME ResolutionInv, [Next]_vars PROVE ResolutionInv'
  OBVIOUS
<1>1. ASSUME NEW c \in Calls, ResolveBlank(c) PROVE ResolutionInv'
  BY <1>1, AnsweredAtOnce DEF ResolveBlank
<1>2. ASSUME NEW c \in Calls, Proceeds(c) PROVE ResolutionInv'
  BY <1>2, ProspeoRepliedKeeps, ApolloRepliedKeeps, ProspeoLoggedKeeps,
     ApolloLoggedKeeps, VerifiedKeeps DEF Proceeds
<1> QED BY <1>1, <1>2, ResolveKeeps, TickKeeps, RestartKeeps, StutterKeeps DEF Next

-----------------------------------------------------------------------------
(* Theorems *)

LEMMA ResolutionInvariant == Spec => []ResolutionInv
BY InitInv, NextInv, PTL DEF Spec

(* Both clients, the chain and the calls stay of their types, and a call   *)
(* searches exactly while the chain waits for a tier (resolve.py:79-177).  *)
THEOREM ResolutionTypeCorrect == Spec => []TypeOK
BY ResolutionInvariant, PTL DEF ResolutionInv

(* The reason a session is given is what the providers said in that call,  *)
(* with any number of keys and of calls that share them (resolve.py:79-104;*)
(* finder.py:118-163).                                                     *)
THEOREM ReasonsAreTrue == Spec => []ReasonIsTrue
<1>1. ResolutionInv => ReasonIsTrue
  BY DEF ResolutionInv, CallInv, TrueOf, ReasonIsTrue
<1> QED BY <1>1, ResolutionInvariant, PTL

(* No provider is asked for a person another one has found, nor, without   *)
(* the fallback, for one another has answered for (finder.py:142-147).     *)
THEOREM NobodyIsAskedTwice == Spec => []AsksNoFurther
<1>1. ResolutionInv => AsksNoFurther
  BY DEF ResolutionInv, CallInv, OneHit, AsksNoFurther
<1> QED BY <1>1, ResolutionInvariant, PTL

-----------------------------------------------------------------------------
(* Refinement: which tiers the chain sees enabled *)

LEMMA PairAsFunction ==
    ASSUME NEW x, NEW y, NEW z
    PROVE  /\ <<x, y>>[1] = x /\ <<x, y>>[2] = y
           /\ [<<x, y>> EXCEPT ![1] = z] = <<z, y>>
           /\ [<<x, y>> EXCEPT ![2] = z] = <<x, z>>
           /\ [t \in 1..2 |-> z] = <<z, z>>
OBVIOUS

LEMMA EnabledTiers ==
    /\ enabled[1] <=> P!Enabled(pPool)
    /\ enabled[2] <=> A!Enabled(aPool)
<1>1. ASSUME NEW p PROVE P!Enabled(p) \in BOOLEAN /\ A!Enabled(p) \in BOOLEAN
  BY DEF P!Enabled, A!Enabled
<1> QED BY <1>1, PairAsFunction DEF enabled

(* A step that costs no pool its last key, or one of them.                 *)
LEMMA EnabledAfter ==
    /\ /\ P!Enabled(pPool)' <=> P!Enabled(pPool)
       /\ A!Enabled(aPool)' <=> A!Enabled(aPool)
       => enabled' = enabled
    /\ /\ ~P!Enabled(pPool)'
       /\ A!Enabled(aPool)' <=> A!Enabled(aPool)
       => enabled' = [enabled EXCEPT ![1] = FALSE]
    /\ /\ P!Enabled(pPool)' <=> P!Enabled(pPool)
       /\ ~A!Enabled(aPool)'
       => enabled' = [enabled EXCEPT ![2] = FALSE]
    /\ P!Enabled(pPool) /\ A!Enabled(aPool) => enabled = [t \in C!Tiers |-> TRUE]
    /\ P!Enabled(pPool)' /\ A!Enabled(aPool)' => enabled' = [t \in C!Tiers |-> TRUE]
<1>1. /\ P!Enabled(pPool) \in BOOLEAN /\ A!Enabled(aPool) \in BOOLEAN
      /\ P!Enabled(pPool)' \in BOOLEAN /\ A!Enabled(aPool)' \in BOOLEAN
  BY DEF P!Enabled, A!Enabled
<1>2. PICK x \in BOOLEAN : x = P!Enabled(pPool)
  BY <1>1
<1>3. PICK y \in BOOLEAN : y = A!Enabled(aPool)
  BY <1>1
<1>4. PICK xx \in BOOLEAN : xx = P!Enabled(pPool)'
  BY <1>1
<1>5. PICK yy \in BOOLEAN : yy = A!Enabled(aPool)'
  BY <1>1
<1>6. enabled = <<x, y>> /\ enabled' = <<xx, yy>>
  BY <1>2, <1>3, <1>4, <1>5 DEF enabled
<1>7. PICK no \in BOOLEAN : no = FALSE
  OBVIOUS
<1>8. PICK yes \in BOOLEAN : yes = TRUE
  OBVIOUS
<1>9. /\ [enabled EXCEPT ![1] = no] = <<no, y>>
      /\ [enabled EXCEPT ![2] = no] = <<x, no>>
      /\ [t \in C!Tiers |-> yes] = <<yes, yes>>
  BY <1>6, PairAsFunction DEF C!Tiers
<1> QED BY <1>2, <1>3, <1>4, <1>5, <1>6, <1>7, <1>8, <1>9

-----------------------------------------------------------------------------
(* Refinement: the loop over two clients is the loop over two tiers *)

LEMMA FlaggedFields ==
    ASSUME NEW f \in C!CallType
    PROVE  /\ C!Flagged(f, "unavailable") = [f EXCEPT !.lastExc = TRUE]
           /\ [f EXCEPT !.lastExc = TRUE] \in C!CallType
           /\ f.lastExc \in BOOLEAN
           /\ [f EXCEPT !.lastExc = f.lastExc] = f
BY DEF C!Flagged, C!CallType

(* The locals with which the loop gets from one tier to another.           *)
LEMMA FlagsWhenRaised ==
    ASSUME NEW f \in C!CallType, NEW raised \in BOOLEAN
    PROVE  [f EXCEPT !.lastExc = @ \/ raised]
              = IF raised THEN [f EXCEPT !.lastExc = TRUE] ELSE f
BY DEF C!CallType

LEMMA LoopStopsAt ==
    ASSUME NEW c \in Calls, NEW f \in C!CallType, NEW from \in 1..3, NEW w,
           NEW t \in from..3, t # 3 => enabled[t],
           LET g == IF C!Raises(from, t) THEN [f EXCEPT !.lastExc = TRUE] ELSE f
           IN  chain' = [chain EXCEPT ![c] = IF t \in C!Tiers THEN C!Asking(t, g)
                                             ELSE C!Ended(g, C!AfterLoop(g))],
           said' = [said EXCEPT ![c] = C!Passed(w, from, t)]
    PROVE  C!AskNext(c, f, from, w)
<1>1. t \in C!Suspends(from)
  BY DEF C!Suspends, C!Tiers
<1>2. C!Raises(from, t) \in BOOLEAN
  BY DEF C!Raises
<1>3. [f EXCEPT !.lastExc = @ \/ C!Raises(from, t)]
         = IF C!Raises(from, t) THEN [f EXCEPT !.lastExc = TRUE] ELSE f
  BY <1>2, FlagsWhenRaised
<1> QED BY <1>1, <1>3 DEF C!AskNext

LEMMA TiersBetween ==
    /\ \A t \in 1..3 : ~C!Raises(t, t)
    /\ C!Raises(2, 3) <=> enabled[2]
    /\ \A t \in 2..3 : C!Raises(1, t) <=> (enabled[1] \/ C!Raises(2, t))
<1>1. \A t \in 1..3 : t..(t - 1) = {}
  OBVIOUS
<1>2. 2..(3 - 1) = {2} /\ 1..(2 - 1) = {1} /\ 1..(3 - 1) = {1, 2} /\ 2..(2 - 1) = {}
  OBVIOUS
<1>3. \A t \in 2..3 : t = 2 \/ t = 3
  OBVIOUS
<1> QED BY <1>1, <1>2, <1>3 DEF C!Raises

(* What is said of the tiers between is said one tier at a time.           *)
LEMMA WordsBetween ==
    ASSUME NEW w \in SaidType
    PROVE  /\ \A t \in 1..3 : C!Passed(w, t, t) = w
           /\ C!Passed(w, 2, 3) = [w EXCEPT ![2] = IF enabled[2] THEN "unavailable"
                                                                 ELSE "skipped"]
           /\ \A t \in 2..3 :
                 C!Passed(w, 1, t)
                    = C!Passed([w EXCEPT ![1] = IF enabled[1] THEN "unavailable"
                                                              ELSE "skipped"], 2, t)
<1>1. w = [t \in 1..2 |-> w[t]]
  BY DEF SaidType, C!Tiers
<1>2. \A t \in 1..3 : C!Passed(w, t, t) = [u \in 1..2 |-> w[u]]
  BY DEF C!Passed, C!Tiers
<1>3. C!Passed(w, 2, 3) = [w EXCEPT ![2] = IF enabled[2] THEN "unavailable"
                                                         ELSE "skipped"]
  BY <1>1 DEF C!Passed, C!Tiers
<1>4. ASSUME NEW t \in 2..3
      PROVE  C!Passed(w, 1, t)
                = C!Passed([w EXCEPT ![1] = IF enabled[1] THEN "unavailable"
                                                          ELSE "skipped"], 2, t)
  BY <1>1 DEF C!Passed, C!Tiers
<1> QED BY <1>1, <1>2, <1>3, <1>4

LEMMA StopsHere ==
    ASSUME NEW c \in Calls, NEW f \in C!CallType, NEW t \in 1..3, NEW w \in SaidType,
           t # 3 => enabled[t],
           chain' = [chain EXCEPT ![c] = IF t = 3 THEN C!Ended(f, C!AfterLoop(f))
                                                  ELSE C!Asking(t, f)],
           said' = [said EXCEPT ![c] = w]
    PROVE  C!AskNext(c, f, t, w)
<1>1. /\ ~C!Raises(t, t)
      /\ C!Passed(w, t, t) = w
      /\ t \in t..3
  <2>1. ~C!Raises(t, t)
    BY TiersBetween
  <2>2. C!Passed(w, t, t) = w
    BY WordsBetween
  <2>3. t \in t..3
    OBVIOUS
  <2> QED BY <2>1, <2>2, <2>3
<1>2. t \in C!Tiers <=> t # 3
  BY DEF C!Tiers
<1> QED BY <1>1, <1>2, LoopStopsAt

(* The second tier says nothing, or is passed over.                        *)
LEMMA StopsAfterSecond ==
    ASSUME NEW c \in Calls, NEW f \in C!CallType, NEW w \in SaidType,
           LET g == IF enabled[2] THEN C!Flagged(f, "unavailable") ELSE f
           IN  chain' = [chain EXCEPT ![c] = C!Ended(g, C!AfterLoop(g))],
           said' = [said EXCEPT ![c] =
                       [w EXCEPT ![2] = IF enabled[2] THEN "unavailable" ELSE "skipped"]]
    PROVE  C!AskNext(c, f, 2, w)
<1>1. /\ C!Raises(2, 3) <=> enabled[2]
      /\ 3 \notin C!Tiers /\ 3 \in 2..3 /\ 2 \in 1..3
  BY TiersBetween DEF C!Tiers
<1>2. said' = [said EXCEPT ![c] = C!Passed(w, 2, 3)]
  BY WordsBetween
<1>3. C!Flagged(f, "unavailable") = [f EXCEPT !.lastExc = TRUE]
  BY FlaggedFields
<1>4. LET g == IF C!Raises(2, 3) THEN [f EXCEPT !.lastExc = TRUE] ELSE f
      IN  chain' = [chain EXCEPT ![c] = C!Ended(g, C!AfterLoop(g))]
  BY <1>1, <1>3
<1> QED BY <1>1, <1>2, <1>4, LoopStopsAt

LEMMA ApolloIsSecondTier ==
    ASSUME A!ClientTypeOK, NEW c \in Calls, NEW f \in C!CallType, NEW w \in SaidType,
           AskApollo(c, f, w)
    PROVE  C!AskNext(c, f, 2, w)
<1>1. CASE ~A!Enabled(aPool)
  <2>1. /\ chain' = [chain EXCEPT ![c] = C!Ended(f, C!AfterLoop(f))]
        /\ said' = [said EXCEPT ![c] = [w EXCEPT ![2] = "skipped"]]
    BY <1>1 DEF AskApollo, Ends
  <2> QED BY <1>1, <2>1, EnabledTiers, StopsAfterSecond
<1>2. CASE A!Enabled(aPool)
  <2>1. \/ aFind'[c].pc = "wire"
        \/ aFind'[c].pc = "done" /\ aFind'[c].answer = "unavailable"
    BY <1>2, ApolloBegins DEF AskApollo
  <2>2. CASE aFind'[c].pc = "wire"
    <3>1. WaitsFor(c, 2, f, w)
      BY <1>2, <2>2 DEF AskApollo, A!InFlight
    <3>2. PICK t \in 1..3 : t = 2
      OBVIOUS
    <3>3. /\ chain' = [chain EXCEPT ![c] = IF t = 3 THEN C!Ended(f, C!AfterLoop(f))
                                                    ELSE C!Asking(t, f)]
          /\ said' = [said EXCEPT ![c] = w]
      BY <3>1, <3>2 DEF WaitsFor
    <3>4. C!AskNext(c, f, t, w)
      BY <1>2, <3>2, <3>3, EnabledTiers, StopsHere
    <3> QED BY <3>2, <3>4
  <2>3. CASE aFind'[c].pc = "done" /\ aFind'[c].answer = "unavailable"
    <3> DEFINE g == C!Flagged(f, "unavailable")
    <3>1. ApolloSays(c, f, w, "unavailable")
      BY <1>2, <2>3 DEF AskApollo, A!InFlight
    <3>2. /\ chain' = [chain EXCEPT ![c] = C!Ended(g, C!AfterLoop(g))]
          /\ said' = [said EXCEPT ![c] = [w EXCEPT ![2] = "unavailable"]]
      BY <3>1 DEF ApolloSays, Ends, C!GoesOn
    <3> QED BY <1>2, <3>2, EnabledTiers, StopsAfterSecond
  <2> QED BY <2>1, <2>2, <2>3
<1> QED BY <1>1, <1>2

(* The first tier says nothing, or is passed over, and the loop goes on.   *)
LEMMA GoesOnFromFirst ==
    ASSUME NEW c \in Calls, NEW f \in C!CallType, NEW w \in SaidType,
           LET g == IF enabled[1] THEN C!Flagged(f, "unavailable") ELSE f
           IN  C!AskNext(c, g, 2, [w EXCEPT ![1] = IF enabled[1] THEN "unavailable"
                                                                 ELSE "skipped"])
    PROVE  C!AskNext(c, f, 1, w)
<1> DEFINE g == IF enabled[1] THEN [f EXCEPT !.lastExc = TRUE] ELSE f
           told == [w EXCEPT ![1] = IF enabled[1] THEN "unavailable" ELSE "skipped"]
<1>1. C!AskNext(c, g, 2, told) /\ g \in C!CallType
  BY FlaggedFields
<1> HIDE DEF g
<1>2. PICK t \in C!Suspends(2) :
         LET h == [g EXCEPT !.lastExc = @ \/ C!Raises(2, t)]
         IN  /\ chain' = [chain EXCEPT ![c] = IF t \in C!Tiers THEN C!Asking(t, h)
                                              ELSE C!Ended(h, C!AfterLoop(h))]
             /\ said' = [said EXCEPT ![c] = C!Passed(told, 2, t)]
  BY <1>1 DEF C!AskNext
<1>3. t \in 2..3 /\ t \in 1..3 /\ 1 \in 1..3 /\ (t # 3 => enabled[t])
  BY <1>2 DEF C!Suspends
<1>4. said' = [said EXCEPT ![c] = C!Passed(w, 1, t)]
  BY <1>2, <1>3, WordsBetween
<1>5. [g EXCEPT !.lastExc = @ \/ C!Raises(2, t)]
         = IF C!Raises(1, t) THEN [f EXCEPT !.lastExc = TRUE] ELSE f
  <2>1. C!Raises(2, t) \in BOOLEAN
    BY DEF C!Raises
  <2>2. [g EXCEPT !.lastExc = @ \/ C!Raises(2, t)]
           = IF C!Raises(2, t) THEN [g EXCEPT !.lastExc = TRUE] ELSE g
    BY <1>1, <2>1, FlagsWhenRaised
  <2>3. [g EXCEPT !.lastExc = TRUE] = [f EXCEPT !.lastExc = TRUE]
    BY DEF g, C!CallType
  <2>4. C!Raises(1, t) <=> (enabled[1] \/ C!Raises(2, t))
    BY <1>3, TiersBetween
  <2> QED BY <2>2, <2>3, <2>4 DEF g
<1>6. LET h == IF C!Raises(1, t) THEN [f EXCEPT !.lastExc = TRUE] ELSE f
      IN  chain' = [chain EXCEPT ![c] = IF t \in C!Tiers THEN C!Asking(t, h)
                                        ELSE C!Ended(h, C!AfterLoop(h))]
  BY <1>2, <1>5
<1> QED BY <1>3, <1>4, <1>6, LoopStopsAt

LEMMA KeysKept ==
    /\ pPool'.dead = pPool.dead => (P!Enabled(pPool)' <=> P!Enabled(pPool))
    /\ aPool'.dead = aPool.dead => (A!Enabled(aPool)' <=> A!Enabled(aPool))
    /\ pPool.dead \subseteq pPool'.dead => (P!Enabled(pPool)' => P!Enabled(pPool))
    /\ aPool.dead \subseteq aPool'.dead => (A!Enabled(aPool)' => A!Enabled(aPool))
BY DEF P!Enabled, A!Enabled

(* To ask Apollo costs it no key.                                          *)
LEMMA ApolloKeepsKeys ==
    ASSUME A!ClientTypeOK, NEW c \in Calls, NEW f, NEW w, AskApollo(c, f, w)
    PROVE  A!Enabled(aPool)' <=> A!Enabled(aPool)
<1>1. CASE UNCHANGED apolloVars
  BY <1>1, KeysKept DEF apolloVars
<1>2. CASE A!Begin(c)
  BY <1>2, ApolloBegins, KeysKept
<1> QED BY <1>1, <1>2 DEF AskApollo

LEMMA ProspeoIsFirstTier ==
    ASSUME P!ClientTypeOK, A!ClientTypeOK, NEW c \in Calls, NEW f \in C!CallType,
           NEW w \in SaidType, AskProspeo(c, f, w)
    PROVE  C!AskNext(c, f, 1, w) /\ enabled' = enabled
<1>1. CASE ~P!Enabled(pPool)
  <2> DEFINE told == [w EXCEPT ![1] = "skipped"]
  <2>1. UNCHANGED prospeoVars /\ AskApollo(c, f, told)
    BY <1>1 DEF AskProspeo
  <2>2. told \in SaidType
    BY DEF SaidType
  <2> HIDE DEF told
  <2>3. C!AskNext(c, f, 2, told)
    BY <2>1, <2>2, ApolloIsSecondTier
  <2>4. C!AskNext(c, f, 1, w)
    BY <1>1, <2>3, EnabledTiers, GoesOnFromFirst DEF told
  <2>5. enabled' = enabled
    BY <2>1, ApolloKeepsKeys, EnabledAfter, KeysKept DEF prospeoVars
  <2> QED BY <2>4, <2>5
<1>2. CASE P!Enabled(pPool)
  <2>1. P!Begin(c)
    BY <1>2 DEF AskProspeo
  <2>2. /\ P!Enabled(pPool)' <=> P!Enabled(pPool)
        /\ \/ pFind'[c].pc = "wire"
           \/ pFind'[c].pc = "done" /\ pFind'[c].answer = "unavailable"
    BY <2>1, ProspeoBegins, KeysKept
  <2>3. CASE pFind'[c].pc = "wire"
    <3>1. WaitsFor(c, 1, f, w) /\ UNCHANGED apolloVars
      BY <1>2, <2>3 DEF AskProspeo, P!InFlight
    <3>2. PICK t \in 1..3 : t = 1
      OBVIOUS
    <3>3. /\ chain' = [chain EXCEPT ![c] = IF t = 3 THEN C!Ended(f, C!AfterLoop(f))
                                                    ELSE C!Asking(t, f)]
          /\ said' = [said EXCEPT ![c] = w]
      BY <3>1, <3>2 DEF WaitsFor
    <3>4. C!AskNext(c, f, t, w)
      BY <1>2, <3>2, <3>3, EnabledTiers, StopsHere
    <3>5. enabled' = enabled
      BY <2>2, <3>1, EnabledAfter, KeysKept DEF apolloVars
    <3> QED BY <3>2, <3>4, <3>5
  <2>4. CASE pFind'[c].pc = "done" /\ pFind'[c].answer = "unavailable"
    <3> DEFINE g == C!Flagged(f, "unavailable")
               told == [w EXCEPT ![1] = "unavailable"]
    <3>1. AskApollo(c, g, told)
      BY <1>2, <2>4 DEF AskProspeo, P!InFlight, ProspeoSays, C!GoesOn
    <3>2. g \in C!CallType /\ told \in SaidType
      BY FlaggedFields DEF SaidType, C!Outcomes
    <3> HIDE DEF g, told
    <3>3. C!AskNext(c, g, 2, told)
      BY <3>1, <3>2, ApolloIsSecondTier
    <3>4. C!AskNext(c, f, 1, w)
      BY <1>2, <3>3, EnabledTiers, GoesOnFromFirst DEF g, told
    <3>5. enabled' = enabled
      BY <2>2, <3>1, ApolloKeepsKeys, EnabledAfter
    <3> QED BY <3>4, <3>5
  <2> QED BY <2>2, <2>3, <2>4
<1> QED BY <1>1, <1>2

-----------------------------------------------------------------------------
(* Refinement, step by step *)

LEMMA ResolveIsFind ==
    ASSUME ResolutionInv, NEW c \in Calls, Resolve(c)
    PROVE  C!Find(c) \/ UNCHANGED C!vars
<1>1. CASE enabled = <<FALSE, FALSE>>
  <2>1. UNCHANGED <<prospeoVars, apolloVars, chainVars, settings>>
    BY <1>1 DEF Resolve
  <2>2. enabled' = enabled
    BY <2>1 DEF enabled, P!Enabled, A!Enabled, prospeoVars, apolloVars
  <2> QED BY <2>1, <2>2 DEF C!vars, chainVars, settings
<1>2. CASE enabled # <<FALSE, FALSE>>
  <2>1. /\ AskProspeo(c, C!NoFind, C!Silence) /\ Free(c) /\ UNCHANGED settings
    BY <1>2 DEF Resolve
  <2>2. chain[c].tier = 0
    BY <2>1, IdleCall
  <2>3. C!AskNext(c, C!NoFind, 1, C!Silence) /\ enabled' = enabled
    BY <2>1, TypeParts, InitialTypes, ProspeoIsFirstTier DEF ResolutionInv
  <2> QED BY <2>1, <2>2, <2>3 DEF C!Find, settings
<1> QED BY <1>1, <1>2

(* Prospeo's find is still on its way: the chain sees nothing.             *)
LEMMA ProspeoStaysHidden ==
    ASSUME NEW c \in Calls, P!InFlight(c)', AfterProspeo(c),
           P!Enabled(pPool)' <=> P!Enabled(pPool)
    PROVE  UNCHANGED C!vars
<1>1. UNCHANGED <<apolloVars, chainVars, settings>>
  BY DEF AfterProspeo
<1>2. enabled' = enabled
  BY <1>1, EnabledAfter, KeysKept DEF apolloVars
<1> QED BY <1>1, <1>2 DEF C!vars, chainVars, settings

(* Prospeo's find ended with v, at the cost of its last key or not.        *)
LEMMA ProspeoIsReply ==
    ASSUME ResolutionInv, NEW c \in Calls, pFind[c].pc \in {"wire", "log"},
           ~P!InFlight(c)', AfterProspeo(c),
           NEW v \in {"hit", "miss", "unavailable"}, pFind'[c].answer = v,
           P!Enabled(pPool)' => P!Enabled(pPool),
           v # "unavailable" => (P!Enabled(pPool)' <=> P!Enabled(pPool))
    PROVE  \E lost \in BOOLEAN : C!Reply(c, v, lost)
<1> DEFINE g == C!Flagged(chain[c], v)
           told == [said[c] EXCEPT ![1] = v]
<1>1. /\ ProspeoSays(c, chain[c], said[c], v) /\ fallback' = fallback
      /\ chain[c].tier = 1 /\ chain[c] \in C!CallType /\ said[c] \in SaidType
      /\ A!ClientTypeOK
  BY WaitingForProspeo DEF AfterProspeo, settings
<1>2. g \in C!CallType /\ told \in SaidType /\ C!Told(c, v) = told
  BY <1>1, FlagsOfLoop DEF C!Told, SaidType, C!Outcomes
<1>3. PICK lost \in BOOLEAN : lost <=> (P!Enabled(pPool) /\ ~P!Enabled(pPool)')
  OBVIOUS
<1>4. ASSUME A!Enabled(aPool)' <=> A!Enabled(aPool)
      PROVE  enabled' = IF lost THEN [enabled EXCEPT ![1] = FALSE] ELSE enabled
  BY <1>3, <1>4, EnabledAfter
<1>5. (lost => v = "unavailable") /\ chain[c].tier # 0 /\ chain[c].tier + 1 = 2
  BY <1>1, <1>3
<1> HIDE DEF g, told
<1>6. CASE C!GoesOn(v)
  <2>1. AskApollo(c, g, told)
    BY <1>1, <1>6 DEF ProspeoSays, g, told
  <2>2. C!AskNext(c, g, 2, told)
    BY <1>1, <1>2, <2>1, ApolloIsSecondTier
  <2>3. enabled' = IF lost THEN [enabled EXCEPT ![1] = FALSE] ELSE enabled
    BY <1>1, <1>4, <2>1, ApolloKeepsKeys
  <2>4. C!AskNext(c, C!Flagged(chain[c], v), chain[c].tier + 1, C!Told(c, v))
    BY <1>2, <1>5, <2>2 DEF g
  <2> QED BY <1>1, <1>5, <1>6, <2>3, <2>4 DEF C!Reply
<1>7. CASE ~C!GoesOn(v)
  <2>1. Ends(c, g, v, told) /\ UNCHANGED apolloVars
    BY <1>1, <1>7 DEF ProspeoSays, g, told
  <2>2. enabled' = IF lost THEN [enabled EXCEPT ![1] = FALSE] ELSE enabled
    BY <1>4, <2>1, KeysKept DEF apolloVars
  <2>3. /\ chain' = [chain EXCEPT ![c] = C!Ended(C!Flagged(chain[c], v), v)]
        /\ said' = [said EXCEPT ![c] = C!Told(c, v)]
    BY <1>2, <2>1 DEF Ends, g
  <2> QED BY <1>1, <1>5, <1>7, <2>2, <2>3 DEF C!Reply
<1> QED BY <1>6, <1>7

LEMMA ProspeoRepliedIsReply ==
    ASSUME ResolutionInv, NEW c \in Calls, NEW f \in ProspeoEffects, ProspeoReplied(c, f)
    PROVE  \/ \E v \in C!Outcomes, lost \in BOOLEAN : C!Reply(c, v, lost)
           \/ UNCHANGED C!vars
<1>1. AfterProspeo(c) /\ P!ClientTypeOK /\ (P!Rotate(c, f) \/ P!Answer(c, f))
  BY TypeParts DEF ProspeoReplied, ResolutionInv
<1>2. CASE P!Rotate(c, f)
  <2>1. /\ ProspeoAfter(c) /\ pPool.dead \subseteq pPool'.dead /\ pFind[c].pc = "wire"
        /\ \/ pFind'[c].pc = "wire"
           \/ pFind'[c].pc = "done" /\ pFind'[c].answer = "unavailable"
    BY <1>1, <1>2, ProspeoRotates
  <2>2. P!Enabled(pPool)' => P!Enabled(pPool)
    BY <2>1, KeysKept
  <2>3. CASE pFind'[c].pc = "wire"
    <3>1. P!InFlight(c)' /\ P!Enabled(pPool)'
      BY <2>1, <2>3 DEF ProspeoAfter, P!InFlight
    <3> QED BY <1>1, <2>2, <3>1, ProspeoStaysHidden
  <2>4. CASE pFind'[c].pc = "done" /\ pFind'[c].answer = "unavailable"
    <3>1. PICK v \in {"hit", "miss", "unavailable"} : v = "unavailable"
      OBVIOUS
    <3>2. \E lost \in BOOLEAN : C!Reply(c, v, lost)
      BY <1>1, <2>1, <2>2, <2>4, <3>1, ProspeoIsReply DEF P!InFlight
    <3> QED BY <3>2 DEF C!Outcomes
  <2> QED BY <2>1, <2>3, <2>4
<1>3. CASE P!Answer(c, f)
  <2>1. pPool' = pPool /\ pFind'[c].pc = "log"
    BY <1>1, <1>3, ProspeoAnswers
  <2>2. P!Enabled(pPool)' <=> P!Enabled(pPool)
    BY <2>1, KeysKept
  <2> QED BY <1>1, <2>1, <2>2, ProspeoStaysHidden DEF P!InFlight
<1> QED BY <1>1, <1>2, <1>3

LEMMA ProspeoLoggedIsReply ==
    ASSUME ResolutionInv, NEW c \in Calls, NEW written \in BOOLEAN,
           ProspeoLogged(c, written)
    PROVE  \E v \in C!Outcomes, lost \in BOOLEAN : C!Reply(c, v, lost)
<1>1. P!LogUsage(c, written) /\ AfterProspeo(c) /\ P!ClientTypeOK
  BY TypeParts DEF ProspeoLogged, ResolutionInv
<1>2. /\ pPool' = pPool /\ pFind[c].pc = "log" /\ pFind'[c].pc = "done"
      /\ pFind'[c].answer = pFind[c].answer
  BY <1>1, ProspeoLogs
<1>3. PICK v \in {"hit", "miss"} : v = pFind[c].answer
  BY <1>2, WaitingForProspeo
<1>4. P!Enabled(pPool)' <=> P!Enabled(pPool)
  BY <1>2, KeysKept
<1>5. \E lost \in BOOLEAN : C!Reply(c, v, lost)
  BY <1>1, <1>2, <1>3, <1>4, ProspeoIsReply DEF P!InFlight
<1> QED BY <1>5 DEF C!Outcomes

(* Apollo's find is still on its way: the chain sees nothing.              *)
LEMMA ApolloStaysHidden ==
    ASSUME NEW c \in Calls, A!InFlight(c)', AfterApollo(c),
           A!Enabled(aPool)' <=> A!Enabled(aPool)
    PROVE  UNCHANGED C!vars
<1>1. UNCHANGED <<prospeoVars, chainVars, settings>>
  BY DEF AfterApollo
<1>2. enabled' = enabled
  BY <1>1, EnabledAfter, KeysKept DEF prospeoVars
<1> QED BY <1>1, <1>2 DEF C!vars, chainVars, settings

(* Apollo's find ended with v, at the cost of its last key or not.         *)
LEMMA ApolloIsReply ==
    ASSUME ResolutionInv, NEW c \in Calls, aFind[c].pc \in {"wire", "log"},
           ~A!InFlight(c)', AfterApollo(c),
           NEW v \in {"hit", "miss", "unavailable"}, aFind'[c].answer = v,
           A!Enabled(aPool)' => A!Enabled(aPool),
           v # "unavailable" => (A!Enabled(aPool)' <=> A!Enabled(aPool))
    PROVE  \E lost \in BOOLEAN : C!Reply(c, v, lost)
<1> DEFINE g == C!Flagged(chain[c], v)
           told == [said[c] EXCEPT ![2] = v]
           a == IF C!GoesOn(v) THEN C!AfterLoop(g) ELSE v
<1>1. /\ ApolloSays(c, chain[c], said[c], v) /\ fallback' = fallback
      /\ chain[c].tier = 2 /\ chain[c] \in C!CallType /\ said[c] \in SaidType
      /\ UNCHANGED prospeoVars
  BY WaitingForApollo DEF AfterApollo, settings
<1>2. g \in C!CallType /\ told \in SaidType /\ C!Told(c, v) = told
  BY <1>1, FlagsOfLoop DEF C!Told, SaidType, C!Outcomes
<1>3. PICK lost \in BOOLEAN : lost <=> (A!Enabled(aPool) /\ ~A!Enabled(aPool)')
  OBVIOUS
<1>4. enabled' = IF lost THEN [enabled EXCEPT ![2] = FALSE] ELSE enabled
  BY <1>1, <1>3, EnabledAfter, KeysKept DEF prospeoVars
<1>5. (lost => v = "unavailable") /\ chain[c].tier # 0 /\ chain[c].tier + 1 = 3
  BY <1>1, <1>3
<1>6. /\ chain' = [chain EXCEPT ![c] = C!Ended(g, a)]
      /\ said' = [said EXCEPT ![c] = told]
  BY <1>1 DEF ApolloSays, Ends
<1> HIDE DEF g, told
<1>7. CASE C!GoesOn(v)
  <2>1. PICK t \in 1..3 : t = 3
    OBVIOUS
  <2>2. C!AskNext(c, g, t, told)
    BY <1>2, <1>6, <1>7, <2>1, StopsHere
  <2>3. C!AskNext(c, C!Flagged(chain[c], v), chain[c].tier + 1, C!Told(c, v))
    BY <1>2, <1>5, <2>1, <2>2 DEF g
  <2> QED BY <1>1, <1>4, <1>5, <1>7, <2>3 DEF C!Reply
<1>8. CASE ~C!GoesOn(v)
  <2>1. /\ chain' = [chain EXCEPT ![c] = C!Ended(C!Flagged(chain[c], v), v)]
        /\ said' = [said EXCEPT ![c] = C!Told(c, v)]
    BY <1>2, <1>6, <1>8 DEF g
  <2> QED BY <1>1, <1>4, <1>5, <1>8, <2>1 DEF C!Reply
<1> QED BY <1>7, <1>8

LEMMA ApolloRepliedIsReply ==
    ASSUME ResolutionInv, NEW c \in Calls, NEW f \in ApolloEffects, ApolloReplied(c, f)
    PROVE  \/ \E v \in C!Outcomes, lost \in BOOLEAN : C!Reply(c, v, lost)
           \/ UNCHANGED C!vars
<1>1. AfterApollo(c) /\ A!ClientTypeOK /\ (A!Rotate(c, f) \/ A!Answer(c, f))
  BY TypeParts DEF ApolloReplied, ResolutionInv
<1>2. CASE A!Rotate(c, f)
  <2>1. /\ ApolloAfter(c) /\ aPool.dead \subseteq aPool'.dead /\ aFind[c].pc = "wire"
        /\ \/ aFind'[c].pc = "wire"
           \/ aFind'[c].pc = "done" /\ aFind'[c].answer = "unavailable"
    BY <1>1, <1>2, ApolloRotates
  <2>2. A!Enabled(aPool)' => A!Enabled(aPool)
    BY <2>1, KeysKept
  <2>3. CASE aFind'[c].pc = "wire"
    <3>1. A!InFlight(c)' /\ A!Enabled(aPool)'
      BY <2>1, <2>3 DEF ApolloAfter, A!InFlight
    <3> QED BY <1>1, <2>2, <3>1, ApolloStaysHidden
  <2>4. CASE aFind'[c].pc = "done" /\ aFind'[c].answer = "unavailable"
    <3>1. PICK v \in {"hit", "miss", "unavailable"} : v = "unavailable"
      OBVIOUS
    <3>2. \E lost \in BOOLEAN : C!Reply(c, v, lost)
      BY <1>1, <2>1, <2>2, <2>4, <3>1, ApolloIsReply DEF A!InFlight
    <3> QED BY <3>2 DEF C!Outcomes
  <2> QED BY <2>1, <2>3, <2>4
<1>3. CASE A!Answer(c, f)
  <2>1. aPool' = aPool /\ aFind'[c].pc = "log"
    BY <1>1, <1>3, ApolloAnswers
  <2>2. A!Enabled(aPool)' <=> A!Enabled(aPool)
    BY <2>1, KeysKept
  <2> QED BY <1>1, <2>1, <2>2, ApolloStaysHidden DEF A!InFlight
<1> QED BY <1>1, <1>2, <1>3

LEMMA ApolloLoggedIsReply ==
    ASSUME ResolutionInv, NEW c \in Calls, NEW written \in BOOLEAN,
           ApolloLogged(c, written)
    PROVE  \E v \in C!Outcomes, lost \in BOOLEAN : C!Reply(c, v, lost)
<1>1. A!LogUsage(c, written) /\ AfterApollo(c) /\ A!ClientTypeOK
  BY TypeParts DEF ApolloLogged, ResolutionInv
<1>2. /\ aPool' = aPool /\ aFind[c].pc = "log" /\ aFind'[c].pc = "done"
      /\ aFind'[c].answer = aFind[c].answer
  BY <1>1, ApolloLogs
<1>3. PICK v \in {"hit", "miss"} : v = aFind[c].answer
  BY <1>2, WaitingForApollo
<1>4. A!Enabled(aPool)' <=> A!Enabled(aPool)
  BY <1>2, KeysKept
<1>5. \E lost \in BOOLEAN : C!Reply(c, v, lost)
  BY <1>1, <1>2, <1>3, <1>4, ApolloIsReply DEF A!InFlight
<1> QED BY <1>5 DEF C!Outcomes

(* The steps that are none of the chain's.                                 *)
LEMMA OthersAreHidden ==
    ASSUME UNCHANGED <<chainVars, settings>>, pPool' = pPool, aPool' = aPool
    PROVE  UNCHANGED C!vars
<1>1. enabled' = enabled
  BY EnabledAfter, KeysKept
<1> QED BY <1>1 DEF C!vars, chainVars, settings

LEMMA InitIsInit == Init => C!Init
<1> SUFFICES ASSUME Init PROVE C!Init
  OBVIOUS
<1>1. P!Enabled(pPool) /\ A!Enabled(aPool)
  BY ProspeoStarts, ApolloStarts DEF Init
<1> QED BY <1>1, EnabledAfter DEF Init, C!Init

LEMMA RestartIsRestart == ResolutionInv /\ Restart => C!Restart
<1> SUFFICES ASSUME ResolutionInv, Restart PROVE C!Restart
  OBVIOUS
<1>1. P!Enabled(pPool)' /\ A!Enabled(aPool)'
  BY TypeParts, ProspeoStarts, ApolloStarts DEF Restart, ResolutionInv
<1> QED BY <1>1, EnabledAfter DEF Restart, C!Restart

LEMMA NextIsNext == ResolutionInv /\ [Next]_vars => [C!Next]_(C!vars)
<1> SUFFICES ASSUME ResolutionInv, [Next]_vars PROVE C!Next \/ UNCHANGED C!vars
  OBVIOUS
<1>1. ASSUME NEW c \in Calls, ResolveBlank(c) \/ Verified(c) PROVE UNCHANGED C!vars
  BY <1>1, OthersAreHidden DEF ResolveBlank, Verified, prospeoVars, apolloVars
<1>2. ASSUME Tick PROVE UNCHANGED C!vars
  BY <1>2, OthersAreHidden DEF Tick, P!Tick, A!Tick
<1>3. ASSUME UNCHANGED vars PROVE UNCHANGED C!vars
  BY <1>3, OthersAreHidden DEF vars, prospeoVars, apolloVars
<1>4. ASSUME NEW c \in Calls, Resolve(c) PROVE C!Next \/ UNCHANGED C!vars
  BY <1>4, ResolveIsFind DEF C!Next
<1>5. ASSUME NEW c \in Calls, Proceeds(c) PROVE C!Next \/ UNCHANGED C!vars
  <2>1. \/ \E v \in C!Outcomes, lost \in BOOLEAN : C!Reply(c, v, lost)
        \/ UNCHANGED C!vars
    BY <1>1, <1>5, ProspeoRepliedIsReply, ProspeoLoggedIsReply, ApolloRepliedIsReply,
       ApolloLoggedIsReply DEF Proceeds
  <2> QED BY <2>1 DEF C!Next
<1>6. ASSUME Restart PROVE C!Next
  BY <1>6, RestartIsRestart DEF C!Next
<1> QED BY <1>1, <1>2, <1>3, <1>4, <1>5, <1>6 DEF Next

(* Prospeo and Apollo behind one loop, sharing their keys among the calls, *)
(* are the two tiers of ChainedFinder.tla: what is proved of the chain     *)
(* holds of every resolution (finder.py:118-163; prospeo.py:124-225).      *)
THEOREM ResolutionImplementsChain == Spec => ImplementsChain
BY InitIsInit, NextIsNext, ResolutionInvariant, PTL DEF Spec, ImplementsChain, C!Spec

-----------------------------------------------------------------------------
(* Every step of a call takes it nearer its end *)

LEMMA StepsAhead ==
    ASSUME NEW c \in Calls
    PROVE  /\ ResolutionInv =>
              /\ TriesLeft(pFind[c]) \in Nat /\ TriesLeft(aFind[c]) \in Nat
              /\ P!InFlight(c) => StepsToGo(c) = TriesLeft(pFind[c]) + NumApollo + 3
              /\ A!InFlight(c) => StepsToGo(c) = TriesLeft(aFind[c]) + 2
              /\ ~P!InFlight(c) /\ ~A!InFlight(c) =>
                    StepsToGo(c) = IF request[c].pc = "verify" THEN 1 ELSE 0
           /\ ResolutionInv' =>
              /\ TriesLeft(pFind'[c]) \in Nat /\ TriesLeft(aFind'[c]) \in Nat
              /\ P!InFlight(c)' => StepsToGo(c)' = TriesLeft(pFind'[c]) + NumApollo + 3
              /\ A!InFlight(c)' => StepsToGo(c)' = TriesLeft(aFind'[c]) + 2
              /\ ~P!InFlight(c)' /\ ~A!InFlight(c)' =>
                    StepsToGo(c)' = IF request'[c].pc = "verify" THEN 1 ELSE 0
<1>1. ASSUME ResolutionInv
      PROVE  /\ TriesLeft(pFind[c]) \in Nat /\ TriesLeft(aFind[c]) \in Nat
             /\ P!InFlight(c) => StepsToGo(c) = TriesLeft(pFind[c]) + NumApollo + 3
             /\ A!InFlight(c) => StepsToGo(c) = TriesLeft(aFind[c]) + 2
             /\ ~P!InFlight(c) /\ ~A!InFlight(c) =>
                   StepsToGo(c) = IF request[c].pc = "verify" THEN 1 ELSE 0
  <2>1. /\ pFind[c] \in P!CallType /\ aFind[c] \in A!CallType
        /\ P!InFlight(c) <=> chain[c].tier = 1
        /\ A!InFlight(c) <=> chain[c].tier = 2
        /\ (request[c].pc = "find") <=> (chain[c].tier # 0)
        /\ chain[c].tier \in {0, 1, 2}
    BY <1>1, TypeParts DEF ResolutionInv, CallInv, ChainTypeOK, P!ClientTypeOK,
                           A!ClientTypeOK, C!CallType, C!Tiers
  <2>2. TriesLeft(pFind[c]) \in Nat /\ TriesLeft(aFind[c]) \in Nat
    BY <2>1 DEF TriesLeft, P!CallType, A!CallType
  <2> QED BY <2>1, <2>2 DEF StepsToGo
<1>2. ASSUME ResolutionInv'
      PROVE  /\ TriesLeft(pFind'[c]) \in Nat /\ TriesLeft(aFind'[c]) \in Nat
             /\ P!InFlight(c)' => StepsToGo(c)' = TriesLeft(pFind'[c]) + NumApollo + 3
             /\ A!InFlight(c)' => StepsToGo(c)' = TriesLeft(aFind'[c]) + 2
             /\ ~P!InFlight(c)' /\ ~A!InFlight(c)' =>
                   StepsToGo(c)' = IF request'[c].pc = "verify" THEN 1 ELSE 0
  <2>0. TypeOK' => /\ P!ClientTypeOK' /\ A!ClientTypeOK' /\ ChainTypeOK'
    BY EnabledType DEF TypeOK, C!TypeOK, ChainTypeOK, SaidType
  <2>1. /\ pFind'[c] \in P!CallType /\ aFind'[c] \in A!CallType
        /\ P!InFlight(c)' <=> chain'[c].tier = 1
        /\ A!InFlight(c)' <=> chain'[c].tier = 2
        /\ (request'[c].pc = "find") <=> (chain'[c].tier # 0)
        /\ chain'[c].tier \in {0, 1, 2}
    BY <1>2, <2>0 DEF ResolutionInv, CallInv, ChainTypeOK, P!ClientTypeOK,
                      A!ClientTypeOK, C!CallType, C!Tiers
  <2>2. TriesLeft(pFind'[c]) \in Nat /\ TriesLeft(aFind'[c]) \in Nat
    BY <2>1 DEF TriesLeft, P!CallType, A!CallType
  <2> QED BY <2>1, <2>2 DEF StepsToGo
<1> QED BY <1>1, <1>2

(* A loop that goes on has each of Apollo's keys to try at most once.      *)
LEMMA ApolloAhead ==
    ASSUME A!ClientTypeOK, NEW c \in Calls, ~A!InFlight(c), NEW f, NEW w, NEW v,
           ProspeoSays(c, f, w, v)
    PROVE  \/ ~A!InFlight(c)'
           \/ aFind'[c].pc = "wire" /\ aFind'[c].left < NumApollo
<1>1. UNCHANGED apolloVars \/ A!Begin(c)
  BY DEF ProspeoSays, AskApollo
<1>2. CASE UNCHANGED apolloVars
  BY <1>2 DEF apolloVars, A!InFlight
<1>3. CASE A!Begin(c)
  BY <1>3, ApolloBegins DEF A!InFlight
<1> QED BY <1>1, <1>2, <1>3

LEMMA ProspeoLeftBehind ==
    ASSUME ResolutionInv, ResolutionInv', NEW c \in Calls, pFind[c].pc \in {"wire", "log"},
           ~P!InFlight(c)', AfterProspeo(c)
    PROVE  StepsToGo(c)' < StepsToGo(c)
<1>1. P!InFlight(c) /\ A!ClientTypeOK /\ ~A!InFlight(c)
  BY WaitingForProspeo DEF P!InFlight
<1>2. StepsToGo(c) = TriesLeft(pFind[c]) + NumApollo + 3 /\ TriesLeft(pFind[c]) \in Nat
  BY <1>1, StepsAhead
<1>3. CASE ~A!InFlight(c)'
  <2>1. StepsToGo(c)' \in {0, 1}
    BY <1>3, StepsAhead
  <2> QED BY <1>2, <2>1, ResolutionAssumption
<1>4. CASE A!InFlight(c)'
  <2>1. aFind'[c].pc = "wire" /\ aFind'[c].left < NumApollo
    BY <1>1, <1>4, ApolloAhead DEF AfterProspeo
  <2>2. /\ StepsToGo(c)' = TriesLeft(aFind'[c]) + 2
        /\ TriesLeft(aFind'[c]) = aFind'[c].left + 1 /\ aFind'[c].left \in Nat
    <3>1. A!ClientTypeOK'
      BY DEF ResolutionInv, TypeOK
    <3>2. aFind'[c].left \in Nat
      BY <3>1 DEF A!ClientTypeOK, A!CallType
    <3> QED BY <1>4, <2>1, <3>2, StepsAhead DEF TriesLeft
  <2> QED BY <1>2, <2>1, <2>2, ResolutionAssumption
<1> QED BY <1>3, <1>4

LEMMA ProspeoGoesForward ==
    ASSUME ResolutionInv, ResolutionInv', NEW c \in Calls,
           \/ \E f \in ProspeoEffects : ProspeoReplied(c, f)
           \/ \E written \in BOOLEAN : ProspeoLogged(c, written)
    PROVE  StepsToGo(c)' < StepsToGo(c)
<1>1. P!ClientTypeOK
  BY TypeParts DEF ResolutionInv
<1>2. ASSUME NEW f \in ProspeoEffects, ProspeoReplied(c, f)
      PROVE  StepsToGo(c)' < StepsToGo(c)
  <2>1. /\ pFind[c].pc = "wire" /\ AfterProspeo(c)
        /\ \/ pFind'[c].pc = "wire" /\ pFind'[c].left < pFind[c].left
           \/ pFind'[c].pc = "log"
           \/ pFind'[c].pc = "done"
    BY <1>1, <1>2, ProspeoRotates, ProspeoAnswers DEF ProspeoReplied
  <2>2. /\ StepsToGo(c) = pFind[c].left + 1 + NumApollo + 3
        /\ pFind[c].left \in Nat
    BY <1>1, <2>1, StepsAhead DEF P!InFlight, TriesLeft, P!ClientTypeOK, P!CallType
  <2>3. ASSUME pFind'[c].pc = "wire", pFind'[c].left < pFind[c].left
        PROVE  StepsToGo(c)' < StepsToGo(c)
    <3>1. StepsToGo(c)' = pFind'[c].left + 1 + NumApollo + 3
      BY <2>3, StepsAhead DEF P!InFlight, TriesLeft
    <3>2. pFind'[c].left \in Nat
      <4>1. P!ClientTypeOK'
        BY DEF ResolutionInv, TypeOK
      <4> QED BY <4>1 DEF P!ClientTypeOK, P!CallType
    <3> QED BY <2>2, <2>3, <3>1, <3>2, ResolutionAssumption
  <2>4. CASE pFind'[c].pc = "log"
    <3>1. StepsToGo(c)' = 0 + NumApollo + 3
      BY <2>4, StepsAhead DEF P!InFlight, TriesLeft
    <3> QED BY <2>2, <3>1, ResolutionAssumption
  <2>5. CASE pFind'[c].pc = "done"
    BY <2>1, <2>5, ProspeoLeftBehind DEF P!InFlight
  <2> QED BY <2>1, <2>3, <2>4, <2>5
<1>3. ASSUME NEW written \in BOOLEAN, ProspeoLogged(c, written)
      PROVE  StepsToGo(c)' < StepsToGo(c)
  <2>1. pFind[c].pc = "log" /\ pFind'[c].pc = "done" /\ AfterProspeo(c)
    BY <1>1, <1>3, ProspeoLogs DEF ProspeoLogged
  <2> QED BY <2>1, ProspeoLeftBehind DEF P!InFlight
<1> QED BY <1>2, <1>3

LEMMA ApolloGoesForward ==
    ASSUME ResolutionInv, ResolutionInv', NEW c \in Calls,
           \/ \E f \in ApolloEffects : ApolloReplied(c, f)
           \/ \E written \in BOOLEAN : ApolloLogged(c, written)
    PROVE  StepsToGo(c)' < StepsToGo(c)
<1>1. A!ClientTypeOK
  BY TypeParts DEF ResolutionInv
<1>2. /\ AfterApollo(c) /\ aFind[c].pc \in {"wire", "log"}
      /\ \/ aFind[c].pc = "wire" /\ aFind'[c].pc = "wire" /\ aFind'[c].left < aFind[c].left
         \/ aFind[c].pc = "wire" /\ aFind'[c].pc = "log"
         \/ aFind'[c].pc = "done"
  BY <1>1, ApolloRotates, ApolloAnswers, ApolloLogs DEF ApolloReplied, ApolloLogged
<1>3. A!InFlight(c) /\ ~P!InFlight(c) /\ ~P!InFlight(c)'
  BY <1>2, WaitingForApollo DEF AfterApollo, prospeoVars, P!InFlight, A!InFlight
<1>4. StepsToGo(c) = TriesLeft(aFind[c]) + 2 /\ TriesLeft(aFind[c]) \in Nat
  BY <1>3, StepsAhead
<1>5. ASSUME aFind[c].pc = "wire", aFind'[c].pc = "wire", aFind'[c].left < aFind[c].left
      PROVE  StepsToGo(c)' < StepsToGo(c)
  <2>1. /\ StepsToGo(c)' = aFind'[c].left + 1 + 2
        /\ StepsToGo(c) = aFind[c].left + 1 + 2
    BY <1>4, <1>5, StepsAhead DEF A!InFlight, TriesLeft
  <2>2. aFind'[c].left \in Nat /\ aFind[c].left \in Nat
    <3>1. A!ClientTypeOK'
      BY DEF ResolutionInv, TypeOK
    <3> QED BY <1>1, <3>1 DEF A!ClientTypeOK, A!CallType
  <2> QED BY <1>5, <2>1, <2>2
<1>6. ASSUME aFind[c].pc = "wire", aFind'[c].pc = "log"
      PROVE  StepsToGo(c)' < StepsToGo(c)
  <2>1. StepsToGo(c)' = 0 + 2
    BY <1>6, StepsAhead DEF A!InFlight, TriesLeft
  <2>2. StepsToGo(c) = aFind[c].left + 1 + 2 /\ aFind[c].left \in Nat
    BY <1>1, <1>4, <1>6 DEF TriesLeft, A!ClientTypeOK, A!CallType
  <2> QED BY <2>1, <2>2
<1>7. CASE aFind'[c].pc = "done"
  <2>1. StepsToGo(c)' \in {0, 1}
    BY <1>3, <1>7, StepsAhead DEF A!InFlight
  <2> QED BY <1>4, <2>1
<1> QED BY <1>2, <1>5, <1>6, <1>7

LEMMA VerifiedGoesForward ==
    ASSUME ResolutionInv, ResolutionInv', NEW c \in Calls, Verified(c)
    PROVE  StepsToGo(c)' < StepsToGo(c)
<1>1. /\ ~P!InFlight(c) /\ ~A!InFlight(c) /\ request[c].pc = "verify"
      /\ ~P!InFlight(c)' /\ ~A!InFlight(c)'
  BY TypeParts DEF Verified, ResolutionInv, ChainTypeOK, CallInv, P!InFlight, A!InFlight,
                   prospeoVars, apolloVars
<1>2. request'[c].pc = "done"
  BY VerifiedEnds
<1> QED BY <1>1, <1>2, StepsAhead

Frame(c) ==
    \A d \in Calls \ {c} : chain'[d] = chain[d] /\ request'[d] = request[d]

Alone(c) == \A d \in Calls \ {c} : Progress(d)' = Progress(d)

LEMMA BecomesFrame ==
    ASSUME ChainTypeOK, NEW c \in Calls, NEW g, NEW r,
           chain' = [chain EXCEPT ![c] = g], Becomes(c, r)
    PROVE  Frame(c)
BY DEF ChainTypeOK, Becomes, Frame

LEMMA EndsFrame ==
    ASSUME ChainTypeOK, NEW c \in Calls, NEW f, NEW a, NEW w, Ends(c, f, a, w)
    PROVE  Frame(c)
<1>1. PICK r : Becomes(c, r)
  BY DEF Ends, Concludes
<1> QED BY <1>1, BecomesFrame DEF Ends

LEMMA AskApolloFrame ==
    ASSUME ChainTypeOK, A!ClientTypeOK, NEW c \in Calls, NEW f, NEW w, AskApollo(c, f, w)
    PROVE  Frame(c) /\ \A d \in Calls \ {c} : aFind'[d] = aFind[d]
<1>1. CASE A!Begin(c)
  <2>1. \A d \in Calls \ {c} : aFind'[d] = aFind[d]
    BY <1>1, ApolloBegins DEF ApolloAfter
  <2>2. CASE WaitsFor(c, 2, f, w)
    BY <2>1, <2>2, BecomesFrame DEF WaitsFor
  <2>3. CASE ApolloSays(c, f, w, aFind'[c].answer)
    BY <2>1, <2>3, EndsFrame DEF ApolloSays
  <2>4. CASE ~A!Enabled(aPool)
    BY <2>1, <2>4, EndsFrame DEF AskApollo
  <2> QED BY <2>2, <2>3, <2>4 DEF AskApollo
<1>2. CASE ~A!Enabled(aPool) /\ UNCHANGED apolloVars
  BY <1>2, EndsFrame DEF AskApollo, apolloVars
<1> QED BY <1>1, <1>2 DEF AskApollo

LEMMA ProspeoSaysFrame ==
    ASSUME ChainTypeOK, A!ClientTypeOK, NEW c \in Calls, NEW f, NEW w, NEW v,
           ProspeoSays(c, f, w, v)
    PROVE  Frame(c) /\ \A d \in Calls \ {c} : aFind'[d] = aFind[d]
BY AskApolloFrame, EndsFrame DEF ProspeoSays, apolloVars

LEMMA AfterProspeoFrame ==
    ASSUME ChainTypeOK, A!ClientTypeOK, NEW c \in Calls, ProspeoAfter(c), AfterProspeo(c)
    PROVE  Alone(c)
<1>1. Frame(c) /\ \A d \in Calls \ {c} : aFind'[d] = aFind[d]
  <2>1. CASE P!InFlight(c)'
    BY <2>1 DEF AfterProspeo, Frame, chainVars, apolloVars
  <2>2. CASE ~P!InFlight(c)'
    BY <2>2, ProspeoSaysFrame DEF AfterProspeo
  <2> QED BY <2>1, <2>2
<1> QED BY <1>1 DEF ProspeoAfter, Frame, Alone, Progress

LEMMA AfterApolloFrame ==
    ASSUME ChainTypeOK, NEW c \in Calls, ApolloAfter(c), AfterApollo(c)
    PROVE  Alone(c)
<1>1. Frame(c)
  <2>1. CASE A!InFlight(c)'
    BY <2>1 DEF AfterApollo, Frame, chainVars
  <2>2. CASE ~A!InFlight(c)'
    BY <2>2, EndsFrame DEF AfterApollo, ApolloSays
  <2> QED BY <2>1, <2>2
<1> QED BY <1>1 DEF ApolloAfter, AfterApollo, Frame, Alone, Progress, prospeoVars

LEMMA ProceedsAlone ==
    ASSUME ResolutionInv, NEW c \in Calls, Proceeds(c)
    PROVE  Alone(c)
<1>1. P!ClientTypeOK /\ A!ClientTypeOK /\ ChainTypeOK
  BY TypeParts DEF ResolutionInv
<1>2. ASSUME NEW f \in ProspeoEffects, ProspeoReplied(c, f) PROVE Alone(c)
  BY <1>1, <1>2, ProspeoRotates, ProspeoAnswers, AfterProspeoFrame DEF ProspeoReplied
<1>3. ASSUME NEW f \in ApolloEffects, ApolloReplied(c, f) PROVE Alone(c)
  BY <1>1, <1>3, ApolloRotates, ApolloAnswers, AfterApolloFrame DEF ApolloReplied
<1>4. ASSUME NEW written \in BOOLEAN, ProspeoLogged(c, written) PROVE Alone(c)
  BY <1>1, <1>4, ProspeoLogs, AfterProspeoFrame DEF ProspeoLogged
<1>5. ASSUME NEW written \in BOOLEAN, ApolloLogged(c, written) PROVE Alone(c)
  BY <1>1, <1>5, ApolloLogs, AfterApolloFrame DEF ApolloLogged
<1>6. ASSUME Verified(c) PROVE Alone(c)
  <2>1. UNCHANGED <<prospeoVars, apolloVars, chainVars>>
    BY <1>6 DEF Verified
  <2>2. \A d \in Calls \ {c} : request'[d] = request[d]
    BY <1>1, <1>6, VerifiedEnds DEF ChainTypeOK
  <2> QED BY <2>1, <2>2 DEF Alone, Progress, prospeoVars, apolloVars, chainVars
<1> QED BY <1>2, <1>3, <1>4, <1>5, <1>6 DEF Proceeds

LEMMA BeginsAlone ==
    ASSUME ResolutionInv, NEW c \in Calls, ResolveBlank(c) \/ Resolve(c)
    PROVE  Alone(c)
<1>1. P!ClientTypeOK /\ A!ClientTypeOK /\ ChainTypeOK
  BY TypeParts DEF ResolutionInv
<1>2. ASSUME UNCHANGED <<prospeoVars, apolloVars, chainVars>>, NEW r, Becomes(c, r)
      PROVE  Alone(c)
  BY <1>1, <1>2 DEF ChainTypeOK, Becomes, Alone, Progress, prospeoVars, apolloVars, chainVars
<1>3. CASE ResolveBlank(c) \/ enabled = <<FALSE, FALSE>>
  BY <1>2, <1>3 DEF ResolveBlank, Resolve
<1>4. CASE AskProspeo(c, C!NoFind, C!Silence)
  <2>1. CASE UNCHANGED prospeoVars /\ \E w : AskApollo(c, C!NoFind, w)
    BY <1>1, <2>1, AskApolloFrame DEF Frame, Alone, Progress, prospeoVars
  <2>2. CASE P!Begin(c)
    <3>1. \A d \in Calls \ {c} : pFind'[d] = pFind[d]
      BY <1>1, <2>2, ProspeoBegins DEF ProspeoAfter
    <3>2. Frame(c) /\ \A d \in Calls \ {c} : aFind'[d] = aFind[d]
      <4>1. CASE WaitsFor(c, 1, C!NoFind, C!Silence) /\ UNCHANGED apolloVars
        BY <1>1, <4>1, BecomesFrame DEF WaitsFor, apolloVars
      <4>2. CASE ProspeoSays(c, C!NoFind, C!Silence, pFind'[c].answer)
        BY <1>1, <4>2, ProspeoSaysFrame
      <4>3. CASE UNCHANGED prospeoVars /\ \E w : AskApollo(c, C!NoFind, w)
        BY <1>1, <4>3, AskApolloFrame
      <4> QED BY <1>4, <4>1, <4>2, <4>3 DEF AskProspeo
    <3> QED BY <3>1, <3>2 DEF Frame, Alone, Progress
  <2> QED BY <1>4, <2>1, <2>2 DEF AskProspeo
<1> QED BY <1>3, <1>4 DEF Resolve

(* Every step of a resolution takes it nearer its end, by a count that     *)
(* other calls cannot raise by parking and killing the keys under it, for  *)
(* any number of keys (prospeo.py:128-225; apollo/client.py:111-134;       *)
(* finder.py:118-163).                                                     *)
THEOREM EveryResolutionWindsDown == Spec => ResolutionsWindDown
<1> DEFINE Forward(c) ==
              request[c].pc \in {"find", "verify"} /\ Progress(c)' # Progress(c) =>
                  StepsToGo(c)' < StepsToGo(c)
<1>1. ASSUME ResolutionInv, ResolutionInv', Next, NEW c \in Calls
      PROVE  Forward(c)
  <2>1. ASSUME NEW d \in Calls, ResolveBlank(d) \/ Resolve(d)
        PROVE  Forward(c)
    <3>1. CASE c = d
      BY <1>1, <2>1, <3>1, IdleCall DEF ResolveBlank, Resolve
    <3>2. CASE c # d
      BY <1>1, <2>1, <3>2, BeginsAlone DEF Alone
    <3> QED BY <3>1, <3>2
  <2>2. ASSUME NEW d \in Calls, Proceeds(d)
        PROVE  Forward(c)
    <3>1. CASE c = d
      BY <1>1, <2>2, <3>1, ProspeoGoesForward, ApolloGoesForward, VerifiedGoesForward
         DEF Proceeds
    <3>2. CASE c # d
      BY <1>1, <2>2, <3>2, ProceedsAlone DEF Alone
    <3> QED BY <3>1, <3>2
  <2>3. CASE Tick
    BY <2>3 DEF Tick, P!Tick, A!Tick, chainVars, Progress
  <2>4. CASE Restart
    <3>1. ~P!InFlight(c)' /\ ~A!InFlight(c)' /\ request'[c].pc = "idle"
      BY <2>4, NothingBegun DEF Restart, P!Restart, A!Restart, P!InFlight, A!InFlight
    <3>2. StepsToGo(c)' = 0
      BY <1>1, <3>1, StepsAhead
    <3>3. request[c].pc \in {"find", "verify"} => StepsToGo(c) \in Nat \ {0}
      <4>1. /\ P!InFlight(c) \/ A!InFlight(c) \/ request[c].pc # "find"
            /\ P!InFlight(c) \/ A!InFlight(c) \/ (~P!InFlight(c) /\ ~A!InFlight(c))
        <5>1. /\ P!InFlight(c) <=> chain[c].tier = 1
              /\ A!InFlight(c) <=> chain[c].tier = 2
              /\ (request[c].pc = "find") <=> (chain[c].tier # 0)
              /\ chain[c].tier \in {0, 1, 2}
          BY <1>1, TypeParts DEF ResolutionInv, CallInv, ChainTypeOK, C!CallType, C!Tiers
        <5> QED BY <5>1
      <4> QED BY <1>1, <4>1, StepsAhead, ResolutionAssumption
    <3> QED BY <3>2, <3>3
  <2> QED BY <1>1, <2>1, <2>2, <2>3, <2>4 DEF Next
<1>2. ResolutionInv /\ ResolutionInv' /\ [Next]_vars => [\A c \in Calls : Forward(c)]_vars
  BY <1>1
<1> QED BY <1>2, ResolutionInvariant, PTL DEF Spec, ResolutionsWindDown

-----------------------------------------------------------------------------
(* The two reply tables *)

CONSTANTS FiveMinutes, Hour, EnrichMobile   \* as in the reply tables

Prospeo == INSTANCE ProspeoReply

Apollo == INSTANCE ApolloReply

(* What either client makes of any reply is an effect, so that the replies *)
(* a resolution may get satisfy ResolutionAssumption (prospeo.py:138-221;  *)
(* apollo/client.py:117-252).                                              *)
THEOREM RepliesAreEffects ==
    ASSUME Hour \in Nat, FiveMinutes \in Nat, EnrichMobile \in BOOLEAN
    PROVE  /\ {Prospeo!ProspeoEffect(r) : r \in Prospeo!ProspeoReplies} \subseteq P!EffectType
           /\ {Apollo!ApolloEffect(r) : r \in Apollo!ApolloReplies} \subseteq A!EffectType
<1>1. ASSUME NEW r \in Prospeo!ProspeoReplies
      PROVE  Prospeo!ProspeoEffect(r) \in P!EffectType
  <2>1. Prospeo!Credits(r.person) \in Nat
    BY DEF Prospeo!Credits
  <2>2. \A n \in Nat : Prospeo!Hit(n) \in P!EffectType /\ Prospeo!Park(n) \in P!EffectType
    BY DEF Prospeo!Hit, Prospeo!Park, Prospeo!Retry, P!EffectType
  <2>3. /\ Prospeo!Retry \in P!EffectType /\ Prospeo!Dead \in P!EffectType
        /\ Prospeo!Miss \in P!EffectType
    BY DEF Prospeo!Retry, Prospeo!Dead, Prospeo!Miss, P!EffectType
  <2> QED BY <2>1, <2>2, <2>3 DEF Prospeo!ProspeoEffect
<1>2. ASSUME NEW r \in Apollo!ApolloReplies
      PROVE  Apollo!ApolloEffect(r) \in A!EffectType
  <2>1. Apollo!Credits(r.person) \in Nat
    BY DEF Apollo!Credits
  <2>2. \A n \in Nat : Apollo!Hit(n) \in A!EffectType /\ Apollo!Park(n) \in A!EffectType
    BY DEF Apollo!Hit, Apollo!Park, Apollo!Retry, A!EffectType
  <2>3. /\ Apollo!Retry \in A!EffectType /\ Apollo!Dead \in A!EffectType
        /\ Apollo!Miss \in A!EffectType
    BY DEF Apollo!Retry, Apollo!Dead, Apollo!Miss, A!EffectType
  <2> QED BY <2>1, <2>2, <2>3 DEF Apollo!ApolloEffect, Apollo!HandleOk
<1> QED BY <1>1, <1>2
=============================================================================

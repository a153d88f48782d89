---------------------------- MODULE KeyedClient -----------------------------
(***************************************************************************)
(* One provider client over one shared KeyPool: ProspeoFinder.find, and,   *)
(* with its own replies, ApolloFinder.find.  Any number of finds overlap   *)
(* in the event loop.  find() gives up control only while its HTTP call is *)
(* on the wire and while its usage row is written; everything between two  *)
(* such points (classify the reply, mark the key, pick the next) is one    *)
(* step.                                                                   *)
(***************************************************************************)
EXTENDS KeyPoolOps, ReplyEffects

CONSTANTS Calls,       \* slots for concurrent finds; a slot is used again
          Effects,     \* what the client may do with a reply of its provider
          MaxTime,     \* bound of the clock
          MaxFinds     \* bound of the finds begun

ASSUME ClientAssumption ==
    /\ Effects \subseteq EffectType
    /\ MaxTime \in Nat /\ MaxFinds \in Nat

VARIABLES pool,     \* the client's KeyPool
          now,      \* the clock
          call,     \* the find each slot runs or ran last
          begun,    \* finds begun so far
          usage     \* table prospeo_usage: rows and credits per key

clientVars == <<pool, now, call, begun, usage>>

NoFind == [pc |-> "idle", entry |-> NoEntry, left |-> 0,
           answer |-> "none", credits |-> 0]

CallType == [pc : {"idle", "wire", "log", "done"}, entry : Entries \cup {NoEntry},
             left : Nat, answer : {"none", "hit", "miss", "unavailable"},
             credits : Nat]

ClientTypeOK ==
    /\ pool \in PoolType /\ CursorInRange(pool)
    /\ now \in Nat
    /\ call \in [Calls -> CallType]
    /\ \A c \in Calls : call[c].pc \in {"wire", "log"} => call[c].entry \in Entries
    /\ begun \in Nat
    /\ usage \in [Entries -> [rows : Nat, credits : Nat]]

ClientInit ==
    /\ pool = FreshPool
    /\ now = 0
    /\ call = [c \in Calls |-> NoFind]
    /\ begun = 0
    /\ usage = [e \in Entries |-> [rows |-> 0, credits |-> 0]]

InFlight(c) == call[c].pc \in {"wire", "log"}

-----------------------------------------------------------------------------
(* The loop of find() *)

OnWire(e, left) == [NoFind EXCEPT !.pc = "wire", !.entry = e, !.left = left]

Answered(a) == [NoFind EXCEPT !.pc = "done", !.answer = a]

(* A fault: the loop runs until a key answers.                             *)
TryNextForever(c, p, left) ==
    \/ \E e \in Entries :
          /\ FirstUsable(p, now, e)
          /\ pool' = Taken(p, e)
          /\ call' = [call EXCEPT ![c] = OnWire(e, left)]
    \/ /\ NoneUsable(p, now)
       /\ pool' = p
       /\ call' = [call EXCEPT ![c] = Answered("unavailable")]

(* A fault: the loop stops one key early.                                  *)
TryNextButLast(c, p, left) ==
    \/ \E e \in Entries :
          /\ left > 1
          /\ FirstUsable(p, now, e)
          /\ pool' = Taken(p, e)
          /\ call' = [call EXCEPT ![c] = OnWire(e, left - 1)]
    \/ /\ left <= 1 \/ NoneUsable(p, now)
       /\ pool' = p
       /\ call' = [call EXCEPT ![c] = Answered("unavailable")]

(* A fault: with no key left to try, find() returns None.                  *)
TryNextMisses(c, p, left) ==
    \/ \E e \in Entries :
          /\ left > 0
          /\ FirstUsable(p, now, e)
          /\ pool' = Taken(p, e)
          /\ call' = [call EXCEPT ![c] = OnWire(e, left - 1)]
    \/ /\ left = 0 \/ NoneUsable(p, now)
       /\ pool' = p
       /\ call' = [call EXCEPT ![c] = Answered("miss")]

(* The head of the loop, with left iterations to go and the pool p the     *)
(* previous iteration left behind.                                         *)
TryNext(c, p, left) ==
    \/ \E e \in Entries :
          /\ left > 0
          /\ FirstUsable(p, now, e)
          /\ pool' = Taken(p, e)
          /\ call' = [call EXCEPT ![c] = OnWire(e, left - 1)]
    \/ /\ left = 0 \/ NoneUsable(p, now)
       /\ pool' = p
       /\ call' = [call EXCEPT ![c] = Answered("unavailable")]

(* A fault: the loop makes one iteration too many.                         *)
BeginOneMore(c) ==
    /\ ~InFlight(c)
    /\ begun < MaxFinds
    /\ TryNext(c, pool, NumKeys + 1)
    /\ begun' = begun + 1
    /\ UNCHANGED <<now, usage>>

(* A pool with every key dead is not enabled; find() then raises at once,  *)
(* as the loop would.                                                      *)
Begin(c) ==
    /\ ~InFlight(c)
    /\ begun < MaxFinds
    /\ TryNext(c, pool, NumKeys)
    /\ begun' = begun + 1
    /\ UNCHANGED <<now, usage>>

(* No first name, or no domain: None without asking anyone.                *)
BeginBlank(c) ==
    /\ ~InFlight(c)
    /\ begun < MaxFinds
    /\ call' = [call EXCEPT ![c] = Answered("miss")]
    /\ begun' = begun + 1
    /\ UNCHANGED <<pool, now, usage>>

(* A fault: a rejected key is parked with the pool's cooldown.             *)
MarkAlwaysParks(f, k) ==
    IF f.kind \in {"dead", "park"} THEN Parked(pool, now, k, f.for) ELSE pool

(* What a reply that is no answer does to the pool before the next pick.   *)
Marked(f, k) ==
    CASE f.kind = "dead" -> Killed(pool, k)
      [] f.kind = "park" -> Parked(pool, now, k, f.for)
      [] f.kind = "retry" -> pool

Rotate(c, f) ==
    /\ call[c].pc = "wire"
    /\ f.kind \notin AnswerKinds
    /\ TryNext(c, Marked(f, ApiKey[call[c].entry]), call[c].left)
    /\ UNCHANGED <<now, begun, usage>>

(* A fault: a miss costs nothing and gets no row.                          *)
AnswerMissUnlogged(c, f) ==
    /\ call[c].pc = "wire"
    /\ f.kind \in AnswerKinds
    /\ call' = [call EXCEPT ![c] =
                  IF f.kind = "miss" THEN Answered("miss")
                  ELSE [@ EXCEPT !.pc = "log", !.answer = f.kind, !.credits = f.credits]]
    /\ UNCHANGED <<pool, now, begun, usage>>

Answer(c, f) ==
    /\ call[c].pc = "wire"
    /\ f.kind \in AnswerKinds
    /\ call' = [call EXCEPT ![c] =
                  [@ EXCEPT !.pc = "log", !.answer = f.kind, !.credits = f.credits]]
    /\ UNCHANGED <<pool, now, begun, usage>>

(* log_usage: the row is written, or, with no usage pool or a failing      *)
(* database, it is not; find() returns its answer either way.              *)
LogUsage(c, written) ==
    /\ call[c].pc = "log"
    /\ usage' = IF written
                THEN [usage EXCEPT ![call[c].entry] =
                        [rows |-> @.rows + 1, credits |-> @.credits + call[c].credits]]
                ELSE usage
    /\ call' = [call EXCEPT ![c] = Answered(@.answer)]
    /\ UNCHANGED <<pool, now, begun>>

Tick ==
    /\ now < MaxTime
    /\ now' = now + 1
    /\ UNCHANGED <<pool, call, begun, usage>>

(* The process ends (the instance is scaled to zero, or replaced) and a    *)
(* new one starts: the pool's memory and the finds are gone, rows stay.    *)
Restart ==
    /\ pool' = FreshPool
    /\ call' = [c \in Calls |-> NoFind]
    /\ UNCHANGED <<now, begun, usage>>
=============================================================================

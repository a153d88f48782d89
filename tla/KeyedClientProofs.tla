------------------------- MODULE KeyedClientProofs --------------------------
(***************************************************************************)
(* Theorems about KeyedClientHistory.tla for every number of keys, of      *)
(* overlapping finds and of replies.                                       *)
(***************************************************************************)
EXTENDS KeyedClientHistory, KeyPoolOpsProofs, FiniteSetTheorems

-----------------------------------------------------------------------------
(* Type correctness of the shared pool and the finds *)

LEMMA MarkedKeepsOrder ==
    ASSUME pool \in PoolType, now \in Nat, NEW f \in Effects, NEW k,
           f.kind \notin AnswerKinds
    PROVE  Marked(f, k) \in PoolType /\ Marked(f, k).cursor = pool.cursor
<1>1. f \in EffectType
  BY ClientAssumption
<1>2. CASE f.kind = "dead"
  BY <1>2, KilledType DEF Marked
<1>3. CASE f.kind = "park"
  BY <1>1, <1>3, ParkedType DEF Marked, EffectType
<1>4. CASE f.kind = "retry"
  BY <1>4 DEF Marked
<1> QED BY <1>1, <1>2, <1>3, <1>4 DEF EffectType, AnswerKinds

LEMMA NewCallTypes ==
    ASSUME NEW e \in Entries, NEW n \in Nat, NEW a \in {"none", "hit", "miss", "unavailable"}
    PROVE  /\ OnWire(e, n) \in CallType /\ OnWire(e, n).pc = "wire"
           /\ OnWire(e, n).entry = e /\ OnWire(e, n).left = n
           /\ OnWire(e, n).answer = "none"
           /\ Answered(a) \in CallType /\ Answered(a).pc = "done"
           /\ Answered(a).answer = a
BY DEF OnWire, Answered, NoFind, CallType

LEMMA DoneType ==
    ASSUME NEW a \in {"none", "hit", "miss", "unavailable"}
    PROVE  /\ Answered(a) \in CallType /\ Answered(a).pc = "done"
           /\ Answered(a).answer = a
BY DEF Answered, NoFind, CallType

CallsTypeOK ==
    /\ pool \in PoolType /\ CursorInRange(pool)
    /\ now \in Nat
    /\ call \in [Calls -> CallType]
    /\ \A c \in Calls : call[c].pc \in {"wire", "log"} => call[c].entry \in Entries

LEMMA TryNextType ==
    ASSUME CallsTypeOK, NEW c \in Calls, NEW p \in PoolType, CursorInRange(p),
           NEW n \in Nat, TryNext(c, p, n), now' = now
    PROVE  CallsTypeOK'
<1>1. ASSUME NEW e \in Entries, n > 0, pool' = Taken(p, e),
             call' = [call EXCEPT ![c] = OnWire(e, n - 1)]
      PROVE  CallsTypeOK'
  <2>1. pool' \in PoolType /\ CursorInRange(pool')
    BY <1>1, TakenType
  <2>2. OnWire(e, n - 1) \in CallType /\ OnWire(e, n - 1).entry = e
    BY <1>1, NewCallTypes
  <2> QED BY <1>1, <2>1, <2>2 DEF CallsTypeOK, CursorInRange
<1>2. ASSUME pool' = p, call' = [call EXCEPT ![c] = Answered("unavailable")]
      PROVE  CallsTypeOK'
  BY <1>2, DoneType DEF CallsTypeOK, CursorInRange
<1> QED BY <1>1, <1>2 DEF TryNext

LEMMA NextCallsTypeOK == CallsTypeOK /\ [Next]_vars => CallsTypeOK'
<1> SUFFICES ASSUME CallsTypeOK, [Next]_vars PROVE CallsTypeOK'
  OBVIOUS
<1>1. ASSUME NEW c \in Calls, Begins(c) PROVE CallsTypeOK'
  <2>1. CASE Begin(c)
    BY <2>1, TryNextType, KeyPoolAssumption DEF Begin, CallsTypeOK
  <2>2. CASE BeginBlank(c)
    BY <2>2, DoneType DEF BeginBlank, CallsTypeOK, CursorInRange
  <2> QED BY <1>1, <2>1, <2>2 DEF Begins
<1>2. ASSUME NEW c \in Calls, NEW f \in Effects, Rotate(c, f) PROVE CallsTypeOK'
  <2> DEFINE p == Marked(f, ApiKey[call[c].entry])
  <2>1. p \in PoolType /\ CursorInRange(p)
    BY <1>2, MarkedKeepsOrder DEF Rotate, CallsTypeOK, CursorInRange
  <2>2. call[c].left \in Nat
    BY DEF CallsTypeOK, CallType
  <2> QED BY <1>2, <2>1, <2>2, TryNextType DEF Rotate
<1>3. ASSUME NEW c \in Calls, NEW f \in Effects, Answer(c, f) PROVE CallsTypeOK'
  <2>1. f.kind \in {"miss", "hit"} /\ f.credits \in Nat
    BY <1>3, ClientAssumption DEF Answer, AnswerKinds, EffectType
  <2>2. call'[c] \in CallType /\ call'[c].entry = call[c].entry
    BY <1>3, <2>1 DEF Answer, CallsTypeOK, CallType
  <2> QED BY <1>3, <2>2 DEF Answer, CallsTypeOK, CursorInRange
<1>4. ASSUME NEW c \in Calls, NEW written \in BOOLEAN, LogUsage(c, written)
      PROVE  CallsTypeOK'
  <2>1. call[c].answer \in {"none", "hit", "miss", "unavailable"}
    BY DEF CallsTypeOK, CallType
  <2> QED BY <1>4, <2>1, DoneType DEF LogUsage, CallsTypeOK, CursorInRange
<1>5. CASE Tick
  BY <1>5 DEF Tick, CallsTypeOK, CursorInRange
<1>6. CASE Restart
  BY <1>6, KeyPoolAssumption
     DEF Restart, CallsTypeOK, CursorInRange, FreshPool, PoolType, NoFind, CallType
<1>7. CASE UNCHANGED vars
  BY <1>7 DEF vars, clientVars, CallsTypeOK, CursorInRange
<1> QED BY <1>1, <1>2, <1>3, <1>4, <1>5, <1>6, <1>7
        DEF Next, Replied, Logged, Rotates, Answers, Logs, Passes, Restarts

LEMMA InitCallsTypeOK == Init => CallsTypeOK
BY KeyPoolAssumption
   DEF Init, ClientInit, CallsTypeOK, CursorInRange, FreshPool, PoolType, NoFind,
       CallType

-----------------------------------------------------------------------------
(* Round robin under overlapping finds *)

(* A key that find c has neither seen unusable nor seen handed out lies so *)
(* near to the cursor that the picks find c has left must reach it.        *)
UntouchedInReach ==
    \A c \in Calls : call[c].pc = "wire" =>
        \A f \in Entries \ touched[c] : Distance(pool, f) < call[c].left

OnlyDoneIsUnavailable ==
    \A c \in Calls : call[c].answer = "unavailable" => call[c].pc = "done"

ClientInv ==
    /\ CallsTypeOK
    /\ touched \in [Calls -> SUBSET Entries]
    /\ UntouchedInReach
    /\ OnlyDoneIsUnavailable
    /\ NoKeyOverlooked

(* What the bookkeeping of a step gives for a find that runs in it.        *)
LEMMA Watched ==
    ASSUME NEW S \in SUBSET Calls, Watch(S), NEW c \in Calls,
           touched \in [Calls -> SUBSET Entries],
           call \in [Calls -> CallType], call' \in [Calls -> CallType],
           \A d \in Calls : call'[d].pc = "wire" => call'[d].entry \in Entries
    PROVE  /\ touched' \in [Calls -> SUBSET Entries]
           /\ c \in S \/ InFlight(c) =>
                 /\ \A f \in Entries \ touched'[c] :
                        /\ Usable(pool', now', f)
                        /\ \A d \in Calls : call'[d] # call[d] /\ call'[d].pc = "wire"
                                              => f # call'[d].entry
                        /\ c \notin S => f \notin touched[c]
           /\ c \notin S /\ ~InFlight(c) => touched'[c] = touched[c]
<1>1. HandedOut \subseteq Entries
  BY DEF HandedOut, HandedTo
<1>2. \A d \in Calls : call'[d] # call[d] /\ call'[d].pc = "wire"
                          => call'[d].entry \in HandedOut
  BY DEF HandedOut, HandedTo
<1>3. UnusableNow' = {e \in Entries : ~Usable(pool', now', e)}
  BY DEF UnusableNow, Usable
<1>4. ASSUME NEW d \in Calls
      PROVE  touched'[d] = CASE d \in S -> UnusableNow' \cup HandedOut
                             [] d \notin S /\ InFlight(d) ->
                                   touched[d] \cup UnusableNow' \cup HandedOut
                             [] OTHER -> touched[d]
  BY DEF Watch
<1>5. touched' \in [Calls -> SUBSET Entries]
  <2>1. \A d \in Calls : touched'[d] \in SUBSET Entries
    BY <1>1, <1>3, <1>4
  <2>2. touched' = [d \in Calls |-> touched'[d]]
    BY DEF Watch
  <2> QED BY <2>1, <2>2
<1> QED BY <1>2, <1>3, <1>4, <1>5

(* A pick moves the cursor past one entry at least and past no usable one. *)
LEMMA PickComesNearer ==
    ASSUME NEW p \in PoolType, CursorInRange(p), NEW t, NEW e \in Entries,
           FirstUsable(p, t, e), NEW f \in Entries, Usable(Taken(p, e), t, f), f # e
    PROVE  /\ Distance(Taken(p, e), f) < Distance(p, f)
           /\ Distance(p, f) < NumKeys
<1>1. Usable(p, t, f)
  BY TakenFields DEF PoolType, Usable
<1>2. Distance(p, e) < Distance(p, f)
  BY <1>1, PickedIsNearest
<1>3. Taken(p, e).cursor = Successor(e) /\ p.cursor \in Nat
  BY TakenFields DEF PoolType
<1> QED BY <1>2, <1>3, KeyPoolAssumption
        DEF CursorInRange, Distance, Successor, Entries

LEMMA DistanceNat ==
    ASSUME NEW p \in PoolType, CursorInRange(p), NEW e \in Entries
    PROVE  Distance(p, e) \in Nat
<1>1. p.cursor \in Nat
  BY DEF PoolType
<1> QED BY <1>1, KeyPoolAssumption DEF CursorInRange, Distance, Entries

(* The heart of the argument: one iteration of the loop, for the find that *)
(* runs it and for those that overlap it.                                  *)
LEMMA TryNextKeepsInv ==
    ASSUME ClientInv, CallsTypeOK', NEW c \in Calls, NEW S \in SUBSET {c},
           NEW p \in PoolType, p.cursor = pool.cursor, NEW n \in Nat,
           TryNext(c, p, n), now' = now, Watch(S),
           \/ c \in S /\ n = NumKeys /\ ~InFlight(c)
           \/ call[c].pc = "wire" /\ c \notin S /\ n = call[c].left
    PROVE  ClientInv'
<1>1. /\ touched \in [Calls -> SUBSET Entries]
      /\ call \in [Calls -> CallType] /\ call' \in [Calls -> CallType]
      /\ \A d \in Calls : call'[d].pc = "wire" => call'[d].entry \in Entries
      /\ CursorInRange(p) /\ pool \in PoolType /\ CursorInRange(pool)
      /\ \A q \in Entries : Distance(pool, q) = Distance(p, q)
  BY DEF ClientInv, CallsTypeOK, CursorInRange, Distance
<1>2. touched' \in [Calls -> SUBSET Entries]
  BY <1>1, Watched
<1>3. c \in S \/ InFlight(c)
  BY DEF InFlight
<1>4. ASSUME NEW e \in Entries, n > 0, FirstUsable(p, now, e), pool' = Taken(p, e),
             call' = [call EXCEPT ![c] = OnWire(e, n - 1)]
      PROVE  UntouchedInReach' /\ OnlyDoneIsUnavailable' /\ NoKeyOverlooked'
  <2>1. /\ call'[c].pc = "wire" /\ call'[c].entry = e /\ call'[c].left = n - 1
        /\ call'[c].answer = "none"
    BY <1>1, <1>4, NewCallTypes
  <2>2. call'[c] # call[c]
    BY <1>4, <2>1 DEF InFlight
  <2>3. ASSUME NEW d \in Calls, call'[d].pc = "wire",
               NEW f \in Entries, f \notin touched'[d]
        PROVE  Distance(pool', f) < call'[d].left
    <3>1. d \in S \/ InFlight(d)
      BY <1>1, <1>3, <1>4, <2>3 DEF InFlight
    <3>2. /\ Usable(Taken(p, e), now, f) /\ f # e
          /\ d \notin S => f \notin touched[d]
      BY <1>1, <1>4, <2>1, <2>2, <2>3, <3>1, Watched
    <3>3. Distance(pool', f) < Distance(p, f) /\ Distance(p, f) < NumKeys
      BY <1>1, <1>4, <3>2, PickComesNearer
    <3>4. Distance(pool', f) \in Nat /\ Distance(p, f) \in Nat
      BY <1>1, <1>4, DistanceNat DEF CallsTypeOK
    <3>5. CASE d = c /\ c \in S
      <4>1. call'[d].left = NumKeys - 1
        BY <2>1, <3>5 DEF InFlight
      <4> QED BY <3>3, <3>4, <4>1, KeyPoolAssumption
    <3>6. CASE d = c /\ c \notin S
      <4>1. Distance(p, f) < n
        BY <1>1, <3>2, <3>6 DEF ClientInv, UntouchedInReach
      <4> QED BY <2>1, <3>3, <3>4, <3>6, <4>1
    <3>7. CASE d # c
      <4>1. call'[d] = call[d] /\ call[d].left \in Nat
        BY <1>1, <1>4, <3>7 DEF CallType
      <4>2. Distance(p, f) < call[d].left
        BY <1>1, <2>3, <3>2, <3>7, <4>1 DEF ClientInv, UntouchedInReach
      <4> QED BY <3>3, <3>4, <4>1, <4>2
    <3> QED BY <3>5, <3>6, <3>7
  <2>4. ASSUME NEW d \in Calls, call'[d].answer = "unavailable"
        PROVE  call'[d].pc = "done" /\ touched'[d] = Entries
    <3>1. d # c
      BY <2>1, <2>4
    <3>2. call'[d] = call[d]
      BY <1>1, <1>4, <3>1
    <3>3. call[d].pc = "done" /\ touched[d] = Entries
      BY <2>4, <3>2 DEF ClientInv, OnlyDoneIsUnavailable, NoKeyOverlooked
    <3> QED BY <1>1, <3>1, <3>2, <3>3, Watched DEF InFlight
  <2> QED BY <2>3, <2>4
          DEF UntouchedInReach, OnlyDoneIsUnavailable, NoKeyOverlooked
<1>5. ASSUME n = 0 \/ NoneUsable(p, now), pool' = p,
             call' = [call EXCEPT ![c] = Answered("unavailable")]
      PROVE  UntouchedInReach' /\ OnlyDoneIsUnavailable' /\ NoKeyOverlooked'
  <2>1. call'[c].pc = "done" /\ call'[c].answer = "unavailable"
    BY <1>1, <1>5, DoneType
  <2>2. ASSUME NEW d \in Calls, call'[d].pc = "wire",
               NEW f \in Entries, f \notin touched'[d]
        PROVE  Distance(pool', f) < call'[d].left
    <3>1. d # c /\ call'[d] = call[d]
      BY <1>1, <1>5, <2>1, <2>2
    <3>2. f \notin touched[d]
      BY <1>1, <2>2, <3>1, Watched DEF InFlight
    <3> QED BY <1>1, <1>5, <2>2, <3>1, <3>2 DEF ClientInv, UntouchedInReach
  <2>3. touched'[c] = Entries
    <3>1. ASSUME NEW f \in Entries, f \notin touched'[c] PROVE FALSE
      <4>1. Usable(p, now, f) /\ (c \notin S => f \notin touched[c])
        BY <1>1, <1>3, <1>5, <3>1, Watched
      <4>2. n = 0
        BY <1>5, <4>1 DEF NoneUsable
      <4>3. CASE c \in S
        BY <4>2, <4>3, KeyPoolAssumption DEF Entries, InFlight
      <4>4. CASE c \notin S
        <5>1. Distance(p, f) < 0
          BY <1>1, <4>1, <4>2, <4>4 DEF ClientInv, UntouchedInReach
        <5> QED BY <1>1, <5>1, DistanceNat
      <4> QED BY <4>3, <4>4
    <3>2. touched'[c] \subseteq Entries
      BY <1>2
    <3> QED BY <3>1, <3>2
  <2>4. ASSUME NEW d \in Calls, d # c, call'[d].answer = "unavailable"
        PROVE  call'[d].pc = "done" /\ touched'[d] = Entries
    <3>1. call'[d] = call[d]
      BY <1>1, <1>5, <2>4
    <3>2. call[d].pc = "done" /\ touched[d] = Entries
      BY <2>4, <3>1 DEF ClientInv, OnlyDoneIsUnavailable, NoKeyOverlooked
    <3> QED BY <1>1, <2>4, <3>1, <3>2, Watched DEF InFlight
  <2> QED BY <2>1, <2>2, <2>3, <2>4
          DEF UntouchedInReach, OnlyDoneIsUnavailable, NoKeyOverlooked
<1> QED BY <1>2, <1>4, <1>5 DEF TryNext, ClientInv

(* A step that hands out no key leaves the order and the finds on the wire *)
(* as they are.                                                            *)
LEMMA QuietKeepsInv ==
    ASSUME ClientInv, CallsTypeOK', NEW S \in SUBSET Calls, Watch(S),
           pool'.cursor = pool.cursor,
           \A c \in S : call'[c].pc = "done" /\ call'[c].answer # "unavailable",
           \A c \in Calls \ S :
               call'[c] = call[c]
                 \/ (call'[c].pc # "wire" /\ call'[c].answer # "unavailable")
    PROVE  ClientInv'
<1>1. /\ touched \in [Calls -> SUBSET Entries]
      /\ call \in [Calls -> CallType] /\ call' \in [Calls -> CallType]
      /\ \A d \in Calls : call'[d].pc = "wire" => call'[d].entry \in Entries
      /\ \A q \in Entries : Distance(pool', q) = Distance(pool, q)
  BY DEF ClientInv, CallsTypeOK, Distance
<1>2. touched' \in [Calls -> SUBSET Entries]
  <2>1. CASE Calls = {}
    BY <2>1 DEF Watch
  <2>2. CASE Calls # {}
    BY <1>1, <2>2, Watched
  <2> QED BY <2>1, <2>2
<1>3. UntouchedInReach'
  <2> SUFFICES ASSUME NEW d \in Calls, call'[d].pc = "wire",
                      NEW f \in Entries, f \notin touched'[d]
               PROVE  Distance(pool', f) < call'[d].left
    BY DEF UntouchedInReach
  <2>1. d \notin S /\ call'[d] = call[d]
    OBVIOUS
  <2>2. f \notin touched[d]
    BY <1>1, <2>1, Watched DEF InFlight
  <2> QED BY <1>1, <2>1, <2>2 DEF ClientInv, UntouchedInReach
<1>4. ASSUME NEW d \in Calls, call'[d].answer = "unavailable"
      PROVE  call'[d].pc = "done" /\ touched'[d] = Entries
  <2>1. d \notin S /\ call'[d] = call[d]
    BY <1>4
  <2>2. call[d].pc = "done" /\ touched[d] = Entries
    BY <1>4, <2>1 DEF ClientInv, OnlyDoneIsUnavailable, NoKeyOverlooked
  <2> QED BY <1>1, <2>1, <2>2, Watched DEF InFlight
<1> QED BY <1>2, <1>3, <1>4
        DEF ClientInv, OnlyDoneIsUnavailable, NoKeyOverlooked

(* The same when no find starts.                                           *)
LEMMA QuietStep ==
    ASSUME ClientInv, CallsTypeOK', Watch({}), pool'.cursor = pool.cursor,
           \A d \in Calls :
               call'[d] = call[d]
                 \/ (call'[d].pc # "wire" /\ call'[d].answer # "unavailable")
    PROVE  ClientInv'
<1> DEFINE S == {}
<1>1. S \in SUBSET Calls /\ Watch(S)
  OBVIOUS
<1>2. \A d \in S : call'[d].pc = "done" /\ call'[d].answer # "unavailable"
  OBVIOUS
<1>3. \A d \in Calls \ S :
         call'[d] = call[d]
           \/ (call'[d].pc # "wire" /\ call'[d].answer # "unavailable")
  OBVIOUS
<1> HIDE DEF S
<1> QED BY <1>1, <1>2, <1>3, QuietKeepsInv

LEMMA InitClientInv == Init => ClientInv
<1> SUFFICES ASSUME Init PROVE ClientInv
  OBVIOUS
<1>1. \A c \in Calls : call[c].pc = "idle" /\ call[c].answer = "none"
  BY DEF Init, ClientInit, NoFind
<1>2. touched \in [Calls -> SUBSET Entries]
  BY DEF Init
<1> QED BY <1>1, <1>2, InitCallsTypeOK
        DEF ClientInv, UntouchedInReach, OnlyDoneIsUnavailable, NoKeyOverlooked

LEMMA NextClientInv == ClientInv /\ [Next]_vars => ClientInv'
<1> SUFFICES ASSUME ClientInv, [Next]_vars PROVE ClientInv'
  OBVIOUS
<1>1. CallsTypeOK' /\ CallsTypeOK
  BY NextCallsTypeOK DEF ClientInv
<1>2. ASSUME NEW c \in Calls, Begins(c) PROVE ClientInv'
  <2>1. Watch({c})
    BY <1>2 DEF Begins
  <2>2. CASE Begin(c)
    BY <1>1, <2>1, <2>2, TryNextKeepsInv, KeyPoolAssumption DEF Begin, CallsTypeOK
  <2>3. CASE BeginBlank(c)
    <3>1. /\ pool' = pool /\ call' = [call EXCEPT ![c] = Answered("miss")]
          /\ Answered("miss").pc = "done" /\ Answered("miss").answer = "miss"
      BY <2>3, DoneType DEF BeginBlank
    <3>2. \A d \in Calls \ {c} : call'[d] = call[d]
      BY <1>1, <3>1 DEF CallsTypeOK
    <3>3. call'[c].pc = "done" /\ call'[c].answer # "unavailable"
      BY <1>1, <3>1 DEF CallsTypeOK
    <3>4. pool'.cursor = pool.cursor /\ {c} \in SUBSET Calls
      BY <3>1
    <3>5. /\ \A d \in {c} : call'[d].pc = "done" /\ call'[d].answer # "unavailable"
          /\ \A d \in Calls \ {c} :
                call'[d] = call[d]
                  \/ (call'[d].pc # "wire" /\ call'[d].answer # "unavailable")
      BY <3>2, <3>3
    <3> QED BY <1>1, <2>1, <3>4, <3>5, QuietKeepsInv
  <2> QED BY <1>2, <2>2, <2>3 DEF Begins
<1>3. ASSUME NEW c \in Calls, NEW f \in Effects, Rotates(c, f) PROVE ClientInv'
  <2> DEFINE p == Marked(f, ApiKey[call[c].entry])
  <2>1. Rotate(c, f) /\ Watch({})
    BY <1>3 DEF Rotates
  <2>2. p \in PoolType /\ p.cursor = pool.cursor /\ call[c].left \in Nat
    BY <1>1, <2>1, MarkedKeepsOrder DEF Rotate, CallsTypeOK, CallType
  <2>3. call[c].pc = "wire" /\ TryNext(c, p, call[c].left) /\ now' = now
    BY <2>1 DEF Rotate
  <2> HIDE DEF p
  <2> QED BY <1>1, <2>1, <2>2, <2>3, TryNextKeepsInv
<1>4. ASSUME NEW c \in Calls, NEW f \in Effects, Answers(c, f) PROVE ClientInv'
  <2>1. Watch({}) /\ pool' = pool
    BY <1>4 DEF Answers, Answer
  <2>2. /\ \A d \in Calls \ {c} : call'[d] = call[d]
        /\ call'[c].pc = "log" /\ call'[c].answer # "unavailable"
    BY <1>1, <1>4 DEF Answers, Answer, AnswerKinds, CallsTypeOK, CallType
  <2> QED BY <1>1, <2>1, <2>2, QuietStep
<1>5. ASSUME NEW c \in Calls, NEW written \in BOOLEAN, Logs(c, written)
      PROVE  ClientInv'
  <2>1. Watch({}) /\ pool' = pool
    BY <1>5 DEF Logs, LogUsage
  <2>2. /\ call[c].answer # "unavailable"
        /\ call[c].answer \in {"none", "hit", "miss", "unavailable"}
    BY <1>1, <1>5 DEF Logs, LogUsage, ClientInv, OnlyDoneIsUnavailable, CallsTypeOK,
                      CallType
  <2>3. /\ call' = [call EXCEPT ![c] = Answered(call[c].answer)]
        /\ Answered(call[c].answer).pc = "done"
        /\ Answered(call[c].answer).answer = call[c].answer
    BY <1>5, <2>2, DoneType DEF Logs, LogUsage
  <2>4. /\ \A d \in Calls \ {c} : call'[d] = call[d]
        /\ call'[c].pc # "wire" /\ call'[c].answer # "unavailable"
    BY <1>1, <2>2, <2>3 DEF CallsTypeOK
  <2> QED BY <1>1, <2>1, <2>4, QuietStep
<1>6. CASE Passes
  <2>1. Watch({}) /\ pool' = pool /\ call' = call
    BY <1>6 DEF Passes, Tick
  <2>2. \A c \in Calls : call'[c] = call[c]
    BY <2>1
  <2> QED BY <1>1, <2>1, <2>2, QuietStep
<1>7. CASE Restarts
  <2>1. \A c \in Calls : call'[c].pc = "idle" /\ call'[c].answer = "none"
    BY <1>7 DEF Restarts, Restart, NoFind
  <2>2. touched' \in [Calls -> SUBSET Entries]
    BY <1>7 DEF Restarts
  <2> QED BY <1>1, <2>1, <2>2
          DEF ClientInv, UntouchedInReach, OnlyDoneIsUnavailable, NoKeyOverlooked
<1>8. CASE UNCHANGED vars
  BY <1>1, <1>8
     DEF vars, clientVars, history, ClientInv, UntouchedInReach,
         OnlyDoneIsUnavailable, NoKeyOverlooked, Distance
<1> QED BY <1>2, <1>3, <1>4, <1>5, <1>6, <1>7, <1>8 DEF Next, Replied, Logged

(* However many finds overlap, whatever their replies and whenever parks   *)
(* run out: a find that gives up has left no healthy key idle.             *)
THEOREM NothingOverlooked == Spec => []NoKeyOverlooked
<1>1. ClientInv => NoKeyOverlooked
  BY DEF ClientInv
<1> QED BY <1>1, InitClientInv, NextClientInv, PTL DEF Spec

(* Every step of a find takes it nearer its end, so with an answer to      *)
(* every request each find ends after at most one try per key.             *)
LEMMA TryNextWindsDown ==
    ASSUME CallsTypeOK, NEW c \in Calls, NEW p, TryNext(c, p, call[c].left),
           call[c].pc = "wire"
    PROVE  ~InFlight(c)' \/ StepsLeft(c)' < StepsLeft(c)
<1>1. call[c].left \in Nat
  BY DEF CallsTypeOK, CallType
<1>2. ASSUME NEW e \in Entries, call[c].left > 0,
             call' = [call EXCEPT ![c] = OnWire(e, call[c].left - 1)]
      PROVE  StepsLeft(c)' < StepsLeft(c)
  <2>1. call'[c].pc = "wire" /\ call'[c].left = call[c].left - 1
    BY <1>1, <1>2, NewCallTypes DEF CallsTypeOK
  <2> QED BY <1>1, <2>1 DEF StepsLeft
<1>3. ASSUME call' = [call EXCEPT ![c] = Answered("unavailable")]
      PROVE  ~InFlight(c)'
  <2>1. call'[c].pc = "done"
    BY <1>3, DoneType DEF CallsTypeOK
  <2> QED BY <2>1 DEF InFlight
<1> QED BY <1>2, <1>3 DEF TryNext

LEMMA StepWindsDown ==
    ASSUME CallsTypeOK, Next, NEW c \in Calls, InFlight(c), call'[c] # call[c]
    PROVE  ~InFlight(c)' \/ StepsLeft(c)' < StepsLeft(c)
<1>0. call \in [Calls -> CallType] /\ call[c].left \in Nat
  BY DEF CallsTypeOK, CallType
<1>1. ASSUME NEW d \in Calls, Begins(d) PROVE FALSE
  <2>1. d # c
    BY <1>1 DEF Begins, Begin, BeginBlank
  <2>2. \E k : call' = [call EXCEPT ![d] = k]
    BY <1>1 DEF Begins, Begin, BeginBlank, TryNext
  <2> QED BY <1>0, <2>1, <2>2
<1>2. ASSUME NEW d \in Calls, NEW f \in Effects, Rotate(d, f)
      PROVE  ~InFlight(c)' \/ StepsLeft(c)' < StepsLeft(c)
  <2>1. \E k : call' = [call EXCEPT ![d] = k]
    BY <1>2 DEF Rotate, TryNext
  <2>2. d = c
    BY <1>0, <2>1
  <2> QED BY <1>2, <2>2, TryNextWindsDown DEF Rotate
<1>3. ASSUME NEW d \in Calls, NEW f \in Effects, Answer(d, f)
      PROVE  StepsLeft(c)' < StepsLeft(c)
  <2>1. d = c
    BY <1>0, <1>3 DEF Answer
  <2>2. call'[c].pc = "log"
    BY <1>0, <1>3, <2>1 DEF Answer, CallType
  <2> QED BY <1>0, <1>3, <2>1, <2>2 DEF Answer, StepsLeft
<1>4. ASSUME NEW d \in Calls, NEW written \in BOOLEAN, LogUsage(d, written)
      PROVE  ~InFlight(c)'
  <2>1. d = c
    BY <1>0, <1>4 DEF LogUsage
  <2>2. call'[c].pc = "done"
    BY <1>0, <1>4, <2>1 DEF LogUsage, Answered, NoFind
  <2> QED BY <2>2 DEF InFlight
<1>5. CASE Tick
  BY <1>5 DEF Tick
<1>6. CASE Restart
  BY <1>6 DEF Restart, NoFind, InFlight
<1> QED BY <1>1, <1>2, <1>3, <1>4, <1>5, <1>6
        DEF Next, Replied, Logged, Rotates, Answers, Logs, Passes, Restarts

(* However many keys, finds and failing replies: a find has no way to go   *)
(* round for ever.                                                         *)
THEOREM EveryFindWindsDown == Spec => FindsWindDown
<1>1. CallsTypeOK /\ [Next]_vars =>
         [\A c \in Calls :
             InFlight(c) /\ call'[c] # call[c] =>
                 ~InFlight(c)' \/ StepsLeft(c)' < StepsLeft(c)]_vars
  BY StepWindsDown
<1> QED BY <1>1, InitCallsTypeOK, NextCallsTypeOK, PTL DEF Spec, FindsWindDown

-----------------------------------------------------------------------------
(* Finds that do not overlap *)

(* A find that runs alone is handed every key that is handed out.          *)
SeesAll == reached = touched

LEMMA AloneSeesAll ==
    ASSUME \A c, d \in Calls : c = d, SeesAll, [Next]_vars
    PROVE  SeesAll'
<1>1. ASSUME NEW S, Watch(S) PROVE reached' = touched'
  <2>1. \A c \in Calls : HandedOut = HandedTo(c)
    BY DEF HandedOut
  <2> QED BY <1>1, <2>1 DEF Watch, SeesAll
<1> QED BY <1>1
        DEF Next, Begins, Replied, Rotates, Answers, Logged, Logs, Passes, Restarts,
            vars, history, SeesAll

(* One find at a time: ProviderUnavailableError means what the docstring   *)
(* of find() says, that this very find tried every key it could.           *)
THEOREM AloneTriesEveryKey ==
    ASSUME \A c, d \in Calls : c = d
    PROVE  Spec => []EveryKeyTried
<1>1. Init => SeesAll
  BY DEF Init, SeesAll
<1>2. ClientInv /\ SeesAll => EveryKeyTried
  BY DEF ClientInv, NoKeyOverlooked, EveryKeyTried, SeesAll
<1>3. SeesAll /\ [Next]_vars => SeesAll'
  BY AloneSeesAll
<1> QED BY <1>1, <1>2, <1>3, InitClientInv, NextClientInv, PTL DEF Spec
-----------------------------------------------------------------------------
(* Type correctness of the client and of its history *)

LEMMA WatchType ==
    ASSUME TypeOK, CallsTypeOK', NEW S, Watch(S)
    PROVE  /\ reached' \in [Calls -> SUBSET Entries]
           /\ touched' \in [Calls -> SUBSET Entries]
<1>1. \A c \in Calls : HandedTo(c) \subseteq Entries
  BY DEF HandedTo, CallsTypeOK
<1>2. HandedOut \subseteq Entries
  BY <1>1 DEF HandedOut
<1>3. UnusableNow' \subseteq Entries
  BY DEF UnusableNow
<1>4. reached \in [Calls -> SUBSET Entries] /\ touched \in [Calls -> SUBSET Entries]
  BY DEF TypeOK
<1>5. ASSUME NEW c \in Calls
      PROVE  reached'[c] \subseteq Entries /\ touched'[c] \subseteq Entries
  <2>1. reached[c] \subseteq Entries /\ touched[c] \subseteq Entries
    BY <1>4
  <2>2. CASE c \in S
    BY <1>1, <1>2, <1>3, <2>2 DEF Watch
  <2>3. CASE c \notin S /\ InFlight(c)
    BY <1>1, <1>2, <1>3, <2>1, <2>3 DEF Watch
  <2>4. CASE c \notin S /\ ~InFlight(c)
    BY <2>1, <2>4 DEF Watch
  <2> QED BY <2>2, <2>3, <2>4
<1>6. /\ reached' = [c \in Calls |-> reached'[c]]
      /\ touched' = [c \in Calls |-> touched'[c]]
  BY DEF Watch
<1> QED BY <1>5, <1>6

LEMMA CountedType ==
    ASSUME NEW count \in PerEntry, NEW e \in Entries
    PROVE  /\ Counted(count, e) \in PerEntry
           /\ Counted(count, e)[e] = count[e] + 1
           /\ \A f \in Entries \ {e} : Counted(count, e)[f] = count[f]
BY DEF Counted, PerEntry

LEMMA SomeCalls ==
    ASSUME NEW S \in SUBSET Calls
    PROVE  /\ IsFiniteSet(S) /\ Cardinality(S) \in Nat
           /\ Cardinality(Calls) \in Nat /\ Cardinality(S) <= Cardinality(Calls)
BY FiniteCalls, FS_Subset, FS_CardinalityType

LEMMA LoggedUsageType ==
    ASSUME TypeOK, NEW c \in Calls, NEW written \in BOOLEAN, LogUsage(c, written)
    PROVE  /\ usage' \in [Entries -> [rows : Nat, credits : Nat]]
           /\ call[c].entry \in Entries
           /\ usage'[call[c].entry].rows =
                 usage[call[c].entry].rows + (IF written THEN 1 ELSE 0)
           /\ \A e \in Entries \ {call[c].entry} : usage'[e].rows = usage[e].rows
<1>1. /\ usage \in [Entries -> [rows : Nat, credits : Nat]]
      /\ call[c].entry \in Entries /\ call[c].credits \in Nat
  BY DEF TypeOK, ClientTypeOK, LogUsage, CallType
<1>2. CASE written
  <2> DEFINE e == call[c].entry
             row == [rows |-> usage[e].rows + 1,
                     credits |-> usage[e].credits + call[c].credits]
  <2>1. usage' = [usage EXCEPT ![e] = row]
    BY <1>2 DEF LogUsage
  <2>2. row \in [rows : Nat, credits : Nat] /\ row.rows = usage[e].rows + 1
    BY <1>1
  <2> QED BY <1>1, <1>2, <2>1, <2>2
<1>3. CASE ~written
  BY <1>1, <1>3 DEF LogUsage
<1> QED BY <1>2, <1>3

LEMMA InitTypeOK == Init => TypeOK
<1> SUFFICES ASSUME Init PROVE TypeOK
  OBVIOUS
<1>1. /\ CallsTypeOK
      /\ begun = 0 /\ usage = [e \in Entries |-> [rows |-> 0, credits |-> 0]]
  BY InitCallsTypeOK DEF Init, ClientInit
<1> QED BY <1>1 DEF Init, TypeOK, ClientTypeOK, CallsTypeOK, PerEntry

LEMMA NextTypeOK == TypeOK /\ [Next]_vars => TypeOK'
<1> SUFFICES ASSUME TypeOK, [Next]_vars PROVE TypeOK'
  OBVIOUS
<1>1. CallsTypeOK /\ CallsTypeOK'
  BY NextCallsTypeOK DEF TypeOK, ClientTypeOK, CallsTypeOK
<1>2. /\ begun \in Nat /\ usage \in [Entries -> [rows : Nat, credits : Nat]]
      /\ rejections \in PerEntry /\ answered \in PerEntry /\ unlogged \in PerEntry
  BY DEF TypeOK, ClientTypeOK
<1>3. ASSUME NEW S, Watch(S), begun' \in Nat,
             usage' \in [Entries -> [rows : Nat, credits : Nat]],
             rejections' \in PerEntry, answered' \in PerEntry, unlogged' \in PerEntry
      PROVE  TypeOK'
  <2>1. /\ reached' \in [Calls -> SUBSET Entries]
        /\ touched' \in [Calls -> SUBSET Entries]
    BY <1>1, <1>3, WatchType
  <2> QED BY <1>1, <1>3, <2>1 DEF TypeOK, ClientTypeOK, CallsTypeOK
<1>4. ASSUME NEW c \in Calls, Begins(c) PROVE TypeOK'
  <2>1. Watch({c}) /\ begun' = begun + 1 /\ usage' = usage
        /\ UNCHANGED <<rejections, answered, unlogged>>
    BY <1>4 DEF Begins, Begin, BeginBlank
  <2> QED BY <1>2, <1>3, <2>1
<1>5. ASSUME NEW c \in Calls, NEW f \in Effects, Rotates(c, f) PROVE TypeOK'
  <2>1. call[c].entry \in Entries
    BY <1>1, <1>5 DEF Rotates, Rotate, CallsTypeOK
  <2>2. rejections' \in PerEntry
    BY <1>2, <1>5, <2>1, CountedType DEF Rotates
  <2> QED BY <1>2, <1>3, <1>5, <2>2 DEF Rotates, Rotate
<1>6. ASSUME NEW c \in Calls, NEW f \in Effects, Answers(c, f) PROVE TypeOK'
  <2>1. call[c].entry \in Entries
    BY <1>1, <1>6 DEF Answers, Answer, CallsTypeOK
  <2>2. answered' \in PerEntry
    BY <1>2, <1>6, <2>1, CountedType DEF Answers
  <2> QED BY <1>2, <1>3, <1>6, <2>2 DEF Answers, Answer
<1>7. ASSUME NEW c \in Calls, NEW written \in BOOLEAN, Logs(c, written)
      PROVE  TypeOK'
  <2>1. /\ call[c].entry \in Entries
        /\ usage' \in [Entries -> [rows : Nat, credits : Nat]]
    BY <1>7, LoggedUsageType DEF Logs
  <2>2. unlogged' \in PerEntry
    BY <1>2, <1>7, <2>1, CountedType DEF Logs
  <2> QED BY <1>2, <1>3, <1>7, <2>1, <2>2 DEF Logs, LogUsage
<1>8. CASE Passes
  BY <1>2, <1>3, <1>8 DEF Passes, Tick
<1>9. CASE Restarts
  <2>1. \A e \in Entries : Cardinality(WaitingForRow(e)) \in Nat
    BY SomeCalls DEF WaitingForRow
  <2>2. unlogged' \in PerEntry
    BY <1>2, <1>9, <2>1 DEF Restarts, PerEntry
  <2> QED BY <1>1, <1>2, <1>9, <2>2
          DEF Restarts, Restart, TypeOK, ClientTypeOK, CallsTypeOK, PerEntry
<1>10. CASE UNCHANGED vars
  BY <1>1, <1>2, <1>10
     DEF vars, clientVars, history, TypeOK, ClientTypeOK, CallsTypeOK
<1> QED BY <1>4, <1>5, <1>6, <1>7, <1>8, <1>9, <1>10 DEF Next, Replied, Logged

(* The variables keep their types, the history included.                   *)
THEOREM ClientTypeCorrect == Spec => []TypeOK
BY InitTypeOK, NextTypeOK, PTL DEF Spec

-----------------------------------------------------------------------------
(* Every answer accounted for *)

(* Only an answer puts a find among those that wait for their row, and     *)
(* only its write, or the end of the process, takes it from there.         *)
LEMMA WaitingUnchanged ==
    ASSUME CallsTypeOK, NEW c \in Calls, call[c].pc # "log",
           NEW k, k.pc # "log", call' = [call EXCEPT ![c] = k], NEW e \in Entries
    PROVE  WaitingForRow(e)' = WaitingForRow(e)
BY DEF WaitingForRow, CallsTypeOK

LEMMA NextAccounts ==
    TypeOK /\ UsageAccountsForAnswers /\ [Next]_vars => UsageAccountsForAnswers'
<1> SUFFICES ASSUME TypeOK, UsageAccountsForAnswers, [Next]_vars, NEW e \in Entries
             PROVE  answered'[e] = usage'[e].rows + unlogged'[e]
                                     + Cardinality(WaitingForRow(e)')
  BY DEF UsageAccountsForAnswers
<1>1. CallsTypeOK /\ call \in [Calls -> CallType]
  BY DEF TypeOK, ClientTypeOK, CallsTypeOK
<1>2. /\ answered \in PerEntry /\ unlogged \in PerEntry
      /\ answered[e] \in Nat /\ unlogged[e] \in Nat /\ usage[e].rows \in Nat
  BY DEF TypeOK, ClientTypeOK, PerEntry
<1>3. /\ IsFiniteSet(WaitingForRow(e)) /\ Cardinality(WaitingForRow(e)) \in Nat
      /\ answered[e] = usage[e].rows + unlogged[e] + Cardinality(WaitingForRow(e))
  BY SomeCalls DEF WaitingForRow, UsageAccountsForAnswers
<1>4. ASSUME NEW c \in Calls, Begins(c) PROVE WaitingForRow(e)' = WaitingForRow(e)
  <2>1. call[c].pc # "log"
    BY <1>4 DEF Begins, Begin, BeginBlank, InFlight
  <2>2. PICK k : k.pc # "log" /\ call' = [call EXCEPT ![c] = k]
    BY <1>4 DEF Begins, Begin, BeginBlank, TryNext, OnWire, Answered, NoFind
  <2> QED BY <1>1, <2>1, <2>2, WaitingUnchanged
<1>5. ASSUME NEW c \in Calls, NEW f \in Effects, Rotates(c, f)
      PROVE  WaitingForRow(e)' = WaitingForRow(e)
  <2>1. call[c].pc # "log"
    BY <1>5 DEF Rotates, Rotate
  <2>2. PICK k : k.pc # "log" /\ call' = [call EXCEPT ![c] = k]
    BY <1>5 DEF Rotates, Rotate, TryNext, OnWire, Answered, NoFind
  <2> QED BY <1>1, <2>1, <2>2, WaitingUnchanged
<1>6. ASSUME NEW c \in Calls, NEW f \in Effects, Answers(c, f)
      PROVE  answered'[e] = usage'[e].rows + unlogged'[e]
                              + Cardinality(WaitingForRow(e)')
  <2>1. /\ call[c].pc = "wire" /\ call[c].entry \in Entries
        /\ call'[c].pc = "log" /\ call'[c].entry = call[c].entry
        /\ \A d \in Calls \ {c} : call'[d] = call[d]
    BY <1>1, <1>6 DEF Answers, Answer, CallsTypeOK, CallType
  <2>2. c \notin WaitingForRow(e)
    BY <2>1 DEF WaitingForRow
  <2>3. usage' = usage /\ unlogged' = unlogged
    BY <1>6 DEF Answers, Answer
  <2>4. CASE e = call[c].entry
    <3>1. WaitingForRow(e)' = WaitingForRow(e) \cup {c}
      BY <2>1, <2>4 DEF WaitingForRow
    <3>2. Cardinality(WaitingForRow(e)') = Cardinality(WaitingForRow(e)) + 1
      BY <1>3, <2>2, <3>1, FS_AddElement
    <3>3. answered'[e] = answered[e] + 1
      BY <1>2, <1>6, <2>4, CountedType DEF Answers
    <3> QED BY <1>2, <1>3, <2>3, <3>2, <3>3
  <2>5. CASE e # call[c].entry
    <3>1. WaitingForRow(e)' = WaitingForRow(e)
      BY <2>1, <2>5 DEF WaitingForRow
    <3>2. answered'[e] = answered[e]
      BY <1>2, <1>6, <2>1, <2>5, CountedType DEF Answers
    <3> QED BY <1>3, <2>3, <3>1, <3>2
  <2> QED BY <2>4, <2>5
<1>7. ASSUME NEW c \in Calls, NEW written \in BOOLEAN, Logs(c, written)
      PROVE  answered'[e] = usage'[e].rows + unlogged'[e]
                              + Cardinality(WaitingForRow(e)')
  <2>1. /\ call[c].pc = "log" /\ call[c].entry \in Entries
        /\ call'[c].pc = "done"
        /\ \A d \in Calls \ {c} : call'[d] = call[d]
    BY <1>1, <1>7 DEF Logs, LogUsage, CallsTypeOK, Answered, NoFind
  <2>2. answered' = answered
    BY <1>7 DEF Logs
  <2>3. CASE e = call[c].entry
    <3>1. c \in WaitingForRow(e) /\ WaitingForRow(e)' = WaitingForRow(e) \ {c}
      BY <2>1, <2>3 DEF WaitingForRow
    <3>2. Cardinality(WaitingForRow(e)') = Cardinality(WaitingForRow(e)) - 1
      BY <1>3, <3>1, FS_RemoveElement
    <3>3. usage'[e].rows = usage[e].rows + (IF written THEN 1 ELSE 0)
      BY <1>7, <2>3, LoggedUsageType DEF Logs
    <3>4. unlogged'[e] = unlogged[e] + (IF written THEN 0 ELSE 1)
      BY <1>2, <1>7, <2>3, CountedType DEF Logs
    <3> QED BY <1>2, <1>3, <2>2, <3>2, <3>3, <3>4
  <2>4. CASE e # call[c].entry
    <3>1. WaitingForRow(e)' = WaitingForRow(e)
      BY <2>1, <2>4 DEF WaitingForRow
    <3>2. usage'[e].rows = usage[e].rows
      BY <1>7, <2>4, LoggedUsageType DEF Logs
    <3>3. unlogged'[e] = unlogged[e]
      BY <1>2, <1>7, <2>1, <2>4, CountedType DEF Logs
    <3> QED BY <1>3, <2>2, <3>1, <3>2, <3>3
  <2> QED BY <2>3, <2>4
<1>8. ASSUME WaitingForRow(e)' = WaitingForRow(e), UNCHANGED <<answered, unlogged, usage>>
      PROVE  answered'[e] = usage'[e].rows + unlogged'[e]
                              + Cardinality(WaitingForRow(e)')
  BY <1>3, <1>8
<1>9. CASE Passes
  BY <1>8, <1>9 DEF Passes, Tick, WaitingForRow
<1>10. CASE Restarts
  <2>1. WaitingForRow(e)' = {}
    BY <1>10 DEF Restarts, Restart, NoFind, WaitingForRow
  <2>2. Cardinality(WaitingForRow(e)') = 0
    BY <2>1, FS_EmptySet
  <2>3. /\ answered' = answered /\ usage' = usage
        /\ unlogged'[e] = unlogged[e] + Cardinality(WaitingForRow(e))
    BY <1>10 DEF Restarts, Restart
  <2> QED BY <1>2, <1>3, <2>2, <2>3
<1>11. CASE UNCHANGED vars
  BY <1>8, <1>11 DEF vars, clientVars, history, WaitingForRow
<1>12. ASSUME NEW c \in Calls, Begins(c)
       PROVE  UNCHANGED <<answered, unlogged, usage>>
  BY <1>12 DEF Begins, Begin, BeginBlank
<1>13. ASSUME NEW c \in Calls, NEW f \in Effects, Rotates(c, f)
       PROVE  UNCHANGED <<answered, unlogged, usage>>
  BY <1>13 DEF Rotates, Rotate
<1> QED BY <1>4, <1>5, <1>6, <1>7, <1>8, <1>9, <1>10, <1>11, <1>12, <1>13
        DEF Next, Replied, Logged

LEMMA InitAccounts == Init => UsageAccountsForAnswers
<1> SUFFICES ASSUME Init, NEW e \in Entries
             PROVE  answered[e] = usage[e].rows + unlogged[e]
                                    + Cardinality(WaitingForRow(e))
  BY DEF UsageAccountsForAnswers
<1>1. WaitingForRow(e) = {}
  BY DEF Init, ClientInit, NoFind, WaitingForRow
<1>2. Cardinality(WaitingForRow(e)) = 0
  BY <1>1, FS_EmptySet
<1> QED BY <1>2 DEF Init, ClientInit

(* However finds, failing writes and restarts fall: the usage table misses *)
(* no answer but those whose write failed or was cut off.                  *)
THEOREM AnswersAreAccountedFor == Spec => []UsageAccountsForAnswers
BY InitAccounts, NextAccounts, InitTypeOK, NextTypeOK, PTL DEF Spec

-----------------------------------------------------------------------------
(* What an unusable key costs *)

Probing(e) == {c \in Calls : call[c].pc = "wire" /\ call[c].entry = e}

(* A rejected key is dead, and only the finds that already hold it can be  *)
(* rejected with it again.                                                 *)
RejectionsLimited ==
    \A e \in Entries :
        /\ e \in pool.dead => rejections[e] + Cardinality(Probing(e)) <= Cardinality(Calls)
        /\ e \notin pool.dead => rejections[e] = 0

(* A step of find c that picks from a pool where e is dead.                *)
LEMMA NoProbeOfTheDead ==
    ASSUME CallsTypeOK, NEW c \in Calls, NEW p \in PoolType, NEW n \in Nat,
           TryNext(c, p, n), NEW e \in Entries, e \in p.dead
    PROVE  pool'.dead = p.dead /\ Probing(e)' = Probing(e) \ {c}
<1>1. call \in [Calls -> CallType]
  BY DEF CallsTypeOK
<1>2. ASSUME NEW g \in Entries, n > 0, FirstUsable(p, now, g), pool' = Taken(p, g),
             call' = [call EXCEPT ![c] = OnWire(g, n - 1)]
      PROVE  pool'.dead = p.dead /\ Probing(e)' = Probing(e) \ {c}
  <2>1. g # e
    BY <1>2 DEF FirstUsable, Usable
  <2>2. OnWire(g, n - 1).entry = g
    BY DEF OnWire, NoFind
  <2>3. pool'.dead = p.dead
    BY <1>2, TakenFields
  <2> QED BY <1>1, <1>2, <2>1, <2>2, <2>3 DEF Probing
<1>3. ASSUME pool' = p, call' = [call EXCEPT ![c] = Answered("unavailable")]
      PROVE  pool'.dead = p.dead /\ Probing(e)' = Probing(e) \ {c}
  BY <1>1, <1>3, DoneType DEF Probing
<1> QED BY <1>2, <1>3 DEF TryNext

LEMMA TryNextKeepsDead ==
    ASSUME NEW c \in Calls, NEW p \in PoolType, NEW n, TryNext(c, p, n)
    PROVE  pool'.dead = p.dead
BY TakenFields DEF TryNext

(* A step that rejects no key and gives no dead key away.                  *)
LEMMA NothingRejected ==
    ASSUME TypeOK, RejectionsLimited, rejections' = rejections, pool'.dead = pool.dead,
           \A e \in Entries : e \in pool.dead => Probing(e)' \subseteq Probing(e)
    PROVE  RejectionsLimited'
<1> SUFFICES ASSUME NEW e \in Entries, e \in pool.dead
             PROVE  rejections[e] + Cardinality(Probing(e)') <= Cardinality(Calls)
  BY DEF RejectionsLimited
<1>1. /\ IsFiniteSet(Probing(e)) /\ Cardinality(Probing(e)) \in Nat
      /\ Cardinality(Calls) \in Nat /\ rejections[e] \in Nat
      /\ rejections[e] + Cardinality(Probing(e)) <= Cardinality(Calls)
  BY SomeCalls DEF Probing, TypeOK, PerEntry, RejectionsLimited
<1>2. /\ Cardinality(Probing(e)') <= Cardinality(Probing(e))
      /\ Cardinality(Probing(e)') \in Nat
  BY <1>1, FS_Subset, FS_CardinalityType
<1> QED BY <1>1, <1>2

LEMMA RejectedStep ==
    ASSUME DistinctKeys, TypeOK, RejectionsLimited,
           NEW c \in Calls, NEW f \in Effects, Rotates(c, f), f.kind = "dead"
    PROVE  RejectionsLimited'
<1> DEFINE r == call[c].entry
           p == Killed(pool, ApiKey[r])
<1>1. /\ call[c].pc = "wire" /\ r \in Entries /\ call[c].left \in Nat
      /\ pool \in PoolType /\ CallsTypeOK
      /\ rejections \in PerEntry
  BY DEF Rotates, Rotate, TypeOK, ClientTypeOK, CallsTypeOK, CallType
<1>2. p \in PoolType /\ p.dead = pool.dead \cup {r}
  <2>1. {e \in Entries : FirstWith(ApiKey[r], e)} = {r}
    BY <1>1, FirstIsOnly DEF DistinctKeys, FirstWith
  <2>2. p.dead = pool.dead \cup {e \in Entries : FirstWith(ApiKey[r], e)}
    BY <1>1 DEF Killed, PoolType
  <2> QED BY <1>1, <2>1, <2>2, KilledType
<1>3. TryNext(c, p, call[c].left) /\ rejections' = Counted(rejections, r)
  BY DEF Rotates, Rotate, Marked
<1> HIDE DEF p
<1>4. pool'.dead = pool.dead \cup {r}
  BY <1>2, <1>3, TryNextKeepsDead
<1>5. ASSUME NEW e \in Entries, e \in pool'.dead
      PROVE  rejections'[e] + Cardinality(Probing(e)') <= Cardinality(Calls)
  <2>1. Probing(e)' = Probing(e) \ {c}
    BY <1>1, <1>2, <1>3, <1>4, <1>5, NoProbeOfTheDead
  <2>2. /\ IsFiniteSet(Probing(e)) /\ Cardinality(Probing(e)) \in Nat
        /\ Cardinality(Calls) \in Nat /\ rejections[e] \in Nat
        /\ Cardinality(Probing(e)) <= Cardinality(Calls)
    BY <1>1, SomeCalls DEF Probing, PerEntry
  <2>3. Cardinality(Probing(e)') = IF c \in Probing(e) THEN Cardinality(Probing(e)) - 1
                                   ELSE Cardinality(Probing(e))
    BY <2>1, <2>2, FS_RemoveElement
  <2>4. CASE e = r
    <3>1. c \in Probing(e) /\ rejections'[e] = rejections[e] + 1
      BY <1>1, <1>3, <2>4, CountedType DEF Probing
    <3>2. rejections[e] + Cardinality(Probing(e)) <= Cardinality(Calls)
      BY <2>2 DEF RejectionsLimited
    <3> QED BY <2>2, <2>3, <3>1, <3>2
  <2>5. CASE e # r
    <3>1. c \notin Probing(e) /\ rejections'[e] = rejections[e] /\ e \in pool.dead
      BY <1>1, <1>3, <1>4, <1>5, <2>5, CountedType DEF Probing
    <3> QED BY <2>2, <2>3, <3>1 DEF RejectionsLimited
  <2> QED BY <2>4, <2>5
<1>6. ASSUME NEW e \in Entries, e \notin pool'.dead PROVE rejections'[e] = 0
  <2>1. e # r /\ e \notin pool.dead
    BY <1>4, <1>6
  <2> QED BY <1>1, <1>3, <2>1, CountedType DEF RejectionsLimited
<1> QED BY <1>5, <1>6 DEF RejectionsLimited

LEMMA NextRejectionsLimited ==
    ASSUME DistinctKeys, TypeOK, RejectionsLimited, [Next]_vars
    PROVE  RejectionsLimited'
<1>1. /\ CallsTypeOK /\ pool \in PoolType /\ now \in Nat
      /\ call \in [Calls -> CallType]
      /\ \A c \in Calls : call[c].left \in Nat
  BY DEF TypeOK, ClientTypeOK, CallsTypeOK, CallType
<1>2. ASSUME NEW c \in Calls, Begins(c) PROVE RejectionsLimited'
  <2>1. rejections' = rejections
    BY <1>2 DEF Begins
  <2>2. CASE Begin(c)
    <3>1. TryNext(c, pool, NumKeys) /\ NumKeys \in Nat
      BY <2>2, KeyPoolAssumption DEF Begin
    <3>2. pool'.dead = pool.dead
      BY <1>1, <3>1, TryNextKeepsDead
    <3>3. \A e \in Entries : e \in pool.dead => Probing(e)' \subseteq Probing(e)
      BY <1>1, <3>1, NoProbeOfTheDead
    <3> QED BY <2>1, <3>2, <3>3, NothingRejected
  <2>3. CASE BeginBlank(c)
    <3>1. pool' = pool /\ call' = [call EXCEPT ![c] = Answered("miss")]
          /\ Answered("miss").pc = "done"
      BY <2>3, DoneType DEF BeginBlank
    <3>2. \A e \in Entries : Probing(e)' \subseteq Probing(e)
      BY <1>1, <3>1 DEF Probing
    <3> QED BY <2>1, <3>1, <3>2, NothingRejected
  <2> QED BY <1>2, <2>2, <2>3 DEF Begins
<1>3. ASSUME NEW c \in Calls, NEW f \in Effects, Rotates(c, f) PROVE RejectionsLimited'
  <2>1. CASE f.kind = "dead"
    BY <1>3, <2>1, RejectedStep
  <2>2. CASE f.kind # "dead"
    <3> DEFINE p == Marked(f, ApiKey[call[c].entry])
    <3>1. p \in PoolType /\ p.dead = pool.dead
      <4>1. f \in EffectType /\ f.kind \in {"park", "retry"}
        BY <1>3, <2>2, ClientAssumption DEF Rotates, Rotate, EffectType, AnswerKinds
      <4>2. CASE f.kind = "park"
        BY <1>1, <4>1, <4>2, ParkedType DEF Marked, EffectType
      <4>3. CASE f.kind = "retry"
        BY <1>1, <4>3 DEF Marked
      <4> QED BY <4>1, <4>2, <4>3
    <3>2. TryNext(c, p, call[c].left) /\ rejections' = rejections
      BY <1>3, <2>2 DEF Rotates, Rotate
    <3> HIDE DEF p
    <3>3. pool'.dead = pool.dead
      BY <3>1, <3>2, TryNextKeepsDead
    <3>4. \A e \in Entries : e \in pool.dead => Probing(e)' \subseteq Probing(e)
      BY <1>1, <3>1, <3>2, NoProbeOfTheDead
    <3> QED BY <3>2, <3>3, <3>4, NothingRejected
  <2> QED BY <2>1, <2>2
<1>4. ASSUME NEW c \in Calls, NEW f \in Effects, Answers(c, f) PROVE RejectionsLimited'
  <2>1. pool' = pool /\ rejections' = rejections
    BY <1>4 DEF Answers, Answer
  <2>2. call'[c].pc = "log" /\ \A d \in Calls \ {c} : call'[d] = call[d]
    BY <1>1, <1>4 DEF Answers, Answer, CallType
  <2>3. \A e \in Entries : Probing(e)' \subseteq Probing(e)
    BY <2>2 DEF Probing
  <2> QED BY <2>1, <2>3, NothingRejected
<1>5. ASSUME NEW c \in Calls, NEW written \in BOOLEAN, Logs(c, written)
      PROVE  RejectionsLimited'
  <2>1. pool' = pool /\ rejections' = rejections
    BY <1>5 DEF Logs, LogUsage
  <2>2. call'[c].pc = "done" /\ \A d \in Calls \ {c} : call'[d] = call[d]
    BY <1>1, <1>5 DEF Logs, LogUsage, Answered, NoFind
  <2>3. \A e \in Entries : Probing(e)' \subseteq Probing(e)
    BY <2>2 DEF Probing
  <2> QED BY <2>1, <2>3, NothingRejected
<1>6. CASE Passes
  BY <1>6, NothingRejected DEF Passes, Tick, Probing
<1>7. CASE Restarts
  BY <1>7 DEF Restarts, Restart, FreshPool, RejectionsLimited
<1>8. CASE UNCHANGED vars
  BY <1>8, NothingRejected DEF vars, clientVars, history, Probing
<1> QED BY <1>2, <1>3, <1>4, <1>5, <1>6, <1>7, <1>8 DEF Next, Replied, Logged

(* With no key configured twice, an unusable key is probed at most once by *)
(* each of the finds that can overlap, until the process restarts.         *)
THEOREM DeadKeysAreProbedRarely ==
    ASSUME DistinctKeys PROVE Spec => []ProbesBounded
<1>1. Init => RejectionsLimited
  BY DEF Init, ClientInit, FreshPool, RejectionsLimited
<1>2. TypeOK /\ RejectionsLimited => ProbesBounded
  <2> SUFFICES ASSUME TypeOK, RejectionsLimited, NEW e \in Entries
               PROVE  rejections[e] <= Cardinality(Calls)
    BY DEF ProbesBounded
  <2>1. /\ Cardinality(Probing(e)) \in Nat /\ Cardinality(Calls) \in Nat
        /\ rejections[e] \in Nat
    BY SomeCalls DEF Probing, TypeOK, PerEntry
  <2> QED BY <2>1 DEF RejectionsLimited
<1>3. TypeOK /\ RejectionsLimited /\ [Next]_vars => RejectionsLimited'
  BY NextRejectionsLimited
<1> QED BY <1>1, <1>2, <1>3, InitTypeOK, NextTypeOK, PTL DEF Spec
=============================================================================

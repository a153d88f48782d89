------------------------ MODULE ChainedFinderProofs -------------------------
(***************************************************************************)
(* ChainedFinder.tla implements ChainPromise.tla for every number of tiers *)
(* and of overlapping finds.                                               *)
(***************************************************************************)
EXTENDS ChainedFinder, TLAPS

Said == Outcomes \cup {"unasked", "skipped"}

(* What the locals f of a find in tier n remember of the words w.          *)
Remembers(f, w, n) ==
    /\ w \in [Tiers -> Said]
    /\ \A t \in Tiers : t < n => w[t] \in {"miss", "unavailable", "skipped"}
    /\ \A t \in Tiers : t >= n => w[t] = "unasked"
    /\ f.noMatch <=> \E t \in Tiers : w[t] = "miss"
    /\ f.lastExc <=> \E t \in Tiers : w[t] = "unavailable"
    /\ f.noMatch => fallback

ChainInv ==
    /\ TypeOK
    /\ \A c \in Calls : call[c].tier # 0 => Remembers(call[c], said[c], call[c].tier)

-----------------------------------------------------------------------------
(* The loop and the promise, on the words of one find *)

(* Words that settle nothing yet.                                          *)
LEMMA OpenWords ==
    ASSUME NEW w \in [Tiers -> Said], NEW t \in Tiers, w[t] = "unasked",
           \A u \in Tiers : w[u] \in {"miss", "unavailable", "skipped", "unasked"},
           (\E u \in Tiers : w[u] = "miss") => fallback
    PROVE  ~Abstract!Settled(w) /\ Abstract!AnswerTo(w) = "pending"
BY DEF Abstract!Settled, Abstract!AnswerTo, Abstract!Says, Abstract!Tiers, Tiers

(* Words every tier has had its chance to say.                             *)
LEMMA ClosedWords ==
    ASSUME NEW w \in [Tiers -> Said], NEW f,
           \A u \in Tiers : w[u] \in {"miss", "unavailable", "skipped"},
           f.noMatch <=> \E u \in Tiers : w[u] = "miss",
           f.lastExc <=> \E u \in Tiers : w[u] = "unavailable"
    PROVE  Abstract!AnswerTo(w) = AfterLoop(f)
BY DEF Abstract!Settled, Abstract!AnswerTo, Abstract!Says, Abstract!Tiers, Tiers,
       Abstract!Verdict, AfterLoop

LEMMA FieldsOfFind ==
    ASSUME NEW f \in CallType, NEW t \in Tiers, NEW a \in Answers
    PROVE  /\ Asking(t, f) \in CallType /\ Asking(t, f).tier = t
           /\ Asking(t, f).answer = "pending"
           /\ Asking(t, f).noMatch = f.noMatch /\ Asking(t, f).lastExc = f.lastExc
BY DEF CallType, Asking, Answers

LEMMA EndedType ==
    ASSUME NEW f \in CallType, NEW a \in Answers
    PROVE  Ended(f, a) \in CallType /\ Ended(f, a).tier = 0 /\ Ended(f, a).answer = a
BY DEF CallType, Ended

(* Find c moves on to locals g and words s; nothing else changes.          *)
LEMMA FindMoves ==
    ASSUME ChainInv, NEW c \in Calls, NEW g \in CallType, NEW s \in [Tiers -> Said],
           (g.answer = "pending") <=> (g.tier # 0),
           g.tier # 0 => Remembers(g, s, g.tier),
           call' = [call EXCEPT ![c] = g], said' = [said EXCEPT ![c] = s],
           enabled' \in [Tiers -> BOOLEAN], UNCHANGED fallback
    PROVE  ChainInv' /\ answer' = [answer EXCEPT ![c] = g.answer]
<1>1. call \in [Calls -> CallType] /\ said \in [Calls -> [Tiers -> Said]]
  BY DEF ChainInv, TypeOK, Said
<1>2. TypeOK'
  BY <1>1 DEF ChainInv, TypeOK, Said
<1>3. ASSUME NEW d \in Calls, call'[d].tier # 0
      PROVE  Remembers(call[d], said[d], call[d].tier)'
  <2>1. CASE d = c
    <3>1. call'[d] = g /\ said'[d] = s
      BY <1>1, <2>1
    <3> QED BY <1>3, <3>1 DEF Remembers
  <2>2. CASE d # c
    <3>1. call'[d] = call[d] /\ said'[d] = said[d]
      BY <1>1, <2>2
    <3> QED BY <1>3, <3>1 DEF ChainInv, Remembers
  <2> QED BY <2>1, <2>2
<1>4. answer' = [answer EXCEPT ![c] = g.answer]
  BY <1>1 DEF answer
<1> QED BY <1>2, <1>3, <1>4 DEF ChainInv

(* The locals of a find that passed over tiers, some of which raised.      *)
LEMMA FlagsPassedOver ==
    ASSUME NEW f \in CallType, NEW raised \in BOOLEAN
    PROVE  LET g == [f EXCEPT !.lastExc = @ \/ raised]
           IN  /\ g \in CallType /\ g.noMatch = f.noMatch
               /\ (g.lastExc <=> (f.lastExc \/ raised))
<1>1. (f.lastExc \/ raised) \in BOOLEAN
  OBVIOUS
<1>2. ASSUME NEW x \in BOOLEAN
      PROVE  LET g == [f EXCEPT !.lastExc = x]
             IN  g \in CallType /\ g.noMatch = f.noMatch /\ g.lastExc = x
  BY DEF CallType
<1> QED BY <1>1, <1>2

(* The rest of the loop does what the promise says of the words it starts  *)
(* from, and keeps its locals true to them.                                *)
LEMMA LoopKeepsPromise ==
    ASSUME ChainInv, NEW c \in Calls, NEW f \in CallType,
           NEW from \in 1..(NumTiers + 1), NEW w, Remembers(f, w, from),
           AskNext(c, f, from, w), enabled' \in [Tiers -> BOOLEAN], UNCHANGED fallback
    PROVE  /\ \E u \in Abstract!AskedNext(from) :
                 /\ said' = [said EXCEPT ![c] = Abstract!PassedOver(w, from, u)]
                 /\ answer' = [answer EXCEPT ![c] =
                                  Abstract!AnswerTo(Abstract!PassedOver(w, from, u))]
           /\ ChainInv'
<1>1. PICK t \in Suspends(from) :
          LET g == [f EXCEPT !.lastExc = @ \/ Raises(from, t)]
          IN  /\ call' = [call EXCEPT ![c] =
                            IF t \in Tiers THEN Asking(t, g) ELSE Ended(g, AfterLoop(g))]
              /\ said' = [said EXCEPT ![c] = Passed(w, from, t)]
  BY DEF AskNext
<1> DEFINE g == [f EXCEPT !.lastExc = @ \/ Raises(from, t)]
           s == Passed(w, from, t)
<1>2. /\ t \in Nat /\ t >= from /\ t <= NumTiers + 1 /\ from \in Nat \ {0}
      /\ t \in Tiers => enabled[t]
      /\ t \notin Tiers => t = NumTiers + 1
      /\ enabled \in [Tiers -> BOOLEAN] /\ NumTiers \in Nat
  BY ChainAssumption DEF Suspends, Tiers, ChainInv, TypeOK
<1>3. /\ s \in [Tiers -> Said]
      /\ \A u \in Tiers : u < t => s[u] \in {"miss", "unavailable", "skipped"}
      /\ \A u \in Tiers : u >= t => s[u] = "unasked"
      /\ \A u \in Tiers : s[u] = "miss" <=> w[u] = "miss"
      /\ \A u \in Tiers : s[u] = "unavailable" <=>
            (w[u] = "unavailable" \/ (u >= from /\ u < t /\ enabled[u]))
  BY <1>2 DEF Remembers, Passed, Tiers, Said, Outcomes
<1>4. /\ g \in CallType /\ g.noMatch = f.noMatch
      /\ (g.lastExc <=> (f.lastExc \/ Raises(from, t)))
  BY FlagsPassedOver DEF Raises
<1>5. /\ g.noMatch <=> \E u \in Tiers : s[u] = "miss"
      /\ g.lastExc <=> \E u \in Tiers : s[u] = "unavailable"
      /\ g.noMatch => fallback
  <2>1. (\E u \in Tiers : s[u] = "miss") <=> \E u \in Tiers : w[u] = "miss"
    BY <1>3
  <2>2. Raises(from, t) <=> \E u \in Tiers : u >= from /\ u < t /\ enabled[u]
    BY <1>2 DEF Raises, Tiers
  <2>3. /\ f.noMatch <=> \E u \in Tiers : w[u] = "miss"
        /\ f.lastExc <=> \E u \in Tiers : w[u] = "unavailable"
        /\ f.noMatch => fallback
    BY DEF Remembers
  <2> HIDE DEF g, s
  <2> QED BY <1>3, <1>4, <2>1, <2>2, <2>3
<1>6. s = Abstract!PassedOver(w, from, t) /\ t \in Abstract!AskedNext(from)
  BY DEF Passed, Abstract!PassedOver, Abstract!AskedNext, Abstract!Tiers, Tiers, Suspends
<1>7. CASE t \in Tiers
  <2> HIDE DEF g, s
  <2>1. call' = [call EXCEPT ![c] = Asking(t, g)] /\ said' = [said EXCEPT ![c] = s]
    BY <1>1, <1>7 DEF g, s
  <2>2. /\ Asking(t, g) \in CallType /\ Asking(t, g).answer = "pending"
        /\ Asking(t, g).tier = t /\ t # 0
        /\ Asking(t, g).noMatch = g.noMatch /\ Asking(t, g).lastExc = g.lastExc
    BY <1>4, <1>7, FieldsOfFind DEF Answers, Tiers
  <2>3. Remembers(Asking(t, g), s, t)
    BY <1>3, <1>5, <2>2 DEF Remembers
  <2>4. Abstract!AnswerTo(s) = "pending"
    <3>1. s[t] = "unasked"
      BY <1>2, <1>3, <1>7
    <3>2. \A u \in Tiers : s[u] \in {"miss", "unavailable", "skipped", "unasked"}
      BY <1>2, <1>3 DEF Tiers
    <3> QED BY <1>3, <1>5, <1>7, <3>1, <3>2, OpenWords
  <2>5. ChainInv' /\ answer' = [answer EXCEPT ![c] = "pending"]
    <3> DEFINE h == Asking(t, g)
    <3>1. /\ h \in CallType
          /\ (h.answer = "pending") <=> (h.tier # 0)
          /\ h.tier # 0 => Remembers(h, s, h.tier)
          /\ h.answer = "pending"
      BY <2>2, <2>3
    <3>2. call' = [call EXCEPT ![c] = h]
      BY <2>1
    <3> HIDE DEF h
    <3>3. ChainInv' /\ answer' = [answer EXCEPT ![c] = h.answer]
      BY <1>3, <2>1, <3>1, <3>2, FindMoves
    <3> QED BY <3>1, <3>3
  <2> QED BY <1>6, <2>1, <2>4, <2>5
<1>8. CASE t \notin Tiers
  <2> HIDE DEF g, s
  <2>1. /\ call' = [call EXCEPT ![c] = Ended(g, AfterLoop(g))]
        /\ said' = [said EXCEPT ![c] = s]
    BY <1>1, <1>8 DEF g, s
  <2>2. \A u \in Tiers : s[u] \in {"miss", "unavailable", "skipped"}
    BY <1>2, <1>3, <1>8 DEF Tiers
  <2>3. Abstract!AnswerTo(s) = AfterLoop(g)
    BY <1>3, <1>5, <2>2, ClosedWords
  <2>4. AfterLoop(g) \in Answers \ {"pending"}
    BY DEF AfterLoop, Answers, Outcomes
  <2>5. ChainInv' /\ answer' = [answer EXCEPT ![c] = AfterLoop(g)]
    <3> DEFINE h == Ended(g, AfterLoop(g))
    <3>1. /\ h \in CallType /\ h.answer = AfterLoop(g) /\ h.tier = 0
          /\ (h.answer = "pending") <=> (h.tier # 0)
      BY <1>4, <2>4, EndedType
    <3>2. call' = [call EXCEPT ![c] = h]
      BY <2>1
    <3> HIDE DEF h
    <3>3. ChainInv' /\ answer' = [answer EXCEPT ![c] = h.answer]
      BY <1>3, <2>1, <3>1, <3>2, FindMoves
    <3> QED BY <3>1, <3>3
  <2> QED BY <1>6, <2>1, <2>3, <2>5
<1> QED BY <1>7, <1>8

-----------------------------------------------------------------------------
(* Every step keeps the promise *)

LEMMA FindKeepsPromise ==
    ASSUME ChainInv, NEW c \in Calls, Find(c)
    PROVE  Abstract!Start(c) /\ ChainInv'
<1>1. NoFind \in CallType /\ 1 \in 1..(NumTiers + 1)
  BY ChainAssumption DEF NoFind, CallType, Answers
<1>2. Remembers(NoFind, Silence, 1)
  BY ChainAssumption DEF Remembers, NoFind, Silence, Said, Tiers
<1>3. /\ AskNext(c, NoFind, 1, Silence) /\ UNCHANGED <<fallback, enabled>>
      /\ enabled' \in [Tiers -> BOOLEAN]
  BY DEF Find, ChainInv, TypeOK
<1>4. Abstract!Silence = Silence
  BY DEF Abstract!Silence, Abstract!Tiers, Silence, Tiers
<1>5. answer[c] # "pending"
  BY DEF Find, ChainInv, TypeOK, answer
<1>6. /\ \E u \in Abstract!AskedNext(1) :
            /\ said' = [said EXCEPT ![c] = Abstract!PassedOver(Silence, 1, u)]
            /\ answer' = [answer EXCEPT ![c] =
                             Abstract!AnswerTo(Abstract!PassedOver(Silence, 1, u))]
      /\ ChainInv'
  BY <1>1, <1>2, <1>3, LoopKeepsPromise
<1> QED BY <1>3, <1>4, <1>5, <1>6 DEF Abstract!Start

LEMMA FlagsOfReply ==
    ASSUME NEW g \in CallType, NEW v
    PROVE  /\ Flagged(g, v) \in CallType /\ Flagged(g, v).tier = g.tier
           /\ (Flagged(g, v).noMatch <=> (g.noMatch \/ v = "miss"))
           /\ (Flagged(g, v).lastExc <=> (g.lastExc \/ v = "unavailable"))
<1>1. /\ (g.noMatch \/ v = "miss") \in BOOLEAN
      /\ (g.lastExc \/ v = "unavailable") \in BOOLEAN
  OBVIOUS
<1>2. ASSUME NEW a \in BOOLEAN, NEW b \in BOOLEAN
      PROVE  LET f == [g EXCEPT !.noMatch = a, !.lastExc = b]
             IN  /\ f \in CallType /\ f.tier = g.tier
                 /\ f.noMatch = a /\ f.lastExc = b
  BY DEF CallType
<1> QED BY <1>1, <1>2 DEF Flagged

LEMMA ReplyKeepsPromise ==
    ASSUME ChainInv, NEW c \in Calls, NEW v \in Outcomes, NEW lost \in BOOLEAN,
           Reply(c, v, lost)
    PROVE  Abstract!Hear(c, call[c].tier, v, lost) /\ ChainInv'
<1> DEFINE t == call[c].tier
           f == Flagged(call[c], v)
           w == Told(c, v)
<1>1. /\ t \in Tiers /\ t # 0 /\ Remembers(call[c], said[c], t)
      /\ call[c] \in CallType /\ said[c] \in [Tiers -> Said]
      /\ answer[c] = "pending"
  BY DEF Reply, ChainInv, TypeOK, CallType, Said, answer
<1>2. f \in CallType /\ f.tier = t
      /\ (f.noMatch <=> (call[c].noMatch \/ v = "miss"))
      /\ (f.lastExc <=> (call[c].lastExc \/ v = "unavailable"))
  BY <1>1, FlagsOfReply
<1>3. /\ w = [said[c] EXCEPT ![t] = v] /\ w \in [Tiers -> Said] /\ w[t] = v
      /\ \A u \in Tiers : u # t => w[u] = said[c][u]
  BY <1>1 DEF Told, Said
<1>4. /\ said[c][t] = "unasked"
      /\ \A u \in 1..(t - 1) : said[c][u] # "unasked"
  BY <1>1, ChainAssumption DEF Remembers, Tiers
<1>7. /\ lost => v = "unavailable"
      /\ enabled' = IF lost THEN [enabled EXCEPT ![t] = FALSE] ELSE enabled
      /\ enabled' \in [Tiers -> BOOLEAN] /\ UNCHANGED fallback
  <2>1. enabled \in [Tiers -> BOOLEAN]
    BY DEF ChainInv, TypeOK
  <2> QED BY <2>1 DEF Reply
<1>5. CASE GoesOn(v)
  <2>1. AskNext(c, f, t + 1, w)
    BY <1>5 DEF Reply
  <2>2. v = "unavailable" \/ (v = "miss" /\ fallback)
    BY <1>5 DEF GoesOn
  <2>3. Remembers(f, w, t + 1) /\ t + 1 \in 1..(NumTiers + 1) /\ t + 1 \in Nat
    <3>1. /\ t \in Nat
          /\ \A u \in Tiers : u < t + 1 => w[u] \in {"miss", "unavailable", "skipped"}
          /\ \A u \in Tiers : u >= t + 1 => w[u] = "unasked"
      BY <1>1, <1>3, <2>2, ChainAssumption DEF Remembers, Tiers
    <3>2. f.noMatch <=> \E u \in Tiers : w[u] = "miss"
      BY <1>1, <1>2, <1>3, <1>4 DEF Remembers
    <3>3. f.lastExc <=> \E u \in Tiers : w[u] = "unavailable"
      BY <1>1, <1>2, <1>3, <1>4 DEF Remembers
    <3>4. f.noMatch => fallback
      BY <1>1, <1>2, <2>2 DEF Remembers
    <3>5. t + 1 \in 1..(NumTiers + 1)
      BY <1>1, ChainAssumption DEF Tiers
    <3> QED BY <1>3, <3>1, <3>2, <3>3, <3>4, <3>5 DEF Remembers
  <2>4. \/ t = NumTiers /\ \A u \in Abstract!AskedNext(t + 1) :
                               Abstract!PassedOver(w, t + 1, u) = w
        \/ ~Abstract!Settled(w)
    <3>1. CASE t = NumTiers
      <4>1. ASSUME NEW u PROVE Abstract!PassedOver(w, t + 1, u) = w
        BY <1>3, <3>1, ChainAssumption DEF Abstract!PassedOver, Abstract!Tiers, Tiers
      <4> QED BY <3>1, <4>1
    <3>2. CASE t < NumTiers
      <4>1. t + 1 \in Tiers /\ w[t + 1] = "unasked"
        BY <1>1, <2>3, <3>2, ChainAssumption DEF Remembers, Tiers
      <4>2. \A u \in Tiers : w[u] \in {"miss", "unavailable", "skipped", "unasked"}
        BY <2>3 DEF Remembers, Tiers
      <4>3. (\E u \in Tiers : w[u] = "miss") => fallback
        BY <2>3 DEF Remembers
      <4>4. ~Abstract!Settled(w)
        BY <1>3, <4>1, <4>2, <4>3, OpenWords
      <4> QED BY <4>4
    <3> QED BY <1>1, <3>1, <3>2, ChainAssumption DEF Tiers
  <2>5. /\ \E u \in Abstract!AskedNext(t + 1) :
              /\ said' = [said EXCEPT ![c] = Abstract!PassedOver(w, t + 1, u)]
              /\ answer' = [answer EXCEPT ![c] =
                               Abstract!AnswerTo(Abstract!PassedOver(w, t + 1, u))]
        /\ ChainInv'
    <3> HIDE DEF t, f, w
    <3> QED BY <1>2, <1>7, <2>1, <2>3, LoopKeepsPromise
  <2>6. Abstract!Heard(c, t, w)
    <3> HIDE DEF t, f, w
    <3>1. CASE Abstract!Settled(w)
      <4>1. \A u \in Abstract!AskedNext(t + 1) : Abstract!PassedOver(w, t + 1, u) = w
        BY <2>4, <3>1
      <4>2. Abstract!AnswerTo(w) = Abstract!Verdict(w)
        BY <3>1 DEF Abstract!AnswerTo
      <4> QED BY <2>5, <3>1, <4>1, <4>2 DEF Abstract!Heard
    <3>2. CASE ~Abstract!Settled(w)
      BY <2>5, <3>2 DEF Abstract!Heard
    <3> QED BY <3>1, <3>2
  <2> HIDE DEF f, w
  <2> QED BY <1>1, <1>3, <1>4, <1>7, <2>5, <2>6 DEF Abstract!Hear
<1>6. CASE ~GoesOn(v)
  <2>1. /\ call' = [call EXCEPT ![c] = Ended(f, v)]
        /\ said' = [said EXCEPT ![c] = w]
    BY <1>6 DEF Reply
  <2>2. v \in {"hit", "error"} \/ (v = "miss" /\ ~fallback)
    BY <1>6 DEF GoesOn, Outcomes
  <2>3. \A u \in Tiers \ {t} : w[u] \notin {"hit", "error"}
    BY <1>1, <1>3, ChainAssumption DEF Remembers, Tiers
  <2>4. Abstract!Settled(w) /\ Abstract!Verdict(w) = v
    BY <1>1, <1>3, <2>2, <2>3
       DEF Abstract!Settled, Abstract!Verdict, Abstract!Says, Abstract!Tiers, Tiers
  <2>6. /\ Ended(f, v) \in CallType /\ Ended(f, v).answer = v
        /\ Ended(f, v).tier = 0 /\ v # "pending"
    BY <1>2, EndedType DEF Answers, Outcomes
  <2>7. ChainInv' /\ answer' = [answer EXCEPT ![c] = v]
    <3> DEFINE g == Ended(f, v)
    <3>1. /\ (g.answer = "pending") <=> (g.tier # 0)
          /\ g.tier # 0 => Remembers(g, w, g.tier)
          /\ g \in CallType /\ g.answer = v
      BY <2>6
    <3> HIDE DEF f, w, g
    <3>2. call' = [call EXCEPT ![c] = g] /\ w \in [Tiers -> Said]
      BY <1>3, <2>1 DEF g
    <3>3. ChainInv' /\ answer' = [answer EXCEPT ![c] = g.answer]
      BY <1>7, <2>1, <3>1, <3>2, FindMoves
    <3> QED BY <3>1, <3>3
  <2>5. Abstract!Heard(c, t, w)
    BY <2>1, <2>4, <2>7 DEF Abstract!Heard
  <2> HIDE DEF f, w
  <2> QED BY <1>1, <1>3, <1>4, <1>7, <2>5, <2>7 DEF Abstract!Hear
<1> QED BY <1>5, <1>6

LEMMA InitKeepsPromise == Init => Abstract!PromiseInit /\ ChainInv
BY DEF Init, Abstract!PromiseInit, Abstract!Tiers, Abstract!Silence, Tiers, Silence,
       ChainInv, TypeOK, NoFind, CallType, Answers, answer

LEMMA NextKeepsPromise ==
    ASSUME ChainInv, [Next]_vars
    PROVE  ChainInv' /\ [Abstract!PromiseNext]_<<fallback, enabled, said, answer>>
<1>1. ASSUME NEW c \in Calls, Find(c) PROVE ChainInv' /\ Abstract!PromiseNext
  BY <1>1, FindKeepsPromise DEF Abstract!PromiseNext
<1>2. ASSUME NEW c \in Calls, NEW v \in Outcomes, NEW lost \in BOOLEAN, Reply(c, v, lost)
      PROVE  ChainInv' /\ Abstract!PromiseNext
  <2>1. call[c].tier \in Tiers
    BY <1>2 DEF Reply, ChainInv, TypeOK, CallType
  <2> QED BY <1>2, <2>1, ReplyKeepsPromise
          DEF Abstract!PromiseNext, Abstract!Tiers, Tiers, Abstract!Outcomes, Outcomes
<1>4. CASE Restart
  <2>1. Abstract!Reset
    BY <1>4 DEF Restart, Abstract!Reset, Abstract!PromiseInit, Abstract!Tiers,
                Abstract!Silence, Tiers, Silence, NoFind, answer
  <2>2. ChainInv'
    BY <1>4 DEF Restart, ChainInv, TypeOK, Tiers, Silence, NoFind, CallType, Answers
  <2> QED BY <2>1, <2>2 DEF Abstract!PromiseNext
<1>5. CASE UNCHANGED vars
  BY <1>5 DEF vars, ChainInv, TypeOK, Remembers, answer
<1> QED BY <1>1, <1>2, <1>4, <1>5 DEF Next

(* The chain keeps the promise of its docstring, however its finds overlap *)
(* and whenever its tiers lose their last key (finder.py:75-163).          *)
THEOREM ChainImplementsPromise == Spec => KeepsPromise
<1> QED BY InitKeepsPromise, NextKeepsPromise, PTL
        DEF Spec, KeepsPromise, Abstract!Promise, Abstract!promiseVars

(* No find is pending without a tier that is being asked.                  *)
THEOREM ChainTypeCorrect == Spec => []TypeOK
<1>1. ChainInv => TypeOK
  BY DEF ChainInv
<1> QED BY <1>1, InitKeepsPromise, NextKeepsPromise, PTL DEF Spec
=============================================================================

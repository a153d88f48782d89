------------------------ MODULE EmailVerifierProofs -------------------------
(***************************************************************************)
(* Theorems about EmailVerifier.tla and its history for every number of    *)
(* keys, of overlapping calls and of domains, and every interval and       *)
(* cooldown.                                                               *)
(***************************************************************************)
EXTENDS EmailVerifierHistory, KeyPoolOpsProofs

-----------------------------------------------------------------------------
(* Verdicts *)

LEMMA JudgedType ==
    ASSUME NEW method \in Methods \cup {"catch_all", "none"},
           NEW confidence \in {"high", "medium", "low"}
    PROVE  /\ Judged(TRUE, method, confidence) \in Verdicts
           /\ Judged(FALSE, method, confidence) \in Verdicts
           /\ ~Accepted(Judged(FALSE, method, confidence))
           /\ ~Judged(FALSE, method, confidence).valid
           /\ Judged(FALSE, method, confidence).confidence = confidence
           /\ method = "catch_all" => ~Accepted(Judged(TRUE, method, confidence))
BY DEF Judged, Verdicts, Accepted

LEMMA Durations ==
    /\ Interval \in Nat /\ Interval > 0 /\ Cooldown \in Nat
    /\ Day \in Nat /\ Day > 0
<1>1. Interval \in Nat \ {0}
  BY VerifierAssumption
<1>2. Cooldown \in Nat \ {0}
  BY VerifierAssumption
<1>3. Day \in Nat \ {0}
  BY VerifierAssumption
<1> QED BY <1>1, <1>2, <1>3

LEMMA NoVerdictType == NoVerdict \in Verdicts
BY JudgedType DEF NoVerdict

(* The calls the tiers make of NoCall.                                     *)
LEMMA NoCallFields ==
    /\ NoCall \in CallType
    /\ NoCall.entry = NoEntry /\ NoCall.left = 0 /\ NoCall.domain = ""
    /\ NoCall.pc = "idle" /\ NoCall.wake = 0 /\ NoCall.verdict = NoVerdict
BY NoVerdictType DEF NoCall, CallType

LEMMA ReturnsCall ==
    ASSUME NEW d \in Domains \cup {""}, NEW v \in Verdicts
    PROVE  /\ Returns(d, v) \in CallType /\ Returns(d, v).pc = "done"
           /\ Returns(d, v).domain = d /\ Returns(d, v).verdict = v
BY NoCallFields DEF CallType, Returns

LEMMA RaisesCall ==
    ASSUME NEW d \in Domains \cup {""}
    PROVE  /\ Raises(d) \in CallType /\ Raises(d).pc = "raised"
           /\ Raises(d).domain = d
BY NoCallFields DEF CallType, Raises

(* Only a report that confirms the mailbox parses to an accepted verdict.  *)
LEMMA ParsedIsSound ==
    ASSUME NEW report \in Reports, NEW method \in Methods
    PROVE  /\ Parsed(report, method) \in Verdicts
           /\ Accepted(Parsed(report, method)) => Confirms(report)
<1>1. /\ report.result \in {"valid", "invalid", "other"}
      /\ report.acceptAll \in BOOLEAN /\ report.disposable \in BOOLEAN
      /\ report.role \in BOOLEAN
  BY DEF Reports
<1>2. CASE report.result = "valid" /\ report.acceptAll
  <2>1. Parsed(report, method) = Judged(TRUE, "catch_all", "medium")
    BY <1>2 DEF Parsed, Confirms
  <2> QED BY <2>1, JudgedType
<1>3. CASE report.result = "valid" /\ ~report.acceptAll /\ report.disposable
  <2>1. Parsed(report, method) = Judged(FALSE, method, "high")
    BY <1>3 DEF Parsed, Confirms
  <2> QED BY <2>1, JudgedType
<1>4. CASE report.result = "valid" /\ ~report.acceptAll /\ ~report.disposable
  <2>1. Confirms(report)
    BY <1>4 DEF Confirms
  <2>2. Parsed(report, method)
           = Judged(TRUE, method, IF report.role THEN "medium" ELSE "high")
    BY <1>4, <2>1 DEF Parsed
  <2> QED BY <2>1, <2>2, JudgedType
<1>5. CASE report.result = "invalid"
  <2>1. Parsed(report, method) = Judged(FALSE, method, "high")
    BY <1>5 DEF Parsed, Confirms
  <2> QED BY <2>1, JudgedType
<1>6. CASE report.result = "other"
  <2>1. Parsed(report, method) = Judged(FALSE, method, "low")
    BY <1>6 DEF Parsed, Confirms
  <2> QED BY <2>1, JudgedType
<1> QED BY <1>1, <1>2, <1>3, <1>4, <1>5, <1>6

-----------------------------------------------------------------------------
(* The inductive invariant *)

(* A call k to which h was reported, when the domains were last checked at *)
(* the times in w.  One that is still asking has heard nothing; one that   *)
(* sleeps wakes no later than an interval after the last check.            *)
GoodCall(k, h, w) ==
    /\ k \in CallType
    /\ k.pc = "qev" => k.entry \in Entries
    /\ k.pc \in {"qev", "sleep", "mev"} => k.domain \in Domains /\ h = {}
    /\ k.pc = "sleep" => k.wake <= w[k.domain] + Interval
    /\ k.pc = "raised" => h = {}
    /\ k.pc = "done" /\ Accepted(k.verdict) => \E report \in h : Confirms(report)
    /\ k.pc = "done" /\ k.domain \in Domains /\ h = {} =>
          ~k.verdict.valid /\ k.verdict.confidence = "low"

Clocks == sent \in [Domains -> Nat] /\ lastCheck = sent
            /\ now \in Nat /\ \A d \in Domains : sent[d] <= now

VerifierInv ==
    /\ mev \in BOOLEAN
    /\ pool \in PoolType /\ CursorInRange(pool)
    /\ Clocks
    /\ call \in [Calls -> CallType]
    /\ heard \in [Calls -> SUBSET HeardReports]
    /\ \A c \in Calls : GoodCall(call[c], heard[c], sent)

LEMMA LaterCheck ==
    ASSUME NEW k, NEW h, NEW v \in [Domains -> Nat], NEW w \in [Domains -> Nat],
           \A d \in Domains : v[d] <= w[d], GoodCall(k, h, v)
    PROVE  GoodCall(k, h, w)
<1>1. ASSUME k.pc = "sleep" PROVE k.wake <= w[k.domain] + Interval
  <2>1. k.domain \in Domains /\ k.wake <= v[k.domain] + Interval /\ k.wake \in Nat
    BY <1>1 DEF GoodCall, CallType
  <2>2. v[k.domain] <= w[k.domain] /\ v[k.domain] \in Nat /\ w[k.domain] \in Nat
    BY <2>1
  <2> QED BY <2>1, <2>2, Durations
<1> QED BY <1>1 DEF GoodCall

(* Call c becomes k, having heard h.                                       *)
LEMMA Replaces ==
    ASSUME VerifierInv, NEW c \in Calls, NEW k, NEW h \in SUBSET HeardReports,
           Becomes(c, k), heard' = [heard EXCEPT ![c] = h],
           mev' = mev, pool' \in PoolType, CursorInRange(pool'),
           Clocks', \A d \in Domains : sent[d] <= sent'[d], GoodCall(k, h, sent')
    PROVE  VerifierInv'
<1>1. /\ call \in [Calls -> CallType] /\ call' = [call EXCEPT ![c] = k]
      /\ heard \in [Calls -> SUBSET HeardReports] /\ k \in CallType
      /\ sent \in [Domains -> Nat] /\ sent' \in [Domains -> Nat]
  BY DEF VerifierInv, Becomes, GoodCall, Clocks
<1>2. call' \in [Calls -> CallType] /\ heard' \in [Calls -> SUBSET HeardReports]
  BY <1>1
<1>3. ASSUME NEW d \in Calls PROVE GoodCall(call'[d], heard'[d], sent')
  <2>1. CASE d = c
    BY <1>1, <2>1
  <2>2. CASE d # c
    <3>1. call'[d] = call[d] /\ heard'[d] = heard[d] /\ GoodCall(call[d], heard[d], sent)
      BY <1>1, <2>2 DEF VerifierInv
    <3> QED BY <1>1, <3>1, LaterCheck
  <2> QED BY <2>1, <2>2
<1> QED BY <1>2, <1>3 DEF VerifierInv, CursorInRange

LEMMA SameHeard ==
    ASSUME VerifierInv, NEW c \in Calls, UNCHANGED heard
    PROVE  heard' = [heard EXCEPT ![c] = heard[c]] /\ heard[c] \in SUBSET HeardReports
BY DEF VerifierInv

(* No time is noted.                                                       *)
LEMMA SameClocks ==
    ASSUME Clocks, UNCHANGED <<lastCheck, sent, now>>
    PROVE  Clocks' /\ \A d \in Domains : sent[d] <= sent'[d]
BY DEF Clocks

LEMMA NotedClocks ==
    ASSUME Clocks, NEW d \in Domains, lastCheck' = [lastCheck EXCEPT ![d] = now],
           Sends(d), UNCHANGED now
    PROVE  Clocks' /\ \A e \in Domains : sent[e] <= sent'[e]
BY DEF Clocks, Sends

(* What a call returns that its domain d and verdict v are good for.       *)
LEMMA ReturnsGood ==
    ASSUME NEW d \in Domains \cup {""}, NEW v \in Verdicts, NEW h, NEW w,
           Accepted(v) => \E report \in h : Confirms(report),
           d \in Domains /\ h = {} => ~v.valid /\ v.confidence = "low"
    PROVE  GoodCall(Returns(d, v), h, w)
<1> DEFINE k == Returns(d, v)
<1>1. k \in CallType /\ k.pc = "done" /\ k.domain = d /\ k.verdict = v
  BY ReturnsCall
<1> HIDE DEF k
<1>2. GoodCall(k, h, w)
  BY <1>1 DEF GoodCall
<1> QED BY <1>2 DEF k

LEMMA RaisesGood ==
    ASSUME NEW d \in Domains \cup {""}, NEW w
    PROVE  GoodCall(Raises(d), {}, w)
<1> DEFINE k == Raises(d)
<1>1. k \in CallType /\ k.pc = "raised" /\ k.domain = d
  BY RaisesCall
<1> HIDE DEF k
<1>2. GoodCall(k, {}, w)
  BY <1>1 DEF GoodCall
<1> QED BY <1>2 DEF k

LEMMA NoCallGood ==
    ASSUME NEW h, NEW w
    PROVE  NoCall \in CallType /\ GoodCall(NoCall, h, w)
BY NoCallFields DEF GoodCall

(* What a call that has heard nothing yet becomes at the second tier.      *)
LEMMA AskMevGood ==
    ASSUME Clocks, NEW c \in Calls, NEW d \in Domains, AskMev(c, d), UNCHANGED now
    PROVE  /\ Clocks' /\ \A e \in Domains : sent[e] <= sent'[e]
           /\ \E k : Becomes(c, k) /\ GoodCall(k, {}, sent')
<1>1. CASE /\ mev /\ now - lastCheck[d] >= Interval
           /\ Becomes(c, [NoCall EXCEPT !.pc = "mev", !.domain = d])
           /\ lastCheck' = [lastCheck EXCEPT ![d] = now]
           /\ Sends(d)
  <2> DEFINE k == [NoCall EXCEPT !.pc = "mev", !.domain = d]
  <2>1. k \in CallType /\ k.pc = "mev" /\ k.domain = d
    BY NoCallFields DEF CallType
  <2> HIDE DEF k
  <2>2. GoodCall(k, {}, sent')
    BY <2>1 DEF GoodCall
  <2>3. Becomes(c, k)
    BY <1>1 DEF k
  <2> QED BY <1>1, <2>2, <2>3, NotedClocks
<1>2. CASE /\ mev /\ now - lastCheck[d] < Interval
           /\ Becomes(c, [NoCall EXCEPT !.pc = "sleep", !.domain = d,
                                        !.wake = lastCheck[d] + Interval])
           /\ UNCHANGED <<lastCheck, sent>>
  <2> DEFINE k == [NoCall EXCEPT !.pc = "sleep", !.domain = d,
                                 !.wake = lastCheck[d] + Interval]
  <2>1. /\ lastCheck[d] + Interval \in Nat
        /\ lastCheck[d] + Interval <= sent'[d] + Interval
    BY <1>2, Durations DEF Clocks
  <2>2. /\ k \in CallType /\ k.pc = "sleep" /\ k.domain = d
        /\ k.wake = lastCheck[d] + Interval
    BY <2>1, NoCallFields DEF CallType
  <2> HIDE DEF k
  <2>3. GoodCall(k, {}, sent')
    BY <2>1, <2>2 DEF GoodCall
  <2>4. Becomes(c, k)
    BY <1>2 DEF k
  <2> QED BY <1>2, <2>3, <2>4, SameClocks
<1>3. CASE /\ ~mev /\ Becomes(c, Raises(d)) /\ UNCHANGED <<lastCheck, sent>>
  <2>1. GoodCall(Raises(d), {}, sent')
    BY RaisesGood
  <2> QED BY <1>3, <2>1, SameClocks
<1> QED BY <1>1, <1>2, <1>3 DEF AskMev

LEMMA AskQevGood ==
    ASSUME Clocks, NEW c \in Calls, NEW d \in Domains, NEW p \in PoolType,
           CursorInRange(p), NEW left \in Nat, AskQev(c, d, p, left), UNCHANGED now
    PROVE  /\ Clocks' /\ \A e \in Domains : sent[e] <= sent'[e]
           /\ pool' \in PoolType /\ CursorInRange(pool')
           /\ \E k : Becomes(c, k) /\ GoodCall(k, {}, sent')
<1>1. ASSUME NEW e \in Entries, left > 0, pool' = Taken(p, e),
             Becomes(c, [NoCall EXCEPT !.pc = "qev", !.domain = d,
                                       !.entry = e, !.left = left - 1]),
             UNCHANGED <<lastCheck, sent>>
      PROVE  /\ Clocks' /\ \A f \in Domains : sent[f] <= sent'[f]
             /\ pool' \in PoolType /\ CursorInRange(pool')
             /\ \E k : Becomes(c, k) /\ GoodCall(k, {}, sent')
  <2> DEFINE k == [NoCall EXCEPT !.pc = "qev", !.domain = d,
                                 !.entry = e, !.left = left - 1]
  <2>1. k \in CallType /\ k.pc = "qev" /\ k.domain = d /\ k.entry = e
    <3>1. left - 1 \in Nat
      BY <1>1
    <3> QED BY <3>1, NoCallFields DEF CallType
  <2> HIDE DEF k
  <2>2. GoodCall(k, {}, sent')
    BY <2>1 DEF GoodCall
  <2>3. Becomes(c, k)
    BY <1>1 DEF k
  <2> QED BY <1>1, <2>2, <2>3, SameClocks, TakenType
<1>2. CASE pool' = p /\ AskMev(c, d)
  BY <1>2, AskMevGood
<1> QED BY <1>1, <1>2 DEF AskQev

-----------------------------------------------------------------------------
(* One step per action *)

LEMMA InitVerifierInv == Init => VerifierInv
<1> SUFFICES ASSUME Init PROVE VerifierInv
  OBVIOUS
<1>1. pool \in PoolType /\ CursorInRange(pool)
  BY KeyPoolAssumption DEF Init, FreshPool, PoolType, CursorInRange
<1>2. Clocks
  BY Durations DEF Init, Clocks
<1>3. call \in [Calls -> CallType] /\ \A c \in Calls : GoodCall(call[c], heard[c], sent)
  BY NoCallGood DEF Init
<1> QED BY <1>1, <1>2, <1>3 DEF Init, VerifierInv

LEMMA VerifyKeepsInv ==
    ASSUME VerifierInv, NEW c \in Calls, NEW d \in Domains, Verify(c, d)
    PROVE  VerifierInv'
<1>1. /\ Clocks /\ pool \in PoolType /\ CursorInRange(pool) /\ NumKeys \in Nat
      /\ AskQev(c, d, pool, NumKeys) /\ UNCHANGED <<mev, now>>
      /\ heard' = [heard EXCEPT ![c] = {}]
  BY KeyPoolAssumption DEF VerifierInv, Verify
<1> QED BY <1>1, AskQevGood, Replaces

LEMMA VerifyBadAddressKeepsInv ==
    ASSUME VerifierInv, NEW c \in Calls, VerifyBadAddress(c)
    PROVE  VerifierInv'
<1>1. ASSUME NEW m \in Methods
      PROVE  GoodCall(Returns("", Judged(FALSE, m, "high")), {}, sent')
  <2>1. Judged(FALSE, m, "high") \in Verdicts /\ ~Accepted(Judged(FALSE, m, "high"))
    BY JudgedType
  <2> QED BY <2>1, ReturnsGood, VerifierAssumption
<1>2. GoodCall(Raises(""), {}, sent')
  BY RaisesGood
<1>3. \E k : Becomes(c, k) /\ GoodCall(k, {}, sent')
  BY <1>1, <1>2 DEF VerifyBadAddress, Methods
<1>4. /\ heard' = [heard EXCEPT ![c] = {}] /\ UNCHANGED <<mev, pool>>
      /\ Clocks' /\ \A d \in Domains : sent[d] <= sent'[d]
  BY SameClocks DEF VerifyBadAddress, VerifierInv
<1>5. pool' \in PoolType /\ CursorInRange(pool')
  BY <1>4 DEF VerifierInv, CursorInRange
<1> QED BY <1>3, <1>4, <1>5, Replaces

LEMMA WakeKeepsInv ==
    ASSUME VerifierInv, NEW c \in Calls, Wake(c)
    PROVE  VerifierInv'
<1>1. /\ call[c] \in CallType /\ call[c].pc = "sleep" /\ call[c].domain \in Domains
      /\ heard[c] = {}
  BY DEF VerifierInv, Wake, GoodCall
<1> DEFINE k == [call[c] EXCEPT !.pc = "mev", !.wake = 0]
<1>2. GoodCall(k, {}, sent')
  <2>1. k \in CallType /\ k.pc = "mev" /\ k.domain = call[c].domain
    BY <1>1 DEF CallType
  <2> HIDE DEF k
  <2> QED BY <1>1, <2>1 DEF GoodCall
<1>3. Clocks' /\ \A d \in Domains : sent[d] <= sent'[d]
  BY <1>1, NotedClocks DEF Wake, VerifierInv
<1>4. pool' \in PoolType /\ CursorInRange(pool') /\ mev' = mev
  BY DEF VerifierInv, CursorInRange, Wake
<1>5. heard' = [heard EXCEPT ![c] = {}]
  BY <1>1, SameHeard DEF Wake
<1>6. Becomes(c, k)
  BY DEF Wake
<1> QED BY <1>2, <1>3, <1>4, <1>5, <1>6, Replaces

(* A provider of method m reports.                                         *)
LEMMA ReportKeepsInv ==
    ASSUME VerifierInv, NEW c \in Calls, NEW report \in HeardReports, NEW m \in Methods,
           call[c].pc \in {"qev", "mev"},
           Becomes(c, Returns(call[c].domain, Parsed(report, m))),
           heard' = [heard EXCEPT ![c] = @ \cup {report}],
           UNCHANGED <<mev, pool, lastCheck, now, sent>>
    PROVE  VerifierInv'
<1>1. call[c].domain \in Domains
  BY DEF VerifierInv, GoodCall
<1>2. /\ Parsed(report, m) \in Verdicts
      /\ Accepted(Parsed(report, m)) => Confirms(report)
  BY ParsedIsSound, VerifierAssumption
<1> DEFINE h == heard[c] \cup {report}
<1>3. /\ h \in SUBSET HeardReports /\ report \in h
      /\ heard' = [heard EXCEPT ![c] = h]
  BY DEF VerifierInv
<1> HIDE DEF h
<1>4. GoodCall(Returns(call[c].domain, Parsed(report, m)), h, sent')
  BY <1>1, <1>2, <1>3, ReturnsGood
<1>5. Clocks' /\ \A d \in Domains : sent[d] <= sent'[d]
  BY SameClocks DEF VerifierInv
<1>6. pool' \in PoolType /\ CursorInRange(pool')
  BY DEF VerifierInv, CursorInRange
<1> QED BY <1>3, <1>4, <1>5, <1>6, Replaces

LEMMA MevEndsKeepsInv ==
    ASSUME VerifierInv, NEW c \in Calls, MevLost(c) \/ MevRefuses(c)
    PROVE  VerifierInv'
<1>1. call[c].domain \in Domains /\ heard[c] = {}
  BY DEF VerifierInv, GoodCall, MevLost, MevRefuses
<1>2. GoodCall(Returns(call[c].domain, LostVerdict), {}, sent')
  <2>1. LostVerdict \in Verdicts /\ ~LostVerdict.valid /\ LostVerdict.confidence = "low"
    BY JudgedType DEF LostVerdict, Methods
  <2>2. ~Accepted(LostVerdict)
    BY JudgedType DEF LostVerdict, Methods
  <2> QED BY <1>1, <2>1, <2>2, ReturnsGood
<1>3. GoodCall(Raises(call[c].domain), {}, sent')
  BY <1>1, RaisesGood
<1>4. /\ \E k : Becomes(c, k) /\ GoodCall(k, {}, sent')
      /\ UNCHANGED <<mev, pool, lastCheck, now, heard, sent>>
  BY <1>2, <1>3 DEF MevLost, MevRefuses
<1>5. heard' = [heard EXCEPT ![c] = {}]
  BY <1>1, <1>4, SameHeard
<1>6. Clocks' /\ \A d \in Domains : sent[d] <= sent'[d]
  BY <1>4, SameClocks DEF VerifierInv
<1>7. pool' \in PoolType /\ CursorInRange(pool')
  BY <1>4 DEF VerifierInv, CursorInRange
<1> QED BY <1>4, <1>5, <1>6, <1>7, Replaces

LEMMA MarkedType ==
    ASSUME VerifierInv, NEW reply \in KeyReplies, NEW k
    PROVE  Marked(reply, k) \in PoolType /\ CursorInRange(Marked(reply, k))
<1>1. pool \in PoolType /\ CursorInRange(pool) /\ now \in Nat
  BY DEF VerifierInv, Clocks
<1>2. UntilMidnight \in Nat /\ Cooldown \in Nat
  <2>1. Day \in Nat /\ Day > 0
    BY Durations
  <2>2. now % Day \in 0 .. Day - 1
    BY <1>1, <2>1
  <2> QED BY <2>1, <2>2, Durations DEF UntilMidnight
<1>3. CASE reply = "invalid key"
  <2>1. Marked(reply, k) = Killed(pool, k)
    BY <1>3 DEF Marked
  <2> QED BY <1>1, <2>1, KilledType DEF CursorInRange
<1>4. CASE reply = "out of credits"
  <2>1. Marked(reply, k) = Parked(pool, now, k, UntilMidnight)
    BY <1>4 DEF Marked
  <2> QED BY <1>1, <1>2, <2>1, ParkedType DEF CursorInRange
<1>5. CASE reply = "rate limited"
  <2>1. Marked(reply, k) = Parked(pool, now, k, Cooldown)
    BY <1>5 DEF Marked
  <2> QED BY <1>1, <1>2, <2>1, ParkedType DEF CursorInRange
<1>6. CASE reply = "no verdict"
  BY <1>1, <1>6 DEF Marked
<1> QED BY <1>3, <1>4, <1>5, <1>6 DEF KeyReplies

LEMMA QevRotatesKeepsInv ==
    ASSUME VerifierInv, NEW c \in Calls, NEW reply \in KeyReplies, QevRotates(c, reply)
    PROVE  VerifierInv'
<1>1. /\ call[c].domain \in Domains /\ heard[c] = {} /\ call[c].left \in Nat
  BY DEF VerifierInv, GoodCall, QevRotates, CallType
<1> DEFINE p == Marked(reply, ApiKey[call[c].entry])
<1>2. p \in PoolType /\ CursorInRange(p)
  BY MarkedType
<1>3. /\ AskQev(c, call[c].domain, p, call[c].left) /\ UNCHANGED <<mev, now, heard>>
      /\ Clocks
  BY DEF QevRotates, VerifierInv
<1> HIDE DEF p
<1>4. heard' = [heard EXCEPT ![c] = {}]
  BY <1>1, <1>3, SameHeard
<1>5. /\ Clocks' /\ \A e \in Domains : sent[e] <= sent'[e]
      /\ pool' \in PoolType /\ CursorInRange(pool')
      /\ \E k : Becomes(c, k) /\ GoodCall(k, {}, sent')
  BY <1>1, <1>2, <1>3, AskQevGood
<1> QED BY <1>3, <1>4, <1>5, Replaces

LEMMA NextVerifierInv == VerifierInv /\ [Next]_vars => VerifierInv'
<1> SUFFICES ASSUME VerifierInv, [Next]_vars PROVE VerifierInv'
  OBVIOUS
<1>1. ASSUME NEW c \in Calls, Starts(c) PROVE VerifierInv'
  BY <1>1, VerifyKeepsInv, VerifyBadAddressKeepsInv DEF Starts
<1>2. ASSUME NEW c \in Calls, Hears(c) PROVE VerifierInv'
  <2>1. ASSUME NEW report \in HeardReports, QevReports(c, report) PROVE VerifierInv'
    BY <2>1, ReportKeepsInv DEF QevReports, Methods
  <2>2. ASSUME NEW report \in HeardReports, MevReports(c, report) PROVE VerifierInv'
    BY <2>2, ReportKeepsInv DEF MevReports, Methods
  <2> QED BY <1>2, <2>1, <2>2, QevRotatesKeepsInv, MevEndsKeepsInv
        DEF Hears, Concludes
<1>3. CASE Tick
  <2>1. Clocks'
    BY <1>3 DEF Tick, VerifierInv, Clocks
  <2>2. UNCHANGED <<mev, pool, call, heard, sent>>
    BY <1>3 DEF Tick
  <2> QED BY <2>1, <2>2 DEF VerifierInv, CursorInRange
<1>4. CASE Restart
  <2>1. pool' \in PoolType /\ CursorInRange(pool')
    BY <1>4, KeyPoolAssumption DEF Restart, FreshPool, PoolType, CursorInRange
  <2>2. Clocks'
    BY <1>4 DEF Restart, VerifierInv, Clocks
  <2>3. /\ call' \in [Calls -> CallType]
        /\ \A c \in Calls : GoodCall(call'[c], heard'[c], sent')
    BY <1>4, NoCallGood DEF Restart
  <2> QED BY <1>4, <2>1, <2>2, <2>3 DEF Restart, VerifierInv
<1>5. CASE UNCHANGED vars
  BY <1>5 DEF vars, VerifierInv, Clocks, CursorInRange
<1> QED BY <1>1, <1>2, <1>3, <1>4, <1>5, WakeKeepsInv DEF Next

LEMMA VerifierInvariant == Spec => []VerifierInv
BY InitVerifierInv, NextVerifierInv, PTL DEF Spec

-----------------------------------------------------------------------------
(* What follows *)

LEMMA InvType == VerifierInv => TypeOK
BY DEF VerifierInv, TypeOK, Clocks, GoodCall

(* Whatever the tiers report, lose and refuse, and however calls overlap:  *)
(* no address is accepted that nobody confirmed in that call.              *)
THEOREM NothingAcceptedUnconfirmed == Spec => []AcceptedIsConfirmed
<1>1. VerifierInv => AcceptedIsConfirmed
  BY DEF VerifierInv, AcceptedIsConfirmed, GoodCall, Done
<1> QED BY <1>1, VerifierInvariant, PTL

(* A report is never thrown away for an exception.                         *)
THEOREM RaisesWithoutReport == Spec => []RaisesOnlyInSilence
<1>1. VerifierInv => RaisesOnlyInSilence
  BY DEF VerifierInv, RaisesOnlyInSilence, GoodCall
<1> QED BY <1>1, VerifierInvariant, PTL

(* A verdict nobody gave is told by its confidence.                        *)
THEOREM GuessesAreLow == Spec => []UnheardIsLow
<1>1. VerifierInv => UnheardIsLow
  BY DEF VerifierInv, UnheardIsLow, GoodCall, Done
<1> QED BY <1>1, VerifierInvariant, PTL

(* The interval between the checks of a domain is kept, for any interval   *)
(* and any number of calls, but for a call that slept through a check.     *)
THEOREM PacedButForSleepers == Spec => CrowdedOnlyByOverlap
<1>1. ASSUME VerifierInv, Next, NEW c \in Calls, call[c].pc # "mev",
             call'[c].pc = "mev"
      PROVE  \/ now - sent[call'[c].domain] >= Interval
             \/ call[c].pc = "sleep" /\ call[c].wake < sent[call'[c].domain] + Interval
  <2>1. /\ call \in [Calls -> CallType] /\ Clocks /\ GoodCall(call[c], heard[c], sent)
        /\ Interval \in Nat
    BY <1>1, Durations DEF VerifierInv
  <2>2. ASSUME NEW d \in Calls, NEW e \in Domains, AskMev(d, e)
        PROVE  now - sent[call'[c].domain] >= Interval
    <3>1. \E k : Becomes(d, k)
      BY <2>2 DEF AskMev
    <3>2. d = c
      BY <1>1, <2>1, <3>1 DEF Becomes
    <3>3. /\ now - lastCheck[e] >= Interval
          /\ Becomes(c, [NoCall EXCEPT !.pc = "mev", !.domain = e])
      BY <1>1, <2>1, <2>2, <3>2 DEF AskMev, Becomes, NoCall, Raises
    <3>4. call'[c].domain = e
      BY <2>1, <3>3 DEF Becomes, NoCall
    <3> QED BY <2>1, <3>3, <3>4 DEF Clocks
  <2>3. ASSUME NEW d \in Calls, NEW e \in Domains, NEW p, NEW n, AskQev(d, e, p, n)
        PROVE  now - sent[call'[c].domain] >= Interval
    <3>1. ASSUME NEW f \in Entries,
                 Becomes(d, [NoCall EXCEPT !.pc = "qev", !.domain = e,
                                           !.entry = f, !.left = n - 1])
          PROVE  FALSE
      BY <1>1, <2>1, <3>1 DEF Becomes, NoCall
    <3> QED BY <2>2, <2>3, <3>1 DEF AskQev
  <2>4. ASSUME NEW d \in Calls, Wake(d)
        PROVE  \/ now - sent[call'[c].domain] >= Interval
               \/ call[c].pc = "sleep" /\ call[c].wake < sent[call'[c].domain] + Interval
    <3>1. d = c
      BY <1>1, <2>1, <2>4 DEF Wake, Becomes
    <3>2. /\ call[c].pc = "sleep" /\ call[c].wake <= now /\ call[c].wake \in Nat
          /\ call[c].domain \in Domains /\ call'[c].domain = call[c].domain
      BY <2>1, <2>4, <3>1 DEF Wake, Becomes, GoodCall, CallType
    <3>3. call[c].wake <= sent[call[c].domain] + Interval
      BY <2>1, <3>2 DEF GoodCall
    <3> QED BY <2>1, <3>2, <3>3 DEF Clocks
  <2>5. ASSUME NEW d \in Calls, NEW r, QevReports(d, r) \/ MevReports(d, r) PROVE FALSE
    BY <1>1, <2>1, <2>5 DEF QevReports, MevReports, Becomes, Returns, NoCall
  <2>6. ASSUME NEW d \in Calls, MevLost(d) \/ MevRefuses(d) PROVE FALSE
    BY <1>1, <2>1, <2>6 DEF MevLost, MevRefuses, Becomes, Returns, Raises, NoCall
  <2>7. ASSUME NEW d \in Calls, VerifyBadAddress(d) PROVE FALSE
    BY <1>1, <2>1, <2>7 DEF VerifyBadAddress, Becomes, Returns, Raises, NoCall
  <2>8. ASSUME NEW d \in Calls, NEW reply, QevRotates(d, reply)
        PROVE  now - sent[call'[c].domain] >= Interval
    <3>1. call[d].domain \in Domains
      BY <1>1, <2>8 DEF VerifierInv, GoodCall, QevRotates
    <3> DEFINE p == Marked(reply, ApiKey[call[d].entry])
    <3>2. AskQev(d, call[d].domain, p, call[d].left)
      BY <2>8 DEF QevRotates
    <3> HIDE DEF p
    <3> QED BY <2>3, <3>1, <3>2
  <2>9. ~Tick
    BY <1>1 DEF Tick
  <2>10. ~Restart
    <3>1. Restart => call' = [e \in Calls |-> NoCall]
      BY DEF Restart
    <3>2. NoCall.pc = "idle"
      BY NoCallFields
    <3> QED BY <1>1, <3>1, <3>2
  <2> QED BY <1>1, <2>3, <2>4, <2>5, <2>6, <2>7, <2>8, <2>9, <2>10
          DEF Next, Starts, Verify, Hears, Concludes
<1>2. VerifierInv /\ [Next]_vars =>
         [\A c \in Calls :
             call[c].pc # "mev" /\ call'[c].pc = "mev" =>
                 LET d == call'[c].domain
                 IN  \/ now - sent[d] >= Interval
                     \/ call[c].pc = "sleep" /\ call[c].wake < sent[d] + Interval]_vars
  BY <1>1
<1> QED BY <1>2, VerifierInvariant, PTL DEF Spec, CrowdedOnlyByOverlap
-----------------------------------------------------------------------------
(* Verifications go forward *)

(* StepsToGo of a call k.                                                  *)
Ahead(k) ==
    CASE k.pc = "qev" -> k.left + 3
      [] k.pc = "sleep" -> 2
      [] k.pc = "mev" -> 1
      [] OTHER -> 0

LEMMA EndsAhead == \A d, v : Ahead(Returns(d, v)) = 0 /\ Ahead(Raises(d)) = 0
BY DEF Ahead, Returns, Raises, NoCall

(* At the second tier a sleep and a request are ahead of a call.           *)
LEMMA AskMevAhead ==
    ASSUME NEW c \in Calls, NEW d, AskMev(c, d)
    PROVE  \E k : Becomes(c, k) /\ Ahead(k) \in 0 .. 2
<1>1. Ahead([NoCall EXCEPT !.pc = "mev", !.domain = d]) = 1
  BY DEF Ahead, NoCall
<1>2. \A t : Ahead([NoCall EXCEPT !.pc = "sleep", !.domain = d, !.wake = t]) = 2
  BY DEF Ahead, NoCall
<1>3. Ahead(Raises(d)) = 0
  BY EndsAhead
<1>4. \/ Becomes(c, [NoCall EXCEPT !.pc = "mev", !.domain = d])
      \/ Becomes(c, [NoCall EXCEPT !.pc = "sleep", !.domain = d,
                                   !.wake = lastCheck[d] + Interval])
      \/ Becomes(c, Raises(d))
  BY DEF AskMev
<1>5. \E k : Becomes(c, k) /\ Ahead(k) \in {0, 1, 2}
  BY <1>1, <1>2, <1>3, <1>4
<1> QED BY <1>5

(* With n keys left to try, a call is ahead by less than n + 3.            *)
LEMMA AskQevAhead ==
    ASSUME NEW c \in Calls, NEW d, NEW p, NEW n \in Nat, AskQev(c, d, p, n)
    PROVE  \E k : Becomes(c, k) /\ Ahead(k) \in 0 .. n + 2
<1>1. ASSUME NEW e \in Entries, n > 0,
             Becomes(c, [NoCall EXCEPT !.pc = "qev", !.domain = d,
                                       !.entry = e, !.left = n - 1])
      PROVE  \E k : Becomes(c, k) /\ Ahead(k) \in 0 .. n + 2
  <2>1. Ahead([NoCall EXCEPT !.pc = "qev", !.domain = d,
                             !.entry = e, !.left = n - 1]) = n - 1 + 3
    BY DEF Ahead, NoCall
  <2> QED BY <1>1, <2>1
<1>2. CASE AskMev(c, d)
  BY <1>2, AskMevAhead
<1> QED BY <1>1, <1>2 DEF AskQev

(* A step that makes k of call d moves no other call.                      *)
LEMMA OnlyOneMoves ==
    ASSUME call \in [Calls -> CallType], NEW c \in Calls, NEW d \in Calls, NEW k,
           Becomes(d, k), call'[c] # call[c]
    PROVE  c = d /\ call'[c] = k
BY DEF Becomes

(* A verification ends after at most a try of each key, a sleep and a      *)
(* request, for any number of keys, of overlapping calls and of domains:   *)
(* nothing another call does adds a step to it.                            *)
THEOREM EveryVerificationWindsDown == Spec => VerificationsWindDown
<1>1. ASSUME VerifierInv, Next, NEW c \in Calls,
             call[c].pc \in {"qev", "sleep", "mev"}, call'[c] # call[c]
      PROVE  StepsToGo(c)' < StepsToGo(c)
  <2>1. /\ call \in [Calls -> CallType]
        /\ \A d \in Calls : GoodCall(call[d], heard[d], sent)
    BY <1>1 DEF VerifierInv
  <2>2. /\ StepsToGo(c) = Ahead(call[c]) /\ StepsToGo(c)' = Ahead(call'[c])
        /\ Ahead(call[c]) \in Nat /\ Ahead(call[c]) > 0
        /\ call[c].pc = "qev" => call[c].left \in Nat /\ Ahead(call[c]) = call[c].left + 3
        /\ call[c].pc = "sleep" => Ahead(call[c]) = 2
    <3>1. StepsToGo(c) = Ahead(call[c]) /\ StepsToGo(c)' = Ahead(call'[c])
      BY DEF StepsToGo, Ahead
    <3>2. call[c].left \in Nat
      BY <2>1 DEF CallType
    <3>3. /\ call[c].pc = "qev" => Ahead(call[c]) = call[c].left + 3
          /\ call[c].pc = "sleep" => Ahead(call[c]) = 2
          /\ call[c].pc = "mev" => Ahead(call[c]) = 1
      BY DEF Ahead
    <3> QED BY <1>1, <3>1, <3>2, <3>3
  <2>3. ASSUME NEW d \in Calls, Idle(d), NEW k, Becomes(d, k) PROVE FALSE
    BY <1>1, <2>1, <2>3, OnlyOneMoves DEF Idle
  <2>4. ASSUME NEW d \in Calls, NEW k, Becomes(d, k), Ahead(k) = 0
        PROVE  Ahead(call'[c]) < Ahead(call[c])
    BY <1>1, <2>1, <2>2, <2>4, OnlyOneMoves
  <2>5. ASSUME NEW d \in Calls, Starts(d) PROVE FALSE
    <3>1. CASE VerifyBadAddress(d)
      BY <2>3, <3>1 DEF VerifyBadAddress
    <3>2. ASSUME NEW e \in Domains, Verify(d, e) PROVE FALSE
      <4>1. NumKeys \in Nat /\ AskQev(d, e, pool, NumKeys) /\ Idle(d)
        BY <3>2, KeyPoolAssumption DEF Verify
      <4> QED BY <2>3, <4>1, AskQevAhead
    <3> QED BY <2>5, <3>1, <3>2 DEF Starts
  <2>6. ASSUME NEW d \in Calls, Concludes(d) PROVE Ahead(call'[c]) < Ahead(call[c])
    <3>1. \E k : Becomes(d, k) /\ Ahead(k) = 0
      BY <2>6, EndsAhead DEF Concludes, QevReports, MevReports, MevLost, MevRefuses
    <3> QED BY <2>4, <3>1
  <2>7. ASSUME NEW d \in Calls, NEW reply \in KeyReplies, QevRotates(d, reply)
        PROVE  Ahead(call'[c]) < Ahead(call[c])
    <3> DEFINE p == Marked(reply, ApiKey[call[d].entry])
    <3>1. /\ call[d].pc = "qev" /\ call[d].left \in Nat
          /\ AskQev(d, call[d].domain, p, call[d].left)
      BY <2>1, <2>7 DEF QevRotates, CallType
    <3> HIDE DEF p
    <3>2. PICK k : Becomes(d, k) /\ Ahead(k) \in 0 .. call[d].left + 2
      BY <3>1, AskQevAhead
    <3>3. c = d /\ call'[c] = k
      BY <1>1, <2>1, <3>2, OnlyOneMoves
    <3> QED BY <2>2, <3>1, <3>2, <3>3
  <2>8. ASSUME NEW d \in Calls, Wake(d) PROVE Ahead(call'[c]) < Ahead(call[c])
    <3> DEFINE k == [call[d] EXCEPT !.pc = "mev", !.wake = 0]
    <3>1. call[d].pc = "sleep" /\ Becomes(d, k)
      BY <2>8 DEF Wake
    <3>2. Ahead(k) = 1
      BY <2>1 DEF Ahead, CallType
    <3> HIDE DEF k
    <3>3. c = d /\ call'[c] = k
      BY <1>1, <2>1, <3>1, OnlyOneMoves
    <3> QED BY <2>2, <3>1, <3>2, <3>3
  <2>9. ~Tick
    BY <1>1 DEF Tick
  <2>10. CASE Restart
    <3>1. call' = [d \in Calls |-> NoCall]
      BY <2>10 DEF Restart
    <3>2. Ahead(NoCall) = 0
      BY DEF Ahead, NoCall
    <3> QED BY <2>2, <3>1, <3>2
  <2> QED BY <1>1, <2>2, <2>5, <2>6, <2>7, <2>8, <2>9, <2>10 DEF Next, Hears
<1>2. VerifierInv /\ [Next]_vars =>
         [\A c \in Calls :
             call[c].pc \in {"qev", "sleep", "mev"} /\ call'[c] # call[c] =>
                 StepsToGo(c)' < StepsToGo(c)]_vars
  BY <1>1
<1> QED BY <1>2, VerifierInvariant, PTL DEF Spec, VerificationsWindDown

-----------------------------------------------------------------------------
(* The quota of a key *)

LEMMA QuotaStep == QuotaNext => Next
BY DEF QuotaNext, RotatesNoted, RestartsAfresh, Next, Hears

LEMMA NewDayType ==
    ASSUME now \in Nat
    PROVE  UntilMidnight \in Nat /\ NewDay \in Nat /\ NewDay = now + UntilMidnight
<1>1. Day \in Nat /\ Day > 0
  BY Durations
<1>2. now % Day \in 0 .. Day - 1
  BY <1>1
<1> QED BY <1>1, <1>2 DEF UntilMidnight, NewDay

(* In pool p at t each key whose quota is spent, by s, rests till it is new,*)
(* but for those in cut.                                                   *)
Kept(p, t, s, cut) ==
    \A e \in Entries :
        ApiKey[e] \notin cut /\ t < s[ApiKey[e]] =>
            e \in p.dead \/ p.until[e] >= s[ApiKey[e]]

QuotaInv ==
    /\ VerifierInv
    /\ spent \in [Key -> Nat] /\ curtailed \subseteq Key
    /\ Kept(pool, now, spent, curtailed)

(* Call c is given no key that should rest.                                *)
GivenRested(c) ==
    call[c] # call'[c] /\ call'[c].pc = "qev" =>
        now >= spent'[ApiKey[call'[c].entry]]
          \/ ApiKey[call'[c].entry] \in curtailed'

(* A pick spares the keys that rest.                                       *)
LEMMA AskKeeps ==
    ASSUME call \in [Calls -> CallType], now \in Nat, NEW c \in Calls, NEW d,
           NEW p \in PoolType, NEW left, AskQev(c, d, p, left), UNCHANGED now,
           spent' \in [Key -> Nat], Kept(p, now, spent', curtailed')
    PROVE  /\ Kept(pool', now', spent', curtailed')
           /\ \A b \in Calls : GivenRested(b)
<1>1. ASSUME NEW e \in Entries, FirstUsable(p, now, e), pool' = Taken(p, e),
             Becomes(c, [NoCall EXCEPT !.pc = "qev", !.domain = d,
                                       !.entry = e, !.left = left - 1])
      PROVE  /\ Kept(pool', now', spent', curtailed')
             /\ \A b \in Calls : GivenRested(b)
  <2>1. e \notin p.dead /\ p.until[e] <= now /\ p.until[e] \in Nat
    BY <1>1 DEF FirstUsable, Usable, PoolType
  <2>2. ApiKey[e] \in curtailed' \/ now >= spent'[ApiKey[e]]
    <3>1. ApiKey[e] \in Key
      BY KeyPoolAssumption
    <3>2. spent'[ApiKey[e]] \in Nat
      BY <3>1
    <3> QED BY <2>1, <3>2 DEF Kept
  <2>3. Kept(pool', now', spent', curtailed')
    <3>1. /\ pool'.dead = p.dead
          /\ \A f \in Entries \ {e} : pool'.until[f] = p.until[f]
      <4>1. /\ pool'.dead = p.dead /\ pool'.until = [p.until EXCEPT ![e] = 0]
            /\ p.until \in [Entries -> Nat]
        BY <1>1, TakenFields DEF PoolType
      <4> QED BY <4>1
    <3>2. spent'[ApiKey[e]] \in Nat
      BY KeyPoolAssumption
    <3>3. ASSUME NEW f \in Entries, ApiKey[f] \notin curtailed',
                 now < spent'[ApiKey[f]]
          PROVE  f \in pool'.dead \/ pool'.until[f] >= spent'[ApiKey[f]]
      <4>1. f # e
        BY <2>2, <3>2, <3>3
      <4>2. f \in p.dead \/ p.until[f] >= spent'[ApiKey[f]]
        BY <3>3 DEF Kept
      <4> QED BY <3>1, <4>1, <4>2
    <3> QED BY <3>3 DEF Kept
  <2>4. /\ call'[c].entry = e
        /\ \A b \in Calls \ {c} : call'[b] = call[b]
    BY <1>1 DEF Becomes, NoCall
  <2> QED BY <2>2, <2>3, <2>4 DEF GivenRested
<1>2. CASE pool' = p /\ AskMev(c, d)
  <2>1. \A b \in Calls : GivenRested(b)
    BY <1>2, NoCallFields DEF AskMev, Becomes, Raises, NoCall, GivenRested
  <2> QED BY <1>2, <2>1 DEF Kept
<1> QED BY <1>1, <1>2 DEF AskQev

(* Whatever the reply, the marked pool keeps the keys that should rest.    *)
LEMMA NotedKeeps ==
    ASSUME DistinctKeys, QuotaInv, NEW c \in Calls, NEW reply \in KeyReplies,
           RotatesNoted(c, reply)
    PROVE  /\ spent' \in [Key -> Nat] /\ curtailed' \subseteq Key
           /\ Kept(Marked(reply, ApiKey[call[c].entry]), now, spent', curtailed')
<1> DEFINE k == ApiKey[call[c].entry]
           p == Marked(reply, k)
<1>1. /\ call[c].entry \in Entries /\ pool \in PoolType /\ now \in Nat
      /\ spent \in [Key -> Nat] /\ curtailed \subseteq Key
      /\ Kept(pool, now, spent, curtailed)
  BY DEF QuotaInv, VerifierInv, Clocks, GoodCall, RotatesNoted, QevRotates
<1>2. k \in Key /\ \A e \in Entries : ApiKey[e] \in Key
  BY <1>1, KeyPoolAssumption
<1>3. Notes(reply, k)
  BY DEF RotatesNoted
<1>4. \A e \in Entries : FirstWith(k, e) <=> ApiKey[e] = k
  BY FirstIsOnly DEF FirstWith
<1> SUFFICES /\ spent' \in [Key -> Nat] /\ curtailed' \subseteq Key
             /\ Kept(p, now, spent', curtailed')
  OBVIOUS
<1>5. p = Marked(reply, k)
  OBVIOUS
<1> HIDE DEF k, p
<1>6. CASE reply = "invalid key"
  <2>1. p = Killed(pool, k) /\ UNCHANGED quota
    BY <1>3, <1>6, <1>5 DEF Marked, Notes
  <2>2. p.until = pool.until /\ pool.dead \subseteq p.dead
    BY <1>1, <2>1, KilledType
  <2> QED BY <1>1, <2>1, <2>2 DEF quota, Kept
<1>7. CASE reply = "out of credits"
  <2>1. /\ p = Parked(pool, now, k, UntilMidnight)
        /\ spent' = [spent EXCEPT ![k] = NewDay] /\ curtailed' = curtailed \ {k}
    BY <1>3, <1>7, <1>5 DEF Marked, Notes
  <2>2. /\ p.dead = pool.dead
        /\ \A e \in Entries : p.until[e] = IF ApiKey[e] = k THEN NewDay
                                                           ELSE pool.until[e]
    BY <1>1, <1>4, <2>1, NewDayType DEF Parked, PoolType
  <2>3. spent' \in [Key -> Nat] /\ curtailed' \subseteq Key
    BY <1>1, <1>2, <2>1, NewDayType
  <2>4. ASSUME NEW e \in Entries, ApiKey[e] \notin curtailed',
               now < spent'[ApiKey[e]]
        PROVE  e \in p.dead \/ p.until[e] >= spent'[ApiKey[e]]
    <3>1. CASE ApiKey[e] = k
      BY <1>1, <1>2, <2>1, <2>2, <3>1, NewDayType
    <3>2. CASE ApiKey[e] # k
      <4>1. ApiKey[e] \notin curtailed /\ spent'[ApiKey[e]] = spent[ApiKey[e]]
        BY <1>1, <1>2, <2>1, <2>4, <3>2
      <4> QED BY <1>1, <2>2, <2>4, <3>2, <4>1 DEF Kept
    <3> QED BY <3>1, <3>2
  <2> QED BY <2>3, <2>4 DEF Kept
<1>8. CASE reply = "rate limited"
  <2>1. /\ p = Parked(pool, now, k, Cooldown)
        /\ spent' = spent /\ curtailed' = curtailed \cup {k}
    BY <1>3, <1>8, <1>5 DEF Marked, Notes
  <2>2. /\ p.dead = pool.dead
        /\ \A e \in Entries : ApiKey[e] # k => p.until[e] = pool.until[e]
    BY <1>1, <1>4, <2>1 DEF Parked, PoolType
  <2> QED BY <1>1, <1>2, <2>1, <2>2 DEF Kept
<1>9. CASE reply = "no verdict"
  BY <1>1, <1>3, <1>9, <1>5 DEF Marked, Notes, quota
<1> QED BY <1>6, <1>7, <1>8, <1>9 DEF KeyReplies

LEMMA QuotaKept ==
    ASSUME DistinctKeys, QuotaInv, [QuotaNext]_quotaVars
    PROVE  /\ QuotaInv'
           /\ QuotaNext => \A c \in Calls : GivenRested(c)
<1>1. /\ VerifierInv /\ VerifierInv'
      /\ call \in [Calls -> CallType] /\ now \in Nat /\ pool \in PoolType
      /\ spent \in [Key -> Nat] /\ curtailed \subseteq Key
      /\ Kept(pool, now, spent, curtailed)
  BY NextVerifierInv, QuotaStep DEF QuotaInv, VerifierInv, Clocks, quotaVars
<1>2. ASSUME NEW c \in Calls, NEW reply \in KeyReplies, RotatesNoted(c, reply)
      PROVE  QuotaInv' /\ \A b \in Calls : GivenRested(b)
  <2> DEFINE p == Marked(reply, ApiKey[call[c].entry])
  <2>1. /\ spent' \in [Key -> Nat] /\ curtailed' \subseteq Key
        /\ Kept(p, now, spent', curtailed')
    BY <1>2, NotedKeeps
  <2>2. p \in PoolType
    BY <1>1, MarkedType
  <2>3. AskQev(c, call[c].domain, p, call[c].left) /\ UNCHANGED now
    BY <1>2 DEF RotatesNoted, QevRotates
  <2> HIDE DEF p
  <2>4. /\ Kept(pool', now', spent', curtailed')
        /\ \A b \in Calls : GivenRested(b)
    BY <1>1, <2>1, <2>2, <2>3, AskKeeps
  <2> QED BY <1>1, <2>1, <2>4 DEF QuotaInv, Kept
<1>3. ASSUME UNCHANGED <<quota, pool, now>> PROVE QuotaInv'
  BY <1>1, <1>3 DEF quota, QuotaInv, Kept
<1>4. ASSUME NEW c \in Calls, Starts(c), UNCHANGED quota
      PROVE  QuotaInv' /\ \A b \in Calls : GivenRested(b)
  <2>1. ASSUME NEW d \in Domains, Verify(c, d)
        PROVE  QuotaInv' /\ \A b \in Calls : GivenRested(b)
    <3>1. /\ AskQev(c, d, pool, NumKeys) /\ UNCHANGED now
          /\ spent' \in [Key -> Nat] /\ Kept(pool, now, spent', curtailed')
      BY <1>1, <1>4, <2>1 DEF Verify, quota, Kept
    <3>2. /\ Kept(pool', now', spent', curtailed')
          /\ \A b \in Calls : GivenRested(b)
      BY <1>1, <3>1, AskKeeps
    <3> QED BY <1>1, <1>4, <3>2 DEF QuotaInv, Kept, quota
  <2>2. CASE VerifyBadAddress(c)
    <3>1. UNCHANGED <<pool, now>>
      BY <2>2 DEF VerifyBadAddress
    <3>2. \A b \in Calls : GivenRested(b)
      BY <1>1, <2>2 DEF VerifyBadAddress, Becomes, Returns, Raises, NoCall, GivenRested
    <3> QED BY <1>3, <1>4, <3>1, <3>2
  <2> QED BY <1>4, <2>1, <2>2 DEF Starts
<1>5. ASSUME NEW c \in Calls, Concludes(c), UNCHANGED quota
      PROVE  QuotaInv' /\ \A b \in Calls : GivenRested(b)
  <2>1. UNCHANGED <<pool, now>>
    BY <1>5 DEF Concludes, QevReports, MevReports, MevLost, MevRefuses
  <2>2. \E k : Becomes(c, k) /\ k.pc # "qev"
    <3>1. \A d, v : Returns(d, v).pc # "qev" /\ Raises(d).pc # "qev"
      BY DEF Returns, Raises, NoCall
    <3> QED BY <1>5, <3>1
            DEF Concludes, QevReports, MevReports, MevLost, MevRefuses
  <2>3. \A b \in Calls : GivenRested(b)
    BY <1>1, <2>2 DEF Becomes, GivenRested
  <2> QED BY <1>3, <1>5, <2>1, <2>3
<1>6. ASSUME NEW c \in Calls, Wake(c), UNCHANGED quota
      PROVE  QuotaInv' /\ \A b \in Calls : GivenRested(b)
  <2>1. UNCHANGED <<pool, now>>
    BY <1>6 DEF Wake
  <2>2. \A b \in Calls : GivenRested(b)
    BY <1>1, <1>6 DEF Wake, Becomes, CallType, GivenRested
  <2> QED BY <1>3, <1>6, <2>1, <2>2
<1>7. ASSUME Tick, UNCHANGED quota
      PROVE  QuotaInv' /\ \A b \in Calls : GivenRested(b)
  <2>1. call' = call /\ pool' = pool /\ now' = now + 1
    BY <1>7 DEF Tick
  <2>2. \A e \in Entries : spent[ApiKey[e]] \in Nat
    BY <1>1, KeyPoolAssumption
  <2>3. Kept(pool', now', spent', curtailed')
    BY <1>1, <1>7, <2>1, <2>2 DEF Kept, quota
  <2> QED BY <1>1, <1>7, <2>1, <2>3 DEF QuotaInv, quota, GivenRested
<1>8. ASSUME RestartsAfresh
      PROVE  QuotaInv' /\ \A b \in Calls : GivenRested(b)
  <2>1. /\ spent' = [k \in Key |-> 0] /\ curtailed' = {} /\ now' = now
        /\ \A b \in Calls : call'[b].pc = "idle"
    BY <1>8 DEF RestartsAfresh, Restart, NoCall
  <2>2. \A e \in Entries : spent'[ApiKey[e]] = 0
    BY <2>1, KeyPoolAssumption
  <2>3. Kept(pool', now', spent', curtailed')
    BY <1>1, <2>1, <2>2 DEF Kept
  <2> QED BY <1>1, <2>1, <2>3 DEF QuotaInv, GivenRested
<1>9. CASE UNCHANGED quotaVars
  <2>1. UNCHANGED <<quota, pool, now>> /\ call' = call
    BY <1>9 DEF quotaVars, vars
  <2> QED BY <1>3, <2>1 DEF GivenRested
<1> QED BY <1>2, <1>4, <1>5, <1>6, <1>7, <1>8, <1>9 DEF QuotaNext

LEMMA InitQuotaInv == QuotaInit => QuotaInv
<1> SUFFICES ASSUME QuotaInit PROVE QuotaInv
  OBVIOUS
<1>1. /\ VerifierInv /\ now \in Nat
      /\ spent = [k \in Key |-> 0] /\ curtailed = {}
  BY InitVerifierInv DEF QuotaInit, VerifierInv, Clocks
<1>2. \A e \in Entries : spent[ApiKey[e]] = 0
  BY <1>1, KeyPoolAssumption
<1> QED BY <1>1, <1>2 DEF QuotaInv, Kept

(* The variables keep their types, the history included.                   *)
THEOREM VerifierTypeOK == QuotaSpec => []QuotaTypeOK
<1> DEFINE T == VerifierInv /\ spent \in [Key -> Nat] /\ curtailed \subseteq Key
<1>1. QuotaInit => T
  BY InitVerifierInv DEF QuotaInit
<1>2. T /\ [QuotaNext]_quotaVars => T'
  <2> SUFFICES ASSUME T, [QuotaNext]_quotaVars PROVE T'
    OBVIOUS
  <2>1. VerifierInv'
    BY NextVerifierInv, QuotaStep DEF quotaVars
  <2>2. NewDay \in Nat
    BY NewDayType DEF VerifierInv, Clocks
  <2>3. ASSUME NEW c \in Calls, NEW reply \in KeyReplies, RotatesNoted(c, reply)
        PROVE  spent' \in [Key -> Nat] /\ curtailed' \subseteq Key
    <3>1. ApiKey[call[c].entry] \in Key
      BY <2>3, KeyPoolAssumption DEF RotatesNoted, QevRotates, VerifierInv, GoodCall
    <3>2. Notes(reply, ApiKey[call[c].entry])
      BY <2>3 DEF RotatesNoted
    <3> QED BY <2>2, <3>1, <3>2 DEF Notes, quota
  <2>4. CASE RestartsAfresh
    BY <2>1, <2>4 DEF RestartsAfresh
  <2>5. CASE UNCHANGED quota
    BY <2>1, <2>5 DEF quota
  <2> QED BY <2>1, <2>3, <2>4, <2>5 DEF QuotaNext, quotaVars
<1>3. T => QuotaTypeOK
  BY InvType DEF QuotaTypeOK
<1> HIDE DEF T
<1> QED BY <1>1, <1>2, <1>3, PTL DEF QuotaSpec

(* With no key configured twice, a key without credits rests until         *)
(* midnight, for any day and cooldown, unless a later reply cuts it short. *)
THEOREM SpentKeysRest == ASSUME DistinctKeys PROVE QuotaSpec => SpentKeyRests
<1>1. QuotaInv /\ [QuotaNext]_quotaVars => QuotaInv'
  BY QuotaKept
<1>2. QuotaInv /\ [QuotaNext]_quotaVars =>
         [\A c \in Calls :
             call[c] # call'[c] /\ call'[c].pc = "qev" =>
                 LET k == ApiKey[call'[c].entry]
                 IN  now >= spent'[k] \/ k \in curtailed']_quotaVars
  BY QuotaKept DEF GivenRested
<1> QED BY <1>1, <1>2, InitQuotaInv, PTL DEF QuotaSpec, SpentKeyRests
=============================================================================

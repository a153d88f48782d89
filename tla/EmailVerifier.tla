--------------------------- MODULE EmailVerifier ----------------------------
(***************************************************************************)
(* ChainedEmailVerifier.verify over its two tiers: the key pool of         *)
(* QuickEmailVerification, then MyEmailVerifier with one key and a         *)
(* client-side interval between the checks of a domain.  Any number of     *)
(* calls overlap; a call gives up control while a request is on the wire   *)
(* and while it sleeps out the interval.                                   *)
(***************************************************************************)
EXTENDS KeyPoolOps, Verdict

CONSTANTS Calls,              \* slots for concurrent calls
          Domains,            \* the part of an address after the @
          HeardReports,       \* the reports the providers send
          Interval,           \* RATE_LIMIT_INTERVAL
          Cooldown,           \* _RATE_LIMIT_COOLDOWN
          Day,                \* from one UTC midnight to the next
          MaxTime             \* bound of the clock

ASSUME VerifierAssumption ==
    /\ HeardReports \subseteq Reports
    /\ "" \notin Domains
    /\ Interval \in Nat \ {0} /\ Cooldown \in Nat \ {0} /\ Day \in Nat \ {0}
    /\ MaxTime \in Nat

VARIABLES mev,         \* MYEMAILVERIFIER_API_KEY is set; fixed in a process
          pool,        \* the KeyPool of the first tier
          lastCheck,   \* _domain_last_check of the second
          now,         \* the clock
          call,        \* the call each slot runs or ran last
          heard,       \* history: what providers reported to each call
          sent         \* history: when each domain was last asked about there

vars == <<mev, pool, lastCheck, now, call, heard, sent>>

(* done: verify() returned verdict; raised: it raised                      *)
(* NoVerifierAvailableError.  An address without an @ has no domain.       *)
NoCall == [pc |-> "idle", entry |-> NoEntry, left |-> 0, domain |-> "",
           wake |-> 0, verdict |-> NoVerdict]

CallType == [pc : {"idle", "qev", "sleep", "mev", "done", "raised"},
             entry : Entries \cup {NoEntry}, left : Nat,
             domain : Domains \cup {""}, wake : Nat, verdict : Verdicts]

TypeOK ==
    /\ mev \in BOOLEAN
    /\ pool \in PoolType /\ CursorInRange(pool)
    /\ lastCheck \in [Domains -> Nat]
    /\ now \in Nat
    /\ call \in [Calls -> CallType]
    /\ \A c \in Calls :
          /\ call[c].pc = "qev" => call[c].entry \in Entries
          /\ call[c].pc \in {"qev", "sleep", "mev"} =>
                call[c].domain \in Domains
    /\ heard \in [Calls -> SUBSET HeardReports]
    /\ sent \in [Domains -> Nat]

(* With no tier at all the chain is not built.                             *)
Configured == NumKeys > 0 \/ mev

(* The clock starts late enough for a first check not to wait.             *)
Init ==
    /\ mev \in BOOLEAN /\ Configured
    /\ pool = FreshPool
    /\ lastCheck = [d \in Domains |-> 0]
    /\ now = Interval
    /\ call = [c \in Calls |-> NoCall]
    /\ heard = [c \in Calls |-> {}]
    /\ sent = [d \in Domains |-> 0]

Idle(c) == call[c].pc \in {"idle", "done", "raised"}

Becomes(c, k) == call' = [call EXCEPT ![c] = k]

Returns(d, verdict) == [NoCall EXCEPT !.pc = "done", !.domain = d, !.verdict = verdict]

Raises(d) == [NoCall EXCEPT !.pc = "raised", !.domain = d]

-----------------------------------------------------------------------------
(* The second tier *)

Sends(d) == sent' = [sent EXCEPT ![d] = now]

(* The request is sent, or the call first sleeps.                          *)
AskMev(c, d) ==
    \/ /\ mev /\ now - lastCheck[d] >= Interval
       /\ Becomes(c, [NoCall EXCEPT !.pc = "mev", !.domain = d])
       /\ lastCheck' = [lastCheck EXCEPT ![d] = now]
       /\ Sends(d)
    \/ /\ mev /\ now - lastCheck[d] < Interval
       /\ Becomes(c, [NoCall EXCEPT !.pc = "sleep", !.domain = d,
                                    !.wake = lastCheck[d] + Interval])
       /\ UNCHANGED <<lastCheck, sent>>
    \/ /\ ~mev
       /\ Becomes(c, Raises(d))
       /\ UNCHANGED <<lastCheck, sent>>

(* A fault: the time is noted before the sleep, for the request after it.  *)
WakeWithoutRecord(c) ==
    /\ call[c].pc = "sleep" /\ call[c].wake <= now
    /\ Becomes(c, [call[c] EXCEPT !.pc = "mev", !.wake = 0])
    /\ Sends(call[c].domain)
    /\ UNCHANGED <<mev, pool, lastCheck, now, heard>>

(* A fault: the interval is tested again after the sleep.                  *)
WakeAndTestAgain(c) ==
    /\ call[c].pc = "sleep" /\ call[c].wake <= now
    /\ AskMev(c, call[c].domain)
    /\ UNCHANGED <<mev, pool, now, heard>>

Wake(c) ==
    /\ call[c].pc = "sleep" /\ call[c].wake <= now
    /\ Becomes(c, [call[c] EXCEPT !.pc = "mev", !.wake = 0])
    /\ lastCheck' = [lastCheck EXCEPT ![call[c].domain] = now]
    /\ Sends(call[c].domain)
    /\ UNCHANGED <<mev, pool, now, heard>>

MevReports(c, report) ==
    /\ call[c].pc = "mev"
    /\ Becomes(c, Returns(call[c].domain, Parsed(report, "myemailverifier")))
    /\ heard' = [heard EXCEPT ![c] = @ \cup {report}]
    /\ UNCHANGED <<mev, pool, lastCheck, now, sent>>

(* A fault: a lost request passes for a sure verdict.                      *)
LostVerdictHigh == Judged(FALSE, "myemailverifier", "high")

LostVerdict == Judged(FALSE, "myemailverifier", "low")

(* A transport error, a timeout, any exception but the API's own.          *)
MevLost(c) ==
    /\ call[c].pc = "mev"
    /\ Becomes(c, Returns(call[c].domain, LostVerdict))
    /\ UNCHANGED <<mev, pool, lastCheck, now, heard, sent>>

(* The error envelope, the last tier's: nobody is left to ask.             *)
MevRefuses(c) ==
    /\ call[c].pc = "mev"
    /\ Becomes(c, Raises(call[c].domain))
    /\ UNCHANGED <<mev, pool, lastCheck, now, heard, sent>>

-----------------------------------------------------------------------------
(* The first tier *)

(* The head of its loop, with left iterations to go; the second tier takes *)
(* over when it has no key to try.                                         *)
AskQev(c, d, p, left) ==
    \/ \E e \in Entries :
          /\ left > 0
          /\ FirstUsable(p, now, e)
          /\ pool' = Taken(p, e)
          /\ Becomes(c, [NoCall EXCEPT !.pc = "qev", !.domain = d,
                                       !.entry = e, !.left = left - 1])
          /\ UNCHANGED <<lastCheck, sent>>
    \/ /\ left = 0 \/ NoneUsable(p, now)
       /\ pool' = p
       /\ AskMev(c, d)

Verify(c, d) ==
    /\ Idle(c)
    /\ AskQev(c, d, pool, NumKeys)
    /\ heard' = [heard EXCEPT ![c] = {}]
    /\ UNCHANGED <<mev, now>>

(* An address without an @ is judged by the first tier that is enabled,    *)
(* and asked of nobody.                                                    *)
VerifyBadAddress(c) ==
    /\ Idle(c)
    /\ \/ /\ Enabled(pool)
          /\ Becomes(c, Returns("", Judged(FALSE, "quickemailverification", "high")))
       \/ /\ ~Enabled(pool) /\ mev
          /\ Becomes(c, Returns("", Judged(FALSE, "myemailverifier", "high")))
       \/ /\ ~Enabled(pool) /\ ~mev
          /\ Becomes(c, Raises(""))
    /\ heard' = [heard EXCEPT ![c] = {}]
    /\ UNCHANGED <<mev, pool, lastCheck, now, sent>>

UntilMidnight == Day - (now % Day)

(* A fault: a key without credits is parked as one that is asked too fast. *)
MarkedShortly(reply, k) ==
    CASE reply = "invalid key" -> Killed(pool, k)
      [] reply \in {"out of credits", "rate limited"} -> Parked(pool, now, k, Cooldown)
      [] reply = "no verdict" -> pool

(* What a reply without a verdict does to the key: 401, 402, 429, and      *)
(* nothing for a transport error and any other status.                     *)
Marked(reply, k) ==
    CASE reply = "invalid key" -> Killed(pool, k)
      [] reply = "out of credits" -> Parked(pool, now, k, UntilMidnight)
      [] reply = "rate limited" -> Parked(pool, now, k, Cooldown)
      [] reply = "no verdict" -> pool

KeyReplies == {"invalid key", "out of credits", "rate limited", "no verdict"}

QevRotates(c, reply) ==
    /\ call[c].pc = "qev"
    /\ AskQev(c, call[c].domain, Marked(reply, ApiKey[call[c].entry]), call[c].left)
    /\ UNCHANGED <<mev, now, heard>>

(* A fault: an unknown mailbox is asked of the next key, or the next tier. *)
QevReportsButUnknown(c, report) ==
    /\ call[c].pc = "qev"
    /\ heard' = [heard EXCEPT ![c] = @ \cup {report}]
    /\ IF report.result = "other"
       THEN AskQev(c, call[c].domain, pool, call[c].left)
       ELSE /\ Becomes(c, Returns(call[c].domain,
                                  Parsed(report, "quickemailverification")))
            /\ UNCHANGED <<pool, lastCheck, sent>>
    /\ UNCHANGED <<mev, now>>

QevReports(c, report) ==
    /\ call[c].pc = "qev"
    /\ Becomes(c, Returns(call[c].domain, Parsed(report, "quickemailverification")))
    /\ heard' = [heard EXCEPT ![c] = @ \cup {report}]
    /\ UNCHANGED <<mev, pool, lastCheck, now, sent>>

-----------------------------------------------------------------------------
Tick ==
    /\ now < MaxTime
    /\ now' = now + 1
    /\ UNCHANGED <<mev, pool, lastCheck, call, heard, sent>>

(* A new process; its monotonic clock does not start from zero.            *)
Restart ==
    /\ mev' \in BOOLEAN /\ Configured'
    /\ pool' = FreshPool
    /\ lastCheck' = [d \in Domains |-> 0]
    /\ call' = [c \in Calls |-> NoCall]
    /\ heard' = [c \in Calls |-> {}]
    /\ sent' = [d \in Domains |-> 0]
    /\ UNCHANGED now

Starts(c) == VerifyBadAddress(c) \/ \E d \in Domains : Verify(c, d)

Concludes(c) ==
    \/ \E report \in HeardReports : QevReports(c, report) \/ MevReports(c, report)
    \/ MevLost(c)
    \/ MevRefuses(c)

Hears(c) == Concludes(c) \/ \E reply \in KeyReplies : QevRotates(c, reply)

Next ==
    \/ \E c \in Calls : Starts(c) \/ Hears(c) \/ Wake(c)
    \/ Tick
    \/ Restart

Spec == Init /\ [][Next]_vars

-----------------------------------------------------------------------------
(* Properties *)

Done(c) == call[c].pc = "done"

(* An address is accepted only if a provider confirmed the mailbox in this *)
(* very call: not a catch-all, not a disposable domain, not for want of an *)
(* answer (verifier.py:155-191; quickemailverification.py:140-178).        *)
AcceptedIsConfirmed ==
    \A c \in Calls : Done(c) /\ Accepted(call[c].verdict) =>
        \E report \in heard[c] : Confirms(report)

(* verify() raises only when no provider reported anything                 *)
(* (verify_chain.py:47-69).                                                *)
RaisesOnlyInSilence == \A c \in Calls : call[c].pc = "raised" => heard[c] = {}

(* A verdict on a well-formed address that no provider gave never accepts  *)
(* it and is marked low, so a caller can tell it from a confirmed one      *)
(* (verifier.py:91-110).                                                   *)
UnheardIsLow ==
    \A c \in Calls : Done(c) /\ call[c].domain \in Domains /\ heard[c] = {} =>
        ~call[c].verdict.valid /\ call[c].verdict.confidence = "low"

(* Two checks of a domain come closer than RATE_LIMIT_INTERVAL, "seconds    *)
(* between checks per domain", only if the later one slept through the     *)
(* earlier, having read a stale time (verifier.py:28, 145-152).            *)
CrowdedOnlyByOverlap ==
    [][\A c \in Calls :
          call[c].pc # "mev" /\ call'[c].pc = "mev" =>
              LET d == call'[c].domain
              IN  \/ now - sent[d] >= Interval
                  \/ call[c].pc = "sleep" /\ call[c].wake < sent[d] + Interval]_vars

(* What a call still has ahead of it: the keys of the first tier it may    *)
(* try, one sleep, one request of the second.                              *)
StepsToGo(c) ==
    CASE call[c].pc = "qev" -> call[c].left + 3
      [] call[c].pc = "sleep" -> 2
      [] call[c].pc = "mev" -> 1
      [] OTHER -> 0

(* Whatever the providers reply, however others park and revive the keys   *)
(* and check the same domain meanwhile, each step of a verification takes  *)
(* it nearer its end: a call that slept is not put off again by those that *)
(* went before it (quickemailverification.py:78-126; verifier.py:146-152). *)
VerificationsWindDown ==
    [][\A c \in Calls :
          call[c].pc \in {"qev", "sleep", "mev"} /\ call'[c] # call[c] =>
              StepsToGo(c)' < StepsToGo(c)]_vars

(* What verify_chain.py:4-10 and tools/resolve.py:152-155 say: a tier that *)
(* cannot answer is never turned into a verdict on the address.            *)
NoFabricatedVerdict ==
    \A c \in Calls : Done(c) /\ call[c].domain \in Domains => heard[c] # {}
=============================================================================

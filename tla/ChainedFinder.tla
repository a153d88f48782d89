--------------------------- MODULE ChainedFinder ----------------------------
(***************************************************************************)
(* ChainedFinder.find over its tiers, any number of finds overlapping.     *)
(* find() gives up control only while a tier is answering; what it does    *)
(* with the answer, up to the call of the next tier, is one step.  A tier  *)
(* is here what the loop sees of it: whether it is enabled, and what its   *)
(* find() ends with; KeyedClient.tla models the two real ones.             *)
(***************************************************************************)
EXTENDS Naturals

CONSTANTS NumTiers,    \* tiers in priority order: 1 .. NumTiers
          Calls        \* slots for concurrent finds

ASSUME ChainAssumption == NumTiers \in Nat

VARIABLES fallback,  \* fallback_on_no_match, fixed while the process runs
          enabled,   \* enabled[t]: tier t has a key that is not dead
          call,      \* call[c]: the locals of find c
          said       \* history: what each tier said to find c

vars == <<fallback, enabled, call, said>>

Tiers == 1..NumTiers

(* None, a result, ProviderUnavailableError, any other exception.          *)
Outcomes == {"hit", "miss", "unavailable", "error"}

Answers == {"none", "pending", "not_enabled"} \cup Outcomes

CallType == [tier : Tiers \cup {0}, noMatch : BOOLEAN, lastExc : BOOLEAN,
             answer : Answers]

NoFind == [tier |-> 0, noMatch |-> FALSE, lastExc |-> FALSE, answer |-> "none"]

Silence == [t \in Tiers |-> "unasked"]

TypeOK ==
    /\ fallback \in BOOLEAN
    /\ enabled \in [Tiers -> BOOLEAN]
    /\ call \in [Calls -> CallType]
    /\ \A c \in Calls : (call[c].answer = "pending") <=> (call[c].tier # 0)
    /\ said \in [Calls -> [Tiers -> Outcomes \cup {"unasked", "skipped"}]]

Init ==
    /\ fallback \in BOOLEAN
    /\ enabled = [t \in Tiers |-> TRUE]
    /\ call = [c \in Calls |-> NoFind]
    /\ said = [c \in Calls |-> Silence]

-----------------------------------------------------------------------------
(* The loop over the tiers *)

(* The tier at which the loop suspends next: one that has a key that is    *)
(* not dead and, which only the tier knows, one that is not parked.        *)
Suspends(from) == {t \in from..NumTiers : enabled[t]} \cup {NumTiers + 1}

(* Some tier it meets before that raised at once.                          *)
Raises(from, to) == \E t \in from..(to - 1) : enabled[t]

Asking(t, f) == [f EXCEPT !.tier = t, !.answer = "pending"]

(* A fault: the loop variable outlives the loop.                           *)
EndedInTier(f, a) == [f EXCEPT !.answer = a]

Ended(f, a) == [f EXCEPT !.tier = 0, !.answer = a]

(* A fault: the last tier's silence outranks an earlier NO_MATCH.          *)
AfterLoopSilenceFirst(f) ==
    IF f.lastExc THEN "unavailable" ELSE IF f.noMatch THEN "miss" ELSE "not_enabled"

(* After the loop: a NO_MATCH outranks the silence of the other tiers.     *)
AfterLoop(f) ==
    IF f.noMatch THEN "miss" ELSE IF f.lastExc THEN "unavailable" ELSE "not_enabled"

Passed(w, from, to) ==
    [t \in Tiers |-> IF t < from \/ t >= to THEN w[t]
                     ELSE IF enabled[t] THEN "unavailable" ELSE "skipped"]

(* The rest of the loop from tier from on, with locals f, w being what was *)
(* said so far.  A tier whose keys are all parked raises without giving up *)
(* control, and the loop goes on.                                          *)
AskNext(c, f, from, w) ==
    \E t \in Suspends(from) :
        LET g == [f EXCEPT !.lastExc = @ \/ Raises(from, t)]
        IN  /\ call' = [call EXCEPT ![c] =
                          IF t \in Tiers THEN Asking(t, g) ELSE Ended(g, AfterLoop(g))]
            /\ said' = [said EXCEPT ![c] = Passed(w, from, t)]

Find(c) ==
    /\ call[c].tier = 0
    /\ AskNext(c, NoFind, 1, Silence)
    /\ UNCHANGED <<fallback, enabled>>

Told(c, v) == [said[c] EXCEPT ![call[c].tier] = v]

(* A fault: fallback_on_no_match is not looked at.                         *)
GoesOnAfterMiss(v) == v \in {"unavailable", "miss"}

(* What lets the loop go on to the next tier.                              *)
GoesOn(v) == v = "unavailable" \/ (v = "miss" /\ fallback)

(* The locals once the tier said v.                                        *)
Flagged(f, v) ==
    [f EXCEPT !.noMatch = @ \/ v = "miss", !.lastExc = @ \/ v = "unavailable"]

(* A tier that is unavailable may have lost its last key (lost) over it.   *)
Reply(c, v, lost) ==
    /\ call[c].tier # 0
    /\ lost => v = "unavailable"
    /\ IF GoesOn(v)
       THEN AskNext(c, Flagged(call[c], v), call[c].tier + 1, Told(c, v))
       ELSE /\ call' = [call EXCEPT ![c] = Ended(Flagged(call[c], v), v)]
            /\ said' = [said EXCEPT ![c] = Told(c, v)]
    /\ enabled' = IF lost THEN [enabled EXCEPT ![call[c].tier] = FALSE] ELSE enabled
    /\ UNCHANGED fallback

(* The process ends and a new one starts, perhaps with another setting.    *)
Restart ==
    /\ fallback' \in BOOLEAN
    /\ enabled' = [t \in Tiers |-> TRUE]
    /\ call' = [c \in Calls |-> NoFind]
    /\ said' = [c \in Calls |-> Silence]

Next ==
    \/ \E c \in Calls : Find(c)
    \/ \E c \in Calls, v \in Outcomes, lost \in BOOLEAN : Reply(c, v, lost)
    \/ Restart

Spec == Init /\ [][Next]_vars

-----------------------------------------------------------------------------
(* Properties *)

answer == [c \in Calls |-> call[c].answer]

Abstract == INSTANCE ChainPromise

(* The loop, with its two flags and its early returns, does what           *)
(* ChainPromise.tla states of the tiers' words: no miss unless a tier      *)
(* said so, no silence over a miss, no tier asked twice, out of order or   *)
(* when disabled, none left out while enabled (finder.py:118-163).         *)
KeepsPromise == Abstract!Promise
=============================================================================

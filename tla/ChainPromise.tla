---------------------------- MODULE ChainPromise ----------------------------
(***************************************************************************)
(* What the docstring of ChainedFinder promises the caller of find()       *)
(* (finder.py:75-92), in terms of what the tiers said and nothing else:    *)
(* tiers are consulted in order, each once at most; a tier is passed over  *)
(* only while it is not enabled; the find ends as soon as what was said    *)
(* settles it; and the answer is a function of what was said.              *)
(***************************************************************************)
EXTENDS Naturals

CONSTANTS NumTiers,    \* tiers in priority order: 1 .. NumTiers
          Calls        \* slots for concurrent finds

VARIABLES fallback,  \* whether a miss is asked again of the next tier
          enabled,   \* enabled[t]: tier t has a key that is not dead
          said,      \* said[c][t]: what tier t said to find c
          answer     \* answer[c]: what find c ended with

promiseVars == <<fallback, enabled, said, answer>>

Tiers == 1..NumTiers

Outcomes == {"hit", "miss", "unavailable", "error"}

Verdicts == Outcomes \cup {"unasked", "skipped"}

Silence == [t \in Tiers |-> "unasked"]

Says(w, v) == \E t \in Tiers : w[t] = v

Settled(w) ==
    \/ Says(w, "hit") \/ Says(w, "error")
    \/ Says(w, "miss") /\ ~fallback
    \/ ~Says(w, "unasked")

(* A tier that broke outranks everything, a hit every silence and miss, a  *)
(* miss the silence of the others.                                         *)
Verdict(w) ==
    CASE Says(w, "error") -> "error"
      [] ~Says(w, "error") /\ Says(w, "hit") -> "hit"
      [] ~Says(w, "error") /\ ~Says(w, "hit") /\ Says(w, "miss") -> "miss"
      [] OTHER -> IF Says(w, "unavailable") THEN "unavailable" ELSE "not_enabled"

AnswerTo(w) == IF Settled(w) THEN Verdict(w) ELSE "pending"

(* The tier that is asked next from tier from on, or none of them: which   *)
(* of the enabled ones have a key to try is theirs to know.                *)
AskedNext(from) == {t \in from..NumTiers : enabled[t]} \cup {NumTiers + 1}

(* The tiers before to are passed over: one that is enabled is unavailable *)
(* without having asked anybody, its keys all being parked.                *)
PassedOver(w, from, to) ==
    [t \in Tiers |-> IF t < from \/ t >= to THEN w[t]
                     ELSE IF enabled[t] THEN "unavailable" ELSE "skipped"]

-----------------------------------------------------------------------------
PromiseInit ==
    /\ fallback \in BOOLEAN
    /\ enabled = [t \in Tiers |-> TRUE]
    /\ said = [c \in Calls |-> Silence]
    /\ answer = [c \in Calls |-> "none"]

Start(c) ==
    /\ answer[c] # "pending"
    /\ \E t \in AskedNext(1) :
          /\ said' = [said EXCEPT ![c] = PassedOver(Silence, 1, t)]
          /\ answer' = [answer EXCEPT ![c] = AnswerTo(PassedOver(Silence, 1, t))]
    /\ UNCHANGED <<fallback, enabled>>

(* What tier t said settles the find, or the find goes on.                 *)
Heard(c, t, told) ==
    \/ /\ Settled(told)
       /\ said' = [said EXCEPT ![c] = told]
       /\ answer' = [answer EXCEPT ![c] = Verdict(told)]
    \/ /\ ~Settled(told)
       /\ \E u \in AskedNext(t + 1) :
             /\ said' = [said EXCEPT ![c] = PassedOver(told, t + 1, u)]
             /\ answer' = [answer EXCEPT ![c] = AnswerTo(PassedOver(told, t + 1, u))]

(* The tier that speaks is the first that did not yet.  A tier that is     *)
(* unavailable may have lost its last key over it, up to the end of the    *)
(* process.                                                                *)
Hear(c, t, v, lost) ==
    /\ answer[c] = "pending"
    /\ said[c][t] = "unasked" /\ \A u \in 1..(t - 1) : said[c][u] # "unasked"
    /\ lost => v = "unavailable"
    /\ Heard(c, t, [said[c] EXCEPT ![t] = v])
    /\ enabled' = IF lost THEN [enabled EXCEPT ![t] = FALSE] ELSE enabled
    /\ UNCHANGED fallback

Reset == PromiseInit'

PromiseNext ==
    \/ \E c \in Calls : Start(c)
    \/ \E c \in Calls, t \in Tiers, v \in Outcomes, lost \in BOOLEAN : Hear(c, t, v, lost)
    \/ Reset

Promise == PromiseInit /\ [][PromiseNext]_promiseVars
=============================================================================

---------------------------- MODULE ReplyEffects ----------------------------
(***************************************************************************)
(* What a client of contacts/ does with one reply of its provider: try the *)
(* next key, kill or park the key first, or return an answer and log the   *)
(* credits it cost.                                                        *)
(***************************************************************************)
EXTENDS Integers

EffectType ==
    [kind : {"retry", "dead", "park", "miss", "hit"}, for : Nat, credits : Nat]

Retry == [kind |-> "retry", for |-> 0, credits |-> 0]
Dead == [Retry EXCEPT !.kind = "dead"]
Park(d) == [Retry EXCEPT !.kind = "park", !.for = d]
Miss == [Retry EXCEPT !.kind = "miss"]
Hit(n) == [Retry EXCEPT !.kind = "hit", !.credits = n]

AnswerKinds == {"miss", "hit"}
=============================================================================

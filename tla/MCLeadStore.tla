---------------------------- MODULE MCLeadStore -----------------------------
EXTENDS LeadStore, TLC

CONSTANTS email, gate, ann, one

Two == {email, gate}

MCDefault == [c \in Two |-> IF c = gate THEN FALSE ELSE Null]

(* With and without an address, None for one, the gate set and left alone, *)
(* a gate that cannot be stored; a why left alone, None, and its own.      *)
MCLeads == [given : {<<>>, email :> ann, email :> Null, gate :> TRUE, gate :> Null},
            why : {Null, <<>>, <<one>>}]
=============================================================================

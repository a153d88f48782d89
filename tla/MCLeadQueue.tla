---------------------------- MODULE MCLeadQueue -----------------------------
(***************************************************************************)
(* Three leads, added without a score or with one and re-scored, moved out *)
(* of a list and back, while a session walks through it.                   *)
(***************************************************************************)
EXTENDS LeadQueue, TLC

CONSTANTS score, pentest

OneColumn == {score}

MCDefault == [c \in OneColumn |-> Null]

MCLeads == [given : {<<>>, score :> 1, score :> 2}, why : {Null}]

List(status, min) == [project |-> pentest, status |-> status, min |-> min]

MCQueries == {List("qualified", Null), List(Null, 2)}

AnyThree == Permutations(Domains)
=============================================================================

---------------------------- MODULE ApolloReply -----------------------------
(***************************************************************************)
(* How ApolloFinder handles each reply of people/match (contacts/apollo/   *)
(* client.py) and which of a person's fields it keeps (apollo/parse.py).   *)
(***************************************************************************)
EXTENDS ReplyEffects

CONSTANTS FiveMinutes,  \* _RATE_LIMIT_COOLDOWN
          Hour          \* the pool's default cooldown

ASSUME ApolloAssumption == FiveMinutes \in Nat /\ Hour \in Nat

(* email is what the field holds: nothing, an address, or the sentinel     *)
(* Apollo puts there when the account may not see the address.             *)
Persons ==
    [email : {"none", "address", "locked"},
     status : {"verified", "guessed", "unavailable", "bounced", "invalid"},
     linkedin : BOOLEAN, phone : BOOLEAN]

(* A null person, and every body that is no 200, hold nothing.             *)
NoPerson == [email |-> "none", status |-> "guessed", linkedin |-> FALSE, phone |-> FALSE]

ApolloReplies ==
    [status : {"200"}, dict : {TRUE}, code : {"none"}, person : Persons]
    \cup
    [status : {"200", "401", "402", "403", "422", "429", "other", "raised"},
     dict : BOOLEAN,
     code : {"INVALID_API_KEY", "API_INACCESSIBLE", "INSUFFICIENT_CREDITS", "none"},
     person : {NoPerson}]

(* extract_person: an address Apollo calls dead is no address.             *)
Contactable(p) == p.email = "address" /\ p.status \notin {"unavailable", "bounced", "invalid"}

Credits(p) == IF p.phone THEN 9 ELSE IF Contactable(p) THEN 1 ELSE 0

HandleOk(p) == IF Contactable(p) \/ p.linkedin THEN Hit(Credits(p)) ELSE Miss

HasCode(r, codes) == r.dict /\ r.code \in codes

ApolloEffect(r) ==
    IF r.status = "raised" THEN Retry
    ELSE IF r.status = "200" /\ r.dict THEN HandleOk(r.person)
    ELSE IF r.status = "401" \/ HasCode(r, {"INVALID_API_KEY", "API_INACCESSIBLE"})
         THEN Dead
    ELSE IF r.status = "403" THEN Park(Hour)
    ELSE IF r.status = "429" THEN Park(FiveMinutes)
    ELSE IF r.status = "402" \/ HasCode(r, {"INSUFFICIENT_CREDITS"}) THEN Park(Hour)
    ELSE IF r.status = "422" THEN Miss
    ELSE Retry
=============================================================================

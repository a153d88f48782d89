---------------------------- MODULE ProspeoReply ----------------------------
(***************************************************************************)
(* How ProspeoFinder.find handles each reply of Prospeo (contacts/         *)
(* prospeo.py): which replies speak of the key and which of the person.    *)
(***************************************************************************)
EXTENDS ReplyEffects

CONSTANTS Hour,         \* the pool's default cooldown
          EnrichMobile  \* the enrich_mobile argument

ASSUME ProspeoAssumption == Hour \in Nat /\ EnrichMobile \in BOOLEAN

(* "raised" is a transport error or the timeout; a body that is not an     *)
(* object has no code and no error flag; only a body without an error      *)
(* describes a person.                                                     *)
NoPerson == [email |-> FALSE, linkedin |-> FALSE, free |-> FALSE]

ProspeoReplies ==
    [status : {"200"}, dict : {TRUE}, error : {FALSE}, code : {"none"},
     person : [email : BOOLEAN, linkedin : BOOLEAN, free : BOOLEAN]]
    \cup
    [status : {"200", "401", "429", "other", "raised"},
     dict : BOOLEAN, error : BOOLEAN,
     code : {"INVALID_API_KEY", "RATE_LIMITED", "INSUFFICIENT_CREDITS",
             "NO_MATCH", "INVALID_DATAPOINTS", "none"},
     person : {NoPerson}]

Succeeded(r) == r.status = "200" /\ r.dict /\ ~r.error

HasCode(r, codes) == r.dict /\ r.code \in codes

Credits(p) == IF p.free THEN 0 ELSE IF EnrichMobile THEN 10 ELSE 1

(* An email or a profile makes a person usable; a phone alone does not.    *)
ProspeoEffect(r) ==
    IF r.status = "raised" THEN Retry
    ELSE IF Succeeded(r)
         THEN IF r.person.email \/ r.person.linkedin THEN Hit(Credits(r.person)) ELSE Miss
    ELSE IF r.status = "401" \/ HasCode(r, {"INVALID_API_KEY"}) THEN Dead
    ELSE IF r.status = "429" \/ HasCode(r, {"RATE_LIMITED", "INSUFFICIENT_CREDITS"})
         THEN Park(Hour)
    ELSE IF HasCode(r, {"NO_MATCH", "INVALID_DATAPOINTS"}) THEN Miss
    ELSE Retry
=============================================================================

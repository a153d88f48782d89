------------------------ MODULE EmailVerifierHistory -------------------------
(***************************************************************************)
(* EmailVerifier.tla with history variables that remember what the first   *)
(* tier's provider said of the quota of each key.                          *)
(***************************************************************************)
EXTENDS EmailVerifier

VARIABLES spent,    \* spent[k]: when the quota last reported used up is new
          curtailed \* keys called rate limited since that report

quota == <<spent, curtailed>>

quotaVars == <<vars, quota>>

QuotaTypeOK ==
    /\ TypeOK
    /\ spent \in [Key -> Nat]
    /\ curtailed \subseteq Key

QuotaInit ==
    /\ Init
    /\ spent = [k \in Key |-> 0]
    /\ curtailed = {}

(* The next UTC midnight.                                                  *)
NewDay == now + (Day - (now % Day))

(* What the reply to a request with key k says of its quota.               *)
Notes(reply, k) ==
    CASE reply = "out of credits" ->
            /\ spent' = [spent EXCEPT ![k] = NewDay]
            /\ curtailed' = curtailed \ {k}
      [] reply = "rate limited" ->
            curtailed' = curtailed \cup {k} /\ UNCHANGED spent
      [] OTHER -> UNCHANGED quota

RotatesNoted(c, reply) ==
    QevRotates(c, reply) /\ Notes(reply, ApiKey[call[c].entry])

RestartsAfresh ==
    /\ Restart
    /\ spent' = [k \in Key |-> 0]
    /\ curtailed' = {}

QuotaNext ==
    \/ \E c \in Calls :
          \/ \E reply \in KeyReplies : RotatesNoted(c, reply)
          \/ Starts(c) /\ UNCHANGED quota
          \/ Concludes(c) /\ UNCHANGED quota
          \/ Wake(c) /\ UNCHANGED quota
    \/ Tick /\ UNCHANGED quota
    \/ RestartsAfresh

QuotaSpec == QuotaInit /\ [][QuotaNext]_quotaVars

-----------------------------------------------------------------------------
(* Properties *)

(* A key whose daily quota is used up is given to no request before the    *)
(* next UTC midnight (quickemailverification.py:4-8, 103-112), unless a    *)
(* "rate limited" was handled after the "out of credits": the later park   *)
(* replaces the longer (key_pool.py:83-88).  The first such reply answers  *)
(* a request that overlapped the one that found the quota used up.         *)
SpentKeyRests ==
    [][\A c \in Calls :
          call[c] # call'[c] /\ call'[c].pc = "qev" =>
              LET k == ApiKey[call'[c].entry]
              IN  now >= spent'[k] \/ k \in curtailed']_quotaVars
=============================================================================

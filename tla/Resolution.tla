----------------------------- MODULE Resolution ------------------------------
(***************************************************************************)
(* resolve_contact from the tool to the wire: the chain's loop over its    *)
(* two real tiers, each a KeyedClient with its own pool, then the email    *)
(* verifier.  A resolution gives up control where a client does, and while *)
(* the verifier works; everything between two such points, in whichever of *)
(* the layers, is one step.  So a tier whose keys are all parked raises,   *)
(* and the next one is asked, in the step that found the first exhausted.  *)
(*                                                                         *)
(* The verifier chain is here what _verify sees of it: a verdict, or an    *)
(* exception.  EmailVerifier.tla models what is behind it.                 *)
(***************************************************************************)
EXTENDS Integers, FiniteSets, Verdict

CONSTANTS Calls,                           \* slots for concurrent calls
          NumProspeo, NumApollo,           \* keys of each tier
          Key, ProspeoKey, ApolloKey,      \* and what they are
          ProspeoEffects, ApolloEffects,   \* replies, as ReplyEffects.tla has them
          Hits,                            \* what the matched record holds
          VerdictsGiven,                   \* what verify() may return
          MaxTime, MaxFinds                \* bounds of the clock and of the calls

HitType == [email : {"none", "unverified", "verified"}, linkedin : BOOLEAN]

VARIABLES now,
          pPool, pFind, pBegun, pUsage,    \* the Prospeo client
          aPool, aFind, aBegun, aUsage,    \* the Apollo client
          fallback, chain, said,           \* the finder chain
          hasVerifier,                     \* a verifier is configured
          request,                         \* the calls of resolve_contact
          begun,                           \* calls so far
          heard                            \* history: what providers answered

prospeoVars == <<pPool, pFind, pBegun, pUsage>>
apolloVars == <<aPool, aFind, aBegun, aUsage>>
chainVars == <<chain, said>>
settings == <<fallback, hasVerifier>>

vars == <<now, prospeoVars, apolloVars, chainVars, settings, request, begun, heard>>

P == INSTANCE KeyedClient WITH
        NumKeys <- NumProspeo, ApiKey <- ProspeoKey, Effects <- ProspeoEffects,
        pool <- pPool, call <- pFind, begun <- pBegun, usage <- pUsage

A == INSTANCE KeyedClient WITH
        NumKeys <- NumApollo, ApiKey <- ApolloKey, Effects <- ApolloEffects,
        pool <- aPool, call <- aFind, begun <- aBegun, usage <- aUsage

ASSUME ResolutionAssumption ==
    /\ NumProspeo \in Nat \ {0} /\ NumApollo \in Nat \ {0}
    /\ ProspeoKey \in [P!Entries -> Key] /\ ApolloKey \in [A!Entries -> Key]
    /\ ProspeoEffects \subseteq P!EffectType /\ ApolloEffects \subseteq A!EffectType
    /\ Hits \subseteq HitType
    /\ \A h \in Hits : h.email # "none" \/ h.linkedin
    /\ VerdictsGiven \subseteq Verdicts

(* tier.enabled of the two tiers.                                          *)
enabled == <<P!Enabled(pPool), A!Enabled(aPool)>>

C == INSTANCE ChainedFinder WITH NumTiers <- 2, call <- chain

Reasons == {"", "no_match", "no_email", "email_unverified",
            "insufficient_input", "provider_unavailable"}

RequestType == [pc : {"idle", "find", "verify", "done"}, found : BOOLEAN,
                email : BOOLEAN, linkedin : BOOLEAN, reason : Reasons]

NoRequest == [pc |-> "idle", found |-> FALSE, email |-> FALSE, linkedin |-> FALSE,
              reason |-> ""]

Answered == {<<t, kind>> : t \in 1..2, kind \in {"hit", "miss"}}

TypeOK ==
    /\ P!ClientTypeOK /\ A!ClientTypeOK /\ C!TypeOK
    /\ hasVerifier \in BOOLEAN
    /\ request \in [Calls -> RequestType]
    /\ \A c \in Calls : (request[c].pc = "find") <=> (chain[c].answer = "pending")
    /\ begun \in Nat
    /\ heard \in [Calls -> SUBSET Answered]

Init ==
    /\ P!ClientInit /\ A!ClientInit
    /\ fallback \in BOOLEAN /\ hasVerifier \in BOOLEAN
    /\ chain = [c \in Calls |-> C!NoFind]
    /\ said = [c \in Calls |-> C!Silence]
    /\ request = [c \in Calls |-> NoRequest]
    /\ begun = 0
    /\ heard = [c \in Calls |-> {}]

Becomes(c, r) == request' = [request EXCEPT ![c] = r]

-----------------------------------------------------------------------------
(* What resolve_contact makes of the chain's answer *)

NotFound(reason) == [NoRequest EXCEPT !.pc = "done", !.reason = reason]

(* Nothing but a profile, if that: found is bool(linkedin_url).            *)
ProfileOnly(h, reason) ==
    [NotFound(IF h.email = "none" /\ h.linkedin THEN "" ELSE reason)
        EXCEPT !.found = h.linkedin, !.linkedin = h.linkedin]

WithEmail(linkedin) ==
    [NoRequest EXCEPT !.pc = "done", !.found = TRUE, !.email = TRUE, !.linkedin = linkedin]

Matched(h) ==
    CASE h.email = "none" -> ProfileOnly(h, "no_email")
      [] h.email = "verified" -> WithEmail(h.linkedin)
      [] h.email = "unverified" /\ hasVerifier ->
            [NoRequest EXCEPT !.pc = "verify", !.linkedin = h.linkedin]
      [] h.email = "unverified" /\ ~hasVerifier -> ProfileOnly(h, "email_unverified")

Concludes(c, answer) ==
    \/ answer = "miss" /\ Becomes(c, NotFound("no_match"))
    \/ /\ answer \in {"unavailable", "not_enabled"}
       /\ Becomes(c, NotFound("provider_unavailable"))
    \/ answer = "hit" /\ \E h \in Hits : Becomes(c, Matched(h))

-----------------------------------------------------------------------------
(* The chain's loop over Prospeo and Apollo; f is its locals, w what the   *)
(* tiers said so far                                                       *)

Searching == [NoRequest EXCEPT !.pc = "find"]

WaitsFor(c, t, f, w) ==
    /\ chain' = [chain EXCEPT ![c] = C!Asking(t, f)]
    /\ said' = [said EXCEPT ![c] = w]
    /\ Becomes(c, Searching)

Ends(c, f, answer, w) ==
    /\ chain' = [chain EXCEPT ![c] = C!Ended(f, answer)]
    /\ said' = [said EXCEPT ![c] = w]
    /\ Concludes(c, answer)

(* Apollo's find ended with v.                                             *)
ApolloSays(c, f, w, v) ==
    LET g == C!Flagged(f, v)
    IN  Ends(c, g, IF C!GoesOn(v) THEN C!AfterLoop(g) ELSE v, [w EXCEPT ![2] = v])

(* A fault: a tier that lost every key is asked all the same.              *)
AskApolloAnyway(c, f, w) ==
    /\ A!Begin(c)
    /\ IF A!InFlight(c)' THEN WaitsFor(c, 2, f, w)
                         ELSE ApolloSays(c, f, w, aFind'[c].answer)

(* A fault: the loop does not pass over a tier without keys, it waits.     *)
AskApolloWhenEnabled(c, f, w) ==
    /\ A!Enabled(aPool)
    /\ A!Begin(c)
    /\ IF A!InFlight(c)' THEN WaitsFor(c, 2, f, w)
                         ELSE ApolloSays(c, f, w, aFind'[c].answer)

AskApollo(c, f, w) ==
    \/ /\ ~A!Enabled(aPool)
       /\ Ends(c, f, C!AfterLoop(f), [w EXCEPT ![2] = "skipped"])
       /\ UNCHANGED apolloVars
    \/ /\ A!Enabled(aPool)
       /\ A!Begin(c)
       /\ IF A!InFlight(c)' THEN WaitsFor(c, 2, f, w)
                            ELSE ApolloSays(c, f, w, aFind'[c].answer)

(* Prospeo's find ended with v.                                            *)
ProspeoSays(c, f, w, v) ==
    LET g == C!Flagged(f, v)
        told == [w EXCEPT ![1] = v]
    IN  IF C!GoesOn(v) THEN AskApollo(c, g, told)
        ELSE Ends(c, g, v, told) /\ UNCHANGED apolloVars

AskProspeo(c, f, w) ==
    \/ /\ ~P!Enabled(pPool)
       /\ UNCHANGED prospeoVars
       /\ AskApollo(c, f, [w EXCEPT ![1] = "skipped"])
    \/ /\ P!Enabled(pPool)
       /\ P!Begin(c)
       /\ IF P!InFlight(c)' THEN WaitsFor(c, 1, f, w) /\ UNCHANGED apolloVars
                            ELSE ProspeoSays(c, f, w, pFind'[c].answer)

-----------------------------------------------------------------------------
(* The steps of a call *)

Free(c) == request[c].pc \in {"idle", "done"} /\ begun < MaxFinds

Starts(c) == begun' = begun + 1 /\ heard' = [heard EXCEPT ![c] = {}]

(* A name without a first name, or no domain: nobody is asked.             *)
ResolveBlank(c) ==
    /\ Free(c)
    /\ Becomes(c, NotFound("insufficient_input"))
    /\ Starts(c)
    /\ UNCHANGED <<now, prospeoVars, apolloVars, chainVars, settings>>

Resolve(c) ==
    /\ Free(c)
    /\ IF enabled = <<FALSE, FALSE>>
       THEN /\ Becomes(c, NotFound("provider_unavailable"))
            /\ UNCHANGED <<prospeoVars, apolloVars, chainVars>>
       ELSE AskProspeo(c, C!NoFind, C!Silence)
    /\ Starts(c)
    /\ UNCHANGED <<now, settings>>

Hears(c, t, f) ==
    heard' = [heard EXCEPT ![c] = IF f.kind \in {"hit", "miss"}
                                  THEN @ \cup {<<t, f.kind>>} ELSE @]

(* Prospeo's client moved; the loop goes on if that ended its find.        *)
AfterProspeo(c) ==
    /\ IF P!InFlight(c)' THEN UNCHANGED <<apolloVars, chainVars, request>>
                         ELSE ProspeoSays(c, chain[c], said[c], pFind'[c].answer)
    /\ UNCHANGED <<settings, begun>>

ProspeoReplied(c, f) ==
    /\ P!Rotate(c, f) \/ P!Answer(c, f)
    /\ Hears(c, 1, f)
    /\ AfterProspeo(c)

ProspeoLogged(c, written) ==
    P!LogUsage(c, written) /\ AfterProspeo(c) /\ UNCHANGED <<now, heard>>

AfterApollo(c) ==
    /\ IF A!InFlight(c)' THEN UNCHANGED <<chainVars, request>>
                         ELSE ApolloSays(c, chain[c], said[c], aFind'[c].answer)
    /\ UNCHANGED <<prospeoVars, settings, begun>>

ApolloReplied(c, f) ==
    /\ A!Rotate(c, f) \/ A!Answer(c, f)
    /\ Hears(c, 2, f)
    /\ AfterApollo(c)

ApolloLogged(c, written) ==
    A!LogUsage(c, written) /\ AfterApollo(c) /\ UNCHANGED <<now, heard>>

Unconfirmed(c) ==
    Becomes(c, ProfileOnly([email |-> "unverified", linkedin |-> request[c].linkedin],
                           "email_unverified"))

(* _verify returned, having swallowed whatever the verifier raised.        *)
Verified(c) ==
    /\ request[c].pc = "verify"
    /\ \/ \E verdict \in VerdictsGiven :
             IF Accepted(verdict) THEN Becomes(c, WithEmail(request[c].linkedin))
             ELSE Unconfirmed(c)
       \/ Unconfirmed(c)
    /\ UNCHANGED <<now, prospeoVars, apolloVars, chainVars, settings, begun, heard>>

Tick ==
    /\ P!Tick /\ A!Tick
    /\ UNCHANGED <<chainVars, settings, request, begun, heard>>

(* The process ends and a new one starts, perhaps with other settings.     *)
Restart ==
    /\ P!Restart /\ A!Restart
    /\ fallback' \in BOOLEAN /\ hasVerifier' \in BOOLEAN
    /\ chain' = [c \in Calls |-> C!NoFind]
    /\ said' = [c \in Calls |-> C!Silence]
    /\ request' = [c \in Calls |-> NoRequest]
    /\ heard' = [c \in Calls |-> {}]
    /\ UNCHANGED begun

Proceeds(c) ==
    \/ \E f \in ProspeoEffects : ProspeoReplied(c, f)
    \/ \E f \in ApolloEffects : ApolloReplied(c, f)
    \/ \E written \in BOOLEAN : ProspeoLogged(c, written) \/ ApolloLogged(c, written)
    \/ Verified(c)

Next ==
    \/ \E c \in Calls : ResolveBlank(c) \/ Resolve(c) \/ Proceeds(c)
    \/ Tick
    \/ Restart

Spec == Init /\ [][Next]_vars

(* Every request on the wire is answered or times out, every insert and    *)
(* every verify() returns or raises.                                       *)
FairSpec == Spec /\ \A c \in Calls : WF_vars(Proceeds(c))

-----------------------------------------------------------------------------
(* Properties *)

(* What the session is told of a person is what the providers said in this *)
(* very call: no_match only if one said so and none had a record, nothing  *)
(* but provider_unavailable if none answered, a contact only from a record *)
(* (resolve.py:79-104; finder.py:118-163; prospeo.py:124-225).             *)
ReasonIsTrue ==
    \A c \in Calls : request[c].pc = "done" =>
        LET Got(kind) == \E t \in 1..2 : <<t, kind>> \in heard[c]
        IN  CASE request[c].reason = "no_match" -> Got("miss") /\ ~Got("hit")
              [] request[c].reason \in {"provider_unavailable", "insufficient_input"} ->
                    heard[c] = {}
              [] OTHER -> Got("hit")

(* No provider is paid for a person another one has found, and with        *)
(* CONTACT_FALLBACK_ON_NO_MATCH off an answer, even a miss, is the last    *)
(* (config.py:42-47; finder.py:142-147).                                   *)
AsksNoFurther ==
    \A c \in Calls :
        /\ ~({<<1, "hit">>, <<2, "hit">>} \subseteq heard[c])
        /\ ~fallback => Cardinality(heard[c]) <= 1

(* Two clients under one chain are the tiers ChainedFinder.tla assumes:    *)
(* which raise at once, which suspend, when each is lost for good.         *)
ImplementsChain == C!Spec

(* What a call still has ahead of it: the keys its provider may try, those *)
(* of the other provider if that comes after, the verifier.                *)
TriesLeft(find) == IF find.pc = "wire" THEN find.left + 1 ELSE 0

StepsToGo(c) ==
    CASE request[c].pc = "find" /\ chain[c].tier = 1 -> TriesLeft(pFind[c]) + NumApollo + 3
      [] request[c].pc = "find" /\ chain[c].tier # 1 -> TriesLeft(aFind[c]) + 2
      [] request[c].pc = "verify" -> 1
      [] OTHER -> 0

Progress(c) == <<pFind[c], aFind[c], chain[c], request[c]>>

(* Whatever the providers answer and whatever others do to the two pools,  *)
(* a resolution only ever goes forward: to one of the tries left with a    *)
(* provider, to the other one with at most a try for each of its keys, to  *)
(* the verifier, to its end (prospeo.py:128-225; apollo/client.py:111-134; *)
(* finder.py:118-163).                                                     *)
ResolutionsWindDown ==
    [][\A c \in Calls :
          request[c].pc \in {"find", "verify"} /\ Progress(c)' # Progress(c) =>
              StepsToGo(c)' < StepsToGo(c)]_vars

(* Every resolution ends, however the others empty the two pools meanwhile *)
(* (prospeo.py:124-225; apollo/client.py; resolve.py:91-177).              *)
EveryResolutionEnds ==
    \A c \in Calls : request[c].pc \in {"find", "verify"} ~> request[c].pc \in {"idle", "done"}
=============================================================================

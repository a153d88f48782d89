---------------------------- MODULE MCResolution -----------------------------
(***************************************************************************)
(* Two overlapping resolutions over one key of each provider, with a reply *)
(* of each kind from the two reply tables.                                 *)
(***************************************************************************)
EXTENDS Resolution, ApolloReply

CONSTANTS k0, k1, a, b

Pro == INSTANCE ProspeoReply WITH EnrichMobile <- FALSE

BothKeys == {k0, k1}
OneProspeoKey == [e \in {0} |-> k0]
OneApolloKey == [e \in {0} |-> k1]
TwoCalls == {a, b}

OneOfEachKind == {Retry, Dead, Park(1), Miss, Hit(1)}

ASSUME KindsAreReplies ==
    /\ OneOfEachKind \subseteq {Pro!ProspeoEffect(r) : r \in Pro!ProspeoReplies}
    /\ OneOfEachKind \subseteq {ApolloEffect(r) : r \in ApolloReplies}

MCHits == {[email |-> "none", linkedin |-> TRUE], [email |-> "unverified", linkedin |-> FALSE]}

MCVerdicts == {Judged(TRUE, "myemailverifier", "high"), Judged(TRUE, "catch_all", "medium")}
=============================================================================

-------------------------- MODULE MCServerProcess ---------------------------
(***************************************************************************)
(* Processes started with every mode, complete and lacking one setting,    *)
(* and with every set of tiers.                                            *)
(***************************************************************************)
EXTENDS ServerProcess

Plain == [oauth |-> "", given |-> {}, bearer |-> TRUE, dsn |-> TRUE,
          port |-> "number", tiers |-> Finders, fallback |-> "other"]

AuthEnvs ==
    {[Plain EXCEPT !.oauth = o, !.given = Settings \ lacking, !.bearer = b, !.dsn = FALSE] :
        o \in Modes \cup {"", "unknown"}, b \in BOOLEAN,
        lacking \in {{}} \cup {{x} : x \in Settings}}

TierEnvs ==
    {[Plain EXCEPT !.tiers = t, !.fallback = f] :
        t \in SUBSET (Finders \cup Verifiers), f \in {"true", "false"}}

MCEnvs == AuthEnvs \cup TierEnvs \cup {[Plain EXCEPT !.port = "junk"]}
=============================================================================

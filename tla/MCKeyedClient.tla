--------------------------- MODULE MCKeyedClient ----------------------------
(***************************************************************************)
(* Two finds that overlap and a third over two keys, with everything a     *)
(* reply of Prospeo or of Apollo can make their common loop do.  A key     *)
(* parked for five minutes is back within the run, one parked for an hour  *)
(* is not.                                                                 *)
(***************************************************************************)
EXTENDS KeyedClientHistory, ProspeoReply

CONSTANTS k0, k1, a, b, FiveMinutes

Apo == INSTANCE ApolloReply

TwoKeys == {k0, k1}
TwoApiKeys == [e \in 0..1 |-> IF e = 0 THEN k0 ELSE k1]
TwoCalls == {a, b}

ClientEffects ==
    {ProspeoEffect(r) : r \in ProspeoReplies}
    \cup {Apo!ApolloEffect(r) : r \in Apo!ApolloReplies}
=============================================================================

-------------------------- MODULE MCEmailVerifier ---------------------------
EXTENDS EmailVerifierHistory

CONSTANTS k0, k1

TwoKeys == {k0, k1}
TwoApiKeys == [e \in 0 .. 1 |-> IF e = 0 THEN k0 ELSE k1]

Plain(result) ==
    [result |-> result, acceptAll |-> FALSE, disposable |-> FALSE, role |-> FALSE]

MCReports ==
    {Plain("valid"), [Plain("valid") EXCEPT !.acceptAll = TRUE],
     [Plain("valid") EXCEPT !.disposable = TRUE],
     Plain("other")}
=============================================================================

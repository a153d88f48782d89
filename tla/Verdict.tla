------------------------------ MODULE Verdict -------------------------------
(***************************************************************************)
(* What the two email-verification providers report of a mailbox, and the  *)
(* VerifyResult both clients make of it: _parse_response of                *)
(* quickemailverification.py and of verifier.py, which differ in the names *)
(* of the fields they read and in the method they put down.                *)
(***************************************************************************)

(* A report of a provider; "other" is unknown, greylisted, or no status at *)
(* all, as in a page that is not JSON.                                     *)
Reports == [result : {"valid", "invalid", "other"}, acceptAll : BOOLEAN,
            disposable : BOOLEAN, role : BOOLEAN]

Methods == {"quickemailverification", "myemailverifier"}

(* What the results say of the mailbox; method "none" is no result at all. *)
Verdicts == [valid : BOOLEAN, method : Methods \cup {"catch_all", "none"},
             confidence : {"high", "medium", "low"}]

(* The mailbox exists, is one person's, and may be written to.             *)
Confirms(report) ==
    report.result = "valid" /\ ~report.acceptAll /\ ~report.disposable

Judged(valid, method, confidence) ==
    [valid |-> valid, method |-> method, confidence |-> confidence]

NoVerdict == Judged(FALSE, "none", "low")

(* A fault: a disposable domain is told from a mailbox by its method only. *)
ParsedDisposableValid(report, method) ==
    CASE report.result = "valid" /\ report.acceptAll ->
            Judged(TRUE, "catch_all", "medium")
      [] report.result = "valid" /\ ~report.acceptAll ->
            Judged(TRUE, method, IF report.role THEN "medium" ELSE "high")
      [] report.result = "invalid" -> Judged(FALSE, method, "high")
      [] report.result = "other" -> Judged(FALSE, method, "low")

Parsed(report, method) ==
    CASE report.result = "valid" /\ report.acceptAll ->
            Judged(TRUE, "catch_all", "medium")
      [] report.result = "valid" /\ ~report.acceptAll /\ report.disposable ->
            Judged(FALSE, method, "high")
      [] Confirms(report) ->
            Judged(TRUE, method, IF report.role THEN "medium" ELSE "high")
      [] report.result = "invalid" -> Judged(FALSE, method, "high")
      [] report.result = "other" -> Judged(FALSE, method, "low")

(* What verify_email and resolve_contact accept.                           *)
Accepted(verdict) == verdict.valid /\ verdict.method # "catch_all"
=============================================================================

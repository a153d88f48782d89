------------------------------ MODULE LeadQueue ------------------------------
(***************************************************************************)
(* The query list_leads over the table of LeadStore.tla while sessions go  *)
(* on writing it.  A query is one statement; a session that reads a list   *)
(* page by page makes one call per page, with LIMIT and OFFSET, and stops  *)
(* at a short page.                                                        *)
(***************************************************************************)
EXTENDS LeadStore, FiniteSets

CONSTANTS Score,      \* the column bounty_fit_score
          Queries,    \* what sessions list: project, status and floor or Null
          Limit       \* rows of a page

ASSUME QueueAssumption ==
    /\ Score \in Columns /\ Value \subseteq Nat
    /\ \A q \in Queries : /\ q.project \in Projects
                          /\ q.status \in Statuses \cup {Null}
                          /\ q.min \in Nat \cup {Null}
    /\ Limit \in Nat \ {0}

(* The table holds finitely many rows.                                     *)
ASSUME FiniteDomains == IsFiniteSet(Domains)

VARIABLES created,    \* created_at of each lead, 0 if there is none
          walk        \* a session's walk through the pages of one list

queueVars == <<vars, created, walk>>

-----------------------------------------------------------------------------
(* What a query returns *)

ScoreOf(d) == leads[d].data[Score]

(* ORDER BY bounty_fit_score DESC NULLS LAST, created_at DESC.             *)
Precedes(d, e) ==
    \/ ScoreOf(d) # Null /\ ScoreOf(e) = Null
    \/ ScoreOf(d) # Null /\ ScoreOf(e) # Null /\ ScoreOf(d) > ScoreOf(e)
    \/ ScoreOf(d) = ScoreOf(e) /\ created[d] > created[e]

(* The WHERE of list_leads; a floor leaves out the leads without a score.  *)
Matching(q) ==
    {d \in Domains :
        /\ leads[d] # NoLead /\ leads[d].project = q.project
        /\ q.status # Null => leads[d].status = q.status
        /\ q.min # Null => ScoreOf(d) # Null /\ ScoreOf(d) >= q.min}

Ahead(d, S) == {e \in S : Precedes(e, d)}

(* A fault: OFFSET counts from one.                                        *)
RowsFromOne(S, offset, limit) ==
    {d \in S : Cardinality(Ahead(d, S)) \in offset + 1 .. offset + limit}

(* A fault: a page takes along the last row of the one before.             *)
RowsOverlapping(S, offset, limit) ==
    {d \in S : Cardinality(Ahead(d, S)) + 1 \in offset .. offset + limit}

(* LIMIT and OFFSET.                                                       *)
Rows(S, offset, limit) ==
    {d \in S : Cardinality(Ahead(d, S)) \in offset .. offset + limit - 1}

-----------------------------------------------------------------------------
(* A walk through a list; stayed: the leads that were in it all the time,  *)
(* with the same score; left: some lead went from the rows already passed  *)
(* to behind them, or from the list; came: some went the other way; again: *)
(* one that stayed came twice.                                             *)

NoWalk == [pc |-> "idle", query |-> Null, offset |-> 0, seen |-> {}, stayed |-> {},
           left |-> FALSE, came |-> FALSE, again |-> FALSE]

WalkType == [pc : {"idle", "reading", "done"}, query : Queries \cup {Null},
             offset : Nat, seen : SUBSET Domains, stayed : SUBSET Domains,
             left : BOOLEAN, came : BOOLEAN, again : BOOLEAN]

QueueTypeOK ==
    /\ TypeOK
    /\ created \in [Domains -> Nat]
    /\ \A d, e \in Domains :
          /\ leads[d] = NoLead <=> created[d] = 0
          /\ d # e /\ created[d] = created[e] => created[d] = 0
    /\ walk \in WalkType

QueueInit ==
    /\ Init
    /\ created = [d \in Domains |-> 0]
    /\ walk = NoWalk

StartWalk(q) ==
    /\ walk.pc # "reading"
    /\ walk' = [NoWalk EXCEPT !.pc = "reading", !.query = q, !.stayed = Matching(q)]
    /\ UNCHANGED <<vars, created>>

(* One call of list_leads.                                                 *)
ReadPage ==
    /\ walk.pc = "reading"
    /\ LET page == Rows(Matching(walk.query), walk.offset, Limit)
       IN  walk' = [walk EXCEPT
                      !.pc = IF Cardinality(page) < Limit THEN "done" ELSE "reading",
                      !.offset = @ + Limit,
                      !.seen = @ \cup page,
                      !.again = @ \/ page \cap walk.seen \cap walk.stayed # {}]
    /\ UNCHANGED <<vars, created>>

(* The rows of list q that n rows of pages have passed.                    *)
Passed(q, n) == Rows(Matching(q), 0, n)

Changed == {d \in Domains : leads'[d] # leads[d]}

(* What a write does to the walk through q that it finds at offset n.      *)
Disturbs(q, n) ==
    walk' = [walk EXCEPT
               !.stayed = {d \in @ : d \in Matching(q)' /\ ScoreOf(d)' = ScoreOf(d)},
               !.left = @ \/ Changed \cap (Passed(q, n) \ Passed(q, n)') # {},
               !.came = @ \/ Changed \cap (Passed(q, n)' \ Passed(q, n)) # {}]

WalkSees ==
    \/ walk.pc # "reading" /\ UNCHANGED walk
    \/ walk.pc = "reading" /\ \E q \in {walk.query}, n \in {walk.offset} : Disturbs(q, n)

Stored == {d \in Domains : leads[d] # NoLead}

(* A fault: the upsert sets created_at anew.                               *)
StampedAgain ==
    created' = [d \in Domains |-> IF d \in Changed THEN Cardinality(Stored') ELSE created[d]]

(* created_at is the time of the insert, and no update touches it.         *)
Stamped ==
    created' = [d \in Domains |->
                   IF d \in Stored' \ Stored THEN Cardinality(Stored') ELSE created[d]]

(* Any step of LeadStore.tla.                                              *)
Write == Next /\ Stamped /\ WalkSees

QueueNext ==
    \/ Write
    \/ \E q \in Queries : StartWalk(q)
    \/ ReadPage

QueueSpec == QueueInit /\ [][QueueNext]_queueVars

-----------------------------------------------------------------------------
(* Properties *)

(* A lead that stays in a list is missed by a walk through its pages only  *)
(* if another one dropped out of the rows already passed, and is returned  *)
(* twice only if another one moved up into them: adding leads hides none   *)
(* (leads.py:208-219, which tools/leads.py:127 says paginates).            *)
MissedOnlyAfterDeparture ==
    walk.pc = "done" /\ ~walk.left => walk.stayed \subseteq walk.seen

RepeatedOnlyAfterArrival == walk.again => walk.came
=============================================================================

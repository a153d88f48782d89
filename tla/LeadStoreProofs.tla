-------------------------- MODULE LeadStoreProofs ---------------------------
(***************************************************************************)
(* Theorems about LeadStore.tla, and about the queries of LeadQueue.tla,   *)
(* for every number of sessions, domains and columns.                      *)
(***************************************************************************)
EXTENDS LeadQueue, Functions, FiniteSetTheorems, SequenceTheorems, TLAPS

-----------------------------------------------------------------------------
(* The order of the statuses *)

LEMMA StatusesAre ==
    /\ \A i \in 1..11 : LeadStatuses[i] \in Statuses
    /\ \A s \in Statuses : \E i \in 1..11 : LeadStatuses[i] = s
    /\ "qualified" \in Statuses /\ "contact_resolved" \in Statuses
    /\ \A i, j \in 1..11 : LeadStatuses[i] = LeadStatuses[j] => i = j
BY DEF Statuses, LeadStatuses

LEMMA RankOf ==
    ASSUME NEW i \in 1..11
    PROVE  Rank(LeadStatuses[i]) = i
BY StatusesAre DEF Rank

(* The no-regress CASE only ever moves a lead from qualified on, and then  *)
(* to contact_resolved.                                                    *)
LEMMA NoRegressMoves ==
    ASSUME NEW old \in Statuses, NEW lead
    PROVE  /\ Derived(lead) \in Statuses
           /\ NoRegress(old, Derived(lead)) \in Statuses
           /\ \/ NoRegress(old, Derived(lead)) = old
              \/ old = "qualified" /\ NoRegress(old, Derived(lead)) = "contact_resolved"
<1>1. /\ LeadStatuses[1] = "qualified" /\ LeadStatuses[2] = "contact_resolved"
  BY DEF LeadStatuses
<1>2. Rank("qualified") = 1 /\ Rank("contact_resolved") = 2
  BY <1>1, RankOf
<1>3. PICK i \in 1..11 : LeadStatuses[i] = old /\ Rank(old) = i
  BY StatusesAre, RankOf
<1>4. Derived(lead) \in {"qualified", "contact_resolved"}
  BY DEF Derived
<1> QED BY <1>1, <1>2, <1>3, <1>4, StatusesAre DEF NoRegress

-----------------------------------------------------------------------------
(* The statements on one row *)

LEMMA OverlaidType ==
    ASSUME NEW data \in Data, NEW lead \in Leads, Storable(lead),
           \A c \in NotNull : data[c] # Null
    PROVE  /\ Overlaid(data, lead) \in Data
           /\ \A c \in NotNull : Overlaid(data, lead)[c] # Null
<1>1. LeadType(lead)
  BY LeadAssumption
<1> QED BY <1>1, LeadAssumption DEF Overlaid, LeadType, Data, Storable

RowOK(row) == row \in Row /\ \A c \in NotNull : row.data[c] # Null

LEMMA InsertedOK ==
    ASSUME NEW p \in Projects, NEW lead \in Leads, Storable(lead)
    PROVE  RowOK(Inserted(p, lead)) /\ Inserted(p, lead).project = p
<1>1. /\ Overlaid(Default, lead) \in Data
      /\ \A c \in NotNull : Overlaid(Default, lead)[c] # Null
  BY OverlaidType, LeadAssumption
<1>2. (IF lead.why = Null THEN <<>> ELSE lead.why) \in Seq(Notes)
  BY LeadAssumption, EmptySeq DEF LeadType
<1>3. Derived(lead) \in Statuses
  BY StatusesAre DEF Derived
<1> QED BY <1>1, <1>2, <1>3 DEF Inserted, RowOK, Row

LEMMA MergedOK ==
    ASSUME NEW row, RowOK(row), NEW lead \in Leads, Storable(lead)
    PROVE  /\ RowOK(Merged(row, lead)) /\ Merged(row, lead).project = row.project
           /\ \/ Merged(row, lead).status = row.status
              \/ /\ row.status = "qualified"
                 /\ Merged(row, lead).status = "contact_resolved"
<1>1. row \in Row /\ row.status \in Statuses /\ row.data \in Data /\ row.why \in Seq(Notes)
  BY DEF RowOK, Row
<1>2. /\ Overlaid(row.data, lead) \in Data
      /\ \A c \in NotNull : Overlaid(row.data, lead)[c] # Null
  BY <1>1, OverlaidType DEF RowOK
<1>3. (IF lead.why = Null THEN row.why ELSE lead.why) \in Seq(Notes)
  BY <1>1, LeadAssumption DEF LeadType
<1> DEFINE st == NoRegress(row.status, Derived(lead))
<1>4. st \in Statuses /\ (st = row.status \/ (row.status = "qualified" /\ st = "contact_resolved"))
  BY <1>1, NoRegressMoves
<1> HIDE DEF st
<1> QED BY <1>1, <1>2, <1>3, <1>4 DEF Merged, RowOK, Row, st

-----------------------------------------------------------------------------
(* The invariant *)

(* Between its two statements a refused add relies on the row staying the  *)
(* other project's.                                                        *)
ConflictStands ==
    \A s \in Sessions : session[s].pc = "conflict" =>
        /\ leads[session[s].domain] # NoLead
        /\ leads[session[s].domain].project # session[s].project

OnlyStoredHaveHistory ==
    \A d \in Domains : leads[d] = NoLead => writers[d] = {} /\ recorded[d] = Null

LeadInv ==
    /\ TypeOK
    /\ OneWriter
    /\ UpdateStands
    /\ RefusalNamesOwner
    /\ ConflictStands
    /\ OnlyStoredHaveHistory

LEMMA InitLeadInv == Init => LeadInv
BY LeadAssumption
   DEF Init, LeadInv, TypeOK, OneWriter, UpdateStands, RefusalNamesOwner,
       ConflictStands, OnlyStoredHaveHistory, NoCall, SessionType

(* A call writes at most the row of one domain, which then is sound, is of *)
(* the writer's project if it changed, and of its old one if it had any.   *)
LEMMA OneRowChanges ==
    ASSUME LeadInv, NEW p \in Projects, NEW d \in Domains, NEW row, RowOK(row),
           leads' = [leads EXCEPT ![d] = row],
           leads[d] # NoLead => row.project = leads[d].project,
           row # leads[d] => row.project = p,
           WrittenBy(p, d)
    PROVE  /\ leads' \in [Domains -> Row \cup {NoLead}]
           /\ leads'[d] = row /\ row # NoLead
           /\ \A e \in Domains \ {d} : leads'[e] = leads[e] /\ writers'[e] = writers[e]
           /\ \A e \in Domains : leads[e] # NoLead =>
                 leads'[e] # NoLead /\ leads'[e].project = leads[e].project
           /\ \A e \in Domains : leads'[e] # NoLead =>
                 \A c \in NotNull : leads'[e].data[c] # Null
           /\ writers' \in [Domains -> SUBSET Projects]
           /\ OneWriter'
<1>1. /\ leads \in [Domains -> Row \cup {NoLead}]
      /\ writers \in [Domains -> SUBSET Projects]
  BY DEF LeadInv, TypeOK
<1>2. row \in Row /\ row # NoLead
  BY LeadAssumption DEF RowOK
<1>3. writers' \in [Domains -> SUBSET Projects] /\ leads' \in [Domains -> Row \cup {NoLead}]
  BY <1>1, <1>2 DEF WrittenBy
<1>4. /\ leads'[d] = row
      /\ \A e \in Domains \ {d} : leads'[e] = leads[e] /\ writers'[e] = writers[e]
      /\ writers'[d] = IF row = leads[d] THEN writers[d] ELSE writers[d] \cup {p}
  BY <1>1 DEF WrittenBy
<1>5. OneWriter'
  <2> SUFFICES ASSUME NEW e \in Domains, leads'[e] # NoLead
               PROVE  writers'[e] = {leads'[e].project}
    BY DEF OneWriter
  <2>1. CASE e # d
    BY <1>4, <2>1 DEF LeadInv, OneWriter
  <2>2. CASE e = d /\ leads[d] = NoLead
    <3>1. writers[d] = {} /\ row # leads[d]
      BY <1>2, <2>2 DEF LeadInv, OnlyStoredHaveHistory
    <3> QED BY <1>4, <2>2, <3>1
  <2>3. CASE e = d /\ leads[d] # NoLead
    <3>1. writers[d] = {leads[d].project}
      BY <2>3 DEF LeadInv, OneWriter
    <3> QED BY <1>4, <2>3, <3>1
  <2> QED BY <2>1, <2>2, <2>3
<1> QED BY <1>2, <1>3, <1>4, <1>5 DEF LeadInv, TypeOK, RowOK

(* What the invariant says of the sessions, for a step after which every   *)
(* stored lead is stored still, under its project.                         *)
LEMMA SessionsKeep ==
    ASSUME LeadInv, NEW s \in Sessions, NEW x \in SessionType,
           session' = [session EXCEPT ![s] = x],
           \A e \in Domains : leads[e] # NoLead =>
               leads'[e] # NoLead /\ leads'[e].project = leads[e].project,
           x.pc # "idle" =>
               /\ x.domain \in Domains /\ leads[x.domain] # NoLead
               /\ leads[x.domain].project # x.project
               /\ x.pc = "refused" => x.owner = leads[x.domain].project
    PROVE  /\ session' \in [Sessions -> SessionType]
           /\ \A r \in Sessions : session'[r].pc # "idle" => session'[r].domain \in Domains
           /\ RefusalNamesOwner' /\ ConflictStands'
<1>1. /\ session \in [Sessions -> SessionType]
      /\ \A r \in Sessions : session[r].pc # "idle" => session[r].domain \in Domains
  BY DEF LeadInv, TypeOK
<1>2. \A r \in Sessions : session'[r] = IF r = s THEN x ELSE session[r]
  BY <1>1
<1>3. ASSUME NEW r \in Sessions, session'[r].pc = "refused"
      PROVE  /\ leads'[session'[r].domain] # NoLead
             /\ session'[r].owner = leads'[session'[r].domain].project
             /\ session'[r].owner # session'[r].project
  BY <1>1, <1>2, <1>3 DEF LeadInv, RefusalNamesOwner
<1>4. ASSUME NEW r \in Sessions, session'[r].pc = "conflict"
      PROVE  /\ leads'[session'[r].domain] # NoLead
             /\ leads'[session'[r].domain].project # session'[r].project
  BY <1>1, <1>2, <1>4 DEF LeadInv, ConflictStands
<1> QED BY <1>1, <1>2, <1>3, <1>4 DEF RefusalNamesOwner, ConflictStands

LEMMA NoCallType ==
    /\ NoCall \in SessionType /\ NoCall.pc = "idle"
    /\ \A p \in Projects, d \in Domains :
          LET x == Conflict(p, d)
          IN  /\ x \in SessionType /\ x.pc = "conflict"
              /\ x.project = p /\ x.domain = d
BY DEF NoCall, Conflict, SessionType

LEMMA AddKeepsInv ==
    ASSUME LeadInv, NEW s \in Sessions, NEW p \in Projects, NEW d \in Domains,
           NEW lead \in Leads, AddLead(s, p, d, lead)
    PROVE  LeadInv'
<1> DEFINE row == Upserted(p, d, lead)
<1>1. leads[d] # NoLead => RowOK(leads[d])
  BY DEF LeadInv, TypeOK, RowOK
<1>2. /\ RowOK(row)
      /\ leads[d] # NoLead => row.project = leads[d].project
      /\ row # leads[d] => row.project = p
      /\ leads[d] # NoLead =>
            \/ row.status = leads[d].status
            \/ leads[d].status = "qualified" /\ row.status = "contact_resolved"
  <2>1. CASE leads[d] = NoLead
    BY <2>1, InsertedOK DEF AddLead, Upserted
  <2>2. CASE leads[d] # NoLead /\ leads[d].project = p
    BY <1>1, <2>2, MergedOK DEF AddLead, Upserted
  <2>3. CASE leads[d] # NoLead /\ leads[d].project # p
    BY <1>1, <2>3 DEF Upserted
  <2> QED BY <2>1, <2>2, <2>3
<1>3. leads' = [leads EXCEPT ![d] = row] /\ WrittenBy(p, d) /\ recorded' = recorded
  BY DEF AddLead
<1> HIDE DEF row
<1>4. /\ leads' \in [Domains -> Row \cup {NoLead}]
      /\ leads'[d] = row /\ row # NoLead
      /\ \A e \in Domains \ {d} : leads'[e] = leads[e] /\ writers'[e] = writers[e]
      /\ \A e \in Domains : leads[e] # NoLead =>
            leads'[e] # NoLead /\ leads'[e].project = leads[e].project
      /\ \A e \in Domains : leads'[e] # NoLead =>
            \A c \in NotNull : leads'[e].data[c] # Null
      /\ writers' \in [Domains -> SUBSET Projects]
      /\ OneWriter'
  BY <1>2, <1>3, OneRowChanges
<1>5. PICK x : /\ session' = [session EXCEPT ![s] = x] /\ x \in SessionType
               /\ x.pc # "idle" =>
                     /\ x.domain \in Domains /\ leads[x.domain] # NoLead
                     /\ leads[x.domain].project # x.project
                     /\ x.pc = "refused" => x.owner = leads[x.domain].project
  <2>1. CASE Collides(p, d)
    <3> DEFINE x == Conflict(p, d)
    <3>1. session' = [session EXCEPT ![s] = x]
      BY <2>1 DEF AddLead
    <3>2. x \in SessionType /\ x.pc = "conflict" /\ x.project = p /\ x.domain = d
      BY NoCallType
    <3>3. leads[d] # NoLead /\ leads[d].project # p
      BY <2>1 DEF Collides
    <3>4. x.domain \in Domains /\ x.pc # "refused"
      BY <3>2
    <3> HIDE DEF x
    <3> QED BY <3>1, <3>2, <3>3, <3>4
  <2>2. CASE ~Collides(p, d)
    <3>1. session' = [session EXCEPT ![s] = NoCall]
      BY <2>2 DEF AddLead
    <3> QED BY <3>1, NoCallType
  <2> QED BY <2>1, <2>2
<1>6. /\ session' \in [Sessions -> SessionType]
      /\ \A r \in Sessions : session'[r].pc # "idle" => session'[r].domain \in Domains
      /\ RefusalNamesOwner' /\ ConflictStands'
  BY <1>4, <1>5, SessionsKeep
<1>7. UpdateStands'
  <2> SUFFICES ASSUME NEW e \in Domains, recorded[e] # Null
               PROVE  \/ leads'[e].status = recorded[e]
                      \/ /\ recorded[e] = "qualified"
                         /\ leads'[e].status = "contact_resolved"
    BY <1>3 DEF UpdateStands
  <2>1. leads[e] # NoLead
    BY DEF LeadInv, OnlyStoredHaveHistory
  <2>2. CASE e # d
    BY <1>4, <2>2 DEF LeadInv, UpdateStands
  <2>3. CASE e = d
    BY <1>2, <1>4, <2>1, <2>3 DEF LeadInv, UpdateStands
  <2> QED BY <2>2, <2>3
<1>8. OnlyStoredHaveHistory'
  BY <1>3, <1>4 DEF LeadInv, OnlyStoredHaveHistory
<1>9. recorded' \in [Domains -> Statuses \cup {Null}]
  BY <1>3 DEF LeadInv, TypeOK
<1> QED BY <1>4, <1>6, <1>7, <1>8, <1>9 DEF LeadInv, TypeOK

LEMMA UpdateKeepsInv ==
    ASSUME LeadInv, NEW s \in Sessions, NEW p \in Projects, NEW d \in Domains,
           NEW status \in Statuses, NEW note \in Notes \cup {Null},
           UpdateStatus(s, p, d, status, note)
    PROVE  LeadInv'
<1> DEFINE row == [leads[d] EXCEPT !.status = status, !.why = Noted(@, note)]
<1>1. leads[d] # NoLead /\ leads[d].project = p
  BY DEF UpdateStatus, MayUpdate
<1>2. leads[d] \in Row /\ \A c \in NotNull : leads[d].data[c] # Null
  BY <1>1 DEF LeadInv, TypeOK
<1>3. Noted(leads[d].why, note) \in Seq(Notes)
  BY <1>2, AppendProperties DEF Noted, Row
<1>4. RowOK(row) /\ row.project = p /\ row.status = status
  BY <1>1, <1>2, <1>3 DEF RowOK, Row
<1>5. /\ leads' = [leads EXCEPT ![d] = row] /\ WrittenBy(p, d)
      /\ session' = [session EXCEPT ![s] = NoCall]
      /\ recorded' = [recorded EXCEPT ![d] = status]
  BY DEF UpdateStatus
<1> HIDE DEF row
<1>6. /\ leads' \in [Domains -> Row \cup {NoLead}]
      /\ leads'[d] = row /\ row # NoLead
      /\ \A e \in Domains \ {d} : leads'[e] = leads[e] /\ writers'[e] = writers[e]
      /\ \A e \in Domains : leads[e] # NoLead =>
            leads'[e] # NoLead /\ leads'[e].project = leads[e].project
      /\ \A e \in Domains : leads'[e] # NoLead =>
            \A c \in NotNull : leads'[e].data[c] # Null
      /\ writers' \in [Domains -> SUBSET Projects]
      /\ OneWriter'
  BY <1>1, <1>4, <1>5, OneRowChanges
<1>7. /\ session' \in [Sessions -> SessionType]
      /\ \A r \in Sessions : session'[r].pc # "idle" => session'[r].domain \in Domains
      /\ RefusalNamesOwner' /\ ConflictStands'
  BY <1>5, <1>6, NoCallType, SessionsKeep
<1>8. /\ recorded' \in [Domains -> Statuses \cup {Null}] /\ recorded'[d] = status
      /\ \A e \in Domains \ {d} : recorded'[e] = recorded[e]
  BY <1>5 DEF LeadInv, TypeOK
<1>9. UpdateStands'
  BY <1>4, <1>6, <1>8 DEF LeadInv, UpdateStands
<1>10. OnlyStoredHaveHistory'
  BY <1>6, <1>8 DEF LeadInv, OnlyStoredHaveHistory
<1> QED BY <1>6, <1>7, <1>8, <1>9, <1>10 DEF LeadInv, TypeOK

(* A step that leaves the table alone.                                     *)
LEMMA QuietKeepsInv ==
    ASSUME LeadInv, NEW s \in Sessions, NameOwner(s) \/ Fails(s)
    PROVE  LeadInv'
<1>1. PICK x : /\ session' = [session EXCEPT ![s] = x] /\ x \in SessionType
               /\ x.pc # "idle" =>
                     /\ x.domain \in Domains /\ leads[x.domain] # NoLead
                     /\ leads[x.domain].project # x.project
                     /\ x.pc = "refused" => x.owner = leads[x.domain].project
  <2>1. CASE NameOwner(s)
    <3> DEFINE d == session[s].domain
               x == [session[s] EXCEPT !.pc = "refused", !.owner = leads[d].project]
    <3>1. /\ session[s].pc = "conflict" /\ session[s] \in SessionType
          /\ d \in Domains /\ leads[d] # NoLead
          /\ leads[d].project # session[s].project
      BY <2>1 DEF NameOwner, LeadInv, TypeOK, ConflictStands
    <3>2. session' = [session EXCEPT ![s] = x]
      BY <2>1, <3>1 DEF NameOwner
    <3>3. leads[d].project \in Projects
      BY <3>1 DEF LeadInv, TypeOK, Row
    <3>4. /\ x \in SessionType /\ x.domain = d /\ x.owner = leads[d].project
          /\ x.project = session[s].project
      BY <3>1, <3>3 DEF SessionType
    <3> HIDE DEF x
    <3> QED BY <3>1, <3>2, <3>4
  <2>2. CASE Fails(s)
    BY <2>2, NoCallType DEF Fails
  <2> QED BY <2>1, <2>2
<1>2. UNCHANGED <<leads, writers, recorded>>
  BY DEF NameOwner, Fails
<1>3. /\ session' \in [Sessions -> SessionType]
      /\ \A r \in Sessions : session'[r].pc # "idle" => session'[r].domain \in Domains
      /\ RefusalNamesOwner' /\ ConflictStands'
  BY <1>1, <1>2, SessionsKeep
<1> QED BY <1>2, <1>3
        DEF LeadInv, TypeOK, OneWriter, UpdateStands, OnlyStoredHaveHistory

LEMMA NextLeadInv == LeadInv /\ [Next]_vars => LeadInv'
<1> SUFFICES ASSUME LeadInv, [Next]_vars PROVE LeadInv'
  OBVIOUS
<1>1. ASSUME NEW s \in Sessions, Adds(s) PROVE LeadInv'
  BY <1>1, AddKeepsInv DEF Adds
<1>2. ASSUME NEW s \in Sessions, Updates(s) PROVE LeadInv'
  BY <1>2, UpdateKeepsInv, LeadAssumption DEF Updates
<1>3. ASSUME NEW s \in Sessions, NameOwner(s) \/ Fails(s) PROVE LeadInv'
  BY <1>3, QuietKeepsInv
<1>4. CASE UNCHANGED vars
  BY <1>4 DEF vars, LeadInv, TypeOK, OneWriter, UpdateStands, RefusalNamesOwner,
              ConflictStands, OnlyStoredHaveHistory
<1> QED BY <1>1, <1>2, <1>3, <1>4 DEF Next

-----------------------------------------------------------------------------
(* Every stored row is one the schema accepts.                             *)
THEOREM StoreTypeCorrect == Spec => []TypeOK
<1>1. LeadInv => TypeOK
  BY DEF LeadInv
<1> QED BY <1>1, InitLeadInv, NextLeadInv, PTL DEF Spec

(* The pipelines never touch each other's leads.                           *)
THEOREM PipelinesStayApart == Spec => []OneWriter
<1>1. LeadInv => OneWriter
  BY DEF LeadInv
<1> QED BY <1>1, InitLeadInv, NextLeadInv, PTL DEF Spec

(* No re-add regresses a status that was recorded, from however stale a    *)
(* view of the lead it is made.                                            *)
THEOREM RecordedStatusStands == Spec => []UpdateStands
<1>1. LeadInv => UpdateStands
  BY DEF LeadInv
<1> QED BY <1>1, InitLeadInv, NextLeadInv, PTL DEF Spec

(* The second statement of a refused add still finds the owner the first   *)
(* one met.                                                                *)
THEOREM RefusalsAreTrue == Spec => []RefusalNamesOwner
<1>1. LeadInv => RefusalNamesOwner
  BY DEF LeadInv
<1> QED BY <1>1, InitLeadInv, NextLeadInv, PTL DEF Spec
-----------------------------------------------------------------------------
(* Places in a strict order R of a finite set S *)

Before(S, R, d) == {e \in S : <<e, d>> \in R}

Place(S, R, d) == Cardinality(Before(S, R, d))

StrictOrder(S, R) ==
    /\ \A d \in S : <<d, d>> \notin R
    /\ \A d, e, f \in S : <<d, e>> \in R /\ <<e, f>> \in R => <<d, f>> \in R
    /\ \A d, e \in S : d # e => <<d, e>> \in R \/ <<e, d>> \in R

LEMMA PlaceInRange ==
    ASSUME NEW S, IsFiniteSet(S), NEW R, StrictOrder(S, R), NEW d \in S
    PROVE  /\ IsFiniteSet(Before(S, R, d)) /\ Cardinality(S) \in Nat
           /\ Place(S, R, d) \in Nat /\ Place(S, R, d) < Cardinality(S)
<1>1. Before(S, R, d) \subseteq S \ {d}
  BY DEF Before, StrictOrder
<1>2. IsFiniteSet(S \ {d}) /\ Cardinality(S \ {d}) = Cardinality(S) - 1
  BY FS_RemoveElement
<1>3. IsFiniteSet(Before(S, R, d)) /\ Place(S, R, d) <= Cardinality(S) - 1
  BY <1>1, <1>2, FS_Subset DEF Place
<1> QED BY <1>3, FS_CardinalityType DEF Place

LEMMA PlaceMonotone ==
    ASSUME NEW S, IsFiniteSet(S), NEW R, StrictOrder(S, R), NEW d \in S, NEW e \in S,
           <<e, d>> \in R
    PROVE  Place(S, R, e) < Place(S, R, d)
<1>1. /\ Before(S, R, e) \cup {e} \subseteq Before(S, R, d)
      /\ e \notin Before(S, R, e)
  BY DEF Before, StrictOrder
<1>2. /\ IsFiniteSet(Before(S, R, e)) /\ IsFiniteSet(Before(S, R, d))
      /\ Place(S, R, e) \in Nat /\ Place(S, R, d) \in Nat
  BY PlaceInRange
<1>3. Cardinality(Before(S, R, e) \cup {e}) = Place(S, R, e) + 1
  BY <1>1, <1>2, FS_AddElement DEF Place
<1>4. Cardinality(Before(S, R, e) \cup {e}) <= Place(S, R, d)
  BY <1>1, <1>2, FS_Subset DEF Place
<1> QED BY <1>2, <1>3, <1>4

(* No place before that of an element is empty.                            *)
LEMMA PlacesAreFilled ==
    ASSUME NEW S, IsFiniteSet(S), NEW R, StrictOrder(S, R), NEW d \in S,
           NEW i \in Nat, i < Place(S, R, d)
    PROVE  \E e \in S : Place(S, R, e) = i
<1> DEFINE n == Cardinality(S)
           T == 0 .. n - 1
           f == [e \in S |-> Place(S, R, e)]
<1>1. n \in Nat /\ \A e \in S : Place(S, R, e) \in T
  BY PlaceInRange
<1>2. IsFiniteSet(T) /\ Cardinality(T) = n
  <2>1. 0 \in Int /\ n - 1 \in Int
    BY <1>1
  <2>2. /\ IsFiniteSet(T)
        /\ Cardinality(T) = IF 0 > n - 1 THEN 0 ELSE (n - 1) - 0 + 1
    BY <2>1, FS_Interval
  <2> QED BY <1>1, <2>2
<1>3. \A e, g \in S : Place(S, R, e) = Place(S, R, g) => e = g
  <2> SUFFICES ASSUME NEW e \in S, NEW g \in S, e # g
               PROVE  Place(S, R, e) # Place(S, R, g)
    OBVIOUS
  <2>1. <<e, g>> \in R \/ <<g, e>> \in R
    BY DEF StrictOrder
  <2>2. Place(S, R, e) < Place(S, R, g) \/ Place(S, R, g) < Place(S, R, e)
    BY <2>1, PlaceMonotone
  <2> QED BY <1>1, <2>2
<1>4. f \in Injection(S, T)
  BY <1>1, <1>3 DEF Injection, IsInjective
<1>5. f \in Surjection(S, T)
  BY <1>2, <1>4, FS_Injection
<1>6. i \in T
  BY <1>1, PlaceInRange
<1> QED BY <1>5, <1>6 DEF Surjection

(* A page that some element lies behind is full.                           *)
LEMMA PageIsFull ==
    ASSUME NEW S, IsFiniteSet(S), NEW R, StrictOrder(S, R), NEW d \in S,
           NEW a \in Nat, NEW n \in Nat, a + n <= Place(S, R, d)
    PROVE  Cardinality({e \in S : Place(S, R, e) \in a .. a + n - 1}) >= n
<1> DEFINE P == {e \in S : Place(S, R, e) \in a .. a + n - 1}
           f == [e \in P |-> Place(S, R, e)]
<1>1. IsFiniteSet(P) /\ Cardinality(P) \in Nat
  BY FS_Subset, FS_CardinalityType
<1>2. f \in Surjection(P, a .. a + n - 1)
  <2>1. ASSUME NEW i \in a .. a + n - 1 PROVE \E e \in P : f[e] = i
    <3>1. i \in Nat /\ i < Place(S, R, d)
      BY PlaceInRange
    <3>2. PICK e \in S : Place(S, R, e) = i
      BY <3>1, PlacesAreFilled
    <3> QED BY <3>2
  <2>2. f \in [P -> a .. a + n - 1]
    OBVIOUS
  <2> QED BY <2>1, <2>2 DEF Surjection
<1>3. Cardinality(a .. a + n - 1) <= Cardinality(P)
  BY <1>1, <1>2, FS_Surjection
<1>4. Cardinality(a .. a + n - 1) = n
  <2>1. Cardinality(a .. a + n - 1) = IF a > a + n - 1 THEN 0 ELSE (a + n - 1) - a + 1
    BY FS_Interval
  <2> QED BY <2>1
<1> QED BY <1>1, <1>3, <1>4

(* One element x moves, comes or goes.  If it takes d from behind place n  *)
(* to before it, then x was before place n and is so no more.              *)
LEMMA OneMoves ==
    ASSUME NEW S, NEW R, NEW T, NEW Q, IsFiniteSet(S), IsFiniteSet(T),
           StrictOrder(S, R), StrictOrder(T, Q), NEW x,
           \A e : e # x => (e \in S <=> e \in T),
           \A e, f : e # x /\ f # x => (<<e, f>> \in R <=> <<e, f>> \in Q),
           NEW d, d \in S, d \in T, d # x,
           NEW n \in Nat, n <= Place(S, R, d), Place(T, Q, d) < n
    PROVE  x \in S /\ Place(S, R, x) < n /\ (x \in T => Place(T, Q, x) >= n)
<1> DEFINE A == Before(S, R, d)
           B == Before(T, Q, d)
<1>1. /\ IsFiniteSet(A) /\ IsFiniteSet(B)
      /\ Place(S, R, d) \in Nat /\ Place(T, Q, d) \in Nat
      /\ Cardinality(A) = Place(S, R, d) /\ Cardinality(B) = Place(T, Q, d)
  BY PlaceInRange DEF Place
<1>2. A \ {x} = B \ {x}
  BY DEF Before
<1>3. /\ Cardinality(A \ {x}) = IF x \in A THEN Place(S, R, d) - 1 ELSE Place(S, R, d)
      /\ Cardinality(B \ {x}) = IF x \in B THEN Place(T, Q, d) - 1 ELSE Place(T, Q, d)
  BY <1>1, FS_RemoveElement
<1> HIDE DEF A, B
<1>4. x \in A /\ x \notin B /\ Place(S, R, d) = n /\ Place(T, Q, d) = n - 1
  <2>1. Place(S, R, d) > Place(T, Q, d)
    BY <1>1
  <2>2. Cardinality(A \ {x}) = Cardinality(B \ {x})
    BY <1>2
  <2>3. x \in A /\ x \notin B
    BY <1>1, <1>3, <2>1, <2>2
  <2> QED BY <1>1, <1>3, <2>2, <2>3
<1>5. x \in S /\ <<x, d>> \in R
  BY <1>4 DEF A, Before
<1>6. Place(S, R, x) < n
  BY <1>4, <1>5, PlaceMonotone
<1>7. ASSUME x \in T PROVE Place(T, Q, x) >= n
  <2>1. <<d, x>> \in Q
    BY <1>4, <1>7 DEF B, Before, StrictOrder
  <2>2. n - 1 < Place(T, Q, x) /\ Place(T, Q, x) \in Nat
    BY <1>4, <1>7, <2>1, PlaceMonotone, PlaceInRange
  <2> QED BY <2>2
<1> QED BY <1>5, <1>6, <1>7

(* ORDER BY, of rows with scores sc and distinct times cr.                 *)
LEMMA OrderedByScore ==
    ASSUME NEW S, NEW sc, NEW cr, NEW R,
           \A d \in S : sc[d] \in Nat \cup {Null} /\ cr[d] \in Nat,
           \A d, e \in S : d # e => cr[d] # cr[e],
           \A d, e \in S : <<d, e>> \in R <=>
               \/ sc[d] # Null /\ sc[e] = Null
               \/ sc[d] # Null /\ sc[e] # Null /\ sc[d] > sc[e]
               \/ sc[d] = sc[e] /\ cr[d] > cr[e]
    PROVE  StrictOrder(S, R)
<1>1. \A d \in S : <<d, d>> \notin R
  OBVIOUS
<1>2. ASSUME NEW d \in S, NEW e \in S, NEW f \in S, <<d, e>> \in R, <<e, f>> \in R
      PROVE  <<d, f>> \in R
  BY <1>2
<1>3. \A d, e \in S : d # e => <<d, e>> \in R \/ <<e, d>> \in R
  OBVIOUS
<1> QED BY <1>1, <1>2, <1>3 DEF StrictOrder
-----------------------------------------------------------------------------
(* The table as the queries see it *)

Order == {de \in Domains \X Domains : Precedes(de[1], de[2])}

(* No lead is stamped with a time that is still to come.                   *)
StampedInTime == \A d \in Domains : created[d] <= Cardinality(Stored)

TableInv ==
    /\ LeadInv
    /\ created \in [Domains -> Nat]
    /\ \A d, e \in Domains :
          /\ leads[d] = NoLead <=> created[d] = 0
          /\ d # e /\ created[d] = created[e] => created[d] = 0
    /\ StampedInTime

LEMMA SomeDomains ==
    ASSUME NEW S \in SUBSET Domains
    PROVE  IsFiniteSet(S) /\ Cardinality(S) \in Nat
BY FiniteDomains, FS_Subset, FS_CardinalityType

LEMMA ScoreType ==
    /\ TypeOK => \A d \in Stored : ScoreOf(d) \in Nat \cup {Null}
    /\ TypeOK' => \A d \in Stored' : ScoreOf(d)' \in Nat \cup {Null}
<1>1. ASSUME NEW row \in Row PROVE row.data[Score] \in Nat \cup {Null}
  BY QueueAssumption DEF Row, Data
<1> QED BY <1>1 DEF TypeOK, Stored, ScoreOf

LEMMA ListsAreOrdered ==
    ASSUME TableInv, NEW S \in SUBSET Stored
    PROVE  StrictOrder(S, Order)
<1> DEFINE sc == [d \in Domains |-> ScoreOf(d)]
<1>1. /\ S \subseteq Domains
      /\ \A d \in S : sc[d] \in Nat \cup {Null} /\ created[d] \in Nat
      /\ \A d, e \in S : d # e => created[d] # created[e]
  BY ScoreType DEF TableInv, LeadInv, Stored
<1>2. \A d, e \in S : <<d, e>> \in Order <=>
               \/ sc[d] # Null /\ sc[e] = Null
               \/ sc[d] # Null /\ sc[e] # Null /\ sc[d] > sc[e]
               \/ sc[d] = sc[e] /\ created[d] > created[e]
  BY <1>1 DEF Order, Precedes
<1> HIDE DEF sc
<1> QED BY <1>1, <1>2, OrderedByScore

(* The same after a step.                                                  *)
LEMMA ListsAreOrderedNext ==
    ASSUME TableInv', NEW S \in SUBSET Stored'
    PROVE  StrictOrder(S, Order')
<1> DEFINE sc == [d \in Domains |-> ScoreOf(d)']
           cr == [d \in Domains |-> created'[d]]
<1>1. /\ S \subseteq Domains
      /\ \A d \in S : sc[d] \in Nat \cup {Null} /\ cr[d] \in Nat
      /\ \A d, e \in S : d # e => cr[d] # cr[e]
  BY ScoreType DEF TableInv, LeadInv, Stored
<1>2. \A d, e \in S : <<d, e>> \in Order' <=>
               \/ sc[d] # Null /\ sc[e] = Null
               \/ sc[d] # Null /\ sc[e] # Null /\ sc[d] > sc[e]
               \/ sc[d] = sc[e] /\ cr[d] > cr[e]
  BY <1>1 DEF Order, Precedes
<1> HIDE DEF sc, cr
<1> QED BY <1>1, <1>2, OrderedByScore

PlaceIn(q, d) == Place(Matching(q), Order, d)

LEMMA ListOfPlaces ==
    /\ \A q, a, n : Rows(Matching(q), a, n)
                     = {d \in Matching(q) : PlaceIn(q, d) \in a .. a + n - 1}
    /\ \A q, n : Passed(q, n)' = {d \in Matching(q)' : PlaceIn(q, d)' \in 0 .. 0 + n - 1}
    /\ \A q : Matching(q) \subseteq Stored /\ Matching(q)' \subseteq Stored'
    /\ Stored \subseteq Domains /\ Stored' \subseteq Domains
<1>1. ASSUME NEW q, NEW d \in Domains
      PROVE  Ahead(d, Matching(q)) = Before(Matching(q), Order, d)
  BY DEF Ahead, Before, Order, Matching
<1>2. ASSUME NEW q, NEW d \in Domains
      PROVE  Ahead(d, Matching(q))' = Before(Matching(q)', Order', d)
  BY DEF Ahead, Before, Order, Matching
<1>3. /\ \A q : Matching(q) \subseteq Stored /\ Matching(q)' \subseteq Stored'
      /\ Stored \subseteq Domains /\ Stored' \subseteq Domains
  BY DEF Matching, Stored
<1>4. \A q, a, n : Rows(Matching(q), a, n)
                     = {d \in Matching(q) : PlaceIn(q, d) \in a .. a + n - 1}
  BY <1>1, <1>3 DEF Rows, PlaceIn, Place
<1>5. \A q, n : Passed(q, n)' = {d \in Matching(q)' : PlaceIn(q, d)' \in 0 .. 0 + n - 1}
  BY <1>2, <1>3 DEF Passed, Rows, PlaceIn, Place
<1> QED BY <1>3, <1>4, <1>5

-----------------------------------------------------------------------------
(* What a write does to the table *)

LEMMA OneLeadAtATime ==
    ASSUME LeadInv, Next
    PROVE  \/ leads' = leads
           \/ \E x \in Domains : \A e \in Domains \ {x} : leads'[e] = leads[e]
<1>1. leads \in [Domains -> Row \cup {NoLead}]
  BY DEF LeadInv, TypeOK
<1>2. ASSUME NEW x \in Domains, \E row : leads' = [leads EXCEPT ![x] = row]
      PROVE  \A e \in Domains \ {x} : leads'[e] = leads[e]
  BY <1>1, <1>2
<1>3. ASSUME NEW s \in Sessions, NEW p \in Projects, NEW d \in Domains, NEW lead,
             AddLead(s, p, d, lead)
      PROVE  \E row : leads' = [leads EXCEPT ![d] = row]
  BY <1>3 DEF AddLead
<1>4. ASSUME NEW s \in Sessions, NEW p \in Projects, NEW d \in Domains, NEW status,
             NEW note, UpdateStatus(s, p, d, status, note)
      PROVE  \E row : leads' = [leads EXCEPT ![d] = row]
  BY <1>4 DEF UpdateStatus
<1>5. ASSUME NEW s \in Sessions, NameOwner(s) \/ Fails(s) PROVE leads' = leads
  BY <1>5 DEF NameOwner, Fails
<1> QED BY <1>2, <1>3, <1>4, <1>5 DEF Next, Adds, Updates

LEMMA StoredStays ==
    ASSUME LeadInv, LeadInv', Next
    PROVE  Stored \subseteq Stored'
<1>1. ASSUME NEW p, NEW x \in Domains, WrittenBy(p, x), NEW d \in Domains
      PROVE  writers[d] \subseteq writers'[d]
  BY <1>1 DEF WrittenBy, LeadInv, TypeOK
<1>2. ASSUME NEW d \in Domains PROVE writers[d] \subseteq writers'[d]
  BY <1>1 DEF Next, Adds, AddLead, Updates, UpdateStatus, NameOwner, Fails
<1> QED BY <1>2 DEF Stored, LeadInv, OneWriter, OnlyStoredHaveHistory

LEMMA WriteKeepsTable ==
    ASSUME TableInv, Next, Stamped
    PROVE  TableInv'
<1>1. LeadInv /\ LeadInv' /\ Stored \subseteq Stored' /\ Stored' \subseteq Domains
  BY NextLeadInv, StoredStays DEF TableInv, Stored
<1>2. /\ Cardinality(Stored) \in Nat /\ Cardinality(Stored') \in Nat
      /\ IsFiniteSet(Stored) /\ IsFiniteSet(Stored')
  BY <1>1, SomeDomains DEF Stored
<1>3. \A d \in Domains : created'[d] = IF d \in Stored' \ Stored
                                       THEN Cardinality(Stored') ELSE created[d]
  BY DEF Stamped
<1>4. created' \in [Domains -> Nat]
  BY <1>2 DEF Stamped, TableInv
<1>5. CASE Stored' = Stored
  BY <1>1, <1>3, <1>4, <1>5 DEF TableInv, StampedInTime, Stored
<1>6. CASE Stored' # Stored
  <2>1. PICK x \in Domains : x \in Stored' /\ x \notin Stored
    BY <1>1, <1>6
  <2>2. \A e \in Domains \ {x} : leads'[e] = leads[e]
    BY <1>1, <2>1, OneLeadAtATime DEF Stored
  <2>3. Stored' = Stored \cup {x}
    BY <2>1, <2>2 DEF Stored
  <2>4. Cardinality(Stored') = Cardinality(Stored) + 1
    BY <1>2, <2>1, <2>3, FS_AddElement
  <2>5. /\ created'[x] = Cardinality(Stored) + 1
        /\ \A e \in Domains \ {x} : created'[e] = created[e]
    BY <1>3, <2>1, <2>3, <2>4
  <2>6. \A e \in Domains : created[e] \in Nat /\ created[e] <= Cardinality(Stored)
    BY DEF TableInv, StampedInTime
  <2>7. StampedInTime'
    BY <1>2, <2>4, <2>5, <2>6 DEF StampedInTime
  <2>8. \A d \in Domains : leads'[d] = NoLead <=> created'[d] = 0
    BY <1>2, <2>1, <2>2, <2>5 DEF TableInv, Stored
  <2>9. \A d, e \in Domains : d # e /\ created'[d] = created'[e] => created'[d] = 0
    BY <1>2, <2>5, <2>6 DEF TableInv
  <2> QED BY <1>1, <1>4, <2>7, <2>8, <2>9 DEF TableInv
<1> QED BY <1>5, <1>6

(* The heart of the argument: a write that takes a lead, which keeps its   *)
(* score, from behind the rows passed into them takes another one out, and *)
(* the other way round.                                                    *)
LEMMA WriteShifts ==
    ASSUME TableInv, Next, Stamped, NEW q \in Queries, NEW n \in Nat,
           NEW d \in Matching(q), d \in Matching(q)', ScoreOf(d)' = ScoreOf(d)
    PROVE  /\ d \notin Passed(q, n) /\ d \in Passed(q, n)' =>
                  Changed \cap (Passed(q, n) \ Passed(q, n)') # {}
           /\ d \in Passed(q, n) /\ d \notin Passed(q, n)' =>
                  Changed \cap (Passed(q, n)' \ Passed(q, n)) # {}
<1> DEFINE S == Matching(q)
           T == Matching(q)'
<1>1. TableInv' /\ LeadInv /\ d \in Domains
  BY WriteKeepsTable DEF TableInv, Matching
<1>2. /\ StrictOrder(S, Order) /\ IsFiniteSet(S) /\ S \subseteq Domains
      /\ StrictOrder(T, Order') /\ IsFiniteSet(T) /\ T \subseteq Domains
  BY <1>1, ListsAreOrdered, ListsAreOrderedNext, ListOfPlaces, SomeDomains
<1>3. \A e : /\ e \in Passed(q, n) <=> e \in S /\ Place(S, Order, e) < n
             /\ e \in Passed(q, n)' <=> e \in T /\ Place(T, Order', e) < n
  <2>1. /\ \A e \in S : Place(S, Order, e) \in Nat
        /\ \A e \in T : Place(T, Order', e) \in Nat
    BY <1>2, PlaceInRange
  <2>2. /\ Passed(q, n) = {e \in S : Place(S, Order, e) \in 0 .. 0 + n - 1}
        /\ Passed(q, n)' = {e \in T : Place(T, Order', e) \in 0 .. 0 + n - 1}
    BY ListOfPlaces DEF Passed, PlaceIn
  <2> QED BY <2>1, <2>2
<1>4. PICK x \in Domains : \A e \in Domains \ {x} : leads'[e] = leads[e]
  BY <1>1, OneLeadAtATime
<1>5. \A e \in Domains \ {x} : created'[e] = created[e]
  BY <1>4 DEF Stamped, Stored
<1>6. \A e \in Domains : leads'[e] = leads[e] \/ e = x
  BY <1>4
<1>7. \A e \in Domains \ {x} : (e \in S <=> e \in T) /\ ScoreOf(e)' = ScoreOf(e)
  BY <1>4 DEF Matching, ScoreOf
<1>8. \A e \in Domains \ {x}, f \in Domains \ {x} :
         <<e, f>> \in Order <=> <<e, f>> \in Order'
  BY <1>5, <1>7 DEF Order, Precedes
<1>9. CASE d = x \/ x \notin Changed
  <2>1. Before(S, Order, d) = Before(T, Order', d)
    <3>1. created'[d] = created[d]
      BY <1>1, <1>5 DEF Stamped, Stored, Matching
    <3>2. CASE d = x
      <4>1. \A e \in Domains : <<e, d>> \in Order <=> <<e, d>> \in Order'
        BY <1>5, <1>7, <3>1, <3>2 DEF Order, Precedes
      <4>2. \A e \in Domains : e \in S <=> e \in T
        BY <1>7, <3>2
      <4> QED BY <1>2, <4>1, <4>2 DEF Before
    <3>3. CASE x \notin Changed
      <4>1. leads'[x] = leads[x]
        BY <3>3 DEF Changed
      <4>2. \A e \in Domains : /\ leads'[e] = leads[e] /\ created'[e] = created[e]
                               /\ ScoreOf(e)' = ScoreOf(e)
        BY <1>4, <1>5, <1>7, <4>1 DEF Stamped, Stored, ScoreOf
      <4>3. S = T
        BY <4>2 DEF Matching
      <4>4. \A e \in Domains : <<e, d>> \in Order <=> <<e, d>> \in Order'
        BY <4>2 DEF Order, Precedes
      <4> QED BY <1>2, <4>3, <4>4 DEF Before
    <3> QED BY <1>9, <3>2, <3>3
  <2>2. Place(S, Order, d) = Place(T, Order', d)
    BY <2>1 DEF Place
  <2> QED BY <1>3, <2>2
<1>10. CASE d # x /\ x \in Changed
  <2>1. /\ \A e : e # x => (e \in S <=> e \in T)
        /\ \A e, f : e # x /\ f # x => (<<e, f>> \in Order <=> <<e, f>> \in Order')
    <3>1. \A e : e \in S \/ e \in T => e \in Domains
      BY <1>2
    <3>2. \A e, f : <<e, f>> \in Order \/ <<e, f>> \in Order' => e \in Domains /\ f \in Domains
      BY DEF Order
    <3> QED BY <1>7, <1>8, <3>1, <3>2
  <2>2. /\ Place(S, Order, d) \in Nat /\ Place(T, Order', d) \in Nat
        /\ \A e \in S : Place(S, Order, e) \in Nat
        /\ \A e \in T : Place(T, Order', e) \in Nat
    BY <1>2, PlaceInRange
  <2>3. ASSUME n <= Place(S, Order, d), Place(T, Order', d) < n
        PROVE  x \in Passed(q, n) \ Passed(q, n)'
    <3>1. x \in S /\ Place(S, Order, x) < n /\ (x \in T => Place(T, Order', x) >= n)
      BY <1>2, <1>10, <2>1, <2>3, OneMoves
    <3> QED BY <1>3, <2>2, <3>1
  <2>4. ASSUME n <= Place(T, Order', d), Place(S, Order, d) < n
        PROVE  x \in Passed(q, n)' \ Passed(q, n)
    <3>1. x \in T /\ Place(T, Order', x) < n /\ (x \in S => Place(S, Order, x) >= n)
      BY <1>2, <1>10, <2>1, <2>4, OneMoves
    <3> QED BY <1>3, <2>2, <3>1
  <2> QED BY <1>3, <1>10, <2>2, <2>3, <2>4
<1> QED BY <1>9, <1>10

-----------------------------------------------------------------------------
(* The walk through the pages *)

(* The leads that stayed and lie in the rows passed have been seen, unless *)
(* one left them; those seen lie there still, unless one came.             *)
WalkStands ==
    walk.pc = "reading" =>
        /\ walk.query \in Queries /\ walk.stayed \subseteq Matching(walk.query)
        /\ ~walk.left => walk.stayed \cap Passed(walk.query, walk.offset) \subseteq walk.seen
        /\ ~walk.came => walk.seen \cap walk.stayed \subseteq Passed(walk.query, walk.offset)

WalkInv ==
    /\ TableInv
    /\ walk \in WalkType
    /\ WalkStands
    /\ MissedOnlyAfterDeparture
    /\ RepeatedOnlyAfterArrival

(* A row is in the pages passed if its place says so.                      *)
LEMMA RowsByPlace ==
    ASSUME TableInv, NEW q
    PROVE  /\ IsFiniteSet(Matching(q)) /\ StrictOrder(Matching(q), Order)
           /\ Matching(q) \subseteq Domains
           /\ \A d \in Matching(q) : PlaceIn(q, d) \in Nat
           /\ \A a, n \in Nat : Rows(Matching(q), a, n) =
                 {d \in Matching(q) : a <= PlaceIn(q, d) /\ PlaceIn(q, d) < a + n}
           /\ \A n \in Nat : Passed(q, n) = {d \in Matching(q) : PlaceIn(q, d) < n}
<1>1. /\ IsFiniteSet(Matching(q)) /\ StrictOrder(Matching(q), Order)
      /\ Matching(q) \subseteq Domains
  BY ListOfPlaces, ListsAreOrdered, SomeDomains
<1>2. \A d \in Matching(q) : PlaceIn(q, d) \in Nat
  BY <1>1, PlaceInRange DEF PlaceIn
<1>3. \A a, n \in Nat : Rows(Matching(q), a, n) =
                 {d \in Matching(q) : a <= PlaceIn(q, d) /\ PlaceIn(q, d) < a + n}
  BY <1>2, ListOfPlaces
<1>4. \A n \in Nat : Passed(q, n) = {d \in Matching(q) : PlaceIn(q, d) < n}
  BY <1>2, <1>3 DEF Passed
<1> QED BY <1>1, <1>2, <1>3, <1>4

LEMMA InitWalkInv == QueueInit => WalkInv
<1> SUFFICES ASSUME QueueInit PROVE WalkInv
  OBVIOUS
<1>1. LeadInv
  BY InitLeadInv DEF QueueInit
<1>2. Stored = {} /\ \A d \in Domains : created[d] = 0
  BY DEF QueueInit, Init, Stored
<1>3. StampedInTime
  <2> SUFFICES ASSUME NEW d \in Domains PROVE created[d] <= Cardinality(Stored)
    BY DEF StampedInTime
  <2>1. Cardinality(Stored) = 0
    BY <1>2, FS_EmptySet
  <2>2. created[d] = 0
    BY <1>2
  <2> QED BY <2>1, <2>2
<1>4. TableInv
  BY <1>1, <1>2, <1>3 DEF TableInv, QueueInit, Init
<1>5. walk \in WalkType /\ walk.pc = "idle" /\ ~walk.again
  BY DEF QueueInit, NoWalk, WalkType
<1> QED BY <1>4, <1>5
        DEF WalkInv, WalkStands, MissedOnlyAfterDeparture, RepeatedOnlyAfterArrival

LEMMA WriteKeepsWalk ==
    ASSUME WalkInv, Write
    PROVE  WalkInv'
<1>1. TableInv'
  BY WriteKeepsTable DEF WalkInv, Write
<1>2. CASE walk.pc # "reading"
  <2>1. walk' = walk
    BY <1>2 DEF Write, WalkSees, Disturbs
  <2> QED BY <1>1, <1>2, <2>1 DEF WalkInv, WalkStands, WalkType,
              MissedOnlyAfterDeparture, RepeatedOnlyAfterArrival
<1>3. CASE walk.pc = "reading"
  <2>1. /\ walk.query \in Queries /\ walk.offset \in Nat /\ walk \in WalkType
        /\ walk.stayed \subseteq Matching(walk.query)
    BY <1>3 DEF WalkInv, WalkStands, WalkType
  <2>2. PICK q \in {walk.query}, n \in {walk.offset} : Disturbs(q, n)
    BY <1>3 DEF Write, WalkSees
  <2> DEFINE stays == {d \in walk.stayed : d \in Matching(q)' /\ ScoreOf(d)' = ScoreOf(d)}
             goes == Changed \cap (Passed(q, n) \ Passed(q, n)') # {}
             comes == Changed \cap (Passed(q, n)' \ Passed(q, n)) # {}
  <2>3. walk' = [walk EXCEPT !.stayed = stays, !.left = @ \/ goes, !.came = @ \/ comes]
    BY <2>2 DEF Disturbs
  <2>4. ASSUME NEW d \in stays
        PROVE  /\ d \in walk.stayed /\ d \in Matching(q)'
               /\ d \notin Passed(q, n) /\ d \in Passed(q, n)' => goes
               /\ d \in Passed(q, n) /\ d \notin Passed(q, n)' => comes
    <3>1. /\ d \in walk.stayed /\ d \in Matching(q) /\ d \in Matching(q)'
          /\ ScoreOf(d)' = ScoreOf(d) /\ q \in Queries /\ n \in Nat
      BY <2>1, <2>2
    <3>2. TableInv /\ Next /\ Stamped
      BY DEF WalkInv, Write
    <3>3. /\ d \notin Passed(q, n) /\ d \in Passed(q, n)' => goes
          /\ d \in Passed(q, n) /\ d \notin Passed(q, n)' => comes
      BY <3>1, <3>2, WriteShifts
    <3> QED BY <3>1, <3>3
  <2>5. stays \subseteq walk.stayed /\ goes \in BOOLEAN /\ comes \in BOOLEAN
    OBVIOUS
  <2> HIDE DEF goes, comes, stays
  <2>6. /\ walk' \in WalkType /\ walk'.pc = "reading" /\ walk'.query = q /\ walk'.offset = n
        /\ walk'.seen = walk.seen /\ walk'.stayed = stays
        /\ walk'.left = (walk.left \/ goes) /\ walk'.came = (walk.came \/ comes)
        /\ walk'.again = walk.again
    BY <1>3, <2>1, <2>2, <2>3, <2>5 DEF WalkType
  <2>7. ~walk'.left => stays \cap Passed(q, n)' \subseteq walk.seen
    BY <1>3, <2>2, <2>4, <2>6 DEF WalkInv, WalkStands
  <2>8. ~walk'.came => walk.seen \cap stays \subseteq Passed(q, n)'
    BY <1>3, <2>2, <2>4, <2>6 DEF WalkInv, WalkStands
  <2>9. WalkStands'
    <3>1. /\ Matching(walk.query)' = Matching(q)'
          /\ Passed(walk.query, walk.offset)' = Passed(q, n)'
      BY <2>6 DEF Matching, Passed
    <3>2. q \in Queries /\ stays \subseteq Matching(q)'
      BY <2>1, <2>2, <2>4
    <3> QED BY <2>6, <2>7, <2>8, <3>1, <3>2 DEF WalkStands
  <2> QED BY <1>1, <2>6, <2>9 DEF WalkInv, MissedOnlyAfterDeparture, RepeatedOnlyAfterArrival
<1> QED BY <1>2, <1>3

LEMMA StartKeepsWalk ==
    ASSUME WalkInv, NEW q \in Queries, StartWalk(q)
    PROVE  WalkInv'
<1>1. TableInv' /\ Matching(q) \subseteq Domains
  BY DEF WalkInv, TableInv, LeadInv, TypeOK, OneWriter, UpdateStands, RefusalNamesOwner,
         ConflictStands, OnlyStoredHaveHistory, StampedInTime, Stored, StartWalk, vars,
         Matching
<1>2. /\ walk' \in WalkType /\ walk'.pc = "reading" /\ walk'.query = q /\ walk'.offset = 0
      /\ walk'.seen = {} /\ walk'.stayed = Matching(q) /\ ~walk'.again
  BY <1>1 DEF StartWalk, NoWalk, WalkType
<1>3. Matching(walk.query)' = Matching(q)
  BY <1>2 DEF StartWalk, vars, Matching, ScoreOf
<1>4. Passed(walk.query, walk.offset)' = {}
  <2>1. Passed(q, 0) = {}
    <3>1. /\ Passed(q, 0) = {d \in Matching(q) : PlaceIn(q, d) < 0}
          /\ \A d \in Matching(q) : PlaceIn(q, d) \in Nat
      BY RowsByPlace DEF WalkInv
    <3> QED BY <3>1
  <2>2. Passed(walk.query, walk.offset)' = Passed(q, 0)
    BY <1>2, <1>3 DEF StartWalk, vars, Passed, Rows, Ahead, Precedes, ScoreOf
  <2> QED BY <2>1, <2>2
<1>5. WalkStands'
  BY <1>2, <1>3, <1>4 DEF WalkStands
<1> QED BY <1>1, <1>2, <1>5 DEF WalkInv, MissedOnlyAfterDeparture, RepeatedOnlyAfterArrival

LEMMA PageKeepsWalk ==
    ASSUME WalkInv, ReadPage
    PROVE  WalkInv'
<1> DEFINE q == walk.query
           n == walk.offset
           page == Rows(Matching(q), n, Limit)
           pc == IF Cardinality(page) < Limit THEN "done" ELSE "reading"
           twice == page \cap walk.seen \cap walk.stayed # {}
<1>1. TableInv'
  BY DEF WalkInv, TableInv, LeadInv, TypeOK, OneWriter, UpdateStands, RefusalNamesOwner,
         ConflictStands, OnlyStoredHaveHistory, StampedInTime, Stored, ReadPage, vars
<1>2. /\ q \in Queries /\ n \in Nat /\ walk \in WalkType /\ Limit \in Nat
      /\ walk.pc = "reading" /\ walk.stayed \subseteq Matching(q)
      /\ ~walk.left => walk.stayed \cap Passed(q, n) \subseteq walk.seen
      /\ ~walk.came => walk.seen \cap walk.stayed \subseteq Passed(q, n)
  BY QueueAssumption DEF ReadPage, WalkInv, WalkStands, WalkType
<1>3. /\ IsFiniteSet(Matching(q)) /\ StrictOrder(Matching(q), Order)
      /\ Matching(q) \subseteq Domains
      /\ \A d \in Matching(q) : PlaceIn(q, d) \in Nat
      /\ page = {d \in Matching(q) : n <= PlaceIn(q, d) /\ PlaceIn(q, d) < n + Limit}
      /\ Passed(q, n) = {d \in Matching(q) : PlaceIn(q, d) < n}
      /\ Passed(q, n + Limit) = {d \in Matching(q) : PlaceIn(q, d) < n + Limit}
  BY <1>2, RowsByPlace DEF WalkInv
<1>4. /\ page \subseteq Domains /\ page \cap Passed(q, n) = {}
      /\ Passed(q, n + Limit) = Passed(q, n) \cup page
  BY <1>2, <1>3
<1>5. Cardinality(page) < Limit => Matching(q) = Passed(q, n + Limit)
  <2> SUFFICES ASSUME Cardinality(page) < Limit, NEW d \in Matching(q)
               PROVE  PlaceIn(q, d) < n + Limit
    BY <1>3
  <2>1. page = {e \in Matching(q) : Place(Matching(q), Order, e) \in n .. n + Limit - 1}
    BY ListOfPlaces DEF PlaceIn
  <2>2. SUFFICES ASSUME n + Limit <= Place(Matching(q), Order, d)
                 PROVE  FALSE
    BY <1>2, <1>3 DEF PlaceIn
  <2>3. Cardinality(page) >= Limit
    BY <1>2, <1>3, <2>1, <2>2, PageIsFull
  <2>4. Cardinality(page) \in Nat
    BY <1>4, SomeDomains
  <2> QED BY <1>2, <2>3, <2>4
<1>6. walk' = [walk EXCEPT
                      !.pc = pc,
                      !.offset = @ + Limit,
                      !.seen = @ \cup page,
                      !.again = @ \/ twice]
  BY DEF ReadPage
<1>7. UNCHANGED <<leads, created>>
  BY DEF ReadPage, vars
<1>8. /\ twice \in BOOLEAN /\ pc \in {"reading", "done"}
      /\ twice => page \cap walk.seen \cap walk.stayed # {}
      /\ pc = "done" => Cardinality(page) < Limit
  OBVIOUS
<1> HIDE DEF page, pc, twice
<1>9. /\ walk' \in WalkType /\ walk'.query = q /\ walk'.offset = n + Limit
      /\ walk'.pc = pc
      /\ walk'.seen = walk.seen \cup page /\ walk'.stayed = walk.stayed
      /\ walk'.left = walk.left /\ walk'.came = walk.came
      /\ walk'.again = (walk.again \/ twice)
  <2>1. walk' = [walk EXCEPT !.pc = pc, !.offset = walk.offset + Limit,
                             !.seen = walk.seen \cup page, !.again = walk.again \/ twice]
    BY <1>6
  <2>2. /\ pc \in {"idle", "reading", "done"} /\ walk.offset + Limit \in Nat
        /\ walk.seen \cup page \in SUBSET Domains /\ (walk.again \/ twice) \in BOOLEAN
    BY <1>2, <1>4, <1>8 DEF WalkType
  <2> QED BY <1>2, <2>1, <2>2 DEF WalkType
<1>10. WalkStands'
  <2>1. Matching(walk.query)' = Matching(q)
    BY <1>7, <1>9 DEF Matching, ScoreOf
  <2>2. Passed(walk.query, walk.offset)' = Passed(q, n + Limit)
    BY <1>7, <1>9, <2>1 DEF Passed, Rows, Ahead, Precedes, ScoreOf
  <2> QED BY <1>2, <1>4, <1>9, <2>1, <2>2 DEF WalkStands
<1>11. MissedOnlyAfterDeparture'
  BY <1>2, <1>4, <1>5, <1>8, <1>9 DEF MissedOnlyAfterDeparture
<1>12. RepeatedOnlyAfterArrival'
  BY <1>2, <1>4, <1>9, <1>8 DEF RepeatedOnlyAfterArrival, WalkInv
<1> QED BY <1>1, <1>9, <1>10, <1>11, <1>12 DEF WalkInv

LEMMA StutterKeepsWalk ==
    ASSUME WalkInv, UNCHANGED queueVars
    PROVE  WalkInv'
<1>1. UNCHANGED <<leads, session, writers, recorded, created, walk>>
  BY DEF queueVars, vars
<1>2. TableInv'
  BY <1>1 DEF WalkInv, TableInv, LeadInv, TypeOK, OneWriter, UpdateStands,
         RefusalNamesOwner, ConflictStands, OnlyStoredHaveHistory, StampedInTime, Stored
<1>3. /\ Matching(walk.query)' = Matching(walk.query)
      /\ Passed(walk.query, walk.offset)' = Passed(walk.query, walk.offset)
  BY <1>1 DEF Matching, Passed, Rows, Ahead, Precedes, ScoreOf
<1> QED BY <1>1, <1>2, <1>3
        DEF WalkInv, WalkStands, MissedOnlyAfterDeparture, RepeatedOnlyAfterArrival

LEMMA NextWalkInv == WalkInv /\ [QueueNext]_queueVars => WalkInv'
BY WriteKeepsWalk, StartKeepsWalk, PageKeepsWalk, StutterKeepsWalk DEF QueueNext

-----------------------------------------------------------------------------
(* Stored leads, their times and the walk keep their types, and no two     *)
(* stored leads share a time: list_leads has one order to page through.    *)
THEOREM QueueTypeCorrect == QueueSpec => []QueueTypeOK
<1>1. WalkInv => QueueTypeOK
  BY DEF WalkInv, TableInv, LeadInv, QueueTypeOK
<1> QED BY <1>1, InitWalkInv, NextWalkInv, PTL DEF QueueSpec

(* However many sessions write between its pages, a walk misses a lead     *)
(* that stayed only if another one left the rows already passed.           *)
THEOREM PagesMissOnlyAfterDeparture == QueueSpec => []MissedOnlyAfterDeparture
<1>1. WalkInv => MissedOnlyAfterDeparture
  BY DEF WalkInv
<1> QED BY <1>1, InitWalkInv, NextWalkInv, PTL DEF QueueSpec

(* And it returns one twice only if another one moved up into those rows.  *)
THEOREM PagesRepeatOnlyAfterArrival == QueueSpec => []RepeatedOnlyAfterArrival
<1>1. WalkInv => RepeatedOnlyAfterArrival
  BY DEF WalkInv
<1> QED BY <1>1, InitWalkInv, NextWalkInv, PTL DEF QueueSpec
=============================================================================

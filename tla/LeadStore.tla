----------------------------- MODULE LeadStore ------------------------------
(***************************************************************************)
(* The leads table and the two tools that write it, add_qualified_lead and *)
(* update_lead_status.  Sessions of two pipelines share the table.  Every  *)
(* SQL statement is one step; a call that meets a lead of the other        *)
(* pipeline makes a second statement to name its owner.  Columns other     *)
(* than domain, project, status and why are all of one kind.               *)
(***************************************************************************)
EXTENDS Naturals, Sequences

CONSTANTS Domains, Projects,
          Sessions,                      \* callers of the tools
          Columns,                       \* optional columns of a lead
          ContactFields, NotNull,        \* which of them are what
          Value, Falsy, Null,            \* what a column holds; None
          Default,                       \* Default[c]: when a lead omits c
          Leads,                         \* the leads sessions add
          Moves,                         \* the statuses they move leads to
          Notes, MaxNotes,               \* notes; bound of the length of why
          NoLead                         \* no row

(* qualified first; the order is that of the no-regress CASE.              *)
LeadStatuses == <<"qualified", "contact_resolved", "contacted", "replied",
                  "agreement_sent", "signed", "authorized_ready", "running",
                  "reported", "closed", "rejected">>

Statuses == {LeadStatuses[i] : i \in 1..11}

Data == [Columns -> Value \cup {Null}]

Row == [project : Projects, status : Statuses, why : Seq(Notes), data : Data]

(* given: the columns the caller supplied, with their values; why: the     *)
(* same for why, absent or <<>> for None, or one note.                     *)
LeadType(lead) ==
    /\ DOMAIN lead.given \subseteq Columns
    /\ \A c \in DOMAIN lead.given : lead.given[c] \in Value \cup {Null}
    /\ lead.why \in Seq(Notes) \cup {Null}

ASSUME LeadAssumption ==
    /\ ContactFields \subseteq Columns /\ NotNull \subseteq Columns
    /\ Default \in Data /\ \A c \in NotNull : Default[c] # Null
    /\ \A lead \in Leads : LeadType(lead)
    /\ Moves \subseteq Statuses
    /\ NoLead \notin Row
    /\ Null \notin Projects \cup Statuses \cup Notes
    /\ MaxNotes \in Nat

VARIABLES leads,     \* table leads: domain -> row
          session,   \* the call each session makes and the error of its last
          writers,   \* history: the projects whose calls changed each lead
          recorded   \* history: the status last set by update_lead_status

vars == <<leads, session, writers, recorded>>

NoCall == [pc |-> "idle", project |-> Null, domain |-> Null, owner |-> Null]

SessionType == [pc : {"idle", "conflict", "refused"}, project : Projects \cup {Null},
                domain : Domains \cup {Null}, owner : Projects \cup {Null}]

TypeOK ==
    /\ leads \in [Domains -> Row \cup {NoLead}]
    /\ \A d \in Domains : leads[d] # NoLead =>
          \A c \in NotNull : leads[d].data[c] # Null
    /\ session \in [Sessions -> SessionType]
    /\ \A s \in Sessions :
          session[s].pc # "idle" => session[s].domain \in Domains
    /\ writers \in [Domains -> SUBSET Projects]
    /\ recorded \in [Domains -> Statuses \cup {Null}]

Init ==
    /\ leads = [d \in Domains |-> NoLead]
    /\ session = [s \in Sessions |-> NoCall]
    /\ writers = [d \in Domains |-> {}]
    /\ recorded = [d \in Domains |-> Null]

-----------------------------------------------------------------------------
(* The upsert *)

Rank(status) == CHOOSE i \in 1..11 : LeadStatuses[i] = status

HasContact(lead) ==
    \E c \in ContactFields \cap DOMAIN lead.given : lead.given[c] \notin Falsy \cup {Null}

Derived(lead) == IF HasContact(lead) THEN "contact_resolved" ELSE "qualified"

(* A fault: the status of the re-added lead is taken as it is.             *)
ExcludedStatus(old, new) == new

NoRegress(old, new) == IF Rank(old) >= Rank(new) THEN old ELSE new

Overlaid(data, lead) ==
    [c \in Columns |-> IF c \in DOMAIN lead.given THEN lead.given[c] ELSE data[c]]

Inserted(p, lead) ==
    [project |-> p, status |-> Derived(lead),
     why |-> IF lead.why = Null THEN <<>> ELSE lead.why,
     data |-> Overlaid(Default, lead)]

Merged(row, lead) ==
    [row EXCEPT !.status = NoRegress(@, Derived(lead)),
                !.why = IF lead.why = Null THEN @ ELSE lead.why,
                !.data = Overlaid(@, lead)]

(* The row INSERT ... ON CONFLICT ... WHERE leaves behind.                 *)
Upserted(p, d, lead) ==
    IF leads[d] = NoLead THEN Inserted(p, lead)
    ELSE IF leads[d].project = p THEN Merged(leads[d], lead)
    ELSE leads[d]

(* None in a NOT NULL column makes the statement fail, conflict or not.    *)
Storable(lead) ==
    \A c \in NotNull \cap DOMAIN lead.given : lead.given[c] # Null

-----------------------------------------------------------------------------
(* The calls *)

Collides(p, d) == leads[d] # NoLead /\ leads[d].project # p

Conflict(p, d) == [NoCall EXCEPT !.pc = "conflict", !.project = p, !.domain = d]

Free(s) == session[s].pc # "conflict"

(* A fault: any session may move any lead.                                 *)
MayUpdateAny(p, d) == leads[d] # NoLead

MayUpdate(p, d) == leads[d] # NoLead /\ leads[d].project = p

WrittenBy(p, d) ==
    writers' = [writers EXCEPT ![d] = IF leads'[d] = leads[d] THEN @ ELSE @ \cup {p}]

AddLead(s, p, d, lead) ==
    /\ Free(s)
    /\ Storable(lead)
    /\ leads' = [leads EXCEPT ![d] = Upserted(p, d, lead)]
    /\ session' = [session EXCEPT ![s] =
                      IF Collides(p, d) THEN Conflict(p, d) ELSE NoCall]
    /\ WrittenBy(p, d)
    /\ UNCHANGED recorded

(* A fault: like every other query, the second one is scoped to a project. *)
NameOwnerScoped(s) ==
    /\ session[s].pc = "conflict"
    /\ session' = [session EXCEPT ![s].pc = "refused",
                      ![s].owner = IF Collides(session[s].project, session[s].domain)
                                   THEN Null ELSE session[s].project]
    /\ UNCHANGED <<leads, writers, recorded>>

(* The second statement of a refused add, and its ValueError.              *)
NameOwner(s) ==
    /\ session[s].pc = "conflict"
    /\ session' = [session EXCEPT ![s].pc = "refused",
                      ![s].owner = IF leads[session[s].domain] = NoLead THEN Null
                                   ELSE leads[session[s].domain].project]
    /\ UNCHANGED <<leads, writers, recorded>>

(* A fault: the CASE forgets that there may be no note.                    *)
NotedAlways(why, note) == Append(why, note)

Noted(why, note) == IF note = Null THEN why ELSE Append(why, note)

UpdateStatus(s, p, d, status, note) ==
    /\ Free(s)
    /\ MayUpdate(p, d)
    /\ note # Null => Len(leads[d].why) < MaxNotes
    /\ leads' = [leads EXCEPT ![d].status = status, ![d].why = Noted(@, note)]
    /\ session' = [session EXCEPT ![s] = NoCall]
    /\ WrittenBy(p, d)
    /\ recorded' = [recorded EXCEPT ![d] = status]

(* A call that ends in an error and leaves the table alone: bad arguments, *)
(* a lead that cannot be stored, an update of another project's lead, a    *)
(* database that is down, a process that ends.                             *)
Fails(s) ==
    /\ session[s] # NoCall
    /\ session' = [session EXCEPT ![s] = NoCall]
    /\ UNCHANGED <<leads, writers, recorded>>

Adds(s) ==
    \E p \in Projects, d \in Domains, lead \in Leads : AddLead(s, p, d, lead)

Updates(s) ==
    \E p \in Projects, d \in Domains, status \in Moves, note \in Notes \cup {Null} :
        UpdateStatus(s, p, d, status, note)

Next == \E s \in Sessions : Adds(s) \/ NameOwner(s) \/ Updates(s) \/ Fails(s)

Spec == Init /\ [][Next]_vars

-----------------------------------------------------------------------------
(* Properties *)

(* A lead belongs to the project that stored it first, and only calls of   *)
(* that project ever change it, whoever re-adds it and in whatever order   *)
(* (leads.py:149-171, 256-265; schema/004_project_partition.sql:37-40).    *)
OneWriter == \A d \in Domains : leads[d] # NoLead => writers[d] = {leads[d].project}

(* No re-add undoes what update_lead_status recorded, however old the      *)
(* adding session's view of the lead is; it may only move a lead that was  *)
(* set to qualified on to contact_resolved (leads.py:158-163).             *)
UpdateStands ==
    \A d \in Domains : recorded[d] # Null =>
        \/ leads[d].status = recorded[d]
        \/ recorded[d] = "qualified" /\ leads[d].status = "contact_resolved"

(* The error of a refused add names the project that owns the lead, though *)
(* it is read in a second statement, and never the caller's (178-184).     *)
RefusalNamesOwner ==
    \A s \in Sessions : session[s].pc = "refused" =>
        /\ leads[session[s].domain] # NoLead
        /\ session[s].owner = leads[session[s].domain].project
        /\ session[s].owner # session[s].project

(* What the tool's docstring says: re-adding never blanks existing data    *)
(* (tools/leads.py:89-90).                                                 *)
ReAddNeverBlanks ==
    [][\A d \in Domains : leads[d] # NoLead =>
          \A c \in Columns :
              leads[d].data[c] # Null => leads'[d].data[c] # Null]_vars
=============================================================================

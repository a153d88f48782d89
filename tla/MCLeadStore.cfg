SPECIFICATION Spec
CONSTANTS
    Domains = {shop}
    Projects = {pentest, avelero}
    Sessions = {s1, s2}
    email = email
    gate = gate
    ann = ann
    one = one
    Null = Null
    NoLead = NoLead
    Columns <- Two
    ContactFields = {email}
    NotNull = {gate}
    Value = {ann, TRUE, FALSE}
    Falsy = {FALSE}
    Default <- MCDefault
    Leads <- MCLeads
    Moves <- Statuses
    Notes = {one}
    MaxNotes = 2
INVARIANTS TypeOK OneWriter UpdateStands RefusalNamesOwner

SPECIFICATION QueueSpec
CONSTANTS
    Domains = {shop, mall, fair}
    pentest = pentest
    Projects = {pentest}
    Sessions = {s1}
    score = score
    Score = score
    Null = Null
    NoLead = NoLead
    Columns <- OneColumn
    ContactFields = {}
    NotNull = {}
    Value = {1, 2}
    Falsy = {}
    Default <- MCDefault
    Leads <- MCLeads
    Moves = {"qualified", "contacted"}
    Notes = {}
    MaxNotes = 0
    Queries <- MCQueries
    Limit = 1
SYMMETRY AnyThree
INVARIANTS QueueTypeOK MissedOnlyAfterDeparture RepeatedOnlyAfterArrival

\* Two servers over one store, or one server with its own tables.
CONSTANTS
    s1 = s1
    s2 = s2
    c1 = c1
    c2 = c2
    Servers <- MCServers
    Solo = s1
    Clients <- MCClients
    Via <- MCVia
    Faulty = {s1}
    Threads = {t1}
    MaxRuns = 2
    Keys = {k1}
    NoKey = NoKey
    Payloads = {p1}
SPECIFICATION FairSpec
INVARIANTS RunsOwned
PROPERTIES ImplementsRunLedger RunsSettle
CHECK_DEADLOCK FALSE

SPECIFICATION Spec
CONSTANTS
    s1 = s1
    s2 = s2
    Sessions <- MCSessions
    NumFds = 8
    NumPorts = 4
    MaxConnects = 3
    MaxFailures = 1
INVARIANTS
    TypeOK
    HoldsItsOwn
    NothingLost
    AskedPortsListen
    AnswerFindsMedium
SYMMETRY Symmetry
CHECK_DEADLOCK FALSE

SPECIFICATION FairSpec
CONSTANTS
    e1 = e1
    e2 = e2
    e3 = e3
    Entries <- MCEntries
    ListHead = ListHead
    NULL = NULL
    LIST_POISON = LIST_POISON
    Thread = thread
    Apps = {app}
    MaxRequests = 4
INVARIANTS
    TypeOK
    TakesLiveEntries
    QueueIntact
PROPERTY LinkedIsSent
CHECK_DEADLOCK FALSE

SPECIFICATION FairSpec
CONSTANTS
    Entries = {e1, e2}
    ListHead = ListHead
    NULL = NULL
    LIST_POISON = LIST_POISON
    Channels = {c1, c2, c3}
    Nobody = Nobody
INVARIANTS
    TypeOK
    ListIntact
    OneEndIsSafe
    DeinitFreesAll
PROPERTIES
    RegistrySpec
    Settles
CHECK_DEADLOCK FALSE

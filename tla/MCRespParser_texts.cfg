SPECIFICATION Spec
CONSTANTS
    MaxHeaders = 4
    MaxBody = 4
    MaxFields = 3
    Texts <- MCTexts
INVARIANTS
    TypeOK
    HeadersUnderstood
    SetupAsksForControl
    
PROPERTY ReadsToTheEnd
CHECK_DEADLOCK FALSE

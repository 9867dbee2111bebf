SPECIFICATION Spec
CHECK_DEADLOCK FALSE
INVARIANTS
    TypeOK
    NothingForgotten
    CleanReturn
PROPERTIES
    ForeignEndpointSpared
    

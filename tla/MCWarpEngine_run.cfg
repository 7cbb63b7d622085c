SPECIFICATION FairSpec
CONSTANTS
    Endpoint = {e1, e2, e3}
INVARIANTS
    TypeOK
    GivesUpLate
PROPERTY StopReturns

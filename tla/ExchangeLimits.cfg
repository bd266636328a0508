SPECIFICATION Spec
CONSTANTS
    MaxExchanges = 6
    MaxReads = 3
    MaxCorrections = 2
INVARIANTS
    TypeOK
    CallsBounded
    RejectionReturned
    ServedBounded

\* Three writes through the file backend, with up to two crashes.
CONSTANTS
    Request = {r1, r2, r3}
    Absent = Absent  Empty = Empty  Garbage = Garbage
    MaxCrashes = 2
SPECIFICATION Spec
INVARIANTS
    TypeOK
    LoneWriteSurvives
PROPERTIES
    LoneWriteReachesFile
    ImplementsStore

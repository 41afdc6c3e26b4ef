\* apply, run after run, under every fault but a failing unlink of the record.
\* No symmetry: two of the properties are liveness.
CONSTANTS
    Pools = {a, b}
    Sizes = {s1, s2}
    None = None
    Foreign = Foreign
    Edited = Edited
    NoRec = NoRec
    BadRec = BadRec
    Daemon = FALSE
    Provisioning = FALSE
    Racing = {}
    IOErrors <- Writes
    MaxTrouble = 4
SPECIFICATION FairSpec
INVARIANTS
    SavedCopyIsPreImage
    OnDiskIsAccounted
    Agreement
PROPERTIES
    RecordNeverOverwritten
    SignalledNeedsSurvival
    ImplementsUndoLog
    RecordSettles
    RepairedWithoutRecord

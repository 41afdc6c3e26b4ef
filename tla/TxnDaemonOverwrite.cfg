\* A rollback that fails in serve, and the next round.
CONSTANTS
    Pools = {a}
    Sizes = {s1, s2}
    None = None
    Foreign = Foreign
    Edited = Edited
    NoRec = NoRec
    BadRec = BadRec
    Daemon = TRUE
    Provisioning = FALSE
    Racing = {}
    IOErrors <- Restores
    MaxTrouble = 3
SPECIFICATION Spec
PROPERTY RecordNeverOverwritten

\* serve, which reconciles once and goes on, while php-fpm is restarted under it.
CONSTANTS
    Pools = {a, b}
    Sizes = {s1, s2}
    None = None
    Foreign = Foreign
    Edited = Edited
    NoRec = NoRec
    BadRec = BadRec
    Daemon = TRUE
    Provisioning = TRUE
    Racing <- Supervisors
    IOErrors <- BeforeTheChange
    MaxTrouble = 4
SYMMETRY Interchangeable
SPECIFICATION Spec
PROPERTY
    RecordNeverOverwritten
    SignalledNeedsSurvival

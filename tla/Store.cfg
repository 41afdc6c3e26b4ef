\* A daemon for one master and one for all, commands for all.
CONSTANTS
    m1 = m1
    m2 = m2
    www = www
    shop = shop
    Masters = {m1, m2}
    Names = {www, shop}
    Pools <- Upgraded
    NoMaster = NoMaster
    Daemons <- OneAndAll
    Commands <- All
    Hosts <- AllThere
    Remembered <- Www
    Quiet <- All
    ForgetAfter = 2
    Absent = Absent
    None = None
    Never = Never
    MaxEvents = 2
SPECIFICATION FairSpec
INVARIANTS
    HistoryIsOwn
    NothingSharedInAPlan
PROPERTIES
    OthersLeftAlone
    ForgottenOnlyWhenGone
    RemovedIsForgotten

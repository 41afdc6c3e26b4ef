\* A daemon, an apply and an enable-status command, with every failure and
\* every kill.
CONSTANTS
    Pools = {a, b}
    Daemons = {serve}
    Applies = {apply}
    Enablers = {enabler}
    MaxStatusRetries = 2
    None = None
    Foreign = Foreign
    Racing <- SitesRace
    MaxEvents = 3
SPECIFICATION FairSpec
INVARIANT PagesAgree
PROPERTIES
    RunsKeepPages
    PagesComeOn

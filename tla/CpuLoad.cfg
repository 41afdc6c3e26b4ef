\* Two pools, one pid, one core; a hole is longer than one interval.
CONSTANTS
    a = a
    b = b
    w1 = w1
    Pools <- Two
    Pids <- One
    Homes <- Reused
    Cores = 1
    Gap = 1
    None = None
    MaxClock = 3
    MaxServed = 3
    MaxEvents = 2
SPECIFICATION Spec
PROPERTIES
    EachRequestOnce
    EveryTickOnce

\* Every way a pool may be scraped, and what it comes to when it settles.
CONSTANTS
    Costs <- CheapAndDear
    None = None
    Guess = 2
    Percent = 50
    Margin = 50
    SamplesBeforeMaturityIsWaived = 2
    ConfidenceSamples = 2
    ConfidenceSpan = 2
    Ways = {"young", "alone", "steady"}
    DecayAfter = 3
    MaxHappened = 1
SPECIFICATION FairSpec
INVARIANTS
    TypeOK
    TrustIsEarned
    EstimateIsBacked
PROPERTIES
    TrustIsKept
    EveryShapeIsMeasured
    SteadyIsBelieved

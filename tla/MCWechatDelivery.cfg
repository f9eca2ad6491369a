SPECIFICATION FairSpec
CONSTANTS
    Messages <- ThreeMessages
    NoContext = NoContext
    NoBundle = NoBundle
    DegradedAfter = 2
    MaxRevision = 2
INVARIANTS NoMessageLost 
PROPERTIES ReactivationReleases

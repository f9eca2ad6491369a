SPECIFICATION Spec
CONSTANTS
    Messages <- ThreeMessages
    NoContext = NoContext
    NoBundle = NoBundle
    DegradedAfter = 2
    MaxRevision = 2
INVARIANTS ContextNotReused

SPECIFICATION ReleaseSpec
CONSTANTS
    PlatformPrograms <- SomePrograms
    PublishOrder <- SomeCrates
    DependsOn <- CrateDepends
    SecurityTools <- SomeTools
    ReleasePlans <- HandWrittenPlans
    MaxGenerations = 2
INVARIANTS CurrentEvidenceLinked
CHECK_DEADLOCK FALSE

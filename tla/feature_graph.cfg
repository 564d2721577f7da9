SPECIFICATION Spec
CONSTANTS
    Ref = {1, 2, 3}
    Listed = {1, 3}
    MaxListed = 2
    MaxDependsOn = 2
    AfterRefs = {1, 2}
    FeatureSpecs <- MCFeatureSpecs
    Listings <- MCListings
INVARIANTS
    TypeOK
    PulledIsClosure
    OrderIsStable
    CycleIsReal
PROPERTIES
    Terminates
    ImplementsInstallOrder

SPECIFICATION MFairSpec
CONSTANTS
    None = None
    Garbled = Garbled
    LastRevision = 3
    Unlabelled = {2}
    Environments <- MCEnvironments
    HubClasses = 1000
    LocalModels = {3, 1000}
INVARIANTS
    MTypeOK
    HealthyCalls
    CleanExport
    QuietLoadCoherent
    StartNeverStuck
PROPERTIES
    ImplementsGate
    ComesUp

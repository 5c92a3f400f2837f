SPECIFICATION MCSpec
CONSTANTS
    z1 = z1
    z2 = z2
    z3 = z3
    t1 = t1
    t2 = t2
    NoTask = NoTask
    NoZone = NoZone
    Zones <- MCZones
    EnabledZones <- MCEnabledZones
    StepIndices <- MCStepIndices
    Tasks <- MCTasks
SYMMETRY MCSymmetry
INVARIANTS
    ZoneTypeOK
    OneRelayEnergised
    RelaysMatchOutputs
    MaskIsEnergised
    ZoneLockIsOwned
    UnknownOutputMeansError
    OutputMatchesZone
    OneOpenZone
PROPERTIES
    NothingEnergisedAfterFault
    ErrorLeadsOnlyToBoot
    ZoneSpec
    ValvesSpec

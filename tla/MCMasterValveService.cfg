SPECIFICATION MCSpec
CONSTANTS
    z1 = z1
    t1 = t1
    t2 = t2
    t3 = t3
    NoTask = NoTask
    MaxInbox = 3
    Zones <- MCZones
    EnabledZones <- MCZones
    StepIndices <- MCStepIndices
    Tasks <- MCTasks
SYMMETRY MCSymmetry
INVARIANTS
    MasterTypeOK
    MasterLockIsOwned
    RemoteValveIsKnown
    ClosingIsInProgress
    NoStrayRequest
PROPERTIES
    ClosedIsConfirmed
    MasterSpec

SPECIFICATION FirmwareSpec
CONSTANTS
    z1 = z1
    z2 = z2
    p1 = p1
    p2 = p2
    Sched = Sched
    Http = Http
    NoTask = NoTask
    NoZone = NoZone
    NoProgram = NoProgram
    Zones <- MCZones
    EnabledZones <- MCZones
    StepIndices <- MCStepIndices
    Tasks <- MCTasks
    Programs <- MCPrograms
    Steps <- MCSteps
    Requests = {"program_abort", "master_open"}
INVARIANTS
    EnergisedRelayIsProgrammed
    OpenZoneIsProgrammed
    NoOpenZoneBehindClosedMaster
PROPERTIES
    ProgramEnds

SPECIFICATION Spec
CONSTANTS
    z1 = z1
    z2 = z2
    p1 = p1
    p2 = p2
    Sched = Sched
    Http = Http
    NoTask = NoTask
    NoZone = NoZone
    NoProgram = NoProgram
    Zones <- MCZones
    EnabledZones <- MCZones
    StepIndices <- MCStepIndices
    Tasks <- MCTasks
    Programs <- OneProgram
    Steps <- OneProgramOneStep
    Requests = {"program_abort"}
PROPERTY ProgramFaultIsFinal

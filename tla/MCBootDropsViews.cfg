SPECIFICATION Spec
CONSTANTS
    MaxPrograms = 2
    MaxSchedules = 2
    Contents = {wet, dry}
    Times = {morning}
    MaxProgramId = 2
    MaxScheduleId = 2
INVARIANTS
    LoadedConfigurationIsInForce

SPECIFICATION Spec
CONSTANTS
    MaxPrograms = 2
    MaxSchedules = 2
    Contents = {wet}
    Times = {morning}
    MaxProgramId = 2
    MaxScheduleId = 1
INVARIANTS
    ManagerTypeOK
PROPERTIES
    ChangesStayInForce
    RunningProgramStaysInPlace
    BootWithRoomSucceeds

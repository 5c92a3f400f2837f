CONSTANTS
    MaxSchedules = 2
    LastWeekday = 0
    LastMinute = 1
    Unhandled = Unhandled
    MaxWeek = 1
    MaxChanges = 5
SPECIFICATION Spec
INVARIANTS
    SchedulerTypeOK
    EntriesFollowConfiguration
    HandledFollowsEntry
PROPERTY
    StartsOncePerOccurrence

-------------------------- MODULE SchedulerService --------------------------
(***************************************************************************)
(* The scheduler (domain/scheduler/scheduler_service.c), the occurrences   *)
(* it remembers in the state store, and the changes of the schedules that  *)
(* the configuration manager makes under the scheduler's mutex             *)
(* (replace_candidate in app/configuration/configuration_manager.c).       *)
(*                                                                         *)
(* The scheduler task polls: it reads the clock, waits for the mutex and   *)
(* goes through the entries.  The HTTP task changes the schedules: it      *)
(* waits for the mutex, gives the scheduler the new entries, saves the     *)
(* configuration to flash and takes the entries back if the save failed.   *)
(*                                                                         *)
(* What an entry remembers is found by position, entry i in cell i of two  *)
(* arrays of the store, and moves with its entry when positions change.    *)
(* Which program an entry starts is left out: every program that may run   *)
(* is the same to the scheduler, and an edit changes the time.  So is      *)
(* scheduler_service_set_enabled, which the firmware never calls.          *)
(*                                                                         *)
(* Weeks are numbered one after another.  The code numbers them            *)
(* year * 54 + ISO week with the calendar year (main/system_ready.c:97):   *)
(* at a turn of the year the number may fall back, and days at the two     *)
(* ends of one year may share it, which the model leaves out.              *)
(***************************************************************************)
EXTENDS Naturals, Sequences, SequencesExt

CONSTANTS
    MaxSchedules,   \* IRRIGATION_MAX_SCHEDULES
    LastWeekday,    \* of a week, 6
    LastMinute,     \* of a day, 1439
    Unhandled,      \* SCHEDULE_OCCURRENCE_UNHANDLED
    MaxWeek,        \* bound: the last week of the clock
    MaxChanges      \* bound: the changes of the schedules

ASSUME SchedulerAssumption ==
    /\ MaxSchedules \in Nat \ {0}
    /\ MaxWeek \in Nat
    /\ MaxChanges \in Nat
    /\ LastWeekday \in 0..6
    /\ LastMinute \in Nat
    /\ Unhandled \notin Nat

VARIABLES
    clock,         \* local time: week, weekday, minute
    entries,       \* service->entries[0 .. entry_count - 1]
    handled,       \* scheduler.last_handled_occurrence[], last_occurrence_status[]
    active,        \* program_service_is_active
    mutex,         \* scheduler_configuration_mutex: its holder
    schedPc,       \* where the scheduler task stands in the poll
    seen,          \* the clock it read
    index,         \* the entry it looks at
    schedules,     \* manager->configuration.schedules[], beyond the count too
    count,         \* manager->configuration.schedule_count
    nextId,        \* manager->configuration.next_schedule_id
    candidate,     \* those three in manager->candidate
    httpPc,        \* where the HTTP task stands in a change
    changes,       \* changes so far
    \* History, read by no action:
    lastHandled,   \* the last occurrence handled of each schedule
    forgotten      \* the schedules whose entry a change has touched since, be
                   \* it one that was taken back

pollVars   == <<schedPc, seen, index>>
changeVars == <<schedules, count, nextId, candidate, httpPc, changes>>
vars == <<clock, entries, handled, active, mutex, pollVars, changeVars,
          lastHandled, forgotten>>

Weekdays == 0..LastWeekday
Minutes  == 0..LastMinute
Times == [week : 0..MaxWeek, weekday : Weekdays, minute : Minutes]
Ids   == 0..MaxChanges                \* id 0: an unused cell
Entries == [id : Ids, enabled : BOOLEAN, weekdays : SUBSET Weekdays, minute : Minutes]
UnusedEntry == [id |-> 0, enabled |-> FALSE, weekdays |-> {}, minute |-> 0]

Occurrence(t) == t.week * 7 + t.weekday
Occurrences == {Occurrence(t) : t \in Times} \cup {Unhandled}
Statuses    == {"NONE", "STARTED", "SKIPPED_BUSY", "REJECTED"}
Handled(o, s) == [occurrence |-> o, status |-> s]
NotHandled  == Handled(Unhandled, "NONE")

Cells == 1..MaxSchedules
Candidates == [schedules : [Cells -> Entries], count : 0..MaxSchedules, nextId : Nat]
NoCandidate == [schedules |-> [i \in Cells |-> UnusedEntry], count |-> 0, nextId |-> 1]

\* After configuration_manager_configure_scheduler at boot, no schedule yet.
Init ==
    /\ clock = [week |-> 0, weekday |-> 0, minute |-> 0]
    /\ entries = <<>>
    /\ handled = [i \in Cells |-> NotHandled]
    /\ active = FALSE
    /\ mutex = "free"
    /\ schedPc = "sleep"
    /\ seen = clock
    /\ index = 1
    /\ schedules = NoCandidate.schedules
    /\ count = 0
    /\ nextId = 1
    /\ candidate = NoCandidate
    /\ httpPc = "idle"
    /\ changes = 0
    /\ lastHandled = [id \in Ids |-> Unhandled]
    /\ forgotten = {}

(***************************************************************************)
(* scheduler_service_process, called with the time read before             *)
(***************************************************************************)

ReadClock ==
    /\ schedPc = "sleep"
    /\ schedPc' = "lock"
    /\ seen' = clock
    /\ UNCHANGED <<clock, entries, handled, active, mutex, index, changeVars,
                   lastHandled, forgotten>>

LockForPoll ==
    /\ schedPc = "lock"
    /\ mutex = "free"
    /\ mutex' = "scheduler"
    /\ schedPc' = "scan"
    /\ index' = 1
    /\ UNCHANGED <<clock, entries, handled, active, seen, changeVars,
                   lastHandled, forgotten>>

\* Mutant: the occurrence is not compared.
MatchesClock(i) ==
    /\ entries[i].enabled
    /\ seen.weekday \in entries[i].weekdays
    /\ seen.minute = entries[i].minute

IsDue(i) ==
    /\ entries[i].enabled
    /\ seen.weekday \in entries[i].weekdays
    /\ seen.minute = entries[i].minute
    /\ handled[i].occurrence # Occurrence(seen)

ScanGoto(from, to) ==
    /\ schedPc = from
    /\ index <= Len(entries)
    /\ schedPc' = to
    /\ UNCHANGED <<clock, entries, mutex, seen, changeVars>>

Record(status) ==
    /\ handled' = [handled EXCEPT ![index] = Handled(Occurrence(seen), status)]
    /\ lastHandled' = [lastHandled EXCEPT ![entries[index].id] = Occurrence(seen)]
    /\ forgotten' = forgotten \ {entries[index].id}
    /\ index' = index + 1

ScanNotDue ==
    /\ ScanGoto("scan", "scan")
    /\ ~IsDue(index)
    /\ index' = index + 1
    /\ UNCHANGED <<handled, active, lastHandled, forgotten>>

ScanBusy ==
    /\ ScanGoto("scan", "scan")
    /\ IsDue(index)
    /\ active
    /\ Record("SKIPPED_BUSY")
    /\ UNCHANGED active

ScanDue ==
    /\ ScanGoto("scan", "start")
    /\ IsDue(index)
    /\ ~active
    /\ UNCHANGED <<handled, active, index, lastHandled, forgotten>>

\* program_service_start: rejected if a user has started a program since, or
\* for reasons of its own.
ScanStart ==
    /\ ScanGoto("start", "scan")
    /\ \/ ~active /\ active' = TRUE /\ Record("STARTED")
       \/ UNCHANGED active /\ Record("REJECTED")

ScanEnds ==
    /\ schedPc = "scan"
    /\ index > Len(entries)
    /\ schedPc' = "sleep"
    /\ mutex' = "free"
    /\ UNCHANGED <<clock, entries, handled, active, seen, index, changeVars,
                   lastHandled, forgotten>>

Poll == ReadClock \/ LockForPoll \/ ScanNotDue \/ ScanBusy \/ ScanDue \/ ScanStart \/ ScanEnds

(***************************************************************************)
(* The changes of the configuration manager                                *)
(***************************************************************************)

Change(next) ==
    /\ httpPc = "idle"
    /\ changes < MaxChanges
    /\ changes' = changes + 1
    /\ httpPc' = "lock"
    /\ candidate' = next
    /\ UNCHANGED <<clock, entries, handled, active, mutex, pollVars, schedules,
                   count, nextId, lastHandled, forgotten>>

Configuration(s, n, id) == [schedules |-> s, count |-> n, nextId |-> id]
Unchanged == Configuration(schedules, count, nextId)
Entry(id, enabled, days, minute) ==
    [id |-> id, enabled |-> enabled, weekdays |-> days, minute |-> minute]

\* The new cell keeps the enabled flag it was left with.
CreateSchedule(days, minute) ==
    /\ count < MaxSchedules
    /\ LET entry == Entry(nextId, schedules[count + 1].enabled, days, minute)
       IN  Change(Configuration([schedules EXCEPT ![count + 1] = entry], count + 1, nextId + 1))

EditSchedule(i, enabled, days, minute) ==
    LET entry == Entry(schedules[i].id, enabled, days, minute)
    IN  Change(Configuration([schedules EXCEPT ![i] = entry], count, nextId))

UpdateSchedule(i, days, minute) ==
    /\ i <= count
    /\ EditSchedule(i, schedules[i].enabled, days, minute)

ToggleSchedule(i) ==
    /\ i <= count
    /\ EditSchedule(i, ~schedules[i].enabled, schedules[i].weekdays, schedules[i].minute)

\* The entries after it move down; the last cell keeps a copy of the last one.
Without(i) ==
    [k \in Cells |-> IF k \in i..(count - 1) THEN schedules[k + 1] ELSE schedules[k]]

\* Mutant: the index is not compared with the count.
DeleteAnySchedule(i) == Change(Configuration(Without(i), count - 1, nextId))

DeleteSchedule(i) ==
    /\ i <= count
    /\ Change(Configuration(Without(i), count - 1, nextId))

\* Zones and programs: the schedules stay as they are.
ChangeElsewhere == Change(Unchanged)

\* The entries rebuild_runtime_views makes of a configuration.
View(configuration) == SubSeq(configuration.schedules, 1, configuration.count)

\* Mutant: what is remembered stays in its cell.
PreservedInPlace(new, i) == handled[i]

\* What an entry remembers if it was there before, unchanged, at any position.
Preserved(new, i) ==
    IF \E p \in DOMAIN entries : entries[p] = new[i]
    THEN handled[CHOOSE p \in DOMAIN entries : entries[p] = new[i]]
    ELSE NotHandled

\* scheduler_service_configure_locked, which refuses no validated configuration.
ConfigureLocked(new) ==
    /\ handled' = [i \in Cells |-> IF i <= Len(new) THEN Preserved(new, i) ELSE handled[i]]
    /\ entries' = new

\* The ids of the schedules whose entry the candidate adds, alters or removes.
Replaced == {e.id : e \in ToSet(View(Unchanged)) \ ToSet(View(candidate))}
               \cup {e.id : e \in ToSet(View(candidate)) \ ToSet(View(Unchanged))}

LockAndConfigure ==
    /\ httpPc = "lock"
    /\ mutex = "free"
    /\ mutex' = "http"
    /\ httpPc' = "save"
    /\ ConfigureLocked(View(candidate))
    /\ forgotten' = forgotten \cup Replaced
    /\ UNCHANGED <<clock, active, pollVars, schedules, count, nextId, candidate,
                   changes, lastHandled>>

SaveSucceeds ==
    /\ httpPc = "save"
    /\ schedules' = candidate.schedules
    /\ count' = candidate.count
    /\ nextId' = candidate.nextId
    /\ mutex' = "free"
    /\ httpPc' = "idle"
    /\ UNCHANGED <<clock, entries, handled, active, pollVars, candidate, changes,
                   lastHandled, forgotten>>

\* Mutant: the entries are not taken back.
SaveFailsWithoutRollback ==
    /\ httpPc = "save"
    /\ mutex' = "free"
    /\ httpPc' = "idle"
    /\ UNCHANGED <<clock, entries, handled, active, pollVars, schedules, count,
                   nextId, candidate, changes, lastHandled, forgotten>>

\* The old entries are given to the scheduler like any new ones: those that
\* the change touched come back without what they remembered.
SaveFails ==
    /\ httpPc = "save"
    /\ ConfigureLocked(View(Unchanged))
    /\ mutex' = "free"
    /\ httpPc' = "idle"
    /\ UNCHANGED <<clock, active, pollVars, schedules, count, nextId, candidate,
                   changes, lastHandled, forgotten>>

ScheduleChange ==
    \/ \E days \in SUBSET Weekdays \ {{}}, m \in Minutes :
          CreateSchedule(days, m) \/ \E i \in Cells : UpdateSchedule(i, days, m)
    \/ \E i \in Cells : ToggleSchedule(i) \/ DeleteSchedule(i)
    \/ ChangeElsewhere

(***************************************************************************)
(* What goes on around it                                                  *)
(***************************************************************************)

NextMinute(t) ==
    IF t.minute < LastMinute THEN [week |-> t.week, weekday |-> t.weekday, minute |-> t.minute + 1]
    ELSE IF t.weekday < LastWeekday THEN [week |-> t.week, weekday |-> t.weekday + 1, minute |-> 0]
    ELSE [week |-> t.week + 1, weekday |-> 0, minute |-> 0]

\* A minute may pass between any two steps: a poll may be late.
Tick ==
    /\ NextMinute(clock).week <= MaxWeek
    /\ clock' = NextMinute(clock)
    /\ UNCHANGED <<entries, handled, active, mutex, pollVars, changeVars,
                   lastHandled, forgotten>>

\* A user starts or aborts a program (the HTTP task is not in a change), or
\* the scheduler task, between two polls, ends one.
ProgramStarts ==
    /\ ~active /\ httpPc = "idle"
    /\ active' = TRUE
    /\ UNCHANGED <<clock, entries, handled, mutex, pollVars, changeVars,
                   lastHandled, forgotten>>

ProgramEnds ==
    /\ active /\ (httpPc = "idle" \/ schedPc = "sleep")
    /\ active' = FALSE
    /\ UNCHANGED <<clock, entries, handled, mutex, pollVars, changeVars,
                   lastHandled, forgotten>>

Next ==
    \/ Poll
    \/ ScheduleChange
    \/ LockAndConfigure \/ SaveSucceeds \/ SaveFails
    \/ Tick
    \/ ProgramStarts \/ ProgramEnds

Spec == Init /\ [][Next]_vars

-----------------------------------------------------------------------------

\* Type invariant.
SchedulerTypeOK ==
    /\ clock \in Times
    /\ entries \in Seq(Entries) /\ Len(entries) <= MaxSchedules
    /\ handled \in [Cells -> [occurrence : Occurrences, status : Statuses]]
    /\ active \in BOOLEAN
    /\ mutex \in {"free", "scheduler", "http"}
    /\ schedPc \in {"sleep", "lock", "scan", "start"}
    /\ seen \in Times
    /\ index \in 1..(MaxSchedules + 1)
    /\ candidate \in Candidates
    /\ Unchanged \in Candidates
    /\ httpPc \in {"idle", "lock", "save"}
    /\ lastHandled \in [Ids -> Occurrences]
    /\ forgotten \subseteq Ids

\* Whoever may look at the entries sees those of the configuration in force,
\* be it after a change that was taken back.
EntriesFollowConfiguration == mutex # "http" => entries = View(Unchanged)

\* At any moment, the middle of a change included, each entry remembers the
\* last occurrence its own schedule has handled, or nothing if a change has
\* touched it since.  So no schedule inherits what another one, or an earlier
\* version of it, has handled, which would suppress its start, and none that
\* changes leave as it is forgets, which would start it twice, though entries
\* move from cell to cell with every insertion, deletion and roll-back.
HandledFollowsEntry ==
    \A i \in DOMAIN entries :
        handled[i].occurrence =
            IF entries[i].id \in forgotten THEN Unhandled ELSE lastHandled[entries[i].id]

\* However often the minute of a schedule is polled, whatever becomes of its
\* program and whatever changes are made to other schedules meanwhile, the
\* program is started once.  There is one exception, and no other: a change
\* that alters this entry, or one that does and is taken back, makes it forget
\* what it has handled.  A program that has been started, is aborted, and whose
\* schedule is then disabled and enabled again in the same minute, starts again
\* (entries_are_unchanged compares whole entries).
StartsOncePerOccurrence ==
    [][schedPc = "start" /\ schedPc' = "scan" /\ active' # active
          => \/ lastHandled[entries[index].id] # Occurrence(seen)
             \/ entries[index].id \in forgotten]_vars
=============================================================================

------------------------ MODULE ConfigurationManager ------------------------
(***************************************************************************)
(* The configuration manager (app/configuration/configuration_manager.c):  *)
(* the configuration in force, and the runtime views of it, tables of      *)
(* fixed size that the scheduler and a running program point into.         *)
(*                                                                         *)
(* A program or schedule keeps its slot of a table for as long as it is    *)
(* there, whatever its position in the configuration, so that a pointer to *)
(* it stays good.  A change builds the views anew, gives the scheduler its *)
(* entries, saves the configuration and takes everything back if that      *)
(* fails, all under the scheduler's mutex: one step here.  What the        *)
(* scheduler remembers of its entries is in SchedulerService, the flash    *)
(* behind load and save in ConfigurationRepository.                        *)
(*                                                                         *)
(* Ids are numbers: 0 is the id of the default, n is "program-n" or        *)
(* "schedule-n".  A refused call changes nothing and is no step.           *)
(***************************************************************************)
EXTENDS Naturals, Sequences, FiniteSets, SequencesExt

CONSTANTS
    MaxPrograms,    \* IRRIGATION_MAX_PROGRAMS
    MaxSchedules,   \* IRRIGATION_MAX_SCHEDULES
    Contents,       \* the name and the steps of a program
    Times,          \* the days and the minute of a schedule
    MaxProgramId,   \* bound: the last number given to a program
    MaxScheduleId   \* bound: the last number given to a schedule

ASSUME ManagerAssumption ==
    /\ MaxPrograms \in Nat \ {0}
    /\ MaxSchedules \in Nat \ {0}
    /\ MaxProgramId \in Nat
    /\ MaxScheduleId \in Nat
    /\ Contents # {} /\ Times # {}

DefaultContent == CHOOSE c \in Contents : TRUE
DefaultTime    == CHOOSE t \in Times : TRUE

VARIABLES
    configuration,     \* manager->configuration
    views,             \* the runtime tables of the manager
    schedulerEntries,  \* scheduler_service->entries[0 .. entry_count - 1]
    repository,        \* manager->repository # NULL
    saved,             \* what the flash holds
    phase,             \* of the program: "boot", "running", "halted"
    httpPc,            \* "checked": a handler found no program active
    running,           \* the slot of the active program, or NoSlot
    runningId          \* history: the id of the program that was started

vars == <<configuration, views, schedulerEntries, repository, saved, phase,
          httpPc, running, runningId>>

(***************************************************************************)
(* Configurations                                                          *)
(***************************************************************************)

ProgramIds  == 0..MaxProgramId
ScheduleIds == 0..MaxScheduleId

Program(id, content) == [id |-> id, content |-> content]
Schedule(id, program, enabled, time) ==
    [id |-> id, program |-> program, enabled |-> enabled, time |-> time]

\* Mutant: a memset in place of the two counters.
DefaultWithZeroedCounters ==
    [programs     |-> <<Program(0, DefaultContent)>>,
     schedules    |-> <<Schedule(0, 0, FALSE, DefaultTime)>>,
     nextProgram  |-> 0,
     nextSchedule |-> 0]

\* configuration_manager_init_dev_kit_defaults
Default ==
    [programs     |-> <<Program(0, DefaultContent)>>,
     schedules    |-> <<Schedule(0, 0, FALSE, DefaultTime)>>,
     nextProgram  |-> 1,
     nextSchedule |-> 1]

\* What the flash may hold.
Stored(c) == [is |-> "valid", configuration |-> c]
Nothing   == [is |-> "nothing", configuration |-> Default]
Unusable  == [is |-> "unusable", configuration |-> Default]

HasDistinctIds(seq) == \A i, j \in DOMAIN seq : seq[i].id = seq[j].id => i = j

\* irrigation_configuration_validate, of configurations whose texts, steps and
\* times are valid each by itself.
Valid(c) ==
    /\ Len(c.programs) <= MaxPrograms /\ HasDistinctIds(c.programs)
    /\ Len(c.schedules) <= MaxSchedules /\ HasDistinctIds(c.schedules)
    /\ \A s \in ToSet(c.schedules) : \E p \in ToSet(c.programs) : p.id = s.program

(***************************************************************************)
(* The runtime views.  A slot that is not used keeps what it held.         *)
(***************************************************************************)

NoSlot == 0
ProgramSlots  == 1..MaxPrograms
ScheduleSlots == 1..MaxSchedules

\* A zeroed manager, with the NULL pointers of its entries.
NoViews ==
    [programs  |-> [s \in ProgramSlots |->
                       [used |-> FALSE, id |-> 0, content |-> DefaultContent]],
     schedules |-> [s \in ScheduleSlots |-> [used |-> FALSE, id |-> 0]],
     entries   |-> [i \in ScheduleSlots |->
                       [id |-> NoSlot, program |-> NoSlot, enabled |-> FALSE,
                        time |-> DefaultTime]]]

First(slots) == IF slots = {} THEN NoSlot ELSE Min(slots)

UnusedSlots(table) == {s \in DOMAIN table : ~table[s].used}

\* program_slot_for_id, schedule_slot_for_id
SlotOf(table, id) == First({s \in DOMAIN table : table[s].used /\ table[s].id = id})

\* The items (programs or schedules) whose id has no slot yet.
NewItems(table, items) == {i \in DOMAIN items : SlotOf(table, items[i].id) = NoSlot}

Rank(set, x) == Cardinality({y \in set : y < x})

\* unused_slot, called for one new item after the other: the k-th of them gets
\* the k-th slot that is not used.
UnusedSlotFor(table, items, i) ==
    LET unused == UnusedSlots(table)
        k      == Rank(NewItems(table, items), i)
    IN First({s \in unused : Rank(unused, s) = k})

\* Mutant: an item takes a slot that is not used, though it has one.
AnyFreeSlot(table, items, i) ==
    LET unused == First({s \in UnusedSlots(table) : Rank(UnusedSlots(table), s) = i - 1})
    IN IF unused # NoSlot THEN unused ELSE SlotOf(table, items[i].id)

\* The slot that a loop over the items finds for items[i], NoSlot if none.
SlotFor(table, items, i) ==
    LET own == SlotOf(table, items[i].id)
    IN IF own # NoSlot THEN own ELSE UnusedSlotFor(table, items, i)

\* The programs that get their view: a loop returns at the first that has no slot.
ViewedPrograms(table, programs) ==
    {i \in DOMAIN programs : \A j \in 1..i : SlotFor(table, programs, j) # NoSlot}

\* A schedule needs the slot of its program too.
ViewedSchedules(table, programTable, schedules) ==
    {i \in DOMAIN schedules :
        \A j \in 1..i : /\ SlotFor(table, schedules, j) # NoSlot
                        /\ SlotOf(programTable, schedules[j].program) # NoSlot}

\* A slot that no item got: a loop that came to its end releases it.
Left(slot, items, viewed) == [slot EXCEPT !.used = @ /\ viewed # DOMAIN items]

\* The table of programs after the first loop.
ProgramTable(table, programs) ==
    LET viewed  == ViewedPrograms(table, programs)
        taken   == {SlotFor(table, programs, i) : i \in viewed}
        item(s) == programs[CHOOSE i \in viewed : SlotFor(table, programs, i) = s]
    IN [s \in DOMAIN table |->
           IF s \in taken
           THEN [used |-> TRUE, id |-> item(s).id, content |-> item(s).content]
           ELSE Left(table[s], programs, viewed)]

\* The table of schedules after the second loop.
ScheduleTable(table, programTable, schedules) ==
    LET viewed  == ViewedSchedules(table, programTable, schedules)
        taken   == {SlotFor(table, schedules, i) : i \in viewed}
        item(s) == schedules[CHOOSE i \in viewed : SlotFor(table, schedules, i) = s]
    IN [s \in DOMAIN table |->
           IF s \in taken THEN [used |-> TRUE, id |-> item(s).id]
           ELSE Left(table[s], schedules, viewed)]

\* Entry n is the n-th schedule, whatever slot its id is in.
EntryTable(v, programTable, schedules) ==
    LET viewed == ViewedSchedules(v.schedules, programTable, schedules) IN
    [i \in ScheduleSlots |->
        IF i \in viewed
        THEN [id      |-> SlotFor(v.schedules, schedules, i),
              program |-> SlotOf(programTable, schedules[i].program),
              enabled |-> schedules[i].enabled,
              time    |-> schedules[i].time]
        ELSE v.entries[i]]

\* The second loop.
RebuildSchedules(v, programTable, schedules) ==
    [programs  |-> programTable,
     schedules |-> ScheduleTable(v.schedules, programTable, schedules),
     entries   |-> EntryTable(v, programTable, schedules)]

\* rebuild_runtime_views: without room for a program the schedules are left too.
Rebuild(v, c, rebuildPrograms) ==
    IF ~rebuildPrograms THEN RebuildSchedules(v, v.programs, c.schedules)
    ELSE LET programTable == ProgramTable(v.programs, c.programs) IN
         IF ViewedPrograms(v.programs, c.programs) = DOMAIN c.programs
         THEN RebuildSchedules(v, programTable, c.schedules)
         ELSE [v EXCEPT !.programs = programTable]

(***************************************************************************)
(* The scheduler's part                                                    *)
(***************************************************************************)

EntriesOf(v, n) == SubSeq(v.entries, 1, n)

\* What scheduler_service_configure_locked asks of the entries it is given.
Accepts(v, n) ==
    LET entries == EntriesOf(v, n) IN
    /\ \A i \in 1..n : entries[i].id # NoSlot /\ entries[i].program # NoSlot
    /\ \A i, j \in 1..n :
          v.schedules[entries[i].id].id = v.schedules[entries[j].id].id => i = j

\* Its entries after the call, if it had these before.
Configured(v, n, entries) == IF Accepts(v, n) THEN EntriesOf(v, n) ELSE entries

(***************************************************************************)
(* Changes.  A save that reports a failure may have reached the flash.     *)
(***************************************************************************)

\* programs_are_equal
ProgramsChange(candidate) == configuration.programs # candidate.programs

\* Mutant: only the scheduler gets its old entries back.
ForgetTheViews(v, programsChange, entries) ==
    /\ views' = v
    /\ schedulerEntries' = Configured(v, Len(configuration.schedules), entries)
    /\ UNCHANGED configuration

\* From the views v and the entries of the candidate back to those of the
\* configuration; if they are refused the scheduler keeps the candidate's.
TakeBack(v, programsChange, entries) ==
    LET old == Rebuild(v, configuration, programsChange) IN
    /\ views' = old
    /\ schedulerEntries' = Configured(old, Len(configuration.schedules), entries)
    /\ UNCHANGED configuration

\* replace_candidate
ReplaceCandidate(candidate) ==
    LET v == Rebuild(views, candidate, ProgramsChange(candidate))
        n == Len(candidate.schedules)
    IN
    /\ phase = "running"
    /\ Valid(candidate)
    /\ httpPc' = "idle"
    /\ \/ /\ Accepts(v, n) /\ repository
          /\ saved' = Stored(candidate)
          /\ configuration' = candidate
          /\ views' = v
          /\ schedulerEntries' = EntriesOf(v, n)
       \/ /\ TakeBack(v, ProgramsChange(candidate), Configured(v, n, schedulerEntries))
          /\ saved' \in IF Accepts(v, n) /\ repository
                       THEN {saved, Stored(candidate)} ELSE {saved}
    /\ UNCHANGED <<repository, phase, running, runningId>>

\* The handlers of programs ask program_service_is_active, then go on; no
\* lock is held in between.
CheckNoProgramActive ==
    /\ phase = "running" /\ httpPc = "idle"
    /\ running = NoSlot
    /\ httpPc' = "checked"
    /\ UNCHANGED <<configuration, views, schedulerEntries, repository, saved, phase,
                   running, runningId>>

CreateProgram(content) ==
    /\ httpPc = "checked"
    /\ Len(configuration.programs) < MaxPrograms
    /\ configuration.nextProgram <= MaxProgramId
    /\ ReplaceCandidate([configuration EXCEPT
          !.programs = Append(@, Program(configuration.nextProgram, content)),
          !.nextProgram = @ + 1])

UpdateProgram(i, content) ==
    /\ httpPc = "checked"
    /\ i \in DOMAIN configuration.programs
    /\ ReplaceCandidate([configuration EXCEPT !.programs[i].content = content])

IsReferenced(id) == \E s \in ToSet(configuration.schedules) : s.program = id

DeleteProgram(i) ==
    /\ httpPc = "checked"
    /\ i \in DOMAIN configuration.programs
    /\ ~IsReferenced(configuration.programs[i].id)
    /\ ReplaceCandidate([configuration EXCEPT !.programs = RemoveAt(@, i)])

\* The enabled flag is what the cell held before (SchedulerService).
CreateSchedule(program, enabled, time) ==
    /\ httpPc = "idle"
    /\ Len(configuration.schedules) < MaxSchedules
    /\ configuration.nextSchedule <= MaxScheduleId
    /\ ReplaceCandidate([configuration EXCEPT
          !.schedules = Append(@, Schedule(configuration.nextSchedule, program, enabled, time)),
          !.nextSchedule = @ + 1])

UpdateSchedule(i, program, time) ==
    /\ httpPc = "idle"
    /\ i \in DOMAIN configuration.schedules
    /\ ReplaceCandidate([configuration EXCEPT
          !.schedules[i].program = program, !.schedules[i].time = time])

SetScheduleEnabled(i) ==
    /\ httpPc = "idle"
    /\ i \in DOMAIN configuration.schedules
    /\ ReplaceCandidate([configuration EXCEPT !.schedules[i].enabled = ~@])

DeleteSchedule(i) ==
    /\ httpPc = "idle"
    /\ i \in DOMAIN configuration.schedules
    /\ ReplaceCandidate([configuration EXCEPT !.schedules = RemoveAt(@, i)])

\* The names of the zones are in no view.
RenameZone ==
    /\ httpPc = "idle"
    /\ ReplaceCandidate(configuration)

ConfiguredPrograms == {p.id : p \in ToSet(configuration.programs)}

Change ==
    \/ CheckNoProgramActive
    \/ \E content \in Contents :
          CreateProgram(content) \/ \E i \in ProgramSlots : UpdateProgram(i, content)
    \/ \E i \in ProgramSlots : DeleteProgram(i)
    \/ \E program \in ConfiguredPrograms, time \in Times :
          \/ \E enabled \in BOOLEAN : CreateSchedule(program, enabled, time)
          \/ \E i \in ScheduleSlots : UpdateSchedule(i, program, time)
    \/ \E i \in ScheduleSlots : SetScheduleEnabled(i) \/ DeleteSchedule(i)
    \/ RenameZone

(***************************************************************************)
(* Programs: started by the scheduler through an entry it was given, or by *)
(* the HTTP task through configuration_manager_program_at.                 *)
(***************************************************************************)

StartProgram(slot) ==
    /\ phase = "running" /\ running = NoSlot
    /\ slot # NoSlot
    /\ running' = slot
    /\ runningId' = views.programs[slot].id
    /\ UNCHANGED <<configuration, views, schedulerEntries, repository, saved, phase, httpPc>>

StartScheduled ==
    \E entry \in ToSet(schedulerEntries) : entry.enabled /\ StartProgram(entry.program)

StartByHand ==
    /\ httpPc = "idle"
    /\ \E id \in ConfiguredPrograms : StartProgram(SlotOf(views.programs, id))

ProgramEnds ==
    /\ running # NoSlot
    /\ running' = NoSlot
    /\ runningId' = 0
    /\ UNCHANGED <<configuration, views, schedulerEntries, repository, saved, phase, httpPc>>

(***************************************************************************)
(* Boot                                                                    *)
(***************************************************************************)

DefaultViews == Rebuild(NoViews, Default, TRUE)

\* initialize_configuration with a repository or not, then
\* configuration_manager_configure_scheduler, whose refusal ends app_main.
BootWith(c, v, hasRepository) ==
    /\ phase = "boot"
    /\ configuration' = c
    /\ views' = v
    /\ repository' = hasRepository
    /\ schedulerEntries' = Configured(v, Len(c.schedules), schedulerEntries)
    /\ phase' = IF Accepts(v, Len(c.schedules)) THEN "running" ELSE "halted"
    /\ UNCHANGED <<httpPc, running, runningId>>

BootLoaded ==
    /\ saved.is = "valid"
    /\ BootWith(saved.configuration, Rebuild(DefaultViews, saved.configuration, TRUE), TRUE)
    /\ UNCHANGED saved

\* No slot was ever written.
BootDefaultsPersisted ==
    /\ saved = Nothing
    /\ BootWith(Default, DefaultViews, TRUE)
    /\ saved' = Stored(Default)

\* Corrupt or of another schema: the defaults, which the next change saves.
BootDefaultsUnusable ==
    /\ saved # Nothing
    /\ BootWith(Default, DefaultViews, TRUE)
    /\ saved' = Unusable

\* The flash cannot be opened, read or, with nothing in it, written.
BootStorageError ==
    /\ BootWith(Default, DefaultViews, FALSE)
    /\ saved' \in IF saved = Nothing THEN {Nothing, Stored(Default)} ELSE {saved}

Boot == BootLoaded \/ BootDefaultsPersisted \/ BootDefaultsUnusable \/ BootStorageError

\* Of all this only the flash outlives a reset.
Reset ==
    /\ phase # "boot"
    /\ phase' = "boot"
    /\ configuration' = Default
    /\ views' = NoViews
    /\ schedulerEntries' = <<>>
    /\ repository' = FALSE
    /\ httpPc' = "idle"
    /\ running' = NoSlot
    /\ runningId' = 0
    /\ UNCHANGED saved

Init ==
    /\ phase = "boot"
    /\ configuration = Default
    /\ views = NoViews
    /\ schedulerEntries = <<>>
    /\ repository = FALSE
    /\ httpPc = "idle"
    /\ running = NoSlot
    /\ runningId = 0
    /\ saved = Nothing

Next == Change \/ StartScheduled \/ StartByHand \/ ProgramEnds \/ Boot \/ Reset

Spec == Init /\ [][Next]_vars

-----------------------------------------------------------------------------

Configurations ==
    [programs     : Seq([id : ProgramIds, content : Contents]),
     schedules    : Seq([id : ScheduleIds, program : ProgramIds,
                         enabled : BOOLEAN, time : Times]),
     nextProgram  : 1..(MaxProgramId + 1),
     nextSchedule : 1..(MaxScheduleId + 1)]

Entries ==
    [id : ScheduleSlots \cup {NoSlot}, program : ProgramSlots \cup {NoSlot},
     enabled : BOOLEAN, time : Times]

Views ==
    [programs  : [ProgramSlots -> [used : BOOLEAN, id : ProgramIds, content : Contents]],
     schedules : [ScheduleSlots -> [used : BOOLEAN, id : ScheduleIds]],
     entries   : [ScheduleSlots -> Entries]]

\* Type invariant.
ManagerTypeOK ==
    /\ configuration \in Configurations
    /\ saved \in [is : {"nothing", "unusable", "valid"}, configuration : Configurations]
    /\ views \in Views
    /\ schedulerEntries \in Seq(Entries)
    /\ repository \in BOOLEAN
    /\ phase \in {"boot", "running", "halted"}
    /\ httpPc \in {"idle", "checked"}
    /\ running \in ProgramSlots \cup {NoSlot}
    /\ runningId \in ProgramIds

\* Every program is in a slot of the table.
ProgramsShown(table, programs) ==
    \A i \in DOMAIN programs : \E s \in ProgramSlots :
       table[s] = [used |-> TRUE, id |-> programs[i].id, content |-> programs[i].content]

\* An entry of the scheduler for a schedule, pointers followed.
Shows(v, entry, schedule) ==
    /\ entry.id # NoSlot /\ v.schedules[entry.id] = [used |-> TRUE, id |-> schedule.id]
    /\ entry.enabled = schedule.enabled
    /\ entry.time = schedule.time
    /\ entry.program # NoSlot /\ entry.program = SlotOf(v.programs, schedule.program)

InForceWith(v, entries, c) ==
    /\ ProgramsShown(v.programs, c.programs)
    /\ Len(entries) = Len(c.schedules)
    /\ \A i \in DOMAIN entries : Shows(v, entries[i], c.schedules[i])

\* What can be run, by hand and by the scheduler, is what is configured.
InForce == InForceWith(views, schedulerEntries, configuration)

\* Through any sequence of changes, edits, deletions and insertions in any
\* order, with every save that fails and is taken back: a configuration that
\* is in force is followed by one that is, the new one or the old one again.
ChangesStayInForce ==
    [][phase = "running" /\ phase' = "running" /\ InForce => InForce']_vars

\* The pointer a running program is read through is good.
RunningProgramInPlace ==
    running # NoSlot =>
        /\ views.programs[running].used
        /\ views.programs[running].id = runningId

\* It stays good, though a change of the programs asks for an active program
\* before the mutex and a start by the scheduler may come in between: the slot
\* is neither freed nor given to another program until the program ends.  This
\* is for a configuration in force: otherwise the scheduler may have the entry
\* of a schedule that is no more, and start a program that may be deleted.
RunningProgramStaysInPlace ==
    [][InForce /\ RunningProgramInPlace => RunningProgramInPlace']_vars

\* There is a slot for what the defaults have and c has not.
HasRoom(c) ==
    /\ Len(c.programs) < MaxPrograms \/ \E p \in ToSet(c.programs) : p.id = 0
    /\ Len(c.schedules) < MaxSchedules \/ \E s \in ToSet(c.schedules) : s.id = 0

\* The boot puts what it loads in force, the views of the defaults before it
\* notwithstanding, if there is room for those (LoadedConfigurationIsInForce
\* says what happens otherwise).
BootWithRoomSucceeds ==
    [][Boot /\ HasRoom(configuration') => phase' = "running" /\ InForce']_vars

\* A configuration that was accepted and saved is in force after a reboot.
LoadedConfigurationIsInForce == phase # "boot" => phase = "running" /\ InForce
=============================================================================

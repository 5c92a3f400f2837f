# The irrigation controller's firmware in TLA+

Specifications of the firmware in `src/firmware`: the state it keeps, the
services that change it, the two tasks that call them at the same time, the
driver calls that fail under them, and the flash that loses power under it.
TLC checks them on small instances, TLAPS proves the central results for all
sizes. `PROJECT.json` lists every run, theorem and hazard, and for every
definition the lines of the source it stands for.

## The system

The firmware opens irrigation zones, one at a time, behind a remote master
valve. Users do it by hand over HTTP, programs (sequences of zones) do it step
by step, and schedules start programs.

| Component | State | Operations | Correct when |
| --- | --- | --- | --- |
| State store (`app/state`) | system state, zones and their outputs, master valve, program, occurrences handled per schedule entry; a plain struct | one call per transition, each with its guard | one zone open, none behind a closed master valve, ERROR ends in a reboot only |
| Zone service (`domain/zones`) | a try-lock | open, close, safe_close, process_timeouts | one relay energised, the store truthful about the relays, a lost relay is an ERROR |
| Master valve service (`domain/master_valve`) | a try-lock | open, process_time, close | OPENING and OPEN said of an open valve only, CLOSED of a closed one once the driver has been asked, CLOSING never stays |
| Program service (`domain/programs`) | a try-lock, the program | start, process, abort | every open zone belongs to the running program, every program ends |
| Scheduler service (`domain/scheduler`) | the entries; occurrences in the store; a mutex around it | process, configure_locked | one start per occurrence, entries are those of the configuration |
| Configuration manager (`app/configuration`) | configuration, candidate, runtime views | one operation per edit, all through replace_candidate | a change is made everywhere or nowhere |
| Configuration repository (`infrastructure/persistence`) | two slots of flash with generations | load, save | a save is atomic under power loss and durable |
| Output driver (`hal/outputs`, `hal/mcp23017`) | a mask of the relays it has switched on | safe off, set an output | one relay changes per call, a failed write leaves no bit behind |
| Remote valve driver (`hal/master_valve`) | none; two HTTP exchanges per call | open, close, each confirmed | what it confirms is what the valve does |
| Boot (`app_main` in `main/system_ready.c`) | none | outputs off, READY, configuration, zones, services, tasks | no task runs before the outputs are off |
| Execution history (`domain/history`) | bounded records, one in progress | event handler | one record per run |
| Status LED, command bus, event bus, Wi-Fi, boards, logging | | | |

**Tasks.** `scheduler_task` (`main/system_ready.c`) goes round every 200 ms: the
master valve's delay, the running program, and every 30 s the schedules. The HTTP
server serves one request at a time, on a task of its own. The Wi-Fi event task
touches the status LED only. Nothing else runs.

**Shared state.** Both tasks call the three services and, through them, write
the store, which has no lock of its own. Each service guards its operations by an
`atomic_flag` that is tried and never waited for: a caller who finds it taken
gets REJECTED, the same result as for a refused operation. Three locks guard one
store, so a service that decides on what another one writes decides on a moving
target. The scheduler and the configuration manager share a blocking mutex.

**What is hard.** The interleaving of the two tasks at every point where a
service reads what its lock does not guard; rejections by contention taken for
failures; driver calls that fail with the relay or the remote valve in an unknown
state; the order of loss, write and read-back in the flash; the identity of
schedule entries that change position under the poll; pointers into tables that a change
rewrites; a reset that forgets everything but leaves relays and valve as they are. `PROJECT.json` lists the
hazards at their lines, with the properties that cover them.

## The modules

```
   FirmwareTasks   StateStore
           \        /      \
ZoneValves  ZoneService   MasterValveService
   .....'     |     \        /      |
     OutputDriver  ProgramService  ShellyMasterValve
                        |
                    Controller      SchedulerService
                        |           ConfigurationManager
                    Firmware        ConfigurationRepository
```

A line down is EXTENDS, the dotted one INSTANCE. Every module `X` checked on its own
has an `MCX` with its instance (`OutputDriver` in `MCZoneService`, `ShellyMasterValve` in
`MCMasterValveService`). The proofs are in `XProofs`; those of the store are in
`ZoneServiceProofs`, those of the two drivers in `DriverProofs`. Specifications implement each other
along these chains, checked by TLC and proved:

```
OutputDriver      =>  ZoneService         =>  ZoneValves
ShellyMasterValve =>  MasterValveService
Controller        =>  ZoneService, MasterValveService
```

Each is a refinement: the variables of the specification below are those above or, for
ZoneValves, functions of them (`energised <- relays`, `faulted <- systemState = "ERROR"`).

**StateStore** has one operator per call of `state_store.c`, its guard the early
returns, and a small specification (`StoreSpec`) that makes each call an atomic
step, in any order. Timestamps are replaced by a flag per delay that is raised by
a step of its own (`PreOpenDelayElapses`, `StepDelayElapses`). A zone's output is
named by the zone (each zone has exactly one). System states and zone states that
no code assigns (RUNNING, MAINTENANCE, OTA; OPENING, CLOSING of a zone) are left
out.

**ZoneService** splits an operation where another task can see or change
something: at the lock, at each reading of the master valve, at the driver call
and at the write to the store. `zonePc[t]` is where task `t` stands; a result
stays in it until the caller collects it. A driver call that fails may have done
what it was asked, or not, or turned off other relays too (the output driver's
`ensure_safe_off`); even one that succeeds may leave fewer relays on than before. That is all
the service may rely on (`DriveOn`, `DriveOff`). `ZoneSpec` is the service
under arbitrary clients, with a master valve that changes at any moment.

**ZoneValves** is what the service promises, without tasks, locks, calls or records: a valve
is energised only with all others released, and never after a fault.

**OutputDriver** puts the driver of the controller board under the service: the mask, the latch
that one write sets as a whole, the write that fails and the one that then clears the latch, each of
which may or may not have reached it. The driver calls replace those of the service, the
other steps are the service's own. The driver never reads the port back; `MaskIsEnergised` says
why that does no harm.

**MasterValveService** does the same for the remote valve, whose answer can be
lost after it has moved, and which may carry out a request the driver has given up on
(`RemoteValveWorks`: then the store says FAULT). `MasterSpec` is the service under arbitrary
clients, with outputs that change at any moment. The valve starts in either position: the store's
initial CLOSED is a value nobody has asked the valve for, and neither `master_valve_service_init` nor
`app_main` asks or closes it. So `RemoteValveIsKnown` speaks of OPENING and OPEN, and of CLOSED there is
`ClosedIsConfirmed`: no step makes a CLOSED false, so only that first one can be. It is an action property because
the truth of a CLOSED depends on whether one has been confirmed.

**ShellyMasterValve** puts the Shelly driver under the service: `Switch.Set`, then
`Switch.GetStatus`, compared with what was asked; neither is tried again. Requests
travel in `inbox`: they are carried out in order, answered without being carried out, or
lost, also long after the call has timed out. The order is an assumption: each request is a
connection of its own, and a Set that a later one overtakes is outside the model. The inbox is
empty at the start: what the last boot has sent is carried out or lost before the valve is asked again, which
is assumed of a reset in Firmware too. A driver
without a host rejects every call and is covered by `ExchangeFails`.

**ProgramService** has every call it makes of the two services as two steps, the
call and the collection of the result; between them the called service and the
other task run. What is read without its lock (whether a program is active, the
state of the master valve) is read in steps of its own. A start that the store
rejects has replaced `service->program` before, and the code after it reads steps
from the wrong program: `StepZones` then allows every zone.

**Controller** is the firmware: the loop of `scheduler_task` and the HTTP handlers.
`Requests` restricts what users ask for in an instance. Which programs are due is
left open (`FindDue`); that is SchedulerService's subject. HTTP handlers call
each service only as their code does: `safe_close` and `process_timeouts`
of the zone service exist and are modelled, but nothing in the firmware
calls them.

**Firmware** is the controller from one reset to the next: a reset at any moment, in the boot
too, clears the memory and leaves the relays (or not, if the power went) and the remote valve as
they were. `app_main` then switches the outputs off, enters READY, configures the zones and
starts the tasks, or stops for ever where it returns.

**SchedulerService** has the poll step by step under the mutex, and the edits of
schedules, `replace_candidate`'s lock, configure, save and rollback included. An
entry's handled occurrence lives at its position. What each schedule has handled is kept a second time
by id (`lastHandled`), with the ids whose entry a change has touched since (`forgotten`): two history
variables that no action reads, against which the cells are compared. `configure_locked`
finds an old entry by its whole content, so an entry that is edited, disabled or enabled, or that
comes back from a change that was taken back, remembers nothing. A program that was started, is aborted and
whose schedule is disabled and enabled again within the minute therefore starts again: this is what the code does, and
the one exception `StartsOncePerOccurrence` makes. Weekdays and minutes are those of a short calendar, and weeks
follow one another; the code numbers them `year * 54 + ISO week`, which falls back or repeats at the turn of a year
(days of the two ends of one calendar year can share a number), and this is left out.

**ConfigurationManager** has the configuration and the tables of runtime views that the
scheduler's entries and a running program point into. `Rebuild` gives the tables that the loops of
`rebuild_runtime_views` end with: a known id keeps its slot, the k-th new one gets the k-th slot
that is free (`SlotFor`), slots are freed at the end, and a loop that finds none returns at
once, with what it has done so far and nothing freed. A change is one step, as the mutex makes it one for all who read the views under it; what
is not under the mutex, the question of program_save_handler whether a program is active,
is a step of its own. A roll-back gives the scheduler the old entries like any new ones; if it refuses them it
keeps those it has, the candidate's if it took them before. Ids are numbers, a program's name and steps one value, a schedule's days and
minute one.

**ConfigurationRepository** has boot, change, save and the two slots. A blob is its
state (what decode makes of it), its generation and its configuration. A write may
be refused, torn (the blob is corrupt) or done but reported as failed; a read may
fail; power may go at any step; a slot may decay, its payload so that the CRC finds it
corrupt, its generation unnoticed, as the CRC covers the payload only. The generation is a counter that wraps to 0 after
`MaxGeneration` (2^32 - 1 in the code), and a save that would carry 0 is refused.

Left out everywhere: events published, logging, wording of answers, rendering.

## The runs

| Run | Instance | Shows |
| --- | --- | --- |
| `zone_service` | `OutputDriver`; 2 tasks, 2 enabled zones, 1 disabled, symmetric | one relay; store, mask and board agree; ERROR means off; refinement of `ZoneSpec` and `ValvesSpec` |
| `master_valve_service` | `ShellyMasterValve`; 3 tasks, 1 output, symmetric, 3 requests under way | OPENING and OPEN are true, every CLOSED but that of the start is confirmed, no stuck CLOSING, no stray request; refinement of `MasterSpec` |
| `controller` | both tasks, 2 zones, 2 programs, all requests but `master_open` | program lock; refinement of `ZoneSpec` and `MasterSpec` |
| `programs` | `Firmware`; as above with resets, requests `program_abort` and `master_open`, fairness | energised relays and open zones are programmed, no dry zone, programs end |
| `configuration` | 3 configurations, generations to 5, 2 storage faults | the save is safe, atomic and durable |
| `configuration_manager` | tables of 2 programs and 2 schedules, 2 new programs, 1 new schedule | changes stay in force, a running program's slot is its own, a boot with a slot to spare puts in force what it loads |
| `scheduler` | 2 schedules, 2 minutes, 2 weeks, 5 changes | entries are those in force and remember what is theirs; one start per occurrence, except that a change which touches the very entry (edit, toggle), kept or taken back, lets it start again |
| `write_skew`, `fault_leaves_zone`, `fault_overwritten` | `Controller`, fewer requests | findings 1 to 3 |
| `saved_not_reloaded` | `ConfigurationRepository` | finding 4 |
| `boot_drops_views` | `ConfigurationManager`, 2 new schedules | finding 5 |

**Bounds.** Two tasks are all there are; the services are checked with two or three
because their locks are pairwise. Two enabled zones are needed to break the
one-active-zone rule, a disabled one to reject an opening; a second program is
what a rejected start swaps in; its steps differ from the first's, and its length
too. No path of a service looks at more than one zone besides its own. Three
configurations tell the one in force, the candidate and an older one apart;
generations to 5 reach the wrap after five saves; two faults let one slot
be corrupt while another fault happens. Tables of two fill up, and with two programs beyond the
default every slot is freed and given away again. Programs have one content there, so that an edit of
name and steps changes nothing: that edits reach the views is checked for schedules only (program and flag) and proved
for both (`RebuildShows`). Three requests under way to the valve are those of two calls that timed out and of
the one in progress; the proofs are for any number. Two cells for schedules let an entry move
and another inherit its cell; two minutes and two weeks let an occurrence pass and come
again on the same weekday; five changes create two, delete the first, edit the second and roll
back. `master_open` by hand is checked in `programs` and in `master_valve_service`
and left out of `controller` to keep it small: there `MasterSpec` allows it at any moment anyway.

**Fairness** is assumed in `programs` only, for `ProgramEnds`. `WF_vars(SchedTask)`: the loop
sleeps with `vTaskDelay`, and blocks on driver calls that have timeouts.
`WF_vars(HttpTask)`: a request that has been received is served. `MasterDelayElapses`
and `ProgramDelayElapses`: time passes. All of it holds only while the tasks run: resets may go on
for ever and the boot may stop. Users need not make any request. The property would
fail if users closed the master valve while a program waits for it: the program then
waits for a valve nobody opens; this is listed as a hazard.

**Deadlock** is checked in every run: the try-locks and the mutex leave no task waiting for ever
(where the boot may stop for ever, in `Firmware` and `ConfigurationManager`, a reset is always possible).

**Mutants.** Every property of a passing run has a mutant: a definition marked
"Mutant:" stands before the one it replaces, and the run then finds the property violated.

## Findings

1. **Write skew** (`write_skew`). `master_valve_service_close` looks at the outputs,
   `zone_service_open` looks at the master valve, each under its own lock. Both
   may pass, and a zone is open behind a closed valve, with no failure reported.
2. **A fault leaves a zone open** (`fault_leaves_zone`). When the HTTP task is inside the
   zone service as a program wants to close its zone, REJECTED is taken for a
   failure: the program faults, the zone stays open, and no timeout closes it.
3. **A fault is overwritten** (`fault_overwritten`). `program_service_abort` asks whether a
   program is active before it takes the lock. If the program faults in between, abort
   overwrites FAULT with ABORTED, which lets programs start again.
4. **A saved configuration is not loaded** (`saved_not_reloaded`). With a corrupt slot B whose
   generation is readable, `save` writes generation 1, below that of a valid slot A.
   The save is reported as done, the next boot loads the older one.
5. **The boot drops views** (`boot_drops_views`). The views of the defaults are built before the saved
   configuration is loaded, and no slot is freed until the new views are complete. A configuration
   that fills a table and has lost the default program or schedule finds one slot too few. With
   all 4 programs replaced one of them cannot be run; with all 16 schedules replaced, or with
   4 programs and two schedules or more, the scheduler refuses the entries and `app_main` ends, at every boot.

   The proofs say when this does not happen: when every boot finds a slot to spare in each
   table, or the defaults still in it (`LoadedWithRoomIsInForce`). They also showed a consequence. The
   rebuild that returned early has freed nothing and the scheduler keeps its old entries; in
   tables of three or more it may then start a program whose schedule is long deleted, which can be deleted
   while it runs. `RunningProgramStaysInPlace` is therefore stated for a configuration in force.

Two more observations stand under "hazards" without a property, as no document says what should
happen: an edit copies the new steps over those of a running program, and a boot with both slots unusable
runs the defaults, which the next change saves over them. A third has one: a change makes the schedule it touched forget that it
has run in this minute, also when it is taken back (`StartsOncePerOccurrence` names it as its exception).

## What is proved

All proofs are checked by `tlapm`, for every value of the constants that satisfies the
`ASSUME`s of the modules (identifiers of no task, no zone and no program are none of the
sets' members, programs have at least one step, ...). Every invariant and every action property of
the passing runs is a theorem, and so is every refinement.

**ZoneServiceProofs.** The store's invariants are inductive as they stand, taken together
(`StoreInv`), with each call atomic and in any order. In the service, `OneRelayEnergised` speaks of the
board and the guards speak of the store. `ZoneInv` ties them: every relay is as its output says, unless the
holder of the lock is just driving that zone (`RelayInv`), and then the holder's place in the code
says enough (`HolderInv`); there is one holder (`ZoneLockIsOwned`) and one zone open or at fault
(`OneBusyZone`). Each conjunct has a lemma over the steps of a task, with one case
per action. From it also: no two zones are recorded open, the records of a zone agree, ERROR is never
left, and every step is one of `ZoneValves` or leaves its valves alone.

**MasterValveServiceProofs.** `MasterInv`, the invariants taken together; what the remote valve
does is known because it is only moved under the lock or when its state is FAULT. `MasterInv` holds of a valve
that starts open behind CLOSED; `ClosedValveStep` shows that no step makes a CLOSED false, hence
`ClosedValveCorrect` and, once the store has left its first CLOSED, `ClosedIsTrueOnceLeft`.

**DriverProofs.** The mask of the board's driver is a subset of the relays (inductive with the type), so
a write for one zone can energise no other, and every call of the driver is one that `ZoneSpec` allows.
For the Shelly driver, `ExchangeInv`: once the Set of a call has been served nothing is under
way, and before that older requests only if the valve is recorded in FAULT. So the status comes
after every request, and the valve moves by itself only when `MasterSpec` lets it.

**ControllerProofs.** A refinement. `ProgramInv` (the program lock, the index, a program chosen
before it is used) shows that programs call the zone service with zones, and then every
step of the firmware is a step of `ZoneSpec` and of `MasterSpec` or changes nothing of them.
One relay energised is thereby inherited by the whole firmware. `FaultIsFinalWithoutAborts` is the
converse of finding 3.

**FirmwareProofs.** Resets, and what the three services guarantee together.
`FirmwareInv` says what each stage of `app_main` has established before the tasks run, and that the
invariants above hold while they do: one relay at most, nothing energised after a fault and a master valve
recorded OPEN that is open, through every reset. The other properties of `programs` hold only if users keep away from some
operations, and the theorems assume that of `Requests` and of nothing else:

| Theorem | If users make no request | Then |
| --- | --- | --- |
| `NoWriteSkewWithoutManualCalls` | `zone_open`, `master_close` | no zone is open behind a closed master valve |
| `OpenZonesAreProgrammed` | `zone_open`, `zone_close`, `program_start` | an open zone is the step of a running program |
| `EnergisedRelaysAreProgrammed` | the same | so is an energised relay, or its output is UNKNOWN |
| `FaultsLeaveNoZoneOpen` | the same | a program that faults leaves no zone open |

The first and the last are the converses of findings 1 and 2. What is missing in the findings is
here supplied by the program lock: if only programs open zones and close the
master valve, the two operations exclude each other although their own locks do not
(`NoSkewInv`); if only programs use the zone service, they are never turned away from it
(`ScheduledInv`: who is inside the zone service, at what place of the program, for which
zone, and at which places of a program no zone is open).

**SchedulerServiceProofs.** `SchedulerInv`: who holds the mutex and where (`MutexInv`), the entries and
the configuration they follow at each point of a change (`FollowInv`), and what cells
remember of which entry (`MemoryInv`); ids are distinct, so an entry has one predecessor. In the middle of a change what it
touches is in `forgotten` already, so that `HandledFollowsEntry` holds at every moment and taking the change back
forgets no more.

**ConfigurationRepositoryProofs.** `SparingInv` (the slot being written is not the one a load
selects) for `SaveSparesLoadedSlot` under any faults; `DurableInv` (slots are sound, the save under way
is newer, and what a boot would load follows the save) for `ChangeIsAtomicAndDurable`.

**ConfigurationManagerProofs.** In three parts. First one table and one loop: no
two items get the same slot, an item that is known keeps its own, and every item gets one if they fit
beside what is still to be freed (`SlotForFacts`, `RoomSuffices`, `RefilledFacts`). Then
`Rebuild`, the same of both tables and the entries (`RebuildGood`, `RebuildKeeps`, `RebuildShows`). Then
steps: a change only adds or only removes, so there is room for it and for the way
back if the save fails (`CandidateViews`). The invariant `ManagerInv` needs two things the
properties do not say. Tables are "settled": a slot in use that no item of the configuration has is
there only if some item has none; without that a leak could fill a table while the configuration is in
force. And a program that was started after a handler saw none active has a schedule, because
only the scheduler can have started it; so the deletion that follows is refused.

Only model-checked: `ProgramEnds`, as liveness under fairness is out of the prover's reach, and the
five violations.

## What is not modelled

* The execution history: no code of the firmware reads it and nothing depends on it. Its one hazard, the
  full table, is listed.
* The status LED: its colour is chosen anew from three flags in every round of the loop.
* The drivers of the development kit: one pin per output, a valve that always confirms.
* Parsing of the valve's answers, of queries and of the blob; texts and ranges of a configuration; they
  count by their verdict.
* The reboot of the scheduler: its memory is empty after a reset, by design.
* The command bus and `scheduler_service_set_enabled`: only tests call them. Wi-Fi, the boards,
  logging, rendering: input and output only.
* Overtaking among requests to the remote valve (see ShellyMasterValve).

## What could come next

A copy of a program's steps that an edit changes while it runs, step by step; the poll
of every minute, which needs bounds on the time-outs of the drivers; the configuration manager
and the scheduler in one module, so that the entries kept by a rebuild that returned early are polled;
the write skew excluded when both sides hold one lock, as a variant of the two services.

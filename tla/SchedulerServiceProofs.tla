----------------------- MODULE SchedulerServiceProofs -----------------------
(***************************************************************************)
(* The scheduler against the changes of its schedules, for any number of   *)
(* schedules, changes, weeks and minutes.                                  *)
(*                                                                         *)
(* While no change is under way the entries are those of the configuration *)
(* in force, while one is they are those of the candidate (FollowInv); the *)
(* mutex separates the two.  What an entry remembers can be found by its   *)
(* contents because the identifiers of a configuration are distinct        *)
(* (DistinctIds): two versions of a schedule never answer to the same      *)
(* entry.  MemoryInv says of the middle of a change that what it has       *)
(* touched is forgotten already, so that taking it back forgets no more.   *)
(***************************************************************************)
EXTENDS SchedulerService, SequenceTheorems, TLAPS

\* The identifiers given out so far, each to one schedule.
DistinctIds(c, used) ==
    /\ c \in Candidates
    /\ c.nextId \in 1..(used + 1)
    /\ \A i \in 1..c.count : c.schedules[i].id \in 1..(c.nextId - 1)
    /\ \A i, j \in 1..c.count : c.schedules[i].id = c.schedules[j].id => i = j

TypeInv ==
    /\ SchedulerTypeOK
    /\ changes \in 0..MaxChanges
    /\ DistinctIds(Unchanged, changes)
    /\ httpPc # "idle" => DistinctIds(candidate, changes)

MutexInv ==
    /\ mutex = "scheduler" <=> schedPc \in {"scan", "start"}
    /\ mutex = "http" <=> httpPc = "save"

FollowInv ==
    /\ EntriesFollowConfiguration
    /\ mutex = "http" => entries = View(candidate)

\* Cell i remembers what the schedule of entry e has handled, if no change has
\* touched it since.
Remembers(i, e) ==
    handled[i].occurrence = IF e.id \in forgotten THEN Unhandled ELSE lastHandled[e.id]

MemoryInv ==
    /\ HandledFollowsEntry
    /\ mutex = "http" => Replaced \subseteq forgotten
    /\ schedPc = "start" => index \in DOMAIN entries /\ IsDue(index)

SchedulerInv == TypeInv /\ MutexInv /\ FollowInv /\ MemoryInv

-----------------------------------------------------------------------------
(* The operators. *)

\* The entries made of a configuration are its schedules up to its count.
LEMMA ViewProperties ==
    ASSUME NEW c \in Candidates
    PROVE  /\ View(c) \in Seq(Entries)
           /\ Len(View(c)) = c.count
           /\ DOMAIN View(c) = 1..c.count
           /\ \A i \in 1..c.count : View(c)[i] = c.schedules[i]
           /\ ToSet(View(c)) = {c.schedules[i] : i \in 1..c.count}
<1>1. c.count \in 0..MaxSchedules /\ c.schedules \in [Cells -> Entries] /\ MaxSchedules \in Nat
  BY SchedulerAssumption DEF Candidates
<1>2. \A i \in 1..c.count : c.schedules[i] \in Entries
  BY <1>1 DEF Cells
<1>3. /\ View(c) \in Seq(Entries)
      /\ Len(View(c)) = c.count
      /\ \A i \in 1..c.count : View(c)[i] = c.schedules[i]
  BY <1>1, <1>2, SubSeqProperties DEF View
<1>4. DOMAIN View(c) = 1..c.count
  BY <1>3, LenProperties
<1>. QED  BY <1>3, <1>4 DEF ToSet

\* A minute of the clock is a time as long as the week is.
LEMMA NextMinuteType ==
    ASSUME clock \in Times, NextMinute(clock).week <= MaxWeek
    PROVE  NextMinute(clock) \in Times
  BY SchedulerAssumption DEF Times, Weekdays, Minutes, NextMinute

\* An occurrence of the clock is one of the occurrences.
LEMMA OccurrenceType == \A t \in Times : Occurrence(t) \in Occurrences
  BY DEF Occurrences

\* What a change touches are schedules.
LEMMA ReplacedIds ==
    ASSUME Unchanged \in Candidates, candidate \in Candidates
    PROVE  Replaced \subseteq Ids
<1>1. ASSUME NEW c \in Candidates, NEW e \in ToSet(View(c))
      PROVE  e.id \in Ids
  <2>1. e \in Entries
    BY <1>1, ViewProperties, ElementOfSeq, LenProperties DEF ToSet
  <2>. QED  BY <2>1 DEF Entries
<1>. QED  BY <1>1 DEF Replaced

\* What an entry remembers after a change is of the type of what it did before.
LEMMA ConfigureType ==
    ASSUME handled \in [Cells -> [occurrence : Occurrences, status : Statuses]],
           entries \in Seq(Entries), Len(entries) <= MaxSchedules,
           NEW new \in Seq(Entries), ConfigureLocked(new)
    PROVE  handled' \in [Cells -> [occurrence : Occurrences, status : Statuses]]
<1>1. NotHandled \in [occurrence : Occurrences, status : Statuses]
  BY DEF NotHandled, Handled, Occurrences, Statuses
<1>2. ASSUME NEW i
      PROVE  Preserved(new, i) \in [occurrence : Occurrences, status : Statuses]
  <2>1. CASE \E p \in DOMAIN entries : entries[p] = new[i]
    <3>. DEFINE p == CHOOSE q \in DOMAIN entries : entries[q] = new[i]
    <3>1. p \in DOMAIN entries
      BY <2>1
    <3>2. p \in Cells
      BY <3>1, LenProperties, SchedulerAssumption DEF Cells
    <3>. QED  BY <2>1, <3>2 DEF Preserved
  <2>2. CASE ~\E p \in DOMAIN entries : entries[p] = new[i]
    BY <2>2, <1>1 DEF Preserved
  <2>. QED  BY <2>1, <2>2
<1>. QED  BY <1>2 DEF ConfigureLocked

-----------------------------------------------------------------------------
(* Types, identifiers and the mutex. *)

\* Identifiers stay distinct where each schedule has its old one or a new one.
LEMMA DistinctIdsKept ==
    ASSUME TypeInv, changes < MaxChanges,
           NEW s \in [Cells -> Entries], NEW n \in 0..MaxSchedules,
           NEW id \in {nextId, nextId + 1},
           \A i \in 1..n : s[i].id \in 1..(id - 1),
           \A i, j \in 1..n : s[i].id = s[j].id => i = j
    PROVE  DistinctIds(Configuration(s, n, id), changes + 1)
  BY SchedulerAssumption
  DEF TypeInv, DistinctIds, Candidates, Unchanged, Configuration

\* Each change of the schedules leaves the identifiers distinct.
LEMMA ChangesKeepIdsDistinct ==
    ASSUME TypeInv, ScheduleChange
    PROVE  DistinctIds(candidate', changes')
<1>. USE SchedulerAssumption DEF Change, Cells
<1>1. /\ schedules \in [Cells -> Entries] /\ count \in 0..MaxSchedules
      /\ nextId \in Nat \ {0} /\ nextId <= changes + 1 /\ changes \in 0..MaxChanges
      /\ \A i \in 1..count : schedules[i].id \in 1..(nextId - 1)
      /\ \A i, j \in 1..count : schedules[i].id = schedules[j].id => i = j
  BY DEF TypeInv, DistinctIds, Unchanged, Configuration, Candidates
<1>2. ASSUME NEW days \in SUBSET Weekdays, NEW m \in Minutes, CreateSchedule(days, m)
      PROVE  DistinctIds(candidate', changes')
  <2>. DEFINE e == Entry(nextId, schedules[count + 1].enabled, days, m)
              s == [schedules EXCEPT ![count + 1] = e]
  <2>1. changes < MaxChanges /\ count + 1 \in Cells
    BY <1>1, <1>2 DEF CreateSchedule
  <2>2. schedules[count + 1] \in Entries /\ nextId \in Ids
    BY <1>1, <2>1 DEF Ids
  <2>3. e \in Entries /\ e.id = nextId
    BY <1>1, <2>2 DEF Entries, Entry
  <2>. HIDE DEF e
  <2>4. /\ s \in [Cells -> Entries]
        /\ \A i \in 1..(count + 1) : s[i] = IF i = count + 1 THEN e ELSE schedules[i]
    BY <1>1, <2>1, <2>3
  <2>5. /\ \A i \in 1..(count + 1) : s[i].id \in 1..((nextId + 1) - 1)
        /\ \A i, j \in 1..(count + 1) : s[i].id = s[j].id => i = j
    BY <1>1, <2>3, <2>4
  <2>6. candidate' = Configuration(s, count + 1, nextId + 1) /\ changes' = changes + 1
    BY <1>2 DEF CreateSchedule, e
  <2>7. count + 1 \in 0..MaxSchedules
    BY <1>1, <2>1
  <2>. HIDE DEF s
  <2>. QED  BY <2>1, <2>4, <2>5, <2>6, <2>7, DistinctIdsKept
<1>3. ASSUME NEW i \in Cells, i <= count, NEW enabled \in BOOLEAN,
             NEW days \in SUBSET Weekdays, NEW m \in Minutes,
             EditSchedule(i, enabled, days, m)
      PROVE  DistinctIds(candidate', changes')
  <2>. DEFINE e == Entry(schedules[i].id, enabled, days, m)
              s == [schedules EXCEPT ![i] = e]
  <2>1. e \in Entries /\ e.id = schedules[i].id
    BY <1>1 DEF Entries, Entry
  <2>2. /\ candidate' = Configuration(s, count, nextId)
        /\ changes' = changes + 1 /\ changes < MaxChanges
    BY <1>3 DEF EditSchedule
  <2>. HIDE DEF e
  <2>3. s \in [Cells -> Entries] /\ \A k \in 1..count : s[k].id = schedules[k].id
    BY <1>1, <1>3, <2>1
  <2>. HIDE DEF s
  <2>. QED  BY <1>1, <2>2, <2>3, DistinctIdsKept
<1>4. ASSUME NEW i \in Cells, ToggleSchedule(i)
      PROVE  DistinctIds(candidate', changes')
  <2>1. schedules[i] \in Entries
    BY <1>1
  <2>. QED  BY <1>3, <1>4, <2>1 DEF ToggleSchedule, Entries
<1>5. ASSUME NEW days \in SUBSET Weekdays, NEW m \in Minutes, NEW i \in Cells,
             UpdateSchedule(i, days, m)
      PROVE  DistinctIds(candidate', changes')
  <2>1. schedules[i] \in Entries
    BY <1>1
  <2>. QED  BY <1>3, <1>5, <2>1 DEF UpdateSchedule, Entries
<1>6. ASSUME NEW i \in Cells, DeleteSchedule(i)
      PROVE  DistinctIds(candidate', changes')
  <2>1. /\ changes < MaxChanges /\ i <= count /\ count - 1 \in 0..MaxSchedules
        /\ candidate' = Configuration(Without(i), count - 1, nextId)
        /\ changes' = changes + 1
    BY <1>1, <1>6 DEF DeleteSchedule
  <2>2. Without(i) \in [Cells -> Entries]
    BY <1>1 DEF Without
  <2>. DEFINE from(k) == IF k >= i THEN k + 1 ELSE k
  <2>3. /\ \A k \in 1..(count - 1) : from(k) \in 1..count /\ Without(i)[k] = schedules[from(k)]
        /\ \A k, j \in 1..(count - 1) : from(k) = from(j) => k = j
    BY <1>1, <2>1 DEF Without
  <2>. HIDE DEF from
  <2>4. /\ \A k \in 1..(count - 1) : Without(i)[k].id \in 1..(nextId - 1)
        /\ \A k, j \in 1..(count - 1) : Without(i)[k].id = Without(i)[j].id => k = j
    <3>1. ASSUME NEW k \in 1..(count - 1)
          PROVE  Without(i)[k].id \in 1..(nextId - 1)
      BY <1>1, <2>3
    <3>2. ASSUME NEW k \in 1..(count - 1), NEW j \in 1..(count - 1),
                 Without(i)[k].id = Without(i)[j].id
          PROVE  k = j
      <4>1. from(k) = from(j)
        BY <1>1, <2>3, <3>2
      <4>. QED  BY <2>3, <4>1
    <3>. QED  BY <3>1, <3>2
  <2>. QED  BY <1>1, <2>1, <2>2, <2>4, DistinctIdsKept
<1>7. CASE ChangeElsewhere
  <2>1. changes < MaxChanges /\ candidate' = Unchanged /\ changes' = changes + 1
    BY <1>7 DEF ChangeElsewhere
  <2>. QED  BY <1>1, <2>1, DistinctIdsKept DEF Unchanged
<1>. QED  BY <1>2, <1>4, <1>5, <1>6, <1>7 DEF ScheduleChange

\* Types, identifiers and mutual exclusion together.
LEMMA TypeStep == TypeInv /\ MutexInv /\ [Next]_vars => TypeInv' /\ MutexInv'
<1>. SUFFICES ASSUME TypeInv, MutexInv, [Next]_vars PROVE TypeInv' /\ MutexInv'
  OBVIOUS
<1>1. /\ Unchanged \in Candidates
      /\ httpPc # "idle" => candidate \in Candidates
  BY DEF TypeInv, DistinctIds
<1>2. CASE Poll
  <2>. USE SchedulerAssumption DEF TypeInv, SchedulerTypeOK, MutexInv, changeVars, Unchanged
  <2>1. CASE ReadClock
    BY <2>1 DEF ReadClock
  <2>2. CASE LockForPoll
    BY <2>2 DEF LockForPoll
  <2>3. CASE ScanNotDue
    BY <2>3, LenProperties DEF ScanNotDue, ScanGoto
  <2>4. ASSUME NEW status \in Statuses, Record(status), index <= Len(entries)
        PROVE  /\ handled' \in [Cells -> [occurrence : Occurrences, status : Statuses]]
               /\ lastHandled' \in [Ids -> Occurrences]
               /\ forgotten' \subseteq Ids
               /\ index' \in 1..(MaxSchedules + 1)
    <3>1. Handled(Occurrence(seen), status) \in [occurrence : Occurrences, status : Statuses]
      BY OccurrenceType DEF Handled
    <3>2. index' \in 1..(MaxSchedules + 1)
      BY <2>4, LenProperties DEF Record
    <3>3. lastHandled' \in [Ids -> Occurrences] /\ forgotten' \subseteq Ids
      BY <2>4, OccurrenceType DEF Record
    <3>4. handled' \in [Cells -> [occurrence : Occurrences, status : Statuses]]
      BY <2>4, <3>1 DEF Record
    <3>. QED  BY <3>2, <3>3, <3>4
  <2>5. CASE ScanBusy
    BY <2>4, <2>5 DEF ScanBusy, ScanGoto, Statuses
  <2>6. CASE ScanDue
    BY <2>6 DEF ScanDue, ScanGoto
  <2>7. CASE ScanStart
    BY <2>4, <2>7 DEF ScanStart, ScanGoto, Statuses
  <2>8. CASE ScanEnds
    BY <2>8 DEF ScanEnds
  <2>. QED  BY <1>2, <2>1, <2>2, <2>3, <2>5, <2>6, <2>7, <2>8 DEF Poll
<1>3. CASE ScheduleChange
  <2>1. /\ httpPc = "idle" /\ httpPc' = "lock" /\ changes < MaxChanges /\ changes' = changes + 1
        /\ UNCHANGED <<clock, entries, handled, active, mutex, pollVars, schedules,
                       count, nextId, lastHandled, forgotten>>
    BY <1>3 DEF ScheduleChange, CreateSchedule, UpdateSchedule, ToggleSchedule,
                EditSchedule, DeleteSchedule, ChangeElsewhere, Change
  <2>2. DistinctIds(candidate', changes')
    BY <1>3, ChangesKeepIdsDistinct
  <2>3. UNCHANGED Unchanged
    BY <2>1 DEF Unchanged
  <2>4. changes' \in 0..MaxChanges /\ DistinctIds(Unchanged, changes')
    BY <2>1, SchedulerAssumption DEF TypeInv, DistinctIds
  <2>5. SchedulerTypeOK'
    BY <2>1, <2>2, <2>3 DEF TypeInv, SchedulerTypeOK, pollVars, DistinctIds
  <2>. QED  BY <2>1, <2>2, <2>3, <2>4, <2>5 DEF TypeInv, MutexInv, pollVars
<1>4. CASE LockAndConfigure
  <2>1. handled' \in [Cells -> [occurrence : Occurrences, status : Statuses]]
    BY <1>1, <1>4, ConfigureType, ViewProperties DEF LockAndConfigure, TypeInv, SchedulerTypeOK
  <2>2. entries' \in Seq(Entries) /\ Len(entries') <= MaxSchedules
    BY <1>1, <1>4, ViewProperties DEF LockAndConfigure, ConfigureLocked, Candidates
  <2>3. forgotten' \subseteq Ids
    BY <1>1, <1>4, ReplacedIds DEF LockAndConfigure, TypeInv, SchedulerTypeOK
  <2>. QED
    BY <1>4, <2>1, <2>2, <2>3
    DEF LockAndConfigure, TypeInv, SchedulerTypeOK, MutexInv, Unchanged, pollVars
<1>5. CASE SaveSucceeds
  <2>1. Unchanged' = candidate
    BY <1>1, <1>5 DEF SaveSucceeds, Unchanged, Configuration, Candidates
  <2>. QED
    BY <1>5, <2>1 DEF SaveSucceeds, TypeInv, SchedulerTypeOK, MutexInv, pollVars
<1>6. CASE SaveFails
  <2>1. handled' \in [Cells -> [occurrence : Occurrences, status : Statuses]]
    BY <1>1, <1>6, ConfigureType, ViewProperties DEF SaveFails, TypeInv, SchedulerTypeOK
  <2>2. entries' \in Seq(Entries) /\ Len(entries') <= MaxSchedules
    BY <1>1, <1>6, ViewProperties DEF SaveFails, ConfigureLocked, Candidates
  <2>. QED
    BY <1>6, <2>1, <2>2
    DEF SaveFails, TypeInv, SchedulerTypeOK, MutexInv, Unchanged, pollVars
<1>7. CASE Tick
  BY <1>7, NextMinuteType
  DEF Tick, TypeInv, SchedulerTypeOK, MutexInv, pollVars, changeVars, Unchanged
<1>8. CASE ProgramStarts \/ ProgramEnds \/ UNCHANGED vars
  BY <1>8
  DEF ProgramStarts, ProgramEnds, vars, TypeInv, SchedulerTypeOK, MutexInv,
      pollVars, changeVars, Unchanged
<1>. QED  BY <1>2, <1>3, <1>4, <1>5, <1>6, <1>7, <1>8 DEF Next

-----------------------------------------------------------------------------
(* The entries and what they remember. *)

\* The entries are those of the configuration in force or of the candidate.
LEMMA FollowStep == TypeInv /\ MutexInv /\ FollowInv /\ [Next]_vars => FollowInv'
<1>. SUFFICES ASSUME TypeInv, MutexInv, FollowInv, [Next]_vars PROVE FollowInv'
  OBVIOUS
<1>. USE DEF FollowInv, EntriesFollowConfiguration, MutexInv
<1>1. CASE Poll
  BY <1>1 DEF Poll, ReadClock, LockForPoll, ScanGoto, ScanNotDue, ScanBusy, ScanDue,
              ScanStart, ScanEnds, changeVars, Unchanged
<1>2. CASE ScheduleChange
  BY <1>2 DEF ScheduleChange, CreateSchedule, UpdateSchedule, ToggleSchedule,
              EditSchedule, DeleteSchedule, ChangeElsewhere, Change, Unchanged
<1>3. CASE LockAndConfigure
  BY <1>3 DEF LockAndConfigure, ConfigureLocked
<1>4. CASE SaveSucceeds
  <2>1. Unchanged' = candidate
    BY <1>4 DEF SaveSucceeds, TypeInv, DistinctIds, Unchanged, Configuration, Candidates
  <2>. QED  BY <1>4, <2>1 DEF SaveSucceeds
<1>5. CASE SaveFails
  BY <1>5 DEF SaveFails, ConfigureLocked, Unchanged
<1>6. CASE Tick \/ ProgramStarts \/ ProgramEnds \/ UNCHANGED vars
  BY <1>6 DEF Tick, ProgramStarts, ProgramEnds, vars, changeVars, Unchanged
<1>. QED  BY <1>1, <1>2, <1>3, <1>4, <1>5, <1>6 DEF Next

\* An entry found among the old ones keeps what one equal to it remembered.
LEMMA PreservedProperties ==
    ASSUME NEW new, NEW i
    PROVE  IF \E p \in DOMAIN entries : entries[p] = new[i]
           THEN \E p \in DOMAIN entries : entries[p] = new[i] /\ Preserved(new, i) = handled[p]
           ELSE Preserved(new, i) = NotHandled
  BY DEF Preserved

\* Two entries of one configuration with the same identifier are the same.
LEMMA SameIdSameEntry ==
    ASSUME NEW c, NEW n, DistinctIds(c, n),
           NEW e \in ToSet(View(c)), NEW f \in ToSet(View(c)), e.id = f.id
    PROVE  e = f
  BY ViewProperties DEF DistinctIds

\* A poll records an occurrence of the entry it looks at and of no other.
LEMMA RecordFollows ==
    ASSUME SchedulerInv, NEW status \in Statuses, Record(status),
           mutex # "http", index <= Len(entries), UNCHANGED entries,
           NEW i \in DOMAIN entries
    PROVE  Remembers(i, entries[i])'
<1>1. /\ Unchanged \in Candidates /\ entries = View(Unchanged)
      /\ handled \in [Cells -> [occurrence : Occurrences, status : Statuses]]
      /\ lastHandled \in [Ids -> Occurrences]
      /\ Len(entries) <= MaxSchedules /\ entries \in Seq(Entries)
      /\ index \in 1..(MaxSchedules + 1)
  BY DEF SchedulerInv, TypeInv, SchedulerTypeOK, FollowInv, EntriesFollowConfiguration
<1>2. DOMAIN entries = 1..Len(entries) /\ Len(entries) \in Nat
  BY <1>1, LenProperties
<1>3. i \in Cells /\ index \in Cells /\ index \in DOMAIN entries
  BY <1>1, <1>2, SchedulerAssumption DEF Cells
<1>4. entries[i].id \in Ids /\ entries[index].id \in Ids
  <2>1. entries[i] \in Entries /\ entries[index] \in Entries
    BY <1>1, <1>2, <1>3, ElementOfSeq
  <2>. QED  BY <2>1 DEF Entries
<1>5. entries[i].id = entries[index].id => i = index
  BY <1>1, <1>2, <1>3, ViewProperties DEF SchedulerInv, TypeInv, DistinctIds
<1>6. Remembers(i, entries[i])
  BY DEF SchedulerInv, MemoryInv, HandledFollowsEntry, Remembers
<1>7. CASE i = index
  BY <1>1, <1>3, <1>4, <1>7 DEF Record, Handled, Remembers
<1>8. CASE i # index
  BY <1>1, <1>3, <1>4, <1>5, <1>6, <1>8 DEF Record, Remembers
<1>. QED  BY <1>7, <1>8

\* The new entries of a change remember what their equals did, and what the
\* change touches is forgotten.
LEMMA ConfigureRemembers ==
    ASSUME SchedulerInv, LockAndConfigure, NEW i \in DOMAIN entries'
    PROVE  Remembers(i, entries[i])'
<1>1. /\ Unchanged \in Candidates /\ candidate \in Candidates
      /\ DistinctIds(Unchanged, changes) /\ DistinctIds(candidate, changes)
      /\ entries = View(Unchanged) /\ entries' = View(candidate)
      /\ ConfigureLocked(View(candidate))
      /\ lastHandled' = lastHandled /\ forgotten' = forgotten \cup Replaced
  BY DEF SchedulerInv, TypeInv, DistinctIds, FollowInv, EntriesFollowConfiguration,
         LockAndConfigure, ConfigureLocked
<1>2. i \in Cells /\ i <= Len(View(candidate)) /\ entries'[i] \in ToSet(View(candidate))
  BY <1>1, ViewProperties, SchedulerAssumption DEF Candidates, Cells, ToSet
<1>3. handled'[i] = Preserved(View(candidate), i)
  BY <1>1, <1>2 DEF ConfigureLocked
<1>4. CASE \E p \in DOMAIN entries : entries[p] = entries'[i]
  <2>1. PICK p \in DOMAIN entries : entries[p] = entries'[i] /\ handled'[i] = handled[p]
    BY <1>1, <1>3, <1>4, PreservedProperties
  <2>2. Remembers(p, entries[p])
    BY DEF SchedulerInv, MemoryInv, HandledFollowsEntry, Remembers
  <2>3. entries'[i] \in ToSet(View(Unchanged))
    BY <1>1, <2>1 DEF ToSet
  <2>4. entries'[i].id \notin Replaced
    BY <1>1, <1>2, <2>3, SameIdSameEntry DEF Replaced
  <2>. QED  BY <1>1, <2>1, <2>2, <2>4 DEF Remembers
<1>5. CASE ~\E p \in DOMAIN entries : entries[p] = entries'[i]
  <2>1. handled'[i] = NotHandled
    BY <1>1, <1>3, <1>5, PreservedProperties
  <2>2. entries'[i] \notin ToSet(View(Unchanged))
    BY <1>1, <1>5 DEF ToSet
  <2>3. entries'[i].id \in Replaced
    BY <1>2, <2>2 DEF Replaced
  <2>. QED  BY <1>1, <2>1, <2>3 DEF Remembers, NotHandled, Handled
<1>. QED  BY <1>4, <1>5

\* Nor does taking a change back mix them up: an entry that it had left as it
\* was keeps what it remembers, one it had touched was forgotten before.
LEMMA FailureFollows ==
    ASSUME SchedulerInv, SaveFails, NEW i \in DOMAIN entries'
    PROVE  Remembers(i, entries[i])'
<1>1. /\ Unchanged \in Candidates /\ mutex = "http" /\ entries = View(candidate)
      /\ entries' = View(Unchanged) /\ ConfigureLocked(View(Unchanged))
      /\ UNCHANGED <<lastHandled, forgotten>>
  BY DEF SchedulerInv, TypeInv, DistinctIds, MutexInv, FollowInv, SaveFails, ConfigureLocked
<1>2. i \in Cells /\ i <= Len(View(Unchanged)) /\ entries'[i] \in ToSet(View(Unchanged))
  BY <1>1, ViewProperties, SchedulerAssumption DEF Candidates, Cells, ToSet
<1>3. handled'[i] = Preserved(View(Unchanged), i)
  BY <1>1, <1>2 DEF ConfigureLocked
<1>4. CASE \E p \in DOMAIN entries : entries[p] = entries'[i]
  <2>1. PICK p \in DOMAIN entries : entries[p] = entries'[i] /\ handled'[i] = handled[p]
    BY <1>1, <1>3, <1>4, PreservedProperties
  <2>2. Remembers(p, entries[p])
    BY DEF SchedulerInv, MemoryInv, HandledFollowsEntry, Remembers
  <2>. QED  BY <1>1, <2>1, <2>2 DEF Remembers
<1>5. CASE ~\E p \in DOMAIN entries : entries[p] = entries'[i]
  <2>1. handled'[i] = NotHandled
    BY <1>1, <1>3, <1>5, PreservedProperties
  <2>2. entries'[i] \notin ToSet(View(candidate))
    BY <1>1, <1>5 DEF ToSet
  <2>3. entries'[i].id \in forgotten
    BY <1>1, <1>2, <2>2 DEF Replaced, SchedulerInv, MemoryInv
  <2>. QED  BY <1>1, <2>1, <2>3 DEF Remembers, NotHandled, Handled
<1>. QED  BY <1>4, <1>5

\* What is remembered follows the entries through every step.
LEMMA MemoryStep == SchedulerInv /\ [Next]_vars => MemoryInv'
<1>. SUFFICES ASSUME SchedulerInv, [Next]_vars PROVE MemoryInv'
  OBVIOUS
<1>. USE DEF MemoryInv, HandledFollowsEntry, Remembers
<1>1. /\ MemoryInv /\ MutexInv /\ DOMAIN entries = 1..Len(entries) /\ Len(entries) \in Nat
      /\ index \in Nat \ {0}
  BY LenProperties, SchedulerAssumption DEF SchedulerInv, TypeInv, SchedulerTypeOK
<1>2. CASE ReadClock \/ LockForPoll \/ ScanNotDue \/ ScanEnds
  <2>1. Replaced' = Replaced
    BY <1>2 DEF ReadClock, LockForPoll, ScanGoto, ScanNotDue, ScanEnds, changeVars,
                Unchanged, Replaced, View
  <2>. QED
    BY <1>1, <1>2, <2>1 DEF MutexInv, ReadClock, LockForPoll, ScanGoto, ScanNotDue, ScanEnds
<1>3. CASE ScanDue
  BY <1>1, <1>3 DEF MutexInv, ScanGoto, ScanDue, IsDue, changeVars, Unchanged
<1>4. CASE ScanBusy \/ ScanStart
  <2>1. /\ mutex = "scheduler" /\ schedPc' = "scan" /\ UNCHANGED <<entries, mutex>>
        /\ index <= Len(entries)
        /\ \E status \in Statuses : Record(status)
    BY <1>1, <1>4 DEF MutexInv, ScanBusy, ScanStart, ScanGoto, Statuses
  <2>2. \A i \in DOMAIN entries : Remembers(i, entries[i])'
    BY <2>1, RecordFollows
  <2>. QED  BY <2>1, <2>2
<1>5. CASE ScheduleChange
  <2>1. /\ httpPc = "idle"
        /\ UNCHANGED <<entries, handled, mutex, pollVars, lastHandled, forgotten>>
    BY <1>5 DEF ScheduleChange, CreateSchedule, UpdateSchedule, ToggleSchedule,
                EditSchedule, DeleteSchedule, ChangeElsewhere, Change
  <2>. QED  BY <1>1, <2>1 DEF MutexInv, pollVars, IsDue
<1>6. CASE LockAndConfigure
  <2>1. /\ schedPc' # "start" /\ forgotten' = forgotten \cup Replaced
        /\ UNCHANGED <<Unchanged, candidate>>
    BY <1>1, <1>6 DEF MutexInv, LockAndConfigure, pollVars, Unchanged
  <2>2. Replaced' = Replaced
    BY <2>1 DEF Replaced, View
  <2>. QED  BY <1>6, <2>1, <2>2, ConfigureRemembers
<1>7. CASE SaveSucceeds
  BY <1>1, <1>7 DEF MutexInv, SaveSucceeds, pollVars
<1>8. CASE SaveFails
  <2>1. mutex = "http" /\ mutex' = "free" /\ schedPc' # "start"
    BY <1>1, <1>8 DEF MutexInv, SaveFails, pollVars
  <2>. QED  BY <1>8, <2>1, FailureFollows
<1>9. CASE Tick \/ ProgramStarts \/ ProgramEnds \/ UNCHANGED vars
  <2>1. Replaced' = Replaced
    BY <1>9 DEF Tick, ProgramStarts, ProgramEnds, vars, changeVars, Unchanged, Replaced, View
  <2>. QED
    BY <1>1, <1>9, <2>1 DEF Tick, ProgramStarts, ProgramEnds, vars, changeVars, pollVars, IsDue
<1>. QED
  BY <1>2, <1>3, <1>4, <1>5, <1>6, <1>7, <1>8, <1>9 DEF Next, Poll

-----------------------------------------------------------------------------

\* SchedulerInv is an invariant.
LEMMA SchedulerInvariant == Spec => []SchedulerInv
<1>1. Init => SchedulerInv
  <2>. SUFFICES ASSUME Init PROVE SchedulerInv
    OBVIOUS
  <2>. USE SchedulerAssumption DEF Init, NoCandidate
  <2>1. UnusedEntry \in Entries
    BY DEF UnusedEntry, Entries, Ids, Weekdays, Minutes
  <2>2. Unchanged \in Candidates /\ candidate \in Candidates /\ Unchanged = NoCandidate
    BY <2>1 DEF Unchanged, Configuration, Candidates
  <2>3. clock \in Times /\ seen \in Times
    BY DEF Times, Weekdays, Minutes
  <2>4. /\ handled \in [Cells -> [occurrence : Occurrences, status : Statuses]]
        /\ lastHandled \in [Ids -> Occurrences]
    BY DEF NotHandled, Handled, Occurrences, Statuses
  <2>5. entries \in Seq(Entries) /\ Len(entries) = 0 /\ entries = View(Unchanged)
    <3>1. View(Unchanged) \in Seq(Entries) /\ Len(View(Unchanged)) = 0
      BY <2>2, ViewProperties
    <3>. QED  BY <3>1, EmptySeq
  <2>6. TypeInv
    <3>1. SchedulerTypeOK
      <4>1. Len(entries) <= MaxSchedules /\ index \in 1..(MaxSchedules + 1)
        BY <2>5
      <4>2. active \in BOOLEAN
        BY Zenon
      <4>3. mutex = "free" /\ schedPc = "sleep" /\ httpPc = "idle" /\ forgotten \subseteq Ids
        OBVIOUS
      <4>. HIDE DEF Init, NoCandidate
      <4>. QED  BY <2>2, <2>3, <2>4, <2>5, <4>1, <4>2, <4>3 DEF SchedulerTypeOK
    <3>2. DistinctIds(Unchanged, changes)
      <4>1. Unchanged.count = 0 /\ Unchanged.nextId = 1 /\ changes = 0
        BY DEF Unchanged, Configuration
      <4>. QED  BY <2>2, <4>1 DEF DistinctIds
    <3>. QED  BY <3>1, <3>2 DEF TypeInv
  <2>7. MutexInv /\ FollowInv
    BY <2>5 DEF MutexInv, FollowInv, EntriesFollowConfiguration
  <2>8. MemoryInv
    BY <2>5, LenProperties DEF MemoryInv, HandledFollowsEntry
  <2>. QED  BY <2>6, <2>7, <2>8 DEF SchedulerInv
<1>2. SchedulerInv /\ [Next]_vars => SchedulerInv'
  BY TypeStep, FollowStep, MemoryStep DEF SchedulerInv
<1>. QED  BY <1>1, <1>2, PTL DEF Spec

\* Type correctness of the scheduler and of the changes of its schedules.
THEOREM SchedulerTypeCorrect == Spec => []SchedulerTypeOK
<1>1. SchedulerInv => SchedulerTypeOK
  BY DEF SchedulerInv, TypeInv
<1>. QED  BY <1>1, SchedulerInvariant, PTL

\* The scheduler never works on entries of a change that was not applied.
THEOREM EntriesAreInForce == Spec => []EntriesFollowConfiguration
<1>1. SchedulerInv => EntriesFollowConfiguration
  BY DEF SchedulerInv, FollowInv
<1>. QED  BY <1>1, SchedulerInvariant, PTL

\* What has been handled stays with its schedule wherever its entry moves, and
\* is forgotten when a change touches the entry, then only.
THEOREM HandledIsNotMixedUp == Spec => []HandledFollowsEntry
<1>1. SchedulerInv => HandledFollowsEntry
  BY DEF SchedulerInv, MemoryInv
<1>. QED  BY <1>1, SchedulerInvariant, PTL

\* A start of the scheduler is the first of its occurrence, or the first since a
\* change, kept or taken back, has touched the entry of the schedule.
THEOREM ScheduledStartsAreUnique == Spec => StartsOncePerOccurrence
<1>1. SchedulerInv /\ [Next]_vars
        => [schedPc = "start" /\ schedPc' = "scan" /\ active' # active
              => \/ lastHandled[entries[index].id] # Occurrence(seen)
                 \/ entries[index].id \in forgotten]_vars
  <2>. SUFFICES ASSUME SchedulerInv, schedPc = "start", entries[index].id \notin forgotten
                PROVE  lastHandled[entries[index].id] # Occurrence(seen)
    OBVIOUS
  <2>1. index \in DOMAIN entries /\ IsDue(index)
    BY DEF SchedulerInv, MemoryInv
  <2>2. handled[index].occurrence = lastHandled[entries[index].id]
    BY <2>1 DEF SchedulerInv, MemoryInv, HandledFollowsEntry
  <2>. QED  BY <2>1, <2>2 DEF IsDue
<1>. QED  BY <1>1, SchedulerInvariant, PTL DEF Spec, StartsOncePerOccurrence
=============================================================================

---------------------- MODULE ConfigurationRepository ----------------------
(***************************************************************************)
(* The persistent configuration: two slots in flash                        *)
(* (infrastructure/persistence/configuration_repository.c over             *)
(* nvs_configuration_repository.c), the boot that loads them               *)
(* (initialize_configuration in main/system_ready.c) and the change that   *)
(* saves them (replace_candidate in app/configuration/                     *)
(* configuration_manager.c).                                               *)
(*                                                                         *)
(* A blob is its configuration, its generation and whether decode accepts  *)
(* it: a corrupt one (CRC, length, contents) still yields the generation   *)
(* of its header, an incompatible one (schema version) yields 0.  Only one *)
(* task changes the configuration, the HTTP server, so one save is under   *)
(* way at a time; power may fail between any two of its steps.             *)
(***************************************************************************)
EXTENDS Naturals

CONSTANTS
    Configurations,  \* configurations irrigation_configuration_validate accepts
    Default,         \* the one compiled in
    MaxGeneration,   \* the generation counter's last value, UINT32_MAX
    MaxFaults        \* bound: storage faults beyond refused writes

ASSUME RepositoryAssumption ==
    /\ Default \in Configurations
    /\ MaxGeneration \in Nat \ {0}
    /\ MaxFaults \in Nat

VARIABLES
    flash,       \* the two slots, cfg_a and cfg_b
    running,     \* manager->configuration
    candidate,   \* manager->candidate, the configuration being saved
    generation,  \* the generation the save under way writes
    target,      \* the slot it writes to
    pc,          \* where the boot or the save stands
    booting,     \* the save under way is that of the defaults at boot
    repository,  \* manager->repository # NULL: changes are accepted
    result,      \* of the last change
    faults       \* storage faults so far

vars == <<flash, running, candidate, generation, target, pc, booting,
          repository, result, faults>>

Slots       == {"cfg_a", "cfg_b"}
Generations == 0..MaxGeneration
Slot(state, g, c) == [state |-> state, generation |-> g, configuration |-> c]
Blobs == [state : {"empty", "valid", "corrupt", "incompatible"},
          generation : Generations, configuration : Configurations]
EmptySlot        == Slot("empty", 0, Default)
IncompatibleSlot == Slot("incompatible", 0, Default)
UnreadableSlot   == Slot("storage_error", 0, Default)

\* A new board, or one whose flash a firmware of another schema has written.
Init ==
    /\ flash \in [Slots -> {EmptySlot, IncompatibleSlot}]
    /\ running = Default
    /\ candidate = Default
    /\ generation = 0
    /\ target = "cfg_a"
    /\ pc = "off"
    /\ booting = FALSE
    /\ repository = FALSE
    /\ result = "none"
    /\ faults = 0

StorageFault == faults < MaxFaults /\ faults' = faults + 1

(***************************************************************************)
(* Reading                                                                 *)
(***************************************************************************)

\* read_slot of both slots: what is there, or a slot that cannot be read.
ReadSlots(seen) ==
    \/ seen = flash /\ UNCHANGED faults
    \/ StorageFault /\ \E s \in Slots : seen = [flash EXCEPT ![s] = UnreadableSlot]

SeenSlots == {flash} \cup {[flash EXCEPT ![s] = UnreadableSlot] : s \in Slots}

SomeSlot(seen, state) == \E s \in Slots : seen[s].state = state

\* The selection of configuration_repository_load.
AIsSelected(seen) ==
    /\ seen["cfg_a"].state = "valid"
    /\ seen["cfg_b"].state = "valid" =>
          seen["cfg_a"].generation >= seen["cfg_b"].generation

Selected(seen) == IF AIsSelected(seen) THEN "cfg_a"
                  ELSE IF seen["cfg_b"].state = "valid" THEN "cfg_b" ELSE "none"

\* What the next boot would run with.
Reloaded == IF Selected(flash) = "none" THEN Default
            ELSE flash[Selected(flash)].configuration

(***************************************************************************)
(* Boot: configuration_manager_load_or_persist_defaults                    *)
(***************************************************************************)

BootTo(next, usable) ==
    /\ pc = "off"
    /\ pc' = next
    /\ booting' = (next = "begin")
    /\ repository' = usable
    /\ result' = "none"
    /\ UNCHANGED <<flash, generation, target>>

BootLoaded ==
    /\ BootTo("ready", TRUE)
    /\ \E seen \in SeenSlots :
          /\ ReadSlots(seen)
          /\ Selected(seen) # "none"
          /\ running' = seen[Selected(seen)].configuration
    /\ candidate' = running'

BootWithDefaults ==
    /\ running' = Default
    /\ candidate' = Default

\* Nothing was ever saved: the defaults are.
BootPersistsDefaults ==
    /\ BootTo("begin", TRUE)
    /\ BootWithDefaults
    /\ \E seen \in SeenSlots :
          /\ ReadSlots(seen)
          /\ \A s \in Slots : seen[s].state = "empty"

\* Both slots unusable: defaults, flash left alone.  Only a storage error
\* disables changes, and only if no slot is incompatible.
BootKeepsDefaults ==
    /\ BootWithDefaults
    /\ \E seen \in SeenSlots :
          /\ ReadSlots(seen)
          /\ Selected(seen) = "none"
          /\ \E s \in Slots : seen[s].state # "empty"
          /\ BootTo("ready", SomeSlot(seen, "incompatible") \/ ~SomeSlot(seen, "storage_error"))

\* nvs_configuration_repository_init fails: the slots are not even read.
BootWithoutStorage ==
    /\ BootTo("ready", FALSE)
    /\ BootWithDefaults
    /\ StorageFault

Boot == BootLoaded \/ BootPersistsDefaults \/ BootKeepsDefaults \/ BootWithoutStorage

(***************************************************************************)
(* Saving: replace_candidate and configuration_repository_save             *)
(***************************************************************************)

Replace(c) ==
    /\ pc = "ready"
    /\ repository
    /\ pc' = "begin"
    /\ candidate' = c
    /\ result' = "none"
    /\ UNCHANGED <<flash, running, generation, target, booting, repository, faults>>

\* persistence_required without a repository.
ReplaceRefused(c) ==
    /\ pc = "ready"
    /\ ~repository
    /\ candidate' = c
    /\ result' = "failed"
    /\ UNCHANGED <<flash, running, generation, target, pc, booting, repository, faults>>

\* The end of a save that fails: the change is undone, or at boot changes are
\* disabled.
SaveFails ==
    /\ pc' = "ready"
    /\ booting' = FALSE
    /\ repository' = (repository /\ ~booting)
    /\ result' = IF booting THEN "none" ELSE "failed"
    /\ UNCHANGED <<running, candidate, generation, target>>

\* generation + 1U: the counter wraps to 0.
Successor(g) == IF g = MaxGeneration THEN 0 ELSE g + 1

\* Mutant: the counter stands still.
SameGeneration(seen) ==
    IF seen["cfg_a"].state = "valid"
          /\ seen["cfg_a"].generation >= seen["cfg_b"].generation
    THEN seen["cfg_a"].generation
    ELSE IF seen["cfg_b"].state = "valid" THEN seen["cfg_b"].generation
    ELSE 1

\* Mutant: the counter is wider than the field of the header.
NextGenerationUnbounded(seen) ==
    IF seen["cfg_a"].state = "valid"
          /\ seen["cfg_a"].generation >= seen["cfg_b"].generation
    THEN seen["cfg_a"].generation + 1
    ELSE IF seen["cfg_b"].state = "valid" THEN seen["cfg_b"].generation + 1
    ELSE 1

\* As written: slot B's generation counts even when slot B is corrupt.
NextGeneration(seen) ==
    IF seen["cfg_a"].state = "valid"
          /\ seen["cfg_a"].generation >= seen["cfg_b"].generation
    THEN Successor(seen["cfg_a"].generation)
    ELSE IF seen["cfg_b"].state = "valid" THEN Successor(seen["cfg_b"].generation)
    ELSE 1

\* Mutant: the slot that load would select.
TargetIsSelected(seen) == IF AIsSelected(seen) THEN "cfg_a" ELSE "cfg_b"

SaveTarget(seen) == IF AIsSelected(seen) THEN "cfg_b" ELSE "cfg_a"

SaveCannotBegin(seen) == SomeSlot(seen, "storage_error") \/ NextGeneration(seen) = 0

SaveBegin ==
    /\ pc = "begin"
    /\ \E seen \in SeenSlots :
          /\ ReadSlots(seen)
          /\ \/ SaveCannotBegin(seen) /\ SaveFails
             \/ /\ ~SaveCannotBegin(seen)
                /\ generation' = NextGeneration(seen)
                /\ target' = SaveTarget(seen)
                /\ pc' = "write"
                /\ UNCHANGED <<running, candidate, booting, repository, result>>
    /\ UNCHANGED flash

WriteTarget(state) ==
    flash' = [flash EXCEPT ![target] = Slot(state, generation, candidate)]

SaveWritten ==
    /\ pc = "write"
    /\ \/ WriteTarget("valid") /\ UNCHANGED faults
       \/ WriteTarget("corrupt") /\ StorageFault
    /\ pc' = "verify"
    /\ UNCHANGED <<running, candidate, generation, target, booting, repository, result>>

\* nvs_set_blob or nvs_commit reports an error, the blob written or not.
SaveNotWritten ==
    /\ pc = "write"
    /\ \/ UNCHANGED <<flash, faults>>
       \/ WriteTarget("valid") /\ StorageFault
    /\ SaveFails

\* The read back agrees: only now is the change applied.
SaveVerified ==
    /\ pc = "verify"
    /\ flash[target].state = "valid"
    /\ flash[target].generation = generation
    /\ running' = candidate
    /\ result' = IF booting THEN "none" ELSE "ok"
    /\ pc' = "ready"
    /\ booting' = FALSE
    /\ UNCHANGED <<flash, candidate, generation, target, repository, faults>>

SaveNotVerified ==
    /\ pc = "verify"
    /\ \/ flash[target].state # "valid" /\ UNCHANGED faults
       \/ StorageFault
    /\ SaveFails
    /\ UNCHANGED flash

(***************************************************************************)
(* Power                                                                   *)
(***************************************************************************)

\* A write that power interrupts has happened, has not, or is torn.
PowerLoss ==
    /\ pc # "off"
    /\ pc' = "off"
    /\ \/ UNCHANGED <<flash, faults>>
       \/ pc = "write" /\ WriteTarget("valid") /\ UNCHANGED faults
       \/ pc = "write" /\ WriteTarget("corrupt") /\ StorageFault
    /\ result' = "none"
    /\ UNCHANGED <<running, candidate, generation, target, booting, repository>>

\* A blob decays while the board is off.  The CRC covers the payload only: a
\* generation that decays goes unnoticed.
Decay(s) ==
    /\ pc = "off"
    /\ flash[s].state = "valid"
    /\ \E state \in {"valid", "corrupt"}, g \in Generations :
          flash' = [flash EXCEPT ![s] = Slot(state, g, @.configuration)]
    /\ StorageFault
    /\ UNCHANGED <<running, candidate, generation, target, pc, booting, repository, result>>

Save == SaveBegin \/ SaveWritten \/ SaveNotWritten \/ SaveVerified \/ SaveNotVerified

Next ==
    \/ Boot
    \/ \E c \in Configurations : Replace(c) \/ ReplaceRefused(c)
    \/ Save
    \/ PowerLoss
    \/ \E s \in Slots : Decay(s)

Spec == Init /\ [][Next]_vars

-----------------------------------------------------------------------------

\* Type invariant.
RepositoryTypeOK ==
    /\ flash \in [Slots -> Blobs]
    /\ running \in Configurations
    /\ candidate \in Configurations
    /\ generation \in Generations
    /\ target \in Slots
    /\ pc \in {"off", "ready", "begin", "write", "verify"}
    /\ booting \in BOOLEAN
    /\ repository \in BOOLEAN
    /\ result \in {"none", "ok", "failed"}
    /\ faults \in 0..MaxFaults

\* A save never touches the slot the next boot would load, whatever the two
\* slots hold when it begins: power may fail at any step of it and there is
\* still what there was (configuration_repository_save writes the other slot).
SaveSparesLoadedSlot ==
    [][pc # "off" => \A s \in Slots : flash'[s] # flash[s] => s # Selected(flash)]_vars

\* Change is atomic and durable as long as the storage at most refuses writes
\* and loses power: at every moment the next boot would run with the
\* configuration in force or the one being saved, and between two changes with
\* the one in force, so no confirmed change is lost and no failed one returns.
ChangeIsAtomicAndDurable ==
    faults = 0 =>
        /\ Reloaded \in {running, candidate}
        /\ pc = "ready" => Reloaded = running

\* What a change reported saved is what the next boot loads, whatever went
\* wrong before it (configuration_repository_save reads back what it wrote).
SavedConfigurationIsReloaded == result = "ok" => Reloaded = running
=============================================================================

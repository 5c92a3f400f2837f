------------------- MODULE ConfigurationRepositoryProofs -------------------
(***************************************************************************)
(* The persistent configuration, for every set of configurations, every    *)
(* width of the generation counter and every number of storage faults.     *)
(***************************************************************************)
EXTENDS ConfigurationRepository, TLAPS

-----------------------------------------------------------------------------
(* A save spares the slot the next boot loads *)

\* Inductive: the save under way writes to the other slot.
TargetIsSpare == pc = "write" => target # Selected(flash)

SparingInv == RepositoryTypeOK /\ TargetIsSpare

\* The selected slot is a valid one, and there is one if a slot is valid.
LEMMA SelectedSlot ==
    ASSUME NEW f
    PROVE  /\ Selected(f) \in Slots \cup {"none"}
           /\ Selected(f) # "none" => f[Selected(f)].state = "valid"
           /\ Selected(f) = "none" => \A s \in Slots : f[s].state # "valid"
BY DEF Selected, AIsSelected, Slots

\* The slot a save writes to is never the one load selects.
LEMMA SaveTargetIsSpare ==
    ASSUME NEW f
    PROVE  SaveTarget(f) \in Slots /\ SaveTarget(f) # Selected(f)
BY DEF SaveTarget, Selected, AIsSelected, Slots

\* A save begins only if it could read both slots.
LEMMA SaveBeginsWithFlash ==
    ASSUME NEW seen, ReadSlots(seen), ~SaveCannotBegin(seen), RepositoryTypeOK
    PROVE  seen = flash /\ UNCHANGED faults
BY DEF ReadSlots, SaveCannotBegin, SomeSlot, UnreadableSlot, Slot, Slots, RepositoryTypeOK

\* The next generation fits the header, whatever was read.
LEMMA NextGenerationType ==
    ASSUME RepositoryTypeOK
    PROVE  NextGeneration(flash) \in Generations
BY RepositoryAssumption
   DEF RepositoryTypeOK, NextGeneration, Successor, Generations, Blobs, Slots

\* Reading may cost a storage fault and nothing else.
LEMMA ReadSlotsType ==
    ASSUME NEW seen, ReadSlots(seen), RepositoryTypeOK
    PROVE  /\ faults' \in 0..MaxFaults
           /\ faults' = 0 => faults = 0 /\ seen = flash
           /\ \A s \in Slots : seen[s].state = "valid" => seen[s] = flash[s]
BY RepositoryAssumption
   DEF ReadSlots, StorageFault, RepositoryTypeOK, UnreadableSlot, Slot, Slots

\* A storage fault stays within the bound and is remembered.
LEMMA StorageFaultType ==
    ASSUME StorageFault, RepositoryTypeOK
    PROVE  faults' \in 0..MaxFaults /\ faults' # 0
BY RepositoryAssumption DEF StorageFault, RepositoryTypeOK

\* The two blobs a board may start with.
LEMMA InitialBlobs == EmptySlot \in Blobs /\ IncompatibleSlot \in Blobs
BY RepositoryAssumption DEF EmptySlot, IncompatibleSlot, Slot, Blobs, Generations

\* Writing puts a blob of the save under way into the target and leaves the
\* other slot alone.
LEMMA WriteTargetEffect ==
    ASSUME RepositoryTypeOK, NEW state \in {"valid", "corrupt"}, WriteTarget(state)
    PROVE  /\ flash' \in [Slots -> Blobs]
           /\ flash'[target] = Slot(state, generation, candidate)
           /\ \A s \in Slots \ {target} : flash'[s] = flash[s]
BY DEF RepositoryTypeOK, WriteTarget, Slot, Blobs

\* The type invariant holds at power on.
LEMMA RepositoryInit == Init => SparingInv
<1>1. SUFFICES ASSUME Init PROVE SparingInv
  OBVIOUS
<1>2. flash \in [Slots -> Blobs]
  BY <1>1, InitialBlobs DEF Init
<1>3. generation \in Generations /\ faults \in 0..MaxFaults
  BY <1>1, RepositoryAssumption DEF Init, Generations
<1> QED
  BY <1>1, <1>2, <1>3, RepositoryAssumption
     DEF Init, SparingInv, RepositoryTypeOK, TargetIsSpare, Slots

\* The boot writes no flash, and is followed by no write of its own.
LEMMA BootSpares == SparingInv /\ Boot => SparingInv'
<1>1. SUFFICES ASSUME SparingInv, Boot PROVE SparingInv'
  OBVIOUS
<1>2. RepositoryTypeOK
  BY <1>1 DEF SparingInv
<1>3. ASSUME NEW next \in {"ready", "begin"}, NEW usable \in BOOLEAN, BootTo(next, usable),
             running' \in Configurations, candidate' \in Configurations,
             faults' \in 0..MaxFaults
      PROVE  SparingInv'
  BY <1>2, <1>3 DEF BootTo, SparingInv, RepositoryTypeOK, TargetIsSpare
<1>4. CASE BootLoaded
  <2>1. PICK seen \in SeenSlots : /\ ReadSlots(seen)
                                  /\ Selected(seen) # "none"
                                  /\ running' = seen[Selected(seen)].configuration
    BY <1>4 DEF BootLoaded
  <2>2. seen[Selected(seen)] = flash[Selected(seen)] /\ Selected(seen) \in Slots
    BY <2>1, <1>2, SelectedSlot, ReadSlotsType
  <2>3. running' \in Configurations
    BY <2>1, <2>2, <1>2 DEF RepositoryTypeOK, Blobs
  <2>4. faults' \in 0..MaxFaults
    BY <2>1, <1>2, ReadSlotsType
  <2> QED
    BY <1>3, <1>4, <2>3, <2>4 DEF BootLoaded
<1>5. CASE BootPersistsDefaults
  <2>1. faults' \in 0..MaxFaults
    BY <1>5, <1>2, ReadSlotsType DEF BootPersistsDefaults
  <2> QED
    BY <1>3, <1>5, <2>1, RepositoryAssumption DEF BootPersistsDefaults, BootWithDefaults
<1>6. CASE BootKeepsDefaults
  <2>1. PICK seen \in SeenSlots :
           /\ ReadSlots(seen)
           /\ BootTo("ready", SomeSlot(seen, "incompatible") \/ ~SomeSlot(seen, "storage_error"))
    BY <1>6 DEF BootKeepsDefaults
  <2>2. faults' \in 0..MaxFaults
    BY <2>1, <1>2, ReadSlotsType
  <2>3. (SomeSlot(seen, "incompatible") \/ ~SomeSlot(seen, "storage_error")) \in BOOLEAN
    BY DEF SomeSlot
  <2> QED
    BY <1>3, <1>6, <2>1, <2>2, <2>3, RepositoryAssumption DEF BootKeepsDefaults, BootWithDefaults
<1>7. CASE BootWithoutStorage
  BY <1>3, <1>7, <1>2, StorageFaultType, RepositoryAssumption
     DEF BootWithoutStorage, BootWithDefaults
<1> QED
  BY <1>1, <1>4, <1>5, <1>6, <1>7 DEF Boot

\* The steps of a save.
LEMMA SaveSpares == SparingInv /\ Save => SparingInv'
<1>1. SUFFICES ASSUME SparingInv, Save PROVE SparingInv'
  OBVIOUS
<1>2. RepositoryTypeOK
  BY <1>1 DEF SparingInv
<1>3. ASSUME SaveFails, flash' \in [Slots -> Blobs], faults' \in 0..MaxFaults
      PROVE  SparingInv'
  BY <1>2, <1>3 DEF SaveFails, SparingInv, RepositoryTypeOK, TargetIsSpare
<1>4. CASE SaveBegin
  <2>1. PICK seen \in SeenSlots :
           /\ ReadSlots(seen)
           /\ \/ SaveCannotBegin(seen) /\ SaveFails
              \/ /\ ~SaveCannotBegin(seen)
                 /\ generation' = NextGeneration(seen)
                 /\ target' = SaveTarget(seen)
                 /\ pc' = "write"
                 /\ UNCHANGED <<running, candidate, booting, repository, result>>
    BY <1>4 DEF SaveBegin
  <2>2. CASE SaveCannotBegin(seen) /\ SaveFails
    BY <1>2, <1>3, <1>4, <2>1, <2>2, ReadSlotsType DEF SaveBegin, RepositoryTypeOK
  <2>3. CASE ~SaveCannotBegin(seen) /\ pc' = "write" /\ generation' = NextGeneration(seen)
             /\ target' = SaveTarget(seen)
             /\ UNCHANGED <<running, candidate, booting, repository, result>>
    <3>1. seen = flash /\ UNCHANGED faults
      BY <1>2, <2>1, <2>3, SaveBeginsWithFlash
    <3>2. generation' \in Generations /\ target' \in Slots /\ target' # Selected(flash)
      BY <1>2, <2>3, <3>1, NextGenerationType, SaveTargetIsSpare
    <3>3. flash' = flash
      BY <1>4 DEF SaveBegin
    <3>4. RepositoryTypeOK'
      BY <1>2, <2>3, <3>1, <3>2, <3>3 DEF RepositoryTypeOK
    <3> QED
      BY <3>2, <3>3, <3>4 DEF SparingInv, TargetIsSpare, Selected, AIsSelected
  <2> QED
    BY <2>1, <2>2, <2>3
<1>5. CASE SaveWritten
  <2>1. flash' \in [Slots -> Blobs] /\ faults' \in 0..MaxFaults
    BY <1>2, <1>5, WriteTargetEffect, StorageFaultType DEF SaveWritten, RepositoryTypeOK
  <2> QED
    BY <1>2, <1>5, <2>1 DEF SaveWritten, SparingInv, RepositoryTypeOK, TargetIsSpare
<1>6. CASE SaveNotWritten
  <2>1. flash' \in [Slots -> Blobs] /\ faults' \in 0..MaxFaults
    BY <1>2, <1>6, WriteTargetEffect, StorageFaultType DEF SaveNotWritten, RepositoryTypeOK
  <2> QED
    BY <1>3, <1>6, <2>1 DEF SaveNotWritten
<1>7. CASE SaveVerified
  BY <1>2, <1>7 DEF SaveVerified, SparingInv, RepositoryTypeOK, TargetIsSpare
<1>8. CASE SaveNotVerified
  <2>1. flash' \in [Slots -> Blobs] /\ faults' \in 0..MaxFaults
    BY <1>2, <1>8, StorageFaultType DEF SaveNotVerified, RepositoryTypeOK
  <2> QED
    BY <1>3, <1>8, <2>1 DEF SaveNotVerified
<1> QED
  BY <1>1, <1>4, <1>5, <1>6, <1>7, <1>8 DEF Save

\* Every step.
LEMMA SparingStep == SparingInv /\ [Next]_vars => SparingInv'
<1>1. SUFFICES ASSUME SparingInv, [Next]_vars PROVE SparingInv'
  OBVIOUS
<1>2. RepositoryTypeOK
  BY <1>1 DEF SparingInv
<1>3. ASSUME NEW c \in Configurations, Replace(c) \/ ReplaceRefused(c)
      PROVE  SparingInv'
  BY <1>2, <1>3 DEF Replace, ReplaceRefused, SparingInv, RepositoryTypeOK, TargetIsSpare
<1>4. CASE PowerLoss
  <2>1. flash' \in [Slots -> Blobs] /\ faults' \in 0..MaxFaults
    BY <1>2, <1>4, WriteTargetEffect, StorageFaultType DEF PowerLoss, RepositoryTypeOK
  <2> QED
    BY <1>2, <1>4, <2>1 DEF PowerLoss, SparingInv, RepositoryTypeOK, TargetIsSpare
<1>5. ASSUME NEW s \in Slots, Decay(s) PROVE SparingInv'
  <2>1. flash' \in [Slots -> Blobs] /\ faults' \in 0..MaxFaults
    <3>1. PICK state \in {"valid", "corrupt"}, g \in Generations :
                  flash' = [flash EXCEPT ![s] = Slot(state, g, @.configuration)]
      BY <1>5 DEF Decay
    <3>2. flash[s].configuration \in Configurations
      BY <1>2 DEF RepositoryTypeOK, Blobs
    <3>3. Slot(state, g, flash[s].configuration) \in Blobs
      BY <3>2 DEF Slot, Blobs
    <3>4. flash' \in [Slots -> Blobs]
      BY <1>2, <3>1, <3>3 DEF RepositoryTypeOK
    <3> QED
      BY <1>2, <1>5, <3>4, StorageFaultType DEF Decay
  <2> QED
    BY <1>2, <1>5, <2>1 DEF Decay, SparingInv, RepositoryTypeOK, TargetIsSpare
<1>6. CASE UNCHANGED vars
  BY <1>1, <1>6
     DEF vars, SparingInv, RepositoryTypeOK, TargetIsSpare, Selected, AIsSelected
<1> QED
  BY <1>1, <1>3, <1>4, <1>5, <1>6, BootSpares, SaveSpares DEF Next

\* Every state of the repository is of its type.
THEOREM RepositoryTypeCorrect == Spec => []RepositoryTypeOK
<1>1. SparingInv => RepositoryTypeOK
  BY DEF SparingInv
<1> QED
  BY <1>1, RepositoryInit, SparingStep, PTL DEF Spec

\* The only writes while the board is on go to the target of a save.
LEMMA OnlyTargetIsWritten ==
    ASSUME RepositoryTypeOK, [Next]_vars, pc # "off", NEW s \in Slots, flash'[s] # flash[s]
    PROVE  pc = "write" /\ s = target
<1>1. CASE Boot
  BY <1>1 DEF Boot, BootLoaded, BootPersistsDefaults, BootKeepsDefaults, BootWithoutStorage, BootTo
<1>2. CASE \E c \in Configurations : Replace(c) \/ ReplaceRefused(c)
  BY <1>2 DEF Replace, ReplaceRefused
<1>3. CASE Save
  BY <1>3, WriteTargetEffect
     DEF Save, SaveBegin, SaveWritten, SaveNotWritten, SaveVerified, SaveNotVerified
<1>4. CASE PowerLoss
  BY <1>4, WriteTargetEffect DEF PowerLoss
<1>5. CASE \E r \in Slots : Decay(r)
  BY <1>5 DEF Decay
<1>6. CASE UNCHANGED vars
  BY <1>6 DEF vars
<1> QED
  BY <1>1, <1>2, <1>3, <1>4, <1>5, <1>6 DEF Next

\* No step of a save, whatever fails in it, touches the slot the next boot
\* would load.
THEOREM SavesSpareLoadedSlot == Spec => SaveSparesLoadedSlot
<1>1. SparingInv /\ [Next]_vars
         => [pc # "off" => \A s \in Slots : flash'[s] # flash[s] => s # Selected(flash)]_vars
  BY OnlyTargetIsWritten DEF SparingInv, TargetIsSpare
<1> QED
  BY <1>1, RepositoryInit, SparingStep, PTL DEF Spec, SaveSparesLoadedSlot

-----------------------------------------------------------------------------
(* A change is atomic and durable *)

\* As long as nothing but a refused write or a power loss has happened, both
\* slots hold what was written to them, and the generation of a save exceeds
\* that of the slot it leaves alone; so what load selects moves from the
\* configuration in force to the candidate in one step, the write.
SlotsAreSound ==
    /\ \A s \in Slots : flash[s].state # "corrupt"
    /\ \A s \in Slots : flash[s].state # "valid" => flash[s].generation = 0
    /\ \A s, r \in Slots : s # r /\ flash[s].state = "valid" /\ flash[r].state = "valid"
          => flash[s].generation # flash[r].generation

\* The save under way writes a generation above that of the other slot.
SaveIsNewer ==
    pc = "write" =>
        /\ generation # 0
        /\ \A s \in Slots \ {target} : flash[s].state = "valid" => flash[s].generation < generation

\* Where in a save the next boot would turn from the old configuration to the
\* new one.
ReloadFollowsSave ==
    /\ pc = "off" => Reloaded \in {running, candidate}
    /\ pc \in {"ready", "begin", "write"} => Reloaded = running
    /\ pc = "verify" => /\ Reloaded = candidate
                        /\ flash[target] = Slot("valid", generation, candidate)

DurableInv ==
    /\ SparingInv
    /\ faults = 0 => SlotsAreSound /\ SaveIsNewer /\ ReloadFollowsSave

\* What load selects depends on the flash alone.
LEMMA SameFlash ==
    ASSUME flash' = flash
    PROVE  Selected(flash') = Selected(flash) /\ Reloaded' = Reloaded
BY DEF Selected, AIsSelected, Reloaded

\* Sound slots stay sound when nothing is written.
LEMMA SameSlots ==
    ASSUME flash' = flash, SlotsAreSound
    PROVE  SlotsAreSound'
BY DEF SlotsAreSound

\* With sound slots the next generation exceeds that of every valid slot but
\* the spare one.
LEMMA NextGenerationIsNewer ==
    ASSUME RepositoryTypeOK, SlotsAreSound, NextGeneration(flash) # 0,
           NEW s \in Slots \ {SaveTarget(flash)}, flash[s].state = "valid"
    PROVE  flash[s].generation < NextGeneration(flash)
<1>1. \A r \in Slots : flash[r].generation \in Nat /\ flash[r].generation <= MaxGeneration
  BY RepositoryAssumption DEF RepositoryTypeOK, Blobs, Generations
<1>2. \A g \in Nat : g <= MaxGeneration /\ Successor(g) # 0 => Successor(g) = g + 1
  BY RepositoryAssumption DEF Successor
<1>3. CASE SaveTarget(flash) = "cfg_b"
  <2>1. s = "cfg_a" /\ AIsSelected(flash)
    BY <1>3 DEF Slots, SaveTarget
  <2>2. flash["cfg_a"].generation >= flash["cfg_b"].generation
    BY <2>1, <1>1 DEF AIsSelected, SlotsAreSound, Slots
  <2>3. NextGeneration(flash) = Successor(flash["cfg_a"].generation)
    BY <2>1, <2>2 DEF AIsSelected, NextGeneration
  <2> QED
    BY <1>1, <1>2, <2>1, <2>3 DEF Slots
<1>4. CASE SaveTarget(flash) = "cfg_a"
  <2>1. s = "cfg_b" /\ ~AIsSelected(flash)
    BY <1>4 DEF Slots, SaveTarget
  <2>2. NextGeneration(flash) = Successor(flash["cfg_b"].generation)
    BY <2>1 DEF AIsSelected, NextGeneration
  <2> QED
    BY <1>1, <1>2, <2>1, <2>2 DEF Slots
<1> QED
  BY <1>3, <1>4, SaveTargetIsSpare DEF Slots

\* Writing a valid blob of a newer generation makes it the one load selects.
LEMMA WriteIsSelected ==
    ASSUME RepositoryTypeOK, SlotsAreSound, SaveIsNewer, pc = "write", WriteTarget("valid")
    PROVE  SlotsAreSound' /\ Reloaded' = candidate
<1>1. /\ flash'[target] = Slot("valid", generation, candidate)
      /\ \A s \in Slots \ {target} : flash'[s] = flash[s]
  BY WriteTargetEffect
<1>2. generation \in Nat /\ \A s \in Slots : flash[s].generation \in Nat
  BY RepositoryAssumption DEF RepositoryTypeOK, Blobs, Generations
<1>3. \A s \in Slots \ {target} : flash'[s].state = "valid" => flash'[s].generation < generation
  BY <1>1 DEF SaveIsNewer
<1>4. flash'[target].state = "valid" /\ flash'[target].generation = generation
      /\ flash'[target].configuration = candidate
  BY <1>1 DEF Slot
<1>5. target \in Slots
  BY DEF RepositoryTypeOK
<1>6. Selected(flash') = target
  <2>1. CASE target = "cfg_a"
    BY <1>1, <1>2, <1>3, <1>4, <2>1 DEF Selected, AIsSelected, Slots
  <2>2. CASE target = "cfg_b"
    BY <1>1, <1>2, <1>3, <1>4, <2>2 DEF Selected, AIsSelected, Slots
  <2> QED
    BY <1>5, <2>1, <2>2 DEF Slots
<1>7. SlotsAreSound'
  BY <1>1, <1>2, <1>3, <1>4, <1>5 DEF SlotsAreSound
<1> QED
  BY <1>4, <1>5, <1>6, <1>7 DEF Reloaded, Slots

\* At power on nothing has been saved and the defaults are in force.
LEMMA DurableInit == Init => DurableInv
<1>1. SUFFICES ASSUME Init PROVE DurableInv
  OBVIOUS
<1>2. \A s \in Slots : flash[s] \in {EmptySlot, IncompatibleSlot}
  BY <1>1 DEF Init
<1>3. \A s \in Slots : flash[s].state \in {"empty", "incompatible"} /\ flash[s].generation = 0
  BY <1>2 DEF EmptySlot, IncompatibleSlot, Slot
<1>4. SlotsAreSound /\ Selected(flash) = "none"
  BY <1>3, SelectedSlot DEF SlotsAreSound
<1> QED
  BY <1>1, <1>4, RepositoryInit
     DEF Init, DurableInv, SaveIsNewer, ReloadFollowsSave, Reloaded

\* The boot takes over what load selects.
LEMMA BootIsDurable ==
    ASSUME DurableInv, Boot, faults' = 0
    PROVE  SlotsAreSound' /\ SaveIsNewer' /\ ReloadFollowsSave'
<1>1. RepositoryTypeOK /\ flash' = flash
  BY DEF DurableInv, SparingInv, Boot, BootLoaded, BootPersistsDefaults, BootKeepsDefaults,
         BootWithoutStorage, BootTo
<1>2. ~BootWithoutStorage
  BY <1>1, StorageFaultType DEF BootWithoutStorage
<1>3. PICK seen : /\ ReadSlots(seen)
                  /\ \/ /\ BootLoaded
                        /\ Selected(seen) # "none"
                        /\ running' = seen[Selected(seen)].configuration
                     \/ BootPersistsDefaults /\ \A s \in Slots : seen[s].state = "empty"
                     \/ BootKeepsDefaults /\ Selected(seen) = "none"
  BY <1>2 DEF Boot, BootLoaded, BootPersistsDefaults, BootKeepsDefaults
<1>4. faults = 0 /\ seen = flash
  BY <1>1, <1>3, ReadSlotsType
<1>5. SlotsAreSound'
  BY <1>1, <1>4, SameSlots DEF DurableInv
<1>6. pc' \in {"ready", "begin"}
  BY <1>3 DEF BootLoaded, BootPersistsDefaults, BootKeepsDefaults, BootTo
<1>7. running' = Reloaded
  <2>1. CASE BootLoaded /\ Selected(seen) # "none"
             /\ running' = seen[Selected(seen)].configuration
    BY <1>4, <2>1 DEF Reloaded
  <2>2. CASE BootPersistsDefaults /\ \A s \in Slots : seen[s].state = "empty"
    BY <1>4, <2>2, SelectedSlot DEF BootPersistsDefaults, BootWithDefaults, Reloaded
  <2>3. CASE BootKeepsDefaults /\ Selected(seen) = "none"
    BY <1>4, <2>3 DEF BootKeepsDefaults, BootWithDefaults, Reloaded
  <2> QED
    BY <1>3, <2>1, <2>2, <2>3
<1> QED
  BY <1>1, <1>5, <1>6, <1>7, SameFlash DEF SaveIsNewer, ReloadFollowsSave

\* A save turns from the old configuration to the new one by its write.
LEMMA SaveIsDurable ==
    ASSUME DurableInv, Save, faults' = 0
    PROVE  SlotsAreSound' /\ SaveIsNewer' /\ ReloadFollowsSave'
<1>1. RepositoryTypeOK
  BY DEF DurableInv, SparingInv
<1>2. ~StorageFault
  BY <1>1, StorageFaultType
<1>3. ASSUME flash' = flash, faults = 0, Reloaded = running', pc' = "ready"
      PROVE  SlotsAreSound' /\ SaveIsNewer' /\ ReloadFollowsSave'
  BY <1>3, SameFlash, SameSlots DEF DurableInv, SaveIsNewer, ReloadFollowsSave
<1>4. CASE SaveBegin
  <2>1. PICK seen \in SeenSlots :
           /\ ReadSlots(seen)
           /\ \/ SaveCannotBegin(seen) /\ SaveFails
              \/ /\ ~SaveCannotBegin(seen)
                 /\ generation' = NextGeneration(seen)
                 /\ target' = SaveTarget(seen)
                 /\ pc' = "write"
                 /\ UNCHANGED <<running, candidate, booting, repository, result>>
    BY <1>4 DEF SaveBegin
  <2>2. faults = 0 /\ seen = flash /\ flash' = flash
    BY <1>1, <1>4, <2>1, ReadSlotsType DEF SaveBegin
  <2>3. SlotsAreSound /\ Reloaded = running
    BY <1>4, <2>2 DEF DurableInv, ReloadFollowsSave, SaveBegin
  <2>4. CASE SaveCannotBegin(seen) /\ SaveFails
    BY <1>3, <2>2, <2>3, <2>4 DEF SaveFails
  <2>5. CASE ~SaveCannotBegin(seen) /\ pc' = "write" /\ generation' = NextGeneration(seen)
             /\ target' = SaveTarget(seen)
             /\ UNCHANGED <<running, candidate, booting, repository, result>>
    <3>1. NextGeneration(flash) # 0
      BY <2>2, <2>5 DEF SaveCannotBegin
    <3>2. SaveIsNewer'
      BY <1>1, <2>2, <2>3, <2>5, <3>1, NextGenerationIsNewer DEF SaveIsNewer
    <3>3. ReloadFollowsSave'
      BY <2>2, <2>3, <2>5, SameFlash DEF ReloadFollowsSave
    <3> QED
      BY <2>2, <2>3, <3>2, <3>3, SameSlots
  <2> QED
    BY <2>1, <2>4, <2>5
<1>5. CASE SaveWritten
  <2>1. faults = 0 /\ pc = "write" /\ WriteTarget("valid") /\ pc' = "verify"
        /\ UNCHANGED <<candidate, generation, target>>
    BY <1>2, <1>5 DEF SaveWritten
  <2>2. SlotsAreSound' /\ Reloaded' = candidate
    BY <1>1, <2>1, WriteIsSelected DEF DurableInv
  <2>3. flash'[target] = Slot("valid", generation, candidate)
    BY <1>1, <2>1, WriteTargetEffect
  <2> QED
    BY <2>1, <2>2, <2>3 DEF SaveIsNewer, ReloadFollowsSave
<1>6. CASE SaveNotWritten
  BY <1>2, <1>3, <1>6 DEF SaveNotWritten, SaveFails, DurableInv, ReloadFollowsSave
<1>7. CASE SaveVerified
  BY <1>3, <1>7 DEF SaveVerified, DurableInv, ReloadFollowsSave
<1>8. CASE SaveNotVerified
  <2>1. faults = 0 /\ pc = "verify" /\ flash[target].state # "valid"
    BY <1>2, <1>8 DEF SaveNotVerified
  <2> QED
    BY <2>1 DEF DurableInv, ReloadFollowsSave, Slot
<1> QED
  BY <1>4, <1>5, <1>6, <1>7, <1>8 DEF Save

\* Every step.
LEMMA DurableStep == DurableInv /\ [Next]_vars => DurableInv'
<1>1. SUFFICES ASSUME DurableInv, [Next]_vars, faults' = 0
               PROVE  SlotsAreSound' /\ SaveIsNewer' /\ ReloadFollowsSave'
  BY SparingStep DEF DurableInv
<1>2. RepositoryTypeOK
  BY <1>1 DEF DurableInv, SparingInv
<1>3. ~StorageFault
  BY <1>1, <1>2, StorageFaultType
<1>4. ASSUME NEW c \in Configurations, Replace(c) \/ ReplaceRefused(c)
      PROVE  SlotsAreSound' /\ SaveIsNewer' /\ ReloadFollowsSave'
  BY <1>1, <1>4, SameFlash, SameSlots
     DEF Replace, ReplaceRefused, DurableInv, SaveIsNewer, ReloadFollowsSave
<1>5. CASE PowerLoss
  <2>1. faults = 0 /\ pc # "off" /\ pc' = "off" /\ UNCHANGED <<running, candidate>>
    BY <1>1, <1>3, <1>5 DEF PowerLoss
  <2>4. flash' = flash \/ (pc = "write" /\ WriteTarget("valid"))
    BY <1>3, <1>5 DEF PowerLoss
  <2>2. CASE flash' = flash
    <3>1. Reloaded \in {running, candidate}
      BY <1>1, <1>2, <2>1 DEF DurableInv, ReloadFollowsSave, RepositoryTypeOK
    <3>2. SlotsAreSound'
      BY <1>1, <2>1, <2>2, SameSlots DEF DurableInv
    <3> QED
      BY <2>1, <2>2, <3>1, <3>2, SameFlash DEF SaveIsNewer, ReloadFollowsSave
  <2>3. CASE pc = "write" /\ WriteTarget("valid")
    BY <1>1, <1>2, <2>1, <2>3, WriteIsSelected
       DEF DurableInv, SaveIsNewer, ReloadFollowsSave
  <2> QED
    BY <2>2, <2>3, <2>4
<1>6. ASSUME NEW s \in Slots, Decay(s) PROVE FALSE
  BY <1>3, <1>6 DEF Decay
<1>7. CASE UNCHANGED vars
  BY <1>1, <1>7, SameFlash, SameSlots DEF vars, DurableInv, SaveIsNewer, ReloadFollowsSave
<1> QED
  BY <1>1, <1>4, <1>5, <1>6, <1>7, BootIsDurable, SaveIsDurable DEF Next

\* With storage that at most refuses writes and loses power, the next boot
\* runs with the configuration in force or with the one being saved, and
\* between two changes with the one in force.
THEOREM ChangesAreAtomicAndDurable == Spec => []ChangeIsAtomicAndDurable
<1>1. DurableInv => ChangeIsAtomicAndDurable
  BY DEF DurableInv, SparingInv, RepositoryTypeOK, ReloadFollowsSave, ChangeIsAtomicAndDurable
<1> QED
  BY <1>1, DurableInit, DurableStep, PTL DEF Spec
=============================================================================

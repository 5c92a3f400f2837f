---------------------------- MODULE DriverProofs ----------------------------
(***************************************************************************)
(* The two drivers with a state of their own do what their services rely   *)
(* on, so that what is proved of the services holds of the relays and of   *)
(* the remote valve.                                                       *)
(*                                                                         *)
(* The driver of the controller board, for every set of zones: the         *)
(* invariant this takes is that the mask is never ahead of the board, for  *)
(* a write of the mask would energise what it is ahead by.                 *)
(*                                                                         *)
(* The driver of the remote valve, for every set of tasks and every number *)
(* of requests under way: a call that is confirmed has seen the valve as   *)
(* it asked, and the valve moves by itself only while a call is under way  *)
(* or after one that failed.  The second is where the order of the         *)
(* requests counts: once the request of a call has been served none sent   *)
(* before it is left.                                                      *)
(***************************************************************************)
EXTENDS OutputDriver, ShellyMasterValve, ZoneServiceProofs, MasterValveServiceProofs,
        SequenceTheorems

-----------------------------------------------------------------------------
(* The driver of the controller board. *)

\* A call of the driver is one that ZoneService allows.
LEMMA SetOutputIsDrive ==
    ASSUME MaskIsEnergised, NEW z, NEW enabled \in BOOLEAN, NEW succeeds \in BOOLEAN,
           SetOutput(z, enabled, succeeds)
    PROVE  /\ MaskIsEnergised'
           /\ IF enabled THEN DriveOn(z, succeeds) ELSE DriveOff(z, succeeds)
<1>1. CASE enabled
  BY <1>1 DEF MaskIsEnergised, SetOutput, RequestedMask, DriveOn
<1>2. CASE ~enabled
  BY <1>2 DEF MaskIsEnergised, SetOutput, RequestedMask, DriveOff
<1>. QED  BY <1>1, <1>2

\* So is a step of the service that calls it.
LEMMA DriverStep ==
    ASSUME MaskIsEnergised, NEW t \in Tasks,
           DriverOpen(t) \/ DriverUndo(t) \/ DriverWithdraw(t) \/ DriverClose(t)
    PROVE  MaskIsEnergised' /\ DriverCall(t)
<1>1. CASE DriverOpen(t)
  BY <1>1, SetOutputIsDrive DEF DriverOpen, DriverCall, OpenDrive
<1>2. CASE DriverUndo(t)
  BY <1>2, SetOutputIsDrive DEF DriverUndo, DriverCall, OpenUndo
<1>3. CASE DriverWithdraw(t)
  BY <1>3, SetOutputIsDrive DEF DriverWithdraw, DriverCall, OpenWithdraw
<1>4. CASE DriverClose(t)
  BY <1>4, SetOutputIsDrive DEF DriverClose, DriverCall, CloseDrive
<1>. QED  BY <1>1, <1>2, <1>3, <1>4

\* The other steps call no driver.
LEMMA NoDriverStep ==
    ASSUME \/ \E t \in Tasks : OtherZoneStep(t)
           \/ AroundZoneService
    PROVE  UNCHANGED relays
  BY DEF OtherZoneStep, AcquireZoneLock, RejectZoneCall, OpenCheck, OpenCheckRejects,
         OpenPrepare, OpenPrepareRejects, OpenConfirm, OpenCommit, CloseCheck,
         CloseCheckRejects, CloseCommit, FaultZone, LoopStart, LoopNext, LoopEnd,
         AroundZoneService, ZoneClient, CallZone, ZoneReturned, ZoneDurationElapses,
         MasterValveChanges, zoneServiceVars

\* Every step on the board's driver keeps the mask behind the board and is a step of ZoneService.
LEMMA DriverNextStep ==
    MaskIsEnergised /\ [DriverNext]_driverVars => MaskIsEnergised' /\ [ZoneNext]_zoneVars
<1>. SUFFICES ASSUME MaskIsEnergised, [DriverNext]_driverVars
              PROVE  MaskIsEnergised' /\ [ZoneNext]_zoneVars
  OBVIOUS
<1>1. CASE UNCHANGED driverVars
  BY <1>1 DEF driverVars, zoneVars, zoneServiceVars, MaskIsEnergised
<1>2. ASSUME NEW t \in Tasks, UNCHANGED masterState,
             DriverOpen(t) \/ DriverUndo(t) \/ DriverWithdraw(t) \/ DriverClose(t)
      PROVE  MaskIsEnergised' /\ [ZoneNext]_zoneVars
  BY <1>2, DriverStep DEF ZoneNext, ZoneServiceStep
<1>3. CASE /\ \/ \E t \in Tasks : OtherZoneStep(t) /\ UNCHANGED masterState
              \/ AroundZoneService
           /\ UNCHANGED outputMask
  BY <1>3, NoDriverStep DEF ZoneNext, ZoneServiceStep, MaskIsEnergised
<1>. QED  BY <1>1, <1>2, <1>3 DEF DriverNext

\* What the driver takes for on is on.
THEOREM MaskCorrect == DriverSpec => []MaskIsEnergised
<1>1. DriverInit => MaskIsEnergised
  BY DEF DriverInit, MaskIsEnergised
<1>. QED  BY <1>1, DriverNextStep, PTL DEF DriverSpec

\* The zone service on the board's driver is the zone service.
THEOREM DriverImplementsZones == DriverSpec => ZoneSpec
<1>1. DriverInit => ZoneInit /\ MaskIsEnergised
  BY DEF DriverInit, ZoneInit, ZoneServiceInit, MaskIsEnergised
<1>. QED  BY <1>1, DriverNextStep, PTL DEF DriverSpec, ZoneSpec

\* One relay of the board at a time, through every failure of its bus.
COROLLARY OneRelayOnTheBoard == DriverSpec => []OneRelayEnergised
  BY DriverImplementsZones, OneActiveZone

-----------------------------------------------------------------------------
(* The driver of the remote valve. *)

Positions == {"open", "closed"}

ExchangeInv ==
    /\ exchange \in {"none", "set", "set_served", "status"}
    /\ inbox \in Seq(Positions)
    /\ exchange # "none" => \E t \in Tasks : DriverIsCalled(t)
    /\ exchange \in {"set_served", "status"} => inbox = <<>>
    /\ NoStrayRequest

\* What is left of the inbox when its first request is gone.
LEMMA TailOfInbox ==
    ASSUME inbox \in Seq(Positions), inbox # <<>>
    PROVE  /\ Tail(inbox) \in Seq(Positions)
           /\ Head(inbox) \in Positions
           /\ Len(inbox) = 1 => Tail(inbox) = <<>>
<1>1. Tail(inbox) \in Seq(Positions) /\ Len(Tail(inbox)) = Len(inbox) - 1
  BY HeadTailProperties
<1>2. Head(inbox) \in Positions
  BY HeadTailProperties
<1>. QED  BY <1>1, <1>2, EmptySeq

\* An exchange under way belongs to the task in the driver call.
LEMMA ShellyCallRefined ==
    ASSUME MasterInv, NEW t \in Tasks, ShellyCall(t)
    PROVE  [MasterNext]_masterVars
<1>1. CASE SendSet(t) \/ SetAnswered(t)
  BY <1>1 DEF SendSet, SetAnswered, Waits, masterVars, masterServiceVars
<1>2. CASE StatusAnswered(t) \/ ExchangeFails(t)
  BY <1>2 DEF StatusAnswered, ExchangeFails, MasterDrive, MasterServiceStep, MasterNext
<1>. QED  BY <1>1, <1>2 DEF ShellyCall

\* The valve on its own: what it does is allowed to it by RemoteValveWorks.
LEMMA ValveStepRefined ==
    ASSUME MasterInv, ExchangeInv, ValveServes \/ RequestIsLost
    PROVE  [MasterNext]_masterVars
<1>1. CASE ValveServes
  <2>1. masterState = "FAULT" \/ \E t \in Tasks : DriverIsCalled(t)
    BY <1>1 DEF ValveServes, ExchangeInv, NoStrayRequest
  <2>2. remoteValve' \in {"open", "closed"}
    BY <1>1, TailOfInbox DEF ValveServes, ExchangeInv, MasterInv, MasterTypeOK, Positions
  <2>. QED  BY <1>1, <2>1, <2>2 DEF ValveServes, Waits, RemoteValveWorks, MasterNext
<1>2. CASE RequestIsLost
  BY <1>2 DEF RequestIsLost, Waits, masterVars, masterServiceVars
<1>. QED  BY <1>1, <1>2

\* Every step on the driver is a step of the service or leaves it alone.
LEMMA ShellyStepRefined ==
    MasterInv /\ ExchangeInv /\ [ShellyNext]_shellyVars => [MasterNext]_masterVars
<1>. SUFFICES ASSUME MasterInv, ExchangeInv, ShellyNext PROVE [MasterNext]_masterVars
  BY DEF shellyVars
<1>1. ASSUME NEW t \in Tasks, OtherMasterStep(t), UNCHANGED outputState
      PROVE  [MasterNext]_masterVars
  BY <1>1 DEF MasterServiceStep, MasterNext
<1>2. CASE AroundMasterService
  BY <1>2 DEF MasterNext
<1>. QED  BY <1>1, <1>2, ShellyCallRefined, ValveStepRefined DEF ShellyNext

\* The steps of the service around the driver leave the task in the driver
\* call where it is, and none of them ends a fault.
LEMMA ServiceKeepsCallAndFault ==
    ASSUME MasterInv,
           \/ \E u \in Tasks : OtherMasterStep(u)
           \/ AroundMasterService
    PROVE  /\ \A t \in Tasks : DriverIsCalled(t) => DriverIsCalled(t)'
           /\ masterState = "FAULT" => masterState' = "FAULT"
<1>. USE DEF DriverIsCalled, MasterGoto, MasterReturn, storeMasterVars,
             MasterInv, MasterTypeOK
<1>1. ASSUME NEW u \in Tasks, OtherMasterStep(u)
      PROVE  /\ \A t \in Tasks : DriverIsCalled(t) => DriverIsCalled(t)'
             /\ masterState = "FAULT" => masterState' = "FAULT"
  <2>1. CASE \/ AcquireMasterLock(u) \/ RejectMasterCall(u)
             \/ MasterOpenCheck(u) \/ MasterOpenRejects(u)
    BY <2>1 DEF AcquireMasterLock, RejectMasterCall, MasterOpenCheck,
                MasterOpenRejects, MasterCallPcs
  <2>2. CASE MasterProcessTime(u)
    BY <2>2 DEF MasterProcessTime, CompleteMasterValvePreOpenDelay
  <2>3. CASE MasterCloseCheck(u) \/ MasterCloseRejects(u)
    BY <2>3 DEF MasterCloseCheck, MasterCloseRejects
  <2>4. CASE MasterCloseBegin(u)
    BY <2>4 DEF MasterCloseBegin, WriteMasterValveClosing, MasterHolderInv
  <2>. QED  BY <1>1, <2>1, <2>2, <2>3, <2>4 DEF OtherMasterStep
<1>2. CASE AroundMasterService
  BY <1>2 DEF AroundMasterService, MasterClient, CallMaster, MasterReturned,
              PreOpenDelayElapses, OutputsChange, masterServiceVars
<1>. QED  BY <1>1, <1>2

\* ExchangeInv is inductive.
LEMMA ExchangeNextInv == MasterInv /\ ExchangeInv /\ [ShellyNext]_shellyVars => ExchangeInv'
<1>. SUFFICES ASSUME MasterInv, ExchangeInv, [ShellyNext]_shellyVars PROVE ExchangeInv'
  OBVIOUS
<1>. USE DEF ExchangeInv, NoStrayRequest
<1>1. ASSUME NEW t \in Tasks, SendSet(t)
      PROVE  ExchangeInv'
  <2>1. inbox' \in Seq(Positions)
    BY <1>1, AppendProperties DEF SendSet, Requested, Positions
  <2>. QED  BY <1>1, <2>1 DEF SendSet, DriverIsCalled, Waits
<1>2. ASSUME NEW t \in Tasks, SetAnswered(t)
      PROVE  ExchangeInv'
  BY <1>2 DEF SetAnswered, DriverIsCalled, Waits, storeMasterVars
<1>3. ASSUME NEW t \in Tasks, StatusAnswered(t)
      PROVE  ExchangeInv'
  BY <1>3 DEF StatusAnswered
<1>4. ASSUME NEW t \in Tasks, ExchangeFails(t)
      PROVE  ExchangeInv'
  BY <1>4 DEF ExchangeFails, DriverFailed, RecordMasterValveFault
<1>5. CASE ValveServes
  BY <1>5, TailOfInbox DEF ValveServes, DriverIsCalled, Waits, storeMasterVars
<1>6. CASE RequestIsLost
  BY <1>6, TailOfInbox DEF RequestIsLost, DriverIsCalled, Waits, storeMasterVars
<1>7. ASSUME (\E t \in Tasks : OtherMasterStep(t)) \/ AroundMasterService,
             UNCHANGED exchangeVars
      PROVE  ExchangeInv'
  BY <1>7, ServiceKeepsCallAndFault DEF exchangeVars
<1>8. CASE UNCHANGED shellyVars
  BY <1>8 DEF shellyVars, masterVars, storeMasterVars, masterServiceVars,
              exchangeVars, DriverIsCalled
<1>. QED
  BY <1>1, <1>2, <1>3, <1>4, <1>5, <1>6, <1>7, <1>8 DEF ShellyNext, ShellyCall

\* The two invariants together.
LEMMA ShellyInvariant == ShellySpec => [](MasterInv /\ ExchangeInv)
<1>1. ShellyInit => MasterInv /\ ExchangeInv
  BY MasterInitInv DEF ShellyInit, ExchangeInv, NoStrayRequest
<1>2. MasterInv /\ ExchangeInv /\ [ShellyNext]_shellyVars => (MasterInv /\ ExchangeInv)'
  BY ShellyStepRefined, MasterNextInv, ExchangeNextInv
<1>. QED  BY <1>1, <1>2, PTL DEF ShellySpec

\* The service on the driver of the remote valve implements the service as the
\* rest of the firmware knows it, though requests and answers are lost or late.
THEOREM ShellyImplementsMaster == ShellySpec => MasterSpec
<1>1. ShellyInit => MasterInit
  BY DEF ShellyInit
<1>. QED  BY <1>1, ShellyStepRefined, ShellyInvariant, PTL DEF ShellySpec, MasterSpec

\* No request outlives a call of the driver that did not fail.
THEOREM ShellyLeavesNoRequest == ShellySpec => []NoStrayRequest
<1>1. ExchangeInv => NoStrayRequest
  BY DEF ExchangeInv
<1>. QED  BY <1>1, ShellyInvariant, PTL

\* On the valve behind its network too a valve recorded OPENING or OPEN is open
\* and every CLOSED but that of the initial store is confirmed.
COROLLARY ShellyValveIsKnown == ShellySpec => []RemoteValveIsKnown /\ ClosedIsConfirmed
  BY ShellyImplementsMaster, RemoteValveCorrect, ClosedValveCorrect
=============================================================================

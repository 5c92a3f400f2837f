------------------------- MODULE ShellyMasterValve --------------------------
(***************************************************************************)
(* The master valve service on the driver of the remote valve              *)
(* (hal/master_valve/shelly_master_valve_driver.c): two HTTP exchanges,    *)
(* Switch.Set and then Switch.GetStatus, each with a time limit            *)
(* (esp_shelly_http_transport.c) and neither tried twice.                  *)
(*                                                                         *)
(* A request or an answer may be lost, an answer come after the time       *)
(* limit, when nobody reads it, and a request be carried out long after    *)
(* the driver has given up on it.  The valve may answer a Set without      *)
(* carrying it out.  Requests are carried out in the order they were sent. *)
(* Who holds the operation lock is the only one in an exchange.            *)
(***************************************************************************)
EXTENDS MasterValveService, Sequences

CONSTANT MaxInbox    \* bound: requests on their way to the valve

ASSUME InboxAssumption == MaxInbox \in Nat \ {0}

VARIABLES
    exchange,   \* of the driver call under way: what it waits for
    inbox       \* Set requests on their way to the valve

exchangeVars == <<exchange, inbox>>
shellyVars   == <<masterVars, exchangeVars>>

\* The driver waits; the caller's place in the service stays.
Waits == UNCHANGED <<storeMasterVars, outputState, masterLock, masterPc>>

\* set_and_confirm: the first request.
SendSet(t) ==
    /\ DriverIsCalled(t)
    /\ exchange = "none"
    /\ Len(inbox) < MaxInbox
    /\ exchange' = "set"
    /\ inbox' = Append(inbox, Requested(t))
    /\ Waits /\ UNCHANGED remoteValve

\* The valve carries out the request before all others, or answers it only;
\* nothing after the last one is the request of the exchange.
ValveServes ==
    /\ inbox # <<>>
    /\ remoteValve' \in {remoteValve, Head(inbox)}
    /\ inbox' = Tail(inbox)
    /\ exchange' = IF exchange = "set" /\ Len(inbox) = 1 THEN "set_served" ELSE exchange
    /\ Waits

RequestIsLost ==
    /\ inbox # <<>>
    /\ inbox' = Tail(inbox)
    /\ UNCHANGED exchange
    /\ Waits /\ UNCHANGED remoteValve

\* Mutant: the answer to Set is taken for the confirmation.
SetAnswerConfirms(t) ==
    /\ DriverIsCalled(t)
    /\ exchange = "set_served"
    /\ exchange' = "none"
    /\ DriverConfirmed(t)
    /\ UNCHANGED <<outputState, remoteValve, inbox>>

\* An answer with status 2xx and no "error"; the second request goes out.
SetAnswered(t) ==
    /\ DriverIsCalled(t)
    /\ exchange = "set_served"
    /\ exchange' = "status"
    /\ UNCHANGED inbox
    /\ Waits /\ UNCHANGED remoteValve

\* The answer says what the valve does, and is compared with what was asked.
StatusAnswered(t) ==
    /\ DriverIsCalled(t)
    /\ exchange = "status"
    /\ exchange' = "none"
    /\ IF remoteValve = Requested(t) THEN DriverConfirmed(t) ELSE DriverFailed(t)
    /\ UNCHANGED <<outputState, remoteValve, inbox>>

\* No connection, no answer in time, or one that says nothing of use.
ExchangeFails(t) ==
    /\ DriverIsCalled(t)
    /\ exchange' = "none"
    /\ DriverFailed(t)
    /\ UNCHANGED <<outputState, remoteValve, inbox>>

ShellyCall(t) == SendSet(t) \/ SetAnswered(t) \/ StatusAnswered(t) \/ ExchangeFails(t)

ShellyInit == MasterInit /\ exchange = "none" /\ inbox = <<>>

ShellyNext ==
    \/ \E t \in Tasks : ShellyCall(t)
    \/ \E t \in Tasks : OtherMasterStep(t) /\ UNCHANGED <<outputState, exchangeVars>>
    \/ AroundMasterService /\ UNCHANGED exchangeVars
    \/ ValveServes
    \/ RequestIsLost

ShellySpec == ShellyInit /\ [][ShellyNext]_shellyVars

-----------------------------------------------------------------------------

\* A driver call leaves nothing behind unless it failed: requests are under
\* way only while it waits for one of them or the valve is recorded in FAULT,
\* so that no late request moves a valve whose state is taken for known.
NoStrayRequest ==
    inbox # <<>> => masterState = "FAULT" \/ exchange = "set"
=============================================================================

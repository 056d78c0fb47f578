----------------------------- MODULE CommandWire -----------------------------
(***************************************************************************)
(* The requests the clients of one device make, and the two MQTT topics    *)
(* that join the backend's DeviceCommandService to that device:            *)
(* "commands" (QoS 1, not retained) and "command-receipts" (QoS 1).        *)
(*                                                                         *)
(* A request is one POST /api/v1/commands/send (or one call of sendCommand *)
(* by a scene, an automation, ...).  Its commandId, idempotency key,       *)
(* action and channel are functions of the request, so that two requests   *)
(* can carry the same key, or the same commandId, as retries do.           *)
(*                                                                         *)
(* The broker is not under src/: it is modelled from how the two clients   *)
(* open their sessions.  Both are clean sessions, so a command published   *)
(* while the device has no session is dropped, those in flight are dropped *)
(* when its session ends, and a receipt is dropped while the backend has   *)
(* none.  The publishers re-send what the broker did not acknowledge.      *)
(***************************************************************************)
EXTENDS Naturals, Sequences, FiniteSets

CONSTANTS
    Requests,      \* calls of DeviceCommandService.sendCommand
    Commands,      \* commandId values
    Keys,          \* idempotencyKey values
    CommandOf,     \* Requests -> Commands
    KeyOf,         \* Requests -> Keys
    Expirable,     \* bound: the requests whose expiresAt a behaviour may reach
    MaxInFlight,   \* bound: messages in flight to the device
    MaxCopies,     \* bound: copies of one receipt in flight to the backend
    Lossy          \* whether sessions may end and receipts may be lost

ASSUME RequestsAssumption ==
    /\ CommandOf \in [Requests -> Commands]
    /\ KeyOf \in [Requests -> Keys]

ASSUME WireAssumption ==
    /\ Expirable \subseteq Requests
    /\ MaxInFlight \in Nat \ {0}
    /\ MaxCopies \in Nat \ {0}
    /\ Lossy \in BOOLEAN

VARIABLES
    toDevice,  \* requests whose envelope is in flight on "commands", in order
    toCloud,   \* how many copies of each receipt are in flight to the backend
    online,    \* the device has a session with the broker
    expired    \* requests whose expiresAt has passed

wireVars == <<toDevice, toCloud, online, expired>>

ReceiptStatus == {"APPLIED", "FAILED", "EXPIRED"}
Receipts == Commands \X ReceiptStatus

WireTypeOK ==
    /\ toDevice \in Seq(Requests)
    /\ toCloud \in [Receipts -> 0..MaxCopies]
    /\ online \in BOOLEAN
    /\ expired \subseteq Requests

WireInit ==
    /\ toDevice = <<>>
    /\ toCloud = [x \in Receipts |-> 0]
    /\ online \in BOOLEAN
    /\ expired = {}

-----------------------------------------------------------------------------
(* What a publish does to the channels.                                    *)

\* The broker forwards a command only to a live session; QoS 1 promises the
\* publisher no more than the broker's acknowledgement.
SendCommand(r) ==
    toDevice' = IF online THEN Append(toDevice, r) ELSE toDevice

SendReceipt(c, s) ==
    toCloud' = [toCloud EXCEPT ![<<c, s>>] = IF @ < MaxCopies THEN @ + 1 ELSE @]

TakeReceipt(c, s) ==
    /\ toCloud[<<c, s>>] > 0
    /\ toCloud' = [toCloud EXCEPT ![<<c, s>>] = @ - 1]

-----------------------------------------------------------------------------
(* What the world does to the channels on its own.                         *)

\* The device (re)subscribes to its command topic after CONNACK.
DeviceConnects ==
    /\ ~online
    /\ online' = TRUE
    /\ UNCHANGED <<toDevice, toCloud, expired>>

\* The session ends: a clean session keeps nothing for the next one.
DeviceDisconnects ==
    /\ Lossy
    /\ online
    /\ online' = FALSE
    /\ toDevice' = <<>>
    /\ UNCHANGED <<toCloud, expired>>

\* The backend has no session when the broker routes the receipt.
ReceiptLost(x) ==
    /\ Lossy
    /\ toCloud[x] > 0
    /\ toCloud' = [toCloud EXCEPT ![x] = @ - 1]
    /\ UNCHANGED <<toDevice, online, expired>>

\* The device's MQTT client sends again a receipt the broker did not PUBACK.
ReceiptResent(x) ==
    /\ toCloud[x] > 0
    /\ toCloud[x] < MaxCopies
    /\ toCloud' = [toCloud EXCEPT ![x] = @ + 1]
    /\ UNCHANGED <<toDevice, online, expired>>

\* Time passes the expiresAt of a request.
Expire(r) ==
    /\ r \in Expirable \ expired
    /\ expired' = expired \union {r}
    /\ UNCHANGED <<toDevice, toCloud, online>>

WireNext ==
    \/ DeviceConnects
    \/ DeviceDisconnects
    \/ \E x \in Receipts : ReceiptLost(x) \/ ReceiptResent(x)
    \/ \E r \in Requests : Expire(r)
=============================================================================

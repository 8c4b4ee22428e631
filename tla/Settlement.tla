----------------------------- MODULE Settlement -----------------------------
(***************************************************************************)
(* What follows a sale: the payment service of module Payments and the     *)
(* shipping service (services/shipping-service/src) on the same order.     *)
(* The two services share only the database: each reads and writes         *)
(* order.status, and neither sees the calls of the other.                  *)
(***************************************************************************)
EXTENDS Payments, FiniteSets

CONSTANTS
    Clerk,         \* calls to the shipping service in progress
    Tracked,       \* the statuses that updateShipmentStatus is called with
    MaxCalls       \* calls in progress in both services together (bound)

ShipmentStatus == {"PREPARING", "LABEL_CREATED", "PICKED_UP", "IN_TRANSIT",
                   "OUT_FOR_DELIVERY", "DELIVERED", "RETURNED"}

ASSUME TrackedAssumption == Tracked \subseteq ShipmentStatus

VARIABLES
    shipment,      \* the status of the order's row of shipments, or "none"
    clerk          \* the calls in progress

vars == <<payVars, shipment, clerk>>

ClerkPC == {"idle", "create", "track", "label", "cancel"}
Free == [pc |-> "idle", seen |-> "none"]

TypeOK ==
    /\ PaymentsTypeOK
    /\ shipment \in ShipmentStatus \cup {"none"}
    /\ clerk \in [Clerk -> [pc : ClerkPC, seen : ShipmentStatus \cup {"none"}]]
---------------------------------------------------------------------------
Begin(k, pc, seen) == clerk' = [clerk EXCEPT ![k] = [pc |-> pc, seen |-> seen]]
Finish(k) == clerk' = [clerk EXCEPT ![k] = Free]

\* What a call of the shipping service writes: the shipment and the order.
Write(k, s, o) ==
    /\ shipment' = s /\ order' = o
    /\ Finish(k)
    /\ UNCHANGED <<pay, payout, req>> /\ Unseen

Reading == UNCHANGED <<payVars, shipment>>

\* Mutant: an order that was not called off can be shipped.
NotCalledOff == order \notin {"CANCELLED", "REFUNDED"}

ReadyToShip == order = "PAID"

\* createShipment.
ReadCreate(k) ==
    /\ clerk[k].pc = "idle"
    /\ ReadyToShip /\ shipment = "none"
    /\ Begin(k, "create", "none") /\ Reading

\* The unique key on shipments.order_id.
CommitCreate(k) ==
    /\ clerk[k].pc = "create"
    /\ IF shipment = "none" THEN Write(k, "PREPARING", "SHIPPED")
                            ELSE Finish(k) /\ Reading

\* updateShipmentStatus, by the carrier's events or by hand.
ReadTrack(k, s) ==
    /\ clerk[k].pc = "idle"
    /\ shipment \notin {"none", "DELIVERED", "RETURNED"}
    /\ Begin(k, "track", s) /\ Reading

CommitTrack(k) ==
    /\ clerk[k].pc = "track"
    /\ Write(k, clerk[k].seen, IF clerk[k].seen = "DELIVERED" THEN "DELIVERED" ELSE order)

\* generateLabel writes back the status that it read.
ReadLabel(k) ==
    /\ clerk[k].pc = "idle"
    /\ shipment # "none"
    /\ Begin(k, "label", shipment) /\ Reading

\* Mutant: a label always puts its status on the shipment.
CommitLabelAnew(k) ==
    /\ clerk[k].pc = "label"
    /\ Write(k, "LABEL_CREATED", order)

CommitLabel(k) ==
    /\ clerk[k].pc = "label"
    /\ Write(k, IF clerk[k].seen = "PREPARING" THEN "LABEL_CREATED" ELSE clerk[k].seen, order)

\* cancelShipment.
ReadCancel(k) ==
    /\ clerk[k].pc = "idle"
    /\ shipment \in {"PREPARING", "LABEL_CREATED", "PICKED_UP"}
    /\ Begin(k, "cancel", shipment) /\ Reading

CommitCancel(k) ==
    /\ clerk[k].pc = "cancel"
    /\ Write(k, "RETURNED", "PAID")

Abandon(k) ==
    /\ Crashes /\ clerk[k].pc # "idle"
    /\ Finish(k) /\ Reading

Shipping(k) ==
    \/ ReadCreate(k) \/ CommitCreate(k)
    \/ (\E s \in Tracked : ReadTrack(k, s)) \/ CommitTrack(k)
    \/ ReadLabel(k) \/ CommitLabel(k)
    \/ ReadCancel(k) \/ CommitCancel(k)
    \/ Abandon(k)
---------------------------------------------------------------------------
Init ==
    /\ PaymentsInit
    /\ shipment = "none"
    /\ clerk = [k \in Clerk |-> Free]

InProgress ==
    Cardinality({r \in Request : ~Idling(r)}) + Cardinality({k \in Clerk : clerk[k].pc # "idle"})

Next ==
    /\ \/ PaymentsNext /\ UNCHANGED <<shipment, clerk>>
       \/ \E k \in Clerk : Shipping(k)
    /\ InProgress' <= MaxCalls

Spec == Init /\ [][Next]_vars

\* A call that runs goes on.  The insert of createEscrow may fail, and then
\* the call is over (it is when the bound leaves no row).
Proceeds(r) ==
    \/ \E p \in Payment : CallStep(r, p)
    \/ PayoutStep(r)
    \/ req[r].pc = "hold" /\ BreakOff(r)

\* The provider keeps posting the outcome of a form to the address that the
\* form was made with.  Nobody has to call any other endpoint.
FairSpec ==
    /\ Spec
    /\ \A r \in Request : WF_vars(Proceeds(r) /\ UNCHANGED <<shipment, clerk>>)
    /\ \A p \in Payment :
         SF_vars(/\ pay[p].status = "PROCESSING"
                 /\ \E r \in Request : ThreeDCallback(r, p)
                 /\ UNCHANGED <<shipment, clerk>>)
---------------------------------------------------------------------------
(***************************************************************************)
(* Properties.                                                             *)
(***************************************************************************)
Charged == {p \in Payment : form[p] = "charged"}
Backed == Charged # {} \/ vouched

\* A card payment that the platform reports as paid, or as paid back, was
\* charged by the provider, whatever callbacks were lost, repeated or overtook
\* each other (handleCallback, refund).
PaidIsCharged ==
    \A p \in Payment :
        pay[p].method = "CREDIT_CARD" /\ pay[p].status \in {"COMPLETED", "REFUNDED"}
            => form[p] = "charged"

\* Goods are sent only for an order that was paid by card or that somebody
\* recorded as paid, however the calls of the two services interleave
\* (createShipment relies on the status it read before its transaction).
GoodsAreBacked == shipment # "none" => Backed

\* The seller's payout exists only after a charge or a record by hand, or for
\* an escrow that was released (requestPayout, releaseEscrow).  It is no word
\* on money paid into the escrow: the code keeps no account of that.
PayoutIsBacked == payout # "none" => Backed \/ released # {}

\* An order with several escrows, as initiatePayment makes two, pays the
\* seller for one of them: the payout's unique key rolls the second release
\* back, even after a dispute took the first one back.
OneEscrowReleased ==
    HasProfile => \A p, q \in released : p = q

\* A payment that went through is never on an order that waits for payment,
\* unless updateOrderStatus put it there: the transactions of handleCallback,
\* refund and releaseEscrow write both, and no other call takes an order back.
CompletedIsSeen ==
    (\E p \in Payment : pay[p].status \in {"COMPLETED", "REFUNDED"})
        => order # "PENDING_PAYMENT" \/ "PENDING_PAYMENT" \in byHand

\* A delivery or a return is the last word on a shipment: what the carrier
\* reports, a label that is printed again and a cancellation leave it alone.
\* So it is while the shipping service answers one call at a time
\* (generateLabel and updateShipmentStatus write without looking again).
DeliveryIsFinal ==
    [][(shipment \in {"DELIVERED", "RETURNED"}) => shipment' = shipment]_vars

\* "Payment provider callback (iyzico webhook)" (payment.controller.ts):
\* once the provider has charged the card, its callback closes the payment.
ChargedIsSettled ==
    \A p \in Payment :
        form[p] = "charged" /\ pay[p].status = "PROCESSING"
            ~> pay[p].status # "PROCESSING"

\* The escrows that were opened.
Escrows == {p \in Payment : Exists(p) /\ pay[p].method = "ESCROW"}

Money == INSTANCE OrderMoney WITH
    charged <- Charged, held <- Escrows, shipped <- shipment # "none", paidOut <- payout # "none"

\* The two services keep the promise of OrderMoney: goods and the seller's
\* money leave once each, and against something that stands on record.
KeepsPromise == Money!Spec
=============================================================================

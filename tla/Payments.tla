------------------------------ MODULE Payments ------------------------------
(***************************************************************************)
(* The payment service on one order of an auction that is over: card       *)
(* payments through the provider's form and its callback, bank transfers,  *)
(* escrows, refunds and the payout of the seller                           *)
(* (services/payment-service/src).                                         *)
(*                                                                         *)
(* Every call reads, decides, and then commits one write or one            *)
(* transaction that checks nothing again, except the unique key of         *)
(* seller_payouts.  A call in progress is a slot of Request.               *)
(*                                                                         *)
(* The provider (iyzico) is external: it charges a card or declines it     *)
(* once, and reports the outcome any number of times.                      *)
(***************************************************************************)
EXTENDS Naturals

CONSTANTS
    MaxPayments,   \* rows of table payments for the order (bound)
    Request,       \* calls in progress at the same time
    Methods,       \* the methods that buyers choose
    HasProfile,    \* seller.sellerProfile exists
    AdminStatus,   \* the statuses that updateOrderStatus is called with
    Crashes        \* whether a call may break off between two of its steps

OrderStatus == {"PENDING_PAYMENT", "PAID", "SHIPPED", "DELIVERED", "COMPLETED",
                "REFUNDED", "CANCELLED", "DISPUTED"}
Method == {"CREDIT_CARD", "BANK_TRANSFER", "ESCROW"}

ASSUME PaymentsAssumption ==
    /\ MaxPayments \in Nat
    /\ Methods \subseteq Method /\ AdminStatus \subseteq OrderStatus
    /\ HasProfile \in BOOLEAN /\ Crashes \in BOOLEAN

Payment == 1..MaxPayments   \* in the order in which they are created

VARIABLES
    order,         \* order.status
    pay,           \* the rows of table payments for the order
    payout,        \* the status of the order's row of seller_payouts, or "none"
    req,           \* the calls in progress
    form,          \* external: the provider's form of each payment
    byHand,        \* history: the statuses that were recorded by hand
    released       \* history: the escrows released so far

payVars == <<order, pay, payout, req, form, byHand, released>>

PaymentStatus == {"PENDING", "PROCESSING", "COMPLETED", "FAILED", "REFUNDED"}

\* Of providerRef only its kind matters: none, the token of the provider's
\* form, or another (a token of the service's own, a reference of a transfer,
\* the provider's id of the payment).  handleCallback finds a payment by it.
Ref == {"none", "token", "other"}
Row(m, s, ref) == [method |-> m, status |-> s, ref |-> ref]
NoRow == Row("none", "none", "none")

FormState == {"none", "shown", "charged", "declined"}

PC == {"idle", "form", "transfer", "hold", "threeD", "settle", "refund", "release", "payout"}
NoPayment == 0
Idle == [pc |-> "idle", of |-> NoPayment, ok |-> FALSE]

PaymentsTypeOK ==
    /\ order \in OrderStatus
    /\ pay \in [Payment -> [method : Method \cup {"none"},
                            status : PaymentStatus \cup {"none"}, ref : Ref]]
    /\ payout \in {"none", "PENDING", "PROCESSING"}
    /\ req \in [Request -> [pc : PC, of : Payment \cup {NoPayment}, ok : BOOLEAN]]
    /\ form \in [Payment -> FormState]
    /\ byHand \in SUBSET OrderStatus
    /\ released \in SUBSET Payment
---------------------------------------------------------------------------
Idling(r) == req[r].pc = "idle"
At(r, pc, p) == req[r].pc = pc /\ req[r].of = p
Goto(r, pc, p, ok) == req' = [req EXCEPT ![r] = [pc |-> pc, of |-> p, ok |-> ok]]
Done(r) == req' = [req EXCEPT ![r] = Idle]

Exists(p) == pay[p].status # "none"
Insert(p, row) ==
    /\ ~Exists(p) /\ \A q \in 1..(p - 1) : Exists(q)
    /\ pay' = [pay EXCEPT ![p] = row]
SetStatus(p, s) == pay' = [pay EXCEPT ![p].status = s]
SetRow(p, s, ref) == pay' = [pay EXCEPT ![p] = [@ EXCEPT !.status = s, !.ref = ref]]

Unseen == UNCHANGED <<form, byHand, released>>
---------------------------------------------------------------------------
(***************************************************************************)
(* initiatePayment.  The status of the order is not looked at.             *)
(***************************************************************************)
Initiate(r, p, m) ==
    /\ Idling(r) /\ m \in Methods
    /\ Insert(p, Row(m, "PENDING", "none"))
    /\ Goto(r, CASE m = "CREDIT_CARD" -> "form" [] m = "ESCROW" -> "hold" [] OTHER -> "transfer",
            p, FALSE)
    /\ UNCHANGED <<order, payout>> /\ Unseen

\* createPaymentForm: the provider makes a form, or cannot be reached and the
\* call goes on with a token of its own.  Only once the token is recorded does
\* the address of the form go to the buyer.
StoreToken(r, p) ==
    /\ At(r, "form", p)
    /\ \E made \in BOOLEAN :
         /\ SetRow(p, "PROCESSING", IF made THEN "token" ELSE "other")
         /\ form' = [form EXCEPT ![p] = IF made THEN "shown" ELSE @]
    /\ Done(r)
    /\ UNCHANGED <<order, payout, byHand, released>>

\* The reference of a bank transfer; no code confirms the transfer.
StoreReference(r, p) ==
    /\ At(r, "transfer", p)
    /\ pay' = [pay EXCEPT ![p].ref = "other"]
    /\ Done(r)
    /\ UNCHANGED <<order, payout>> /\ Unseen

\* createEscrow makes a row of its own, next to the one of initiatePayment.
Held == Row("ESCROW", "PROCESSING", "other")

HoldEscrow(r, q) ==
    /\ req[r].pc = "hold"
    /\ Insert(q, Held)
    /\ Done(r)
    /\ UNCHANGED <<order, payout>> /\ Unseen

\* The endpoint of the escrow service.
CreateEscrow(q) ==
    /\ "ESCROW" \in Methods
    /\ Insert(q, Held)
    /\ UNCHANGED <<order, payout, req>> /\ Unseen
---------------------------------------------------------------------------
(***************************************************************************)
(* The provider, and its callback.                                         *)
(***************************************************************************)
Answer(p, outcome) ==
    /\ form[p] = "shown"
    /\ form' = [form EXCEPT ![p] = outcome]
    /\ UNCHANGED <<order, pay, payout, req, byHand, released>>

\* The address that the form gives to the provider: the handler asks for the
\* payment, answers what it heard, and writes nothing.
ThreeDCallback(r, p) ==
    /\ Idling(r)
    /\ form[p] \in {"charged", "declined"}
    /\ Goto(r, "threeD", p, FALSE)
    /\ UNCHANGED <<order, pay, payout>> /\ Unseen

ThreeDAnswered(r, p) ==
    /\ At(r, "threeD", p)
    /\ Done(r)
    /\ UNCHANGED <<order, pay, payout>> /\ Unseen

\* Mutant: what the callback says is not verified with the provider.
Unverified(p) == BOOLEAN

\* verifyCallback asks the provider, which reports a success only for the
\* token of a form that it charged (external); without an answer, or of any
\* other reference, the verdict is a failure.
Verified(p) == IF pay[p].ref = "token" /\ form[p] = "charged" THEN BOOLEAN ELSE {FALSE}

\* handleCallback: verify, then find the payment by what was sent.  The
\* endpoint takes any reference, at any time.
Callback(r, p) ==
    /\ Idling(r)
    /\ Exists(p) /\ pay[p].ref # "none"
    /\ \E ok \in Verified(p) : Goto(r, "settle", p, ok)
    /\ UNCHANGED <<order, pay, payout>> /\ Unseen

\* Mutant: the transaction leaves the order alone.
OrderNotMoved(ok) == order

OrderSettled(ok) == IF ok THEN "PAID" ELSE order

\* The transaction of handleCallback, on the payment that was found.  The
\* provider's id of the payment, if it sent one, takes the place of the token.
Settle(r, p) ==
    /\ At(r, "settle", p)
    /\ IF req[r].ok THEN \E ref \in {"token", "other"} : SetRow(p, "COMPLETED", ref)
                    ELSE SetStatus(p, "FAILED")
    /\ order' = OrderSettled(req[r].ok)
    /\ Done(r)
    /\ UNCHANGED payout /\ Unseen
---------------------------------------------------------------------------
(***************************************************************************)
(* refund.  What the provider answers is not looked at.                    *)
(***************************************************************************)
ReadRefund(r, p) ==
    /\ Idling(r)
    /\ pay[p].status = "COMPLETED"
    /\ Goto(r, "refund", p, FALSE)
    /\ UNCHANGED <<order, pay, payout>> /\ Unseen

CommitRefund(r, p) ==
    /\ At(r, "refund", p)
    /\ SetStatus(p, "REFUNDED")
    /\ order' = "REFUNDED"
    /\ Done(r)
    /\ UNCHANGED payout /\ Unseen
---------------------------------------------------------------------------
(***************************************************************************)
(* The escrow service.                                                     *)
(***************************************************************************)
ReadRelease(r, p) ==
    /\ Idling(r)
    /\ Exists(p) /\ pay[p].method = "ESCROW"
    /\ pay[p].status \notin {"COMPLETED", "FAILED"}
    /\ Goto(r, "release", p, FALSE)
    /\ UNCHANGED <<order, pay, payout>> /\ Unseen

\* Mutant: an order may have several payouts.
NoUniqueKey == TRUE

\* The unique key on seller_payouts.order_id.
PayoutKeyFree == payout = "none"

\* Mutant: the payout is created later, outside the transaction.
PayoutLater == payout

\* Mutant: a status that the schema does not have.
PayoutScheduled == IF HasProfile THEN "SCHEDULED" ELSE payout

PayoutOfRelease == IF HasProfile THEN "PENDING" ELSE payout

\* One transaction: the payment, the order and the payout, or nothing.
CommitRelease(r, p) ==
    /\ At(r, "release", p)
    /\ HasProfile => PayoutKeyFree
    /\ SetStatus(p, "COMPLETED")
    /\ order' = "COMPLETED"
    /\ payout' = PayoutOfRelease
    /\ released' = released \cup {p}
    /\ Done(r)
    /\ UNCHANGED <<form, byHand>>

\* handleDispute, which is also refundEscrow, takes any payment.
Dispute(p) ==
    /\ Exists(p)
    /\ SetStatus(p, "PENDING")
    /\ order' = "DISPUTED"
    /\ UNCHANGED <<payout, req>> /\ Unseen
---------------------------------------------------------------------------
(***************************************************************************)
(* The payout service and the orders service.                              *)
(***************************************************************************)
\* Mutant: every order that is not over is eligible.
OpenStatus == {"PENDING_PAYMENT", "PAID", "SHIPPED", "DELIVERED", "COMPLETED"}

EligibleStatus == {"COMPLETED", "DELIVERED", "PAID"}

\* requestPayout reads the eligible orders, and then creates the payout.
ReadPayout(r) ==
    /\ Idling(r)
    /\ HasProfile /\ order \in EligibleStatus /\ payout = "none"
    /\ Goto(r, "payout", NoPayment, FALSE)
    /\ UNCHANGED <<order, pay, payout>> /\ Unseen

CreatePayout(r) ==
    /\ req[r].pc = "payout"
    /\ PayoutKeyFree
    /\ payout' = "PENDING"
    /\ Done(r)
    /\ UNCHANGED <<order, pay>> /\ Unseen

\* A unique key that is taken rolls back, and the call throws.
KeyTaken(r) ==
    /\ req[r].pc = "payout" \/ (req[r].pc = "release" /\ HasProfile)
    /\ ~PayoutKeyFree
    /\ Done(r)
    /\ UNCHANGED <<order, pay, payout>> /\ Unseen

\* approvePayout, or processPayouts once the payout is due.
ApprovePayout ==
    /\ payout = "PENDING"
    /\ payout' = "PROCESSING"
    /\ UNCHANGED <<order, pay, req>> /\ Unseen

PastPayment == {"PAID", "SHIPPED", "DELIVERED", "COMPLETED"}

\* Somebody recorded by hand that the order is past payment.
vouched == byHand \cap PastPayment # {}

UpdateOrderStatus(s) ==
    /\ order' = s
    /\ byHand' = byHand \cup {s}
    /\ UNCHANGED <<pay, payout, req, form, released>>

\* The process stops, or a statement fails: the call is over where it is.
BreakOff(r) ==
    /\ Crashes /\ ~Idling(r)
    /\ Done(r)
    /\ UNCHANGED <<order, pay, payout>> /\ Unseen
---------------------------------------------------------------------------
PaymentsInit ==
    /\ order = "PENDING_PAYMENT"
    /\ pay = [p \in Payment |-> NoRow]
    /\ payout = "none"
    /\ req = [r \in Request |-> Idle]
    /\ form = [p \in Payment |-> "none"]
    /\ byHand = {}
    /\ released = {}

\* A call on payment p goes on to its end.
CallStep(r, p) ==
    \/ StoreToken(r, p) \/ StoreReference(r, p) \/ HoldEscrow(r, p) \/ ThreeDAnswered(r, p)
    \/ Settle(r, p) \/ CommitRefund(r, p) \/ CommitRelease(r, p)

CallStart(r, p) ==
    \/ \E m \in Methods : Initiate(r, p, m)
    \/ ThreeDCallback(r, p) \/ Callback(r, p) \/ ReadRefund(r, p) \/ ReadRelease(r, p)

PayoutStep(r) == CreatePayout(r) \/ KeyTaken(r)

PaymentsNext ==
    \/ \E r \in Request, p \in Payment : CallStart(r, p) \/ CallStep(r, p)
    \/ \E r \in Request : ReadPayout(r) \/ PayoutStep(r) \/ BreakOff(r)
    \/ \E p \in Payment : CreateEscrow(p) \/ Dispute(p)
    \/ \E p \in Payment, o \in {"charged", "declined"} : Answer(p, o)
    \/ ApprovePayout
    \/ \E s \in AdminStatus : UpdateOrderStatus(s)
=============================================================================

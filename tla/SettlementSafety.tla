-------------------------- MODULE SettlementSafety --------------------------
(***************************************************************************)
(* The safety properties of Settlement and its refinement of OrderMoney,   *)
(* for every value of the constants.  What makes them inductive is what a  *)
(* call in progress may still rely on when it commits: charges, releases   *)
(* and records by hand are never taken back (Forward), so what a call read *)
(* is still worth something after any number of other calls.               *)
(***************************************************************************)
EXTENDS SettlementProofs

Paid == Backed \/ released # {}

\* A form is made for one payment by one call.
FormOwned ==
    /\ \A p \in Payment : ~Exists(p) => form[p] = "none"
    /\ \A r \in Request : \A p \in Payment :
         At(r, "form", p) => Exists(p) /\ form[p] = "none"
    /\ \A r, s \in Request : \A p \in Payment :
         At(r, "form", p) /\ At(s, "form", p) => r = s

\* What a call to the payment service read is still so when it commits.
CallKnows(r) ==
    /\ \A p \in Payment :
         /\ At(r, "settle", p) => Exists(p) /\ (req[r].ok => form[p] = "charged")
         /\ At(r, "refund", p) =>
              Exists(p) /\ (pay[p].method = "CREDIT_CARD" => form[p] = "charged")
         /\ At(r, "release", p) => Exists(p) /\ pay[p].method = "ESCROW"
    /\ req[r].pc = "payout" => HasProfile /\ Paid

\* What a status of the order says about the money.
StatusIsBacked ==
    /\ order \in {"PAID", "SHIPPED", "DELIVERED"} => Backed
    /\ order = "COMPLETED" => Paid

ReleaseIsPaid ==
    /\ HasProfile /\ released # {} => payout # "none"
    /\ ~HasProfile => payout = "none"

\* A call to the shipping service saw an order or a shipment that was backed.
ClerkKnows(k) ==
    /\ clerk[k].pc # "idle" => Backed
    /\ clerk[k].pc \in {"track", "label", "cancel"} => shipment # "none"
    /\ clerk[k].pc \in {"track", "label"} => clerk[k].seen # "none"

IInv ==
    /\ TypeOK
    /\ FormOwned
    /\ \A r \in Request : CallKnows(r)
    /\ StatusIsBacked
    /\ ReleaseIsPaid
    /\ \A k \in Clerk : ClerkKnows(k)
    /\ PaidIsCharged /\ GoodsAreBacked /\ PayoutIsBacked /\ OneEscrowReleased
---------------------------------------------------------------------------
(***************************************************************************)
(* What the helpers leave behind.                                          *)
(***************************************************************************)
LEMMA RowsAreTyped ==
    ASSUME PaymentsTypeOK
    PROVE  pay \in [Payment -> PayRow] /\ req \in [Request -> ReqSlot]
           /\ form \in [Payment -> FormState]
BY DEF PaymentsTypeOK, PayRow, ReqSlot

LEMMA AfterInsert ==
    ASSUME PaymentsTypeOK, NEW p \in Payment, NEW row, Insert(p, row)
    PROVE  /\ ~Exists(p) /\ pay'[p] = row
           /\ \A q \in Payment : q # p => pay'[q] = pay[q]
BY RowsAreTyped DEF Insert

LEMMA AfterSet ==
    ASSUME PaymentsTypeOK, NEW p \in Payment, NEW s,
           SetStatus(p, s) \/ \E t : SetRow(p, s, t)
    PROVE  /\ pay'[p].status = s /\ pay'[p].method = pay[p].method
           /\ \A q \in Payment : q # p => pay'[q] = pay[q]
<1>1. pay \in [Payment -> PayRow]
  BY RowsAreTyped
<1>2. CASE SetStatus(p, s)
  BY <1>1, <1>2 DEF SetStatus, PayRow
<1>3. ASSUME NEW t, SetRow(p, s, t)
      PROVE  /\ pay'[p].status = s /\ pay'[p].method = pay[p].method
             /\ \A q \in Payment : q # p => pay'[q] = pay[q]
  BY <1>1, <1>3 DEF SetRow, PayRow
<1>4. QED
  BY <1>2, <1>3

\* The reference of a transfer leaves the method and the status alone.
LEMMA AfterReference ==
    ASSUME PaymentsTypeOK, NEW p \in Payment, pay' = [pay EXCEPT ![p].ref = "other"]
    PROVE  \A q \in Payment :
             pay'[q].status = pay[q].status /\ pay'[q].method = pay[q].method
BY RowsAreTyped DEF PayRow

LEMMA AfterGoto ==
    ASSUME PaymentsTypeOK, NEW r \in Request, NEW pc, NEW p, NEW ok \in BOOLEAN,
           Goto(r, pc, p, ok)
    PROVE  /\ req'[r] = [pc |-> pc, of |-> p, ok |-> ok]
           /\ \A s \in Request : s # r => req'[s] = req[s]
BY RowsAreTyped DEF Goto

LEMMA AfterDone ==
    ASSUME PaymentsTypeOK, NEW r \in Request, Done(r)
    PROVE  /\ req'[r].pc = "idle"
           /\ \A s \in Request : s # r => req'[s] = req[s]
BY RowsAreTyped DEF Done, Idle
---------------------------------------------------------------------------
(***************************************************************************)
(* What is never taken back.                                               *)
(***************************************************************************)
Forward ==
    /\ \A p \in Payment : form[p] = "charged" => form'[p] = "charged"
    /\ vouched => vouched'
    /\ released \subseteq released'
    /\ \A p \in Payment : Exists(p) => Exists(p)' /\ pay'[p].method = pay[p].method

LEMMA ForwardKeepsBacking ==
    ASSUME Forward
    PROVE  (Backed => Backed') /\ (Paid => Paid')
BY DEF Forward, Backed, Paid, Charged

LEMMA SameRowsForward ==
    ASSUME pay' = pay, form' = form, byHand' = byHand, released' = released
    PROVE  Forward
BY DEF Forward, Exists, vouched

LEMMA InsertForward ==
    ASSUME PaymentsTypeOK, NEW p \in Payment, NEW row, Insert(p, row), Unseen
    PROVE  Forward
BY AfterInsert DEF Forward, Exists, Unseen, vouched

LEMMA SetForward ==
    ASSUME PaymentsTypeOK, NEW p \in Payment, NEW s \in PaymentStatus,
           SetStatus(p, s) \/ \E t : SetRow(p, s, t),
           \A q \in Payment : form[q] = "charged" => form'[q] = "charged",
           byHand' = byHand, released \subseteq released'
    PROVE  Forward
BY AfterSet DEF Forward, Exists, PaymentStatus, vouched

LEMMA StepForward ==
    ASSUME IInv, NEW r \in Request, NEW p \in Payment, CallStart(r, p) \/ CallStep(r, p)
    PROVE  Forward
<1>1. PaymentsTypeOK
  BY DEF IInv, TypeOK
<1>2. ASSUME NEW m \in Methods, Initiate(r, p, m)
      PROVE  Forward
  BY <1>1, <1>2, InsertForward DEF Initiate
<1>3. CASE \/ ThreeDCallback(r, p) \/ ThreeDAnswered(r, p)
           \/ Callback(r, p) \/ ReadRefund(r, p) \/ ReadRelease(r, p)
  BY <1>3, SameRowsForward
  DEF ThreeDCallback, ThreeDAnswered, Callback, ReadRefund, ReadRelease, Unseen
<1>4. CASE StoreToken(r, p)
  <2>1. form[p] = "none"
    BY <1>4 DEF StoreToken, IInv, FormOwned
  <2>2. \A q \in Payment : form[q] = "charged" => form'[q] = "charged"
    BY <1>1, <1>4, <2>1, RowsAreTyped DEF StoreToken
  <2>3. \E t : SetRow(p, "PROCESSING", t)
    BY <1>4 DEF StoreToken
  <2>4. QED
    BY <1>1, <1>4, <2>2, <2>3, SetForward DEF StoreToken, PaymentStatus
<1>5. CASE HoldEscrow(r, p)
  BY <1>1, <1>5, InsertForward DEF HoldEscrow
<1>6. CASE Settle(r, p)
  <2>1. \E s \in PaymentStatus : SetStatus(p, s) \/ \E t : SetRow(p, s, t)
    BY <1>6 DEF Settle, PaymentStatus
  <2>2. QED
    BY <1>1, <1>6, <2>1, SetForward DEF Settle, Unseen
<1>7. CASE CommitRefund(r, p)
  BY <1>1, <1>7, SetForward DEF CommitRefund, PaymentStatus, Unseen
<1>8. CASE CommitRelease(r, p)
  BY <1>1, <1>8, SetForward DEF CommitRelease, PaymentStatus
<1>9. CASE StoreReference(r, p)
  <2>1. \A q \in Payment : pay'[q].status = pay[q].status /\ pay'[q].method = pay[q].method
    BY <1>1, <1>9, AfterReference DEF StoreReference
  <2>2. QED
    BY <1>9, <2>1 DEF StoreReference, Unseen, Forward, Exists, vouched
<1>10. QED
  BY <1>2, <1>3, <1>4, <1>5, <1>6, <1>7, <1>8, <1>9 DEF CallStart, CallStep

LEMMA AnswerForward ==
    ASSUME IInv, NEW p \in Payment, NEW o, Answer(p, o)
    PROVE  Forward
<1>1. form \in [Payment -> FormState]
  BY RowsAreTyped DEF IInv, TypeOK
<1>2. \A q \in Payment : form[q] = "charged" => form'[q] = "charged"
  BY <1>1 DEF Answer
<1>3. QED
  BY <1>2 DEF Answer, Forward, Exists, vouched

LEMMA NextForward == IInv /\ [Next]_vars => Forward
<1> SUFFICES ASSUME IInv, [Next]_vars PROVE Forward
  OBVIOUS
<1>1. PaymentsTypeOK
  BY DEF IInv, TypeOK
<1>2. ASSUME NEW r \in Request, ReadPayout(r) \/ PayoutStep(r) \/ BreakOff(r)
      PROVE  Forward
  BY <1>2, SameRowsForward DEF ReadPayout, PayoutStep, CreatePayout, KeyTaken, BreakOff, Unseen
<1>3. ASSUME NEW p \in Payment, CreateEscrow(p)
      PROVE  Forward
  BY <1>1, <1>3, InsertForward DEF CreateEscrow
<1>4. ASSUME NEW p \in Payment, Dispute(p)
      PROVE  Forward
  BY <1>1, <1>4, SetForward DEF Dispute, PaymentStatus, Unseen
<1>5. CASE ApprovePayout
  BY <1>5, SameRowsForward DEF ApprovePayout, Unseen
<1>6. ASSUME NEW s \in AdminStatus, UpdateOrderStatus(s)
      PROVE  Forward
  BY <1>6 DEF UpdateOrderStatus, Forward, Exists, vouched
<1>7. ASSUME NEW k \in Clerk, Shipping(k)
      PROVE  Forward
  <2>1. pay' = pay /\ form' = form /\ byHand' = byHand /\ released' = released
    BY <1>7 DEF Shipping, ReadCreate, CommitCreate, ReadTrack, CommitTrack, ReadLabel,
       CommitLabel, ReadCancel, CommitCancel, Abandon, Write, Reading, Unseen, payVars
  <2>2. QED
    BY <2>1, SameRowsForward
<1>8. CASE UNCHANGED vars
  BY <1>8, SameRowsForward DEF vars, payVars
<1>9. QED
  BY <1>2, <1>3, <1>4, <1>5, <1>6, <1>7, <1>8, StepForward, AnswerForward
  DEF Next, PaymentsNext
---------------------------------------------------------------------------
(***************************************************************************)
(* Forms.                                                                  *)
(***************************************************************************)
LEMMA FormsKept ==
    ASSUME FormOwned, Forward, form' = form,
           \A s \in Request : \A p \in Payment : At(s, "form", p)' => At(s, "form", p)
    PROVE  FormOwned'
BY DEF FormOwned, Forward

LEMMA SlotLeavesForm ==
    ASSUME PaymentsTypeOK, NEW r \in Request,
           \/ req' = req
           \/ Done(r)
           \/ \E pc, p : \E ok \in BOOLEAN : pc # "form" /\ Goto(r, pc, p, ok)
    PROVE  \A s \in Request : \A p \in Payment : At(s, "form", p)' => At(s, "form", p)
<1>1. CASE req' = req
  BY <1>1 DEF At
<1>2. CASE Done(r)
  BY <1>2, AfterDone DEF At
<1>3. ASSUME NEW pc, NEW p, NEW ok \in BOOLEAN, pc # "form", Goto(r, pc, p, ok)
      PROVE  \A s \in Request : \A q \in Payment : At(s, "form", q)' => At(s, "form", q)
  <2>1. /\ req'[r] = [pc |-> pc, of |-> p, ok |-> ok]
        /\ \A s \in Request : s # r => req'[s] = req[s]
    BY <1>3, AfterGoto
  <2>2. req'[r].pc # "form"
    BY <1>3, <2>1
  <2>3. QED
    BY <2>1, <2>2 DEF At
<1>4. QED
  BY <1>1, <1>2, <1>3

LEMMA InitiateForms ==
    ASSUME IInv, Forward, NEW r \in Request, NEW p \in Payment, NEW m \in Methods,
           Initiate(r, p, m)
    PROVE  FormOwned'
<1>1. PaymentsTypeOK /\ FormOwned /\ form' = form
  BY DEF IInv, TypeOK, Initiate, Unseen
<1>2. CASE m = "CREDIT_CARD"
  <2>1. /\ req'[r] = [pc |-> "form", of |-> p, ok |-> FALSE]
        /\ \A s \in Request : s # r => req'[s] = req[s]
    BY <1>1, <1>2, AfterGoto DEF Initiate
  <2>2. ~Exists(p) /\ pay'[p] = Row(m, "PENDING", "none")
    BY <1>1, AfterInsert DEF Initiate
  <2>3. Exists(p)' /\ form[p] = "none"
    BY <1>1, <2>2 DEF Exists, Row, FormOwned
  <2>4. ASSUME NEW s \in Request, NEW q \in Payment, At(s, "form", q)'
        PROVE  (s = r /\ q = p) \/ (s # r /\ q # p /\ At(s, "form", q))
    BY <1>1, <2>1, <2>2, <2>4 DEF At, FormOwned
  <2>5. \A q \in Payment : ~Exists(q)' => form'[q] = "none"
    BY <1>1 DEF Forward, FormOwned
  <2>6. \A s \in Request : \A q \in Payment :
          At(s, "form", q)' => Exists(q)' /\ form'[q] = "none"
    BY <1>1, <2>3, <2>4 DEF Forward, FormOwned
  <2>7. \A s, t \in Request : \A q \in Payment :
          At(s, "form", q)' /\ At(t, "form", q)' => s = t
    BY <1>1, <2>4 DEF FormOwned
  <2>8. QED
    BY <2>5, <2>6, <2>7 DEF FormOwned
<1>3. CASE m # "CREDIT_CARD"
  <2>1. \E pc, q : \E ok \in BOOLEAN : pc # "form" /\ Goto(r, pc, q, ok)
    BY <1>3 DEF Initiate
  <2>2. QED
    BY <1>1, <2>1, SlotLeavesForm, FormsKept
<1>4. QED
  BY <1>2, <1>3

LEMMA StoreTokenForms ==
    ASSUME IInv, Forward, NEW r \in Request, NEW p \in Payment, StoreToken(r, p)
    PROVE  FormOwned'
<1>1. PaymentsTypeOK /\ FormOwned /\ form \in [Payment -> FormState]
  BY RowsAreTyped DEF IInv, TypeOK
<1>2. \A q \in Payment : q # p => form'[q] = form[q]
  BY <1>1 DEF StoreToken
<1>3. At(r, "form", p) /\ Exists(p)
  BY <1>1 DEF StoreToken, FormOwned
<1>4. /\ req'[r].pc = "idle"
      /\ \A s \in Request : s # r => req'[s] = req[s]
  BY <1>1, AfterDone DEF StoreToken
<1>5. ASSUME NEW s \in Request, NEW q \in Payment, At(s, "form", q)'
      PROVE  At(s, "form", q) /\ q # p
  BY <1>1, <1>3, <1>4, <1>5 DEF At, FormOwned
<1>6. QED
  BY <1>1, <1>2, <1>3, <1>5 DEF FormOwned, Forward

LEMMA AnswerForms ==
    ASSUME IInv, Forward, NEW p \in Payment, NEW o, Answer(p, o)
    PROVE  FormOwned'
<1>1. FormOwned /\ form \in [Payment -> FormState]
  BY RowsAreTyped DEF IInv, TypeOK
<1>2. \A q \in Payment : q # p => form'[q] = form[q]
  BY <1>1 DEF Answer
<1>3. form[p] = "shown" /\ req' = req /\ pay' = pay
  BY DEF Answer
<1>4. QED
  BY <1>1, <1>2, <1>3 DEF FormOwned, At, Exists
---------------------------------------------------------------------------
(***************************************************************************)
(* Calls in progress.                                                      *)
(***************************************************************************)
LEMMA KnowsKept ==
    ASSUME Forward, NEW s \in Request, req'[s] = req[s], CallKnows(s)
    PROVE  CallKnows(s)'
<1>1. ASSUME NEW p \in Payment
      PROVE  /\ At(s, "settle", p)' => Exists(p)' /\ (req'[s].ok => form'[p] = "charged")
             /\ At(s, "refund", p)' =>
                  Exists(p)' /\ (pay'[p].method = "CREDIT_CARD" => form'[p] = "charged")
             /\ At(s, "release", p)' => Exists(p)' /\ pay'[p].method = "ESCROW"
  BY DEF CallKnows, At, Forward
<1>2. req'[s].pc = "payout" => HasProfile /\ Paid'
  BY ForwardKeepsBacking DEF CallKnows
<1>3. QED
  BY <1>1, <1>2 DEF CallKnows

LEMMA NothingToKnow ==
    ASSUME NEW s \in Request, req'[s].pc \in {"idle", "form", "transfer", "hold", "threeD"}
    PROVE  CallKnows(s)'
BY DEF CallKnows, At

LEMMA StartKnows ==
    ASSUME IInv, Forward, NEW r \in Request, NEW p \in Payment, CallStart(r, p),
           NEW s \in Request
    PROVE  CallKnows(s)'
<1>1. PaymentsTypeOK /\ CallKnows(s)
  BY DEF IInv, TypeOK
<1>2. ASSUME NEW m \in Methods, Initiate(r, p, m)
      PROVE  CallKnows(s)'
  <2>1. PICK pc \in {"form", "transfer", "hold"} : Goto(r, pc, p, FALSE)
    BY <1>2 DEF Initiate
  <2>2. /\ req'[r] = [pc |-> pc, of |-> p, ok |-> FALSE]
        /\ s # r => req'[s] = req[s]
    BY <1>1, <2>1, AfterGoto
  <2>3. QED
    BY <1>1, <2>2, KnowsKept, NothingToKnow
<1>3. CASE Callback(r, p)
  <2>1. PICK ok \in Verified(p) : Goto(r, "settle", p, ok)
    BY <1>3 DEF Callback
  <2>2. Exists(p)' /\ (ok => form'[p] = "charged")
    BY <1>3, <2>1 DEF Callback, Verified, Unseen, Exists
  <2>3. /\ req'[r] = [pc |-> "settle", of |-> p, ok |-> ok]
        /\ s # r => req'[s] = req[s]
    <3>1. ok \in BOOLEAN
      BY <2>1 DEF Verified
    <3>2. QED
      BY <1>1, <2>1, <3>1, AfterGoto
  <2>4. CASE s = r
    BY <2>2, <2>3, <2>4 DEF CallKnows, At
  <2>5. QED
    BY <1>1, <2>3, <2>4, KnowsKept
<1>4. CASE ReadRefund(r, p)
  <2>1. /\ req'[r] = [pc |-> "refund", of |-> p, ok |-> FALSE]
        /\ s # r => req'[s] = req[s]
    <3>1. Goto(r, "refund", p, FALSE)
      BY <1>4 DEF ReadRefund
    <3>2. QED
      BY <1>1, <3>1, AfterGoto
  <2>2. Exists(p)' /\ (pay'[p].method = "CREDIT_CARD" => form'[p] = "charged")
    BY <1>4 DEF ReadRefund, Unseen, Exists, IInv, PaidIsCharged
  <2>3. CASE s = r
    BY <2>1, <2>2, <2>3 DEF CallKnows, At
  <2>4. QED
    BY <1>1, <2>1, <2>3, KnowsKept
<1>5. CASE ReadRelease(r, p)
  <2>1. /\ req'[r] = [pc |-> "release", of |-> p, ok |-> FALSE]
        /\ s # r => req'[s] = req[s]
    <3>1. Goto(r, "release", p, FALSE)
      BY <1>5 DEF ReadRelease
    <3>2. QED
      BY <1>1, <3>1, AfterGoto
  <2>2. Exists(p)' /\ pay'[p].method = "ESCROW"
    BY <1>5 DEF ReadRelease, Exists
  <2>3. CASE s = r
    BY <2>1, <2>2, <2>3 DEF CallKnows, At
  <2>4. QED
    BY <1>1, <2>1, <2>3, KnowsKept
<1>6. CASE ThreeDCallback(r, p)
  <2>1. /\ req'[r] = [pc |-> "threeD", of |-> p, ok |-> FALSE]
        /\ s # r => req'[s] = req[s]
    <3>1. Goto(r, "threeD", p, FALSE)
      BY <1>6 DEF ThreeDCallback
    <3>2. QED
      BY <1>1, <3>1, AfterGoto
  <2>2. QED
    BY <1>1, <2>1, KnowsKept, NothingToKnow
<1>7. QED
  BY <1>2, <1>3, <1>4, <1>5, <1>6 DEF CallStart

\* Every other step leaves a call as it is, or ends it.
LEMMA RestKnows ==
    ASSUME IInv, Forward, NEW r \in Request, req' = req \/ Done(r), NEW s \in Request
    PROVE  CallKnows(s)'
<1>1. PaymentsTypeOK /\ CallKnows(s)
  BY DEF IInv, TypeOK
<1>2. req'[s] = req[s] \/ req'[s].pc = "idle"
  BY <1>1, AfterDone
<1>3. QED
  BY <1>1, <1>2, KnowsKept, NothingToKnow

LEMMA PayoutKnows ==
    ASSUME IInv, Forward, NEW r \in Request, ReadPayout(r), NEW s \in Request
    PROVE  CallKnows(s)'
<1>1. PaymentsTypeOK /\ CallKnows(s) /\ StatusIsBacked
  BY DEF IInv, TypeOK
<1>2. /\ req'[r] = [pc |-> "payout", of |-> NoPayment, ok |-> FALSE]
      /\ s # r => req'[s] = req[s]
  <2>1. Goto(r, "payout", NoPayment, FALSE)
    BY DEF ReadPayout
  <2>2. QED
    BY <1>1, <2>1, AfterGoto
<1>3. HasProfile /\ Paid'
  <2>1. Paid
    BY <1>1 DEF ReadPayout, EligibleStatus, StatusIsBacked, Paid
  <2>2. QED
    BY <2>1, ForwardKeepsBacking DEF ReadPayout
<1>4. CASE s = r
  BY <1>2, <1>3, <1>4 DEF CallKnows, At
<1>5. QED
  BY <1>1, <1>2, <1>4, KnowsKept
---------------------------------------------------------------------------
(***************************************************************************)
(* Money.                                                                  *)
(***************************************************************************)
MoneyInv == StatusIsBacked /\ ReleaseIsPaid /\ PayoutIsBacked /\ OneEscrowReleased

LEMMA OrderMoved ==
    ASSUME IInv, Forward, payout' = payout, released' = released,
           \/ order' = order
           \/ order' \in {"PENDING_PAYMENT", "REFUNDED", "CANCELLED", "DISPUTED"}
           \/ Backed'
    PROVE  MoneyInv'
<1>1. (Backed => Backed') /\ (Paid => Paid')
  BY ForwardKeepsBacking
<1>2. StatusIsBacked'
  BY <1>1 DEF IInv, StatusIsBacked, Paid
<1>3. ReleaseIsPaid' /\ OneEscrowReleased'
  BY DEF IInv, ReleaseIsPaid, OneEscrowReleased
<1>4. PayoutIsBacked'
  BY <1>1 DEF IInv, PayoutIsBacked
<1>5. QED
  BY <1>2, <1>3, <1>4 DEF MoneyInv

LEMMA ReleaseMoney ==
    ASSUME IInv, Forward, NEW r \in Request, NEW p \in Payment, CommitRelease(r, p)
    PROVE  MoneyInv'
<1>1. released' = released \cup {p} /\ order' = "COMPLETED"
  BY DEF CommitRelease
<1>2. HasProfile => payout = "none" /\ payout' = "PENDING"
  BY DEF CommitRelease, PayoutKeyFree, PayoutOfRelease
<1>3. ~HasProfile => payout' = payout
  BY DEF CommitRelease, PayoutOfRelease
<1>4. HasProfile => released = {}
  BY <1>2 DEF IInv, ReleaseIsPaid
<1>5. StatusIsBacked' /\ PayoutIsBacked'
  BY <1>1 DEF StatusIsBacked, Paid, PayoutIsBacked
<1>6. ReleaseIsPaid' /\ OneEscrowReleased'
  BY <1>1, <1>2, <1>3, <1>4 DEF IInv, ReleaseIsPaid, OneEscrowReleased
<1>7. QED
  BY <1>5, <1>6 DEF MoneyInv

LEMMA PayoutMoney ==
    ASSUME IInv, Forward, ApprovePayout \/ \E r \in Request : CreatePayout(r)
    PROVE  MoneyInv'
<1>1. order' = order /\ released' = released /\ payout' # "none"
  BY DEF ApprovePayout, CreatePayout, Unseen
<1>2. (Backed => Backed') /\ (Paid => Paid')
  BY ForwardKeepsBacking
<1>3. HasProfile /\ Paid
  <2>1. CASE ApprovePayout
    BY <2>1 DEF ApprovePayout, IInv, ReleaseIsPaid, PayoutIsBacked, Paid
  <2>2. CASE \E r \in Request : CreatePayout(r)
    BY <2>2 DEF CreatePayout, IInv, CallKnows
  <2>3. QED
    BY <2>1, <2>2
<1>4. StatusIsBacked'
  BY <1>1, <1>2 DEF IInv, StatusIsBacked
<1>5. PayoutIsBacked'
  BY <1>2, <1>3 DEF PayoutIsBacked, Paid
<1>6. ReleaseIsPaid' /\ OneEscrowReleased'
  BY <1>1, <1>3 DEF IInv, ReleaseIsPaid, OneEscrowReleased
<1>7. QED
  BY <1>4, <1>5, <1>6 DEF MoneyInv

LEMMA StatusMoney ==
    ASSUME IInv, Forward, NEW s \in AdminStatus, UpdateOrderStatus(s)
    PROVE  MoneyInv'
<1>1. s \in OrderStatus
  BY PaymentsAssumption
<1>2. \/ order' \in {"PENDING_PAYMENT", "REFUNDED", "CANCELLED", "DISPUTED"}
      \/ Backed'
  BY <1>1 DEF UpdateOrderStatus, OrderStatus, PastPayment, Backed, vouched
<1>3. payout' = payout /\ released' = released
  BY DEF UpdateOrderStatus
<1>4. QED
  BY <1>2, <1>3, OrderMoved

LEMMA SettleMoney ==
    ASSUME IInv, Forward, NEW r \in Request, NEW p \in Payment, Settle(r, p)
    PROVE  MoneyInv'
<1>1. CASE req[r].ok
  <2>1. form[p] = "charged"
    BY <1>1 DEF Settle, IInv, CallKnows
  <2>2. Backed'
    BY <2>1 DEF Forward, Backed, Charged
  <2>3. QED
    BY <2>2, OrderMoved DEF Settle, Unseen
<1>2. CASE ~req[r].ok
  BY <1>2, OrderMoved DEF Settle, OrderSettled, Unseen
<1>3. QED
  BY <1>1, <1>2
---------------------------------------------------------------------------
(***************************************************************************)
(* Charges.                                                                *)
(***************************************************************************)
LEMMA ChargesKept ==
    ASSUME IInv, Forward,
           \A p \in Payment : \/ pay'[p] = pay[p]
                              \/ pay'[p].status \notin {"COMPLETED", "REFUNDED"}
                              \/ pay'[p].method # "CREDIT_CARD"
                              \/ form'[p] = "charged"
    PROVE  PaidIsCharged'
BY DEF IInv, Forward, PaidIsCharged

LEMMA InsertCharges ==
    ASSUME IInv, Forward, NEW p \in Payment, NEW m,
           NEW s \in {"PENDING", "PROCESSING"}, NEW ref, Insert(p, Row(m, s, ref))
    PROVE  PaidIsCharged'
<1>1. pay'[p].status = s /\ \A q \in Payment : q # p => pay'[q] = pay[q]
  BY AfterInsert DEF IInv, TypeOK, Row
<1>2. QED
  BY <1>1, ChargesKept

LEMMA SetCharges ==
    ASSUME IInv, Forward, NEW p \in Payment, NEW s,
           SetStatus(p, s) \/ \E t : SetRow(p, s, t),
           \/ s \notin {"COMPLETED", "REFUNDED"}
           \/ pay[p].method = "CREDIT_CARD" => form[p] = "charged"
    PROVE  PaidIsCharged'
<1>1. /\ pay'[p].status = s /\ pay'[p].method = pay[p].method
      /\ \A q \in Payment : q # p => pay'[q] = pay[q]
  BY AfterSet DEF IInv, TypeOK
<1>2. \/ pay'[p].status \notin {"COMPLETED", "REFUNDED"}
      \/ pay'[p].method # "CREDIT_CARD"
      \/ form'[p] = "charged"
  BY <1>1 DEF Forward
<1>3. QED
  BY <1>1, <1>2, ChargesKept
---------------------------------------------------------------------------
(***************************************************************************)
(* One step of the payment service.                                        *)
(***************************************************************************)
PayInv ==
    /\ FormOwned
    /\ \A r \in Request : CallKnows(r)
    /\ MoneyInv
    /\ PaidIsCharged

LEMMA StartPay ==
    ASSUME IInv, NEW r \in Request, NEW p \in Payment, CallStart(r, p)
    PROVE  PayInv'
<1>1. PaymentsTypeOK /\ FormOwned
  BY DEF IInv, TypeOK
<1>2. Forward
  BY StepForward
<1>3. \A s \in Request : CallKnows(s)'
  BY <1>2, StartKnows
<1>4. order' = order /\ payout' = payout /\ released' = released
  BY DEF CallStart, Initiate, ThreeDCallback, Callback, ReadRefund, ReadRelease, Unseen
<1>5. MoneyInv'
  BY <1>2, <1>4, OrderMoved
<1>6. ASSUME NEW m \in Methods, Initiate(r, p, m)
      PROVE  FormOwned' /\ PaidIsCharged'
  <2>1. FormOwned'
    BY <1>2, <1>6, InitiateForms
  <2>2. PaidIsCharged'
    BY <1>2, <1>6, InsertCharges DEF Initiate
  <2>3. QED
    BY <2>1, <2>2
<1>7. ASSUME ThreeDCallback(r, p) \/ Callback(r, p) \/ ReadRefund(r, p) \/ ReadRelease(r, p)
      PROVE  FormOwned' /\ PaidIsCharged'
  <2>1. pay' = pay /\ form' = form
    BY <1>7 DEF ThreeDCallback, Callback, ReadRefund, ReadRelease, Unseen
  <2>2. \E pc, q : \E ok \in BOOLEAN : pc # "form" /\ Goto(r, pc, q, ok)
    BY <1>7 DEF ThreeDCallback, Callback, Verified, ReadRefund, ReadRelease
  <2>3. \A s \in Request : \A q \in Payment : At(s, "form", q)' => At(s, "form", q)
    BY <1>1, <2>2, SlotLeavesForm
  <2>4. FormOwned'
    BY <1>1, <1>2, <2>1, <2>3, FormsKept
  <2>5. PaidIsCharged'
    BY <1>2, <2>1, ChargesKept
  <2>6. QED
    BY <2>4, <2>5
<1>8. FormOwned' /\ PaidIsCharged'
  BY <1>6, <1>7 DEF CallStart
<1>9. QED
  BY <1>3, <1>5, <1>8 DEF PayInv

\* The steps that change neither the payments nor their forms.
LEMMA RowsUntouched ==
    ASSUME IInv, Forward, pay' = pay, form' = form, MoneyInv',
           \/ req' = req
           \/ \E r \in Request : Done(r)
           \/ \E r \in Request : ReadPayout(r)
    PROVE  PayInv'
<1>1. PaymentsTypeOK /\ FormOwned
  BY DEF IInv, TypeOK
<1>2. PaidIsCharged'
  BY ChargesKept
<1>3. CASE req' = req
  <2>1. \A s \in Request : CallKnows(s)'
    BY <1>3, KnowsKept DEF IInv
  <2>2. FormOwned'
    BY <1>1, <1>3, FormsKept DEF At
  <2>3. QED
    BY <1>2, <2>1, <2>2 DEF PayInv
<1>4. ASSUME NEW r \in Request, Done(r)
      PROVE  PayInv'
  <2>1. \A s \in Request : CallKnows(s)'
    BY <1>4, RestKnows
  <2>2. \A s \in Request : \A q \in Payment : At(s, "form", q)' => At(s, "form", q)
    BY <1>1, <1>4, SlotLeavesForm
  <2>3. FormOwned'
    BY <1>1, <2>2, FormsKept
  <2>4. QED
    BY <1>2, <2>1, <2>3 DEF PayInv
<1>5. ASSUME NEW r \in Request, ReadPayout(r)
      PROVE  PayInv'
  <2>1. \A s \in Request : CallKnows(s)'
    BY <1>5, PayoutKnows
  <2>2. \E pc, q : \E ok \in BOOLEAN : pc # "form" /\ Goto(r, pc, q, ok)
    BY <1>5 DEF ReadPayout
  <2>3. \A s \in Request : \A q \in Payment : At(s, "form", q)' => At(s, "form", q)
    BY <1>1, <2>2, SlotLeavesForm
  <2>4. FormOwned'
    BY <1>1, <2>3, FormsKept
  <2>5. QED
    BY <1>2, <2>1, <2>4 DEF PayInv
<1>6. QED
  BY <1>3, <1>4, <1>5

LEMMA StepPay ==
    ASSUME IInv, NEW r \in Request, NEW p \in Payment, CallStep(r, p)
    PROVE  PayInv'
<1>1. PaymentsTypeOK /\ FormOwned /\ CallKnows(r)
  BY DEF IInv, TypeOK
<1>2. Forward
  BY StepForward
<1>3. Done(r)
  BY DEF CallStep, StoreToken, StoreReference, HoldEscrow, ThreeDAnswered, Settle,
     CommitRefund, CommitRelease
<1>4. \A s \in Request : CallKnows(s)'
  BY <1>2, <1>3, RestKnows
<1>5. \A s \in Request : \A q \in Payment : At(s, "form", q)' => At(s, "form", q)
  BY <1>1, <1>3, SlotLeavesForm
<1>6. form' = form => FormOwned'
  BY <1>1, <1>2, <1>5, FormsKept
<1>7. CASE StoreToken(r, p)
  <2>1. FormOwned'
    BY <1>2, <1>7, StoreTokenForms
  <2>2. MoneyInv'
    BY <1>2, <1>7, OrderMoved DEF StoreToken
  <2>3. \E t : SetRow(p, "PROCESSING", t)
    BY <1>7 DEF StoreToken
  <2>4. PaidIsCharged'
    BY <1>2, <2>3, SetCharges
  <2>5. QED
    BY <1>4, <2>1, <2>2, <2>4 DEF PayInv
<1>8. CASE HoldEscrow(r, p)
  <2>1. FormOwned'
    BY <1>6, <1>8 DEF HoldEscrow, Unseen
  <2>2. MoneyInv'
    BY <1>2, <1>8, OrderMoved DEF HoldEscrow, Unseen
  <2>3. PaidIsCharged'
    BY <1>2, <1>8, InsertCharges DEF HoldEscrow, Held
  <2>4. QED
    BY <1>4, <2>1, <2>2, <2>3 DEF PayInv
<1>9. CASE Settle(r, p)
  <2>1. FormOwned'
    BY <1>6, <1>9 DEF Settle, Unseen
  <2>2. MoneyInv'
    BY <1>2, <1>9, SettleMoney
  <2>3. PaidIsCharged'
    <3>1. CASE req[r].ok
      <4>1. form[p] = "charged" /\ \E ref : SetRow(p, "COMPLETED", ref)
        BY <1>1, <1>9, <3>1 DEF Settle, CallKnows
      <4>2. QED
        BY <1>2, <4>1, SetCharges
    <3>2. CASE ~req[r].ok
      <4>1. SetStatus(p, "FAILED")
        BY <1>9, <3>2 DEF Settle
      <4>2. QED
        BY <1>2, <4>1, SetCharges
    <3>3. QED
      BY <3>1, <3>2
  <2>4. QED
    BY <1>4, <2>1, <2>2, <2>3 DEF PayInv
<1>10. CASE CommitRefund(r, p)
  <2>1. FormOwned'
    BY <1>6, <1>10 DEF CommitRefund, Unseen
  <2>2. MoneyInv'
    BY <1>2, <1>10, OrderMoved DEF CommitRefund, Unseen
  <2>3. pay[p].method = "CREDIT_CARD" => form[p] = "charged"
    BY <1>1, <1>10 DEF CommitRefund, CallKnows
  <2>4. PaidIsCharged'
    BY <1>2, <1>10, <2>3, SetCharges DEF CommitRefund
  <2>5. QED
    BY <1>4, <2>1, <2>2, <2>4 DEF PayInv
<1>11. CASE CommitRelease(r, p)
  <2>1. FormOwned'
    BY <1>6, <1>11 DEF CommitRelease
  <2>2. MoneyInv'
    BY <1>2, <1>11, ReleaseMoney
  <2>3. pay[p].method = "ESCROW"
    BY <1>1, <1>11 DEF CommitRelease, CallKnows
  <2>4. PaidIsCharged'
    BY <1>2, <1>11, <2>3, SetCharges DEF CommitRelease
  <2>5. QED
    BY <1>4, <2>1, <2>2, <2>4 DEF PayInv
<1>12. CASE StoreReference(r, p)
  <2>1. FormOwned'
    BY <1>6, <1>12 DEF StoreReference, Unseen
  <2>2. MoneyInv'
    BY <1>2, <1>12, OrderMoved DEF StoreReference, Unseen
  <2>3. \A q \in Payment : pay'[q].status = pay[q].status /\ pay'[q].method = pay[q].method
    BY <1>1, <1>12, AfterReference DEF StoreReference
  <2>4. PaidIsCharged'
    BY <1>2, <2>3 DEF IInv, Forward, PaidIsCharged
  <2>5. QED
    BY <1>4, <2>1, <2>2, <2>4 DEF PayInv
<1>13. CASE ThreeDAnswered(r, p)
  <2>1. MoneyInv'
    BY <1>2, <1>13, OrderMoved DEF ThreeDAnswered, Unseen
  <2>2. QED
    BY <1>2, <1>13, <2>1, RowsUntouched DEF ThreeDAnswered, Unseen
<1>14. QED
  BY <1>7, <1>8, <1>9, <1>10, <1>11, <1>12, <1>13 DEF CallStep

LEMMA PaymentsPay ==
    ASSUME IInv, Forward, PaymentsNext
    PROVE  PayInv'
<1>1. FormOwned /\ PaymentsTypeOK
  BY DEF IInv, TypeOK
<1>2. ASSUME NEW r \in Request, ReadPayout(r) \/ PayoutStep(r) \/ BreakOff(r)
      PROVE  PayInv'
  <2>1. pay' = pay /\ form' = form
    BY <1>2 DEF ReadPayout, PayoutStep, CreatePayout, KeyTaken, BreakOff, Unseen
  <2>2. ReadPayout(r) \/ Done(r)
    BY <1>2 DEF PayoutStep, CreatePayout, KeyTaken, BreakOff
  <2>3. MoneyInv'
    <3>1. CASE CreatePayout(r)
      BY <3>1, PayoutMoney
    <3>2. CASE ~CreatePayout(r)
      BY <1>2, <3>2, OrderMoved DEF ReadPayout, PayoutStep, KeyTaken, BreakOff, Unseen
    <3>3. QED
      BY <3>1, <3>2
  <2>4. QED
    BY <2>1, <2>2, <2>3, RowsUntouched
<1>3. ASSUME NEW p \in Payment, CreateEscrow(p)
      PROVE  PayInv'
  <2>1. MoneyInv'
    BY <1>3, OrderMoved DEF CreateEscrow, Unseen
  <2>2. PaidIsCharged'
    BY <1>3, InsertCharges DEF CreateEscrow, Held
  <2>3. \A s \in Request : CallKnows(s)'
    BY <1>3, KnowsKept DEF CreateEscrow, IInv
  <2>4. FormOwned'
    BY <1>1, <1>3, FormsKept DEF CreateEscrow, Unseen, At
  <2>5. QED
    BY <2>1, <2>2, <2>3, <2>4 DEF PayInv
<1>4. ASSUME NEW p \in Payment, Dispute(p)
      PROVE  PayInv'
  <2>1. MoneyInv'
    BY <1>4, OrderMoved DEF Dispute, Unseen
  <2>2. PaidIsCharged'
    BY <1>4, SetCharges DEF Dispute
  <2>3. \A s \in Request : CallKnows(s)'
    BY <1>4, KnowsKept DEF Dispute, IInv
  <2>4. FormOwned'
    BY <1>1, <1>4, FormsKept DEF Dispute, Unseen, At
  <2>5. QED
    BY <2>1, <2>2, <2>3, <2>4 DEF PayInv
<1>5. ASSUME NEW p \in Payment, NEW o, Answer(p, o)
      PROVE  PayInv'
  <2>1. MoneyInv'
    BY <1>5, OrderMoved DEF Answer
  <2>2. PaidIsCharged'
    BY <1>5, ChargesKept DEF Answer
  <2>3. \A s \in Request : CallKnows(s)'
    BY <1>5, KnowsKept DEF Answer, IInv
  <2>4. FormOwned'
    BY <1>5, AnswerForms
  <2>5. QED
    BY <2>1, <2>2, <2>3, <2>4 DEF PayInv
<1>6. CASE ApprovePayout
  <2>1. MoneyInv'
    BY <1>6, PayoutMoney
  <2>2. QED
    BY <1>6, <2>1, RowsUntouched DEF ApprovePayout, Unseen
<1>7. ASSUME NEW s \in AdminStatus, UpdateOrderStatus(s)
      PROVE  PayInv'
  <2>1. MoneyInv'
    BY <1>7, StatusMoney
  <2>2. QED
    BY <1>7, <2>1, RowsUntouched DEF UpdateOrderStatus
<1>8. QED
  BY <1>2, <1>3, <1>4, <1>5, <1>6, <1>7, StartPay, StepPay DEF PaymentsNext
---------------------------------------------------------------------------
(***************************************************************************)
(* The shipping service.                                                   *)
(***************************************************************************)
ShipInv == (\A k \in Clerk : ClerkKnows(k)) /\ GoodsAreBacked

\* Whatever the payment service does, the goods and the calls stay backed.
LEMMA ShipKept ==
    ASSUME IInv, Forward, UNCHANGED <<shipment, clerk>>
    PROVE  ShipInv'
<1>1. Backed => Backed'
  BY ForwardKeepsBacking
<1>2. QED
  BY <1>1 DEF IInv, ShipInv, ClerkKnows, GoodsAreBacked

LEMMA AfterBegin ==
    ASSUME TypeOK, NEW k \in Clerk, NEW pc, NEW s, Begin(k, pc, s)
    PROVE  /\ clerk'[k] = [pc |-> pc, seen |-> s]
           /\ \A j \in Clerk : j # k => clerk'[j] = clerk[j]
BY DEF TypeOK, Begin

LEMMA AfterFinish ==
    ASSUME TypeOK, NEW k \in Clerk, Finish(k)
    PROVE  /\ clerk'[k].pc = "idle"
           /\ \A j \in Clerk : j # k => clerk'[j] = clerk[j]
BY DEF TypeOK, Finish, Free

\* A call that begins saw an order that is paid or a shipment that is backed.
LEMMA BeginShips ==
    ASSUME IInv, Forward, NEW k \in Clerk, NEW pc, NEW s, Begin(k, pc, s), Reading, Backed,
           pc \in {"track", "label", "cancel"} => shipment # "none",
           pc \in {"track", "label"} => s # "none"
    PROVE  ShipInv'
<1>1. Backed' /\ shipment' = shipment
  BY ForwardKeepsBacking DEF Reading
<1>2. /\ clerk'[k] = [pc |-> pc, seen |-> s]
      /\ \A j \in Clerk : j # k => clerk'[j] = clerk[j]
  BY AfterBegin DEF IInv
<1>3. ASSUME NEW j \in Clerk
      PROVE  ClerkKnows(j)'
  BY <1>1, <1>2 DEF IInv, ClerkKnows
<1>4. QED
  BY <1>1, <1>3 DEF ShipInv, GoodsAreBacked

LEMMA FinishShips ==
    ASSUME IInv, Forward, NEW k \in Clerk, Finish(k), Backed,
           shipment # "none" => shipment' # "none"
    PROVE  ShipInv'
<1>1. Backed'
  BY ForwardKeepsBacking
<1>2. /\ clerk'[k].pc = "idle"
      /\ \A j \in Clerk : j # k => clerk'[j] = clerk[j]
  BY AfterFinish DEF IInv
<1>3. ASSUME NEW j \in Clerk
      PROVE  ClerkKnows(j)'
  BY <1>1, <1>2 DEF IInv, ClerkKnows
<1>4. QED
  BY <1>1, <1>3 DEF ShipInv, GoodsAreBacked

LEMMA ShippingShips ==
    ASSUME IInv, Forward, NEW k \in Clerk, Shipping(k)
    PROVE  ShipInv'
<1>1. ClerkKnows(k) /\ StatusIsBacked /\ GoodsAreBacked
  BY DEF IInv
<1>2. CASE ReadCreate(k)
  <2>1. Backed
    BY <1>1, <1>2 DEF ReadCreate, ReadyToShip, StatusIsBacked
  <2>2. QED
    BY <1>2, <2>1, BeginShips DEF ReadCreate
<1>3. ASSUME NEW s \in Tracked, ReadTrack(k, s)
      PROVE  ShipInv'
  <2>1. shipment # "none" /\ Backed /\ s # "none"
    BY <1>1, <1>3, TrackedAssumption DEF ReadTrack, GoodsAreBacked, ShipmentStatus
  <2>2. QED
    BY <1>3, <2>1, BeginShips DEF ReadTrack
<1>4. CASE ReadLabel(k)
  <2>1. shipment # "none" /\ Backed
    BY <1>1, <1>4 DEF ReadLabel, GoodsAreBacked
  <2>2. QED
    BY <1>4, <2>1, BeginShips DEF ReadLabel
<1>5. CASE ReadCancel(k)
  <2>1. shipment # "none" /\ Backed
    BY <1>1, <1>5 DEF ReadCancel, GoodsAreBacked
  <2>2. QED
    BY <1>5, <2>1, BeginShips DEF ReadCancel
<1>6. CASE CommitCreate(k) \/ CommitTrack(k) \/ CommitLabel(k) \/ CommitCancel(k) \/ Abandon(k)
  <2>1. Finish(k) /\ clerk[k].pc # "idle"
    BY <1>6 DEF CommitCreate, CommitTrack, CommitLabel, CommitCancel, Abandon, Write
  <2>2. shipment # "none" => shipment' # "none"
    BY <1>1, <1>6 DEF CommitCreate, CommitTrack, CommitLabel, CommitCancel, Abandon, Write,
       Reading, ClerkKnows
  <2>3. Backed
    BY <1>1, <2>1 DEF ClerkKnows
  <2>4. QED
    BY <2>1, <2>2, <2>3, FinishShips
<1>7. QED
  BY <1>2, <1>3, <1>4, <1>5, <1>6 DEF Shipping

\* To the payment service a step of the shipping service is a new status of
\* the order, and a backed one.
LEMMA ShippingPay ==
    ASSUME IInv, Forward, NEW k \in Clerk, Shipping(k)
    PROVE  PayInv'
<1>1. pay' = pay /\ form' = form /\ req' = req /\ payout' = payout /\ released' = released
  BY DEF Shipping, ReadCreate, CommitCreate, ReadTrack, CommitTrack, ReadLabel,
     CommitLabel, ReadCancel, CommitCancel, Abandon, Write, Reading, Unseen, payVars
<1>2. order' = order \/ clerk[k].pc # "idle"
  BY DEF Shipping, ReadCreate, CommitCreate, ReadTrack, CommitTrack, ReadLabel,
     CommitLabel, ReadCancel, CommitCancel, Abandon, Reading, payVars
<1>3. order' = order \/ Backed'
  BY <1>2, ForwardKeepsBacking DEF IInv, ClerkKnows
<1>4. MoneyInv'
  BY <1>1, <1>3, OrderMoved
<1>5. QED
  BY <1>1, <1>4, RowsUntouched
---------------------------------------------------------------------------
(***************************************************************************)
(* The invariant, and the safety properties it implies.                    *)
(***************************************************************************)
LEMMA InitInv == Init => IInv
<1> SUFFICES ASSUME Init PROVE IInv
  OBVIOUS
<1>1. TypeOK
  BY InitTyped
<1>2. /\ order = "PENDING_PAYMENT" /\ payout = "none" /\ released = {} /\ shipment = "none"
      /\ \A p \in Payment : form[p] = "none" /\ pay[p].status = "none"
      /\ \A r \in Request : req[r].pc = "idle"
      /\ \A k \in Clerk : clerk[k].pc = "idle"
  BY DEF Init, PaymentsInit, NoRow, Row, Idle, Free
<1>3. FormOwned /\ (\A r \in Request : CallKnows(r)) /\ (\A k \in Clerk : ClerkKnows(k))
  BY <1>2 DEF FormOwned, CallKnows, ClerkKnows, At
<1>4. StatusIsBacked /\ ReleaseIsPaid
  BY <1>2 DEF StatusIsBacked, ReleaseIsPaid
<1>5. PaidIsCharged /\ GoodsAreBacked /\ PayoutIsBacked /\ OneEscrowReleased
  BY <1>2 DEF PaidIsCharged, GoodsAreBacked, PayoutIsBacked, OneEscrowReleased
<1>6. QED
  BY <1>1, <1>3, <1>4, <1>5 DEF IInv

LEMMA PartsMake ==
    ASSUME TypeOK', PayInv', ShipInv'
    PROVE  IInv'
BY DEF IInv, PayInv, MoneyInv, ShipInv

LEMMA NextInv == IInv /\ [Next]_vars => IInv'
<1> SUFFICES ASSUME IInv, [Next]_vars PROVE IInv'
  OBVIOUS
<1>1. TypeOK' /\ Forward
  BY NextTyped, NextForward DEF IInv
<1>2. CASE PaymentsNext /\ UNCHANGED <<shipment, clerk>>
  BY <1>1, <1>2, PaymentsPay, ShipKept, PartsMake
<1>3. ASSUME NEW k \in Clerk, Shipping(k)
      PROVE  IInv'
  BY <1>1, <1>3, ShippingPay, ShippingShips, PartsMake
<1>4. CASE UNCHANGED vars
  <2>1. MoneyInv'
    BY <1>1, <1>4, OrderMoved DEF vars, payVars
  <2>2. PayInv'
    BY <1>1, <1>4, <2>1, RowsUntouched DEF vars, payVars
  <2>3. ShipInv'
    BY <1>1, <1>4, ShipKept DEF vars
  <2>4. QED
    BY <1>1, <2>2, <2>3, PartsMake
<1>5. QED
  BY <1>2, <1>3, <1>4 DEF Next

LEMMA InvAlways == Spec => []IInv
<1>1. QED
  BY InitInv, NextInv, PTL DEF Spec

(***************************************************************************)
(* No sequence of lost, repeated or overtaking callbacks, refunds and      *)
(* disputes makes the platform report a card payment as paid that the      *)
(* provider did not charge.                                                *)
(***************************************************************************)
THEOREM PaidIsChargedAlways == Spec => []PaidIsCharged
<1>1. IInv => PaidIsCharged
  BY DEF IInv
<1>2. QED
  BY <1>1, InvAlways, PTL

(***************************************************************************)
(* createShipment, updateShipmentStatus, generateLabel and cancelShipment  *)
(* write with what they read long before; still goods are only ever sent   *)
(* for an order that was charged or recorded as paid.                      *)
(***************************************************************************)
THEOREM GoodsAreBackedAlways == Spec => []GoodsAreBacked
<1>1. IInv => GoodsAreBacked
  BY DEF IInv
<1>2. QED
  BY <1>1, InvAlways, PTL

(***************************************************************************)
(* requestPayout and releaseEscrow pay a seller only for money that came   *)
(* in or for an escrow that was released.                                  *)
(***************************************************************************)
THEOREM PayoutIsBackedAlways == Spec => []PayoutIsBacked
<1>1. IInv => PayoutIsBacked
  BY DEF IInv
<1>2. QED
  BY <1>1, InvAlways, PTL

(***************************************************************************)
(* The unique key of seller_payouts lets one escrow of an order be         *)
(* released, however many escrows and releases in progress there are.      *)
(***************************************************************************)
THEOREM OneEscrowReleasedAlways == Spec => []OneEscrowReleased
<1>1. IInv => OneEscrowReleased
  BY DEF IInv
<1>2. QED
  BY <1>1, InvAlways, PTL
=============================================================================

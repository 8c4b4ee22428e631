------------------------ MODULE SettlementRefinement ------------------------
(***************************************************************************)
(* Settlement implements OrderMoney, a payment that went through shows on  *)
(* its order, and a delivery is final with one clerk.                      *)
(***************************************************************************)
EXTENDS SettlementSafety

\* Nothing that the promise is about changes.
Still ==
    /\ Charged' = Charged /\ UNCHANGED <<vouched, Escrows, released>>
    /\ (shipment' # "none") = (shipment # "none")
    /\ (payout' # "none") = (payout # "none")

LEMMA StillStutters == Still => UNCHANGED Money!money
BY DEF Still, Money!money

LEMMA SameStill ==
    ASSUME form' = form, byHand' = byHand, released' = released, Escrows' = Escrows,
           shipment' = shipment, payout' = payout
    PROVE  Still
BY DEF Still, Charged, vouched

\* What a write does to the set of escrows.
LEMMA SetEscrows ==
    ASSUME PaymentsTypeOK, NEW p \in Payment, Exists(p), NEW s \in PaymentStatus,
           SetStatus(p, s) \/ \E ref : SetRow(p, s, ref)
    PROVE  Escrows' = Escrows
<1>1. /\ pay'[p].status = s /\ pay'[p].method = pay[p].method
      /\ \A q \in Payment : q # p => pay'[q] = pay[q]
  BY AfterSet
<1>2. \A q \in Payment : (Exists(q)' <=> Exists(q)) /\ pay'[q].method = pay[q].method
  BY <1>1 DEF Exists, PaymentStatus
<1>3. QED
  BY <1>2 DEF Escrows

LEMMA InsertEscrows ==
    ASSUME PaymentsTypeOK, NEW p \in Payment, NEW m, NEW ref,
           NEW s \in {"PENDING", "PROCESSING"}, Insert(p, Row(m, s, ref))
    PROVE  Escrows' = IF m = "ESCROW" THEN Escrows \cup {p} ELSE Escrows
<1>1. /\ ~Exists(p) /\ pay'[p].status = s /\ pay'[p].method = m
      /\ \A q \in Payment : q # p => pay'[q] = pay[q]
  BY AfterInsert DEF Row
<1>2. Exists(p)' /\ \A q \in Payment : q # p => (Exists(q)' <=> Exists(q))
  BY <1>1 DEF Exists
<1>3. \A q \in Payment : q \in Escrows' <=> q \in Escrows \/ (q = p /\ m = "ESCROW")
  BY <1>1, <1>2 DEF Escrows
<1>4. Escrows' \subseteq Payment /\ Escrows \subseteq Payment
  BY DEF Escrows
<1>5. QED
  BY <1>3, <1>4

\* A row that is inserted is an escrow that is opened, or nothing to OrderMoney.
LEMMA InsertRefines ==
    ASSUME PaymentsTypeOK, NEW p \in Payment, NEW m, NEW ref,
           NEW s \in {"PENDING", "PROCESSING"}, Insert(p, Row(m, s, ref)),
           Unseen, payout' = payout, shipment' = shipment
    PROVE  Still \/ Money!Hold(p)
<1>1. CASE m = "ESCROW"
  <2>1. Escrows' = Escrows \cup {p}
    BY <1>1, InsertEscrows
  <2>2. QED
    BY <2>1 DEF Money!Hold, Unseen, Charged, vouched
<1>2. CASE m # "ESCROW"
  <2>1. Escrows' = Escrows
    BY <1>2, InsertEscrows
  <2>2. QED
    BY <2>1, SameStill DEF Unseen
<1>3. QED
  BY <1>1, <1>2

LEMMA StartRefines ==
    ASSUME IInv, NEW r \in Request, NEW p \in Payment, CallStart(r, p),
           UNCHANGED <<shipment, clerk>>
    PROVE  Still \/ Money!Hold(p)
<1>1. PaymentsTypeOK
  BY DEF IInv, TypeOK
<1>2. ASSUME NEW m \in Methods, Initiate(r, p, m)
      PROVE  Still \/ Money!Hold(p)
  BY <1>1, <1>2, InsertRefines DEF Initiate
<1>3. CASE ThreeDCallback(r, p) \/ Callback(r, p) \/ ReadRefund(r, p) \/ ReadRelease(r, p)
  BY <1>3, SameStill
  DEF ThreeDCallback, Callback, ReadRefund, ReadRelease, Unseen, Escrows, Exists
<1>4. QED
  BY <1>2, <1>3 DEF CallStart

\* A call that is going to write a row holds one that exists.
LEMMA WritesExisting ==
    ASSUME IInv, NEW r \in Request, NEW p \in Payment,
           At(r, "form", p) \/ At(r, "settle", p) \/ At(r, "refund", p) \/ At(r, "release", p)
    PROVE  Exists(p)
BY DEF IInv, FormOwned, CallKnows

LEMMA StepRefines ==
    ASSUME IInv, NEW r \in Request, NEW p \in Payment, CallStep(r, p),
           UNCHANGED <<shipment, clerk>>
    PROVE  Still \/ Money!Hold(p) \/ Money!Release(p)
<1>1. PaymentsTypeOK
  BY DEF IInv, TypeOK
<1>2. CASE StoreToken(r, p)
  <2>1. form[p] = "none" /\ form \in [Payment -> FormState]
    BY <1>2, RowsAreTyped DEF StoreToken, IInv, TypeOK, FormOwned
  <2>2. \A q \in Payment : form'[q] = "charged" <=> form[q] = "charged"
    BY <1>2, <2>1 DEF StoreToken
  <2>3. Charged' = Charged
    BY <2>2 DEF Charged
  <2>4. Escrows' = Escrows
    <3>1. Exists(p) /\ \E ref : SetRow(p, "PROCESSING", ref)
      BY <1>2, WritesExisting DEF StoreToken
    <3>2. QED
      BY <1>1, <3>1, SetEscrows DEF PaymentStatus
  <2>5. QED
    BY <1>2, <2>3, <2>4 DEF StoreToken, Still, vouched
<1>3. CASE HoldEscrow(r, p)
  BY <1>1, <1>3, InsertRefines DEF HoldEscrow, Held
<1>4. CASE StoreReference(r, p)
  <2>1. Escrows' = Escrows
    BY <1>1, <1>4, AfterReference DEF StoreReference, Escrows, Exists
  <2>2. QED
    BY <1>4, <2>1, SameStill DEF StoreReference, Unseen
<1>5. CASE ThreeDAnswered(r, p)
  BY <1>5, SameStill DEF ThreeDAnswered, Unseen, Escrows, Exists
<1>6. CASE Settle(r, p) \/ CommitRefund(r, p)
  <2>1. Exists(p)
    BY <1>6, WritesExisting DEF Settle, CommitRefund
  <2>2. \E s \in PaymentStatus : SetStatus(p, s) \/ \E ref : SetRow(p, s, ref)
    BY <1>6 DEF Settle, CommitRefund, PaymentStatus
  <2>3. Escrows' = Escrows
    BY <1>1, <2>1, <2>2, SetEscrows
  <2>4. QED
    BY <1>6, <2>3, SameStill DEF Settle, CommitRefund, Unseen
<1>7. CASE CommitRelease(r, p)
  <2>1. Charged' = Charged /\ vouched' = vouched /\ released' = released \cup {p}
    BY <1>7 DEF CommitRelease, Charged, vouched
  <2>2. p \in Escrows
    BY <1>7 DEF CommitRelease, IInv, CallKnows, Escrows
  <2>3. Escrows' = Escrows
    BY <1>1, <1>7, WritesExisting, SetEscrows DEF CommitRelease, PaymentStatus
  <2>4. HasProfile => payout = "none"
    BY <1>7 DEF CommitRelease, PayoutKeyFree
  <2>5. (payout' # "none") = HasProfile
    BY <1>7, PaymentsAssumption
    DEF CommitRelease, PayoutOfRelease, IInv, ReleaseIsPaid
  <2>6. QED
    BY <2>1, <2>2, <2>3, <2>4, <2>5 DEF Money!Release
<1>8. QED
  BY <1>2, <1>3, <1>4, <1>5, <1>6, <1>7 DEF CallStep

LEMMA PayoutRefines ==
    ASSUME IInv, NEW r \in Request, ReadPayout(r) \/ PayoutStep(r) \/ BreakOff(r),
           UNCHANGED <<shipment, clerk>>
    PROVE  Still \/ Money!PayOut
<1>1. CASE CreatePayout(r)
  <2>1. HasProfile /\ Paid /\ payout = "none" /\ payout' # "none"
    BY <1>1 DEF CreatePayout, PayoutKeyFree, IInv, CallKnows
  <2>2. /\ Charged' = Charged /\ vouched' = vouched /\ released' = released
        /\ Escrows' = Escrows
    BY <1>1 DEF CreatePayout, Unseen, Charged, vouched, Escrows, Exists
  <2>3. QED
    BY <2>1, <2>2 DEF Money!PayOut, Money!Backed, Paid, Backed
<1>2. CASE ~CreatePayout(r)
  BY <1>2, SameStill
  DEF ReadPayout, PayoutStep, KeyTaken, BreakOff, Unseen, Escrows, Exists
<1>3. QED
  BY <1>1, <1>2

LEMMA AnswerRefines ==
    ASSUME IInv, NEW p \in Payment, NEW o, Answer(p, o), UNCHANGED <<shipment, clerk>>
    PROVE  Still \/ Money!Charge(p)
<1>1. form \in [Payment -> FormState]
  BY RowsAreTyped DEF IInv, TypeOK
<1>2. /\ form'[p] = o /\ form[p] = "shown"
      /\ \A q \in Payment : q # p => form'[q] = form[q]
  BY <1>1 DEF Answer
<1>3. /\ vouched' = vouched /\ released' = released /\ payout' = payout
      /\ shipment' = shipment /\ Escrows' = Escrows
  BY DEF Answer, vouched, Escrows, Exists
<1>4. CASE o = "charged"
  <2>1. Charged' = Charged \cup {p}
    BY <1>2, <1>4 DEF Charged
  <2>2. QED
    BY <1>3, <2>1 DEF Money!Charge
<1>5. CASE o # "charged"
  <2>1. Charged' = Charged
    BY <1>2, <1>5 DEF Charged
  <2>2. QED
    BY <1>3, <2>1 DEF Still
<1>6. QED
  BY <1>4, <1>5

LEMMA PaymentsRefine ==
    ASSUME IInv, PaymentsNext, UNCHANGED <<shipment, clerk>>
    PROVE  Still \/ Money!Next
<1>1. ASSUME NEW r \in Request, NEW p \in Payment, CallStart(r, p) \/ CallStep(r, p)
      PROVE  Still \/ Money!Next
  BY <1>1, StartRefines, StepRefines DEF Money!Next
<1>2. ASSUME NEW r \in Request, ReadPayout(r) \/ PayoutStep(r) \/ BreakOff(r)
      PROVE  Still \/ Money!Next
  BY <1>2, PayoutRefines DEF Money!Next
<1>3. ASSUME NEW p \in Payment, CreateEscrow(p) \/ Dispute(p)
      PROVE  Still \/ Money!Next
  <2>1. PaymentsTypeOK
    BY DEF IInv, TypeOK
  <2>2. CASE CreateEscrow(p)
    BY <2>1, <2>2, InsertRefines DEF CreateEscrow, Held, Money!Next
  <2>3. CASE Dispute(p)
    <3>1. Escrows' = Escrows
      BY <2>1, <2>3, SetEscrows DEF Dispute, PaymentStatus
    <3>2. QED
      BY <2>3, <3>1, SameStill DEF Dispute, Unseen
  <2>4. QED
    BY <1>3, <2>2, <2>3
<1>4. ASSUME NEW p \in Payment, NEW o, Answer(p, o)
      PROVE  Still \/ Money!Next
  BY <1>4, AnswerRefines DEF Money!Next
<1>5. CASE ApprovePayout
  BY <1>5 DEF ApprovePayout, Unseen, Still, Charged, vouched, Escrows, Exists
<1>6. ASSUME NEW s \in AdminStatus, UpdateOrderStatus(s)
      PROVE  Still \/ Money!Vouch
  <2>1. /\ Charged' = Charged /\ released' = released /\ payout' = payout
        /\ Escrows' = Escrows
    BY <1>6 DEF UpdateOrderStatus, Charged, Escrows, Exists
  <2>2. vouched' = vouched \/ vouched' = TRUE
    BY <1>6 DEF UpdateOrderStatus, vouched
  <2>3. QED
    BY <2>1, <2>2 DEF Still, Money!Vouch
<1>7. QED
  BY <1>1, <1>2, <1>3, <1>4, <1>5, <1>6 DEF PaymentsNext, Money!Next

LEMMA ShippingRefines ==
    ASSUME IInv, NEW k \in Clerk, Shipping(k)
    PROVE  Still \/ Money!Ship
<1>1. /\ Charged' = Charged /\ vouched' = vouched /\ released' = released
      /\ payout' = payout /\ Escrows' = Escrows
  <2>1. /\ form' = form /\ pay' = pay /\ byHand' = byHand /\ released' = released
        /\ payout' = payout
    BY DEF Shipping, ReadCreate, CommitCreate, ReadTrack, CommitTrack, ReadLabel,
       CommitLabel, ReadCancel, CommitCancel, Abandon, Write, Reading, Unseen, payVars
  <2>2. QED
    BY <2>1 DEF Charged, vouched, Escrows, Exists
<1>2. CASE CommitCreate(k) /\ shipment = "none"
  <2>1. Backed /\ shipment' # "none"
    BY <1>2 DEF CommitCreate, Write, IInv, ClerkKnows
  <2>2. QED
    BY <1>1, <1>2, <2>1 DEF Money!Ship, Money!Backed, Backed
<1>3. CASE ~(CommitCreate(k) /\ shipment = "none")
  <2>1. shipment' # "none" <=> shipment # "none"
    BY <1>3 DEF Shipping, ReadCreate, CommitCreate, ReadTrack, CommitTrack, ReadLabel,
       CommitLabel, ReadCancel, CommitCancel, Abandon, Write, Reading, payVars,
       IInv, ClerkKnows
  <2>2. QED
    BY <1>1, <2>1 DEF Still
<1>4. QED
  BY <1>2, <1>3

LEMMA InitPromise == Init => Money!Init
BY DEF Init, PaymentsInit, Money!Init, Charged, vouched, NoRow, Row, Escrows, Exists

LEMMA NextPromise == IInv /\ [Next]_vars => [Money!Next]_(Money!money)
<1> SUFFICES ASSUME IInv, [Next]_vars PROVE [Money!Next]_(Money!money)
  OBVIOUS
<1>1. CASE PaymentsNext /\ UNCHANGED <<shipment, clerk>>
  BY <1>1, PaymentsRefine, StillStutters
<1>2. ASSUME NEW k \in Clerk, Shipping(k)
      PROVE  Still \/ Money!Next
  BY <1>2, ShippingRefines DEF Money!Next
<1>3. CASE UNCHANGED vars
  BY <1>3, SameStill, StillStutters DEF vars, payVars, Escrows, Exists
<1>4. QED
  BY <1>1, <1>2, <1>3, StillStutters DEF Next

(***************************************************************************)
(* The payment and the shipping service together keep the promise of       *)
(* OrderMoney: goods and the seller's money leave once each, and only      *)
(* after a charge, a record by hand or, for the money, the release of an   *)
(* escrow that was opened for the order (no matter whether paid into).     *)
(***************************************************************************)
THEOREM SettlementKeepsPromise == Spec => KeepsPromise
<1>1. Init => Money!Init
  BY InitPromise
<1>2. IInv /\ [Next]_vars => [Money!Next]_(Money!money)
  BY NextPromise
<1>3. QED
  BY <1>1, <1>2, InvAlways, PTL DEF Spec, KeepsPromise, Money!Spec
---------------------------------------------------------------------------
(***************************************************************************)
(* Orders of payments that went through.                                   *)
(***************************************************************************)
Through == {p \in Payment : pay[p].status \in {"COMPLETED", "REFUNDED"}}

LEMMA HandKept == [Next]_vars => byHand \subseteq byHand'
BY DEF Next, PaymentsNext, CallStart, CallStep, Initiate, ThreeDCallback, ThreeDAnswered,
   Callback, ReadRefund, ReadRelease, StoreToken, StoreReference, HoldEscrow, Settle,
   CommitRefund, CommitRelease, PayoutStep, ReadPayout, CreatePayout, KeyTaken, BreakOff,
   CreateEscrow, Dispute, Answer, ApprovePayout, UpdateOrderStatus, Unseen,
   Shipping, ReadCreate, CommitCreate, ReadTrack, CommitTrack, ReadLabel,
   CommitLabel, ReadCancel, CommitCancel, Abandon, Write, Reading, vars, payVars

\* A step that leaves the order waiting for payment completes no payment.
LEMMA WaitingStep ==
    ASSUME TypeOK, [Next]_vars, "PENDING_PAYMENT" \notin byHand',
           order' = "PENDING_PAYMENT"
    PROVE  order = "PENDING_PAYMENT" /\ Through' \subseteq Through
<1>1. PaymentsTypeOK
  BY DEF TypeOK
<1>2. ASSUME order' = order, pay' = pay
      PROVE  order = "PENDING_PAYMENT" /\ Through' \subseteq Through
  BY <1>2 DEF Through
<1>3. ASSUME NEW p \in Payment, NEW m, NEW s \in {"PENDING", "PROCESSING"},
             NEW ref, Insert(p, Row(m, s, ref))
      PROVE  Through' \subseteq Through
  <2>1. pay'[p].status = s /\ \A q \in Payment : q # p => pay'[q] = pay[q]
    BY <1>1, <1>3, AfterInsert DEF Row
  <2>2. QED
    BY <2>1 DEF Through
<1>4. ASSUME NEW p \in Payment, NEW s \in {"PROCESSING", "FAILED"},
             SetStatus(p, s) \/ \E t : SetRow(p, s, t)
      PROVE  Through' \subseteq Through
  <2>1. pay'[p].status = s /\ \A q \in Payment : q # p => pay'[q] = pay[q]
    BY <1>1, <1>4, AfterSet
  <2>2. QED
    BY <2>1 DEF Through
<1>5. ASSUME NEW r \in Request, NEW p \in Payment, CallStart(r, p)
      PROVE  order = "PENDING_PAYMENT" /\ Through' \subseteq Through
  <2>1. CASE \E m \in Methods : Initiate(r, p, m)
    BY <1>3, <2>1 DEF Initiate
  <2>2. CASE ThreeDCallback(r, p) \/ Callback(r, p) \/ ReadRefund(r, p) \/ ReadRelease(r, p)
    BY <1>2, <2>2 DEF ThreeDCallback, Callback, ReadRefund, ReadRelease
  <2>3. QED
    BY <1>5, <2>1, <2>2 DEF CallStart
<1>6. ASSUME NEW r \in Request, NEW p \in Payment, CallStep(r, p)
      PROVE  order = "PENDING_PAYMENT" /\ Through' \subseteq Through
  <2>1. CASE StoreToken(r, p)
    <3>1. order' = order /\ \E t : SetRow(p, "PROCESSING", t)
      BY <2>1 DEF StoreToken
    <3>2. QED
      BY <1>4, <3>1
  <2>2. CASE HoldEscrow(r, p)
    BY <1>3, <2>2 DEF HoldEscrow, Held
  <2>3. CASE Settle(r, p)
    <3>1. ~req[r].ok /\ order' = order
      BY <2>3 DEF Settle, OrderSettled
    <3>2. SetStatus(p, "FAILED")
      BY <2>3, <3>1 DEF Settle
    <3>3. QED
      BY <1>4, <3>1, <3>2
  <2>4. CASE CommitRefund(r, p) \/ CommitRelease(r, p)
    BY <2>4 DEF CommitRefund, CommitRelease
  <2>5. CASE StoreReference(r, p)
    <3>1. \A q \in Payment : pay'[q].status = pay[q].status
      BY <1>1, <2>5, AfterReference DEF StoreReference
    <3>2. QED
      BY <2>5, <3>1 DEF StoreReference, Through
  <2>6. CASE ThreeDAnswered(r, p)
    BY <1>2, <2>6 DEF ThreeDAnswered
  <2>7. QED
    BY <1>6, <2>1, <2>2, <2>3, <2>4, <2>5, <2>6 DEF CallStep
<1>7. ASSUME NEW r \in Request, ReadPayout(r) \/ PayoutStep(r) \/ BreakOff(r)
      PROVE  order = "PENDING_PAYMENT" /\ Through' \subseteq Through
  BY <1>2, <1>7 DEF ReadPayout, PayoutStep, CreatePayout, KeyTaken, BreakOff
<1>8. ASSUME NEW p \in Payment, CreateEscrow(p)
      PROVE  order = "PENDING_PAYMENT" /\ Through' \subseteq Through
  BY <1>3, <1>8 DEF CreateEscrow, Held
<1>9. \A p \in Payment : ~Dispute(p)
  BY DEF Dispute
<1>10. ASSUME NEW p \in Payment, NEW o, Answer(p, o)
       PROVE  order = "PENDING_PAYMENT" /\ Through' \subseteq Through
  BY <1>2, <1>10 DEF Answer
<1>11. CASE ApprovePayout
  BY <1>2, <1>11 DEF ApprovePayout
<1>12. \A s \in AdminStatus : ~UpdateOrderStatus(s)
  BY DEF UpdateOrderStatus
<1>13. ASSUME NEW k \in Clerk, Shipping(k)
       PROVE  order = "PENDING_PAYMENT" /\ Through' \subseteq Through
  <2>1. order' = order /\ pay' = pay
    BY <1>13 DEF Shipping, ReadCreate, CommitCreate, ReadTrack, CommitTrack, ReadLabel,
       CommitLabel, ReadCancel, CommitCancel, Abandon, Write, Reading, payVars
  <2>2. QED
    BY <1>2, <2>1
<1>14. CASE UNCHANGED vars
  BY <1>2, <1>14 DEF vars, payVars
<1>15. QED
  BY <1>5, <1>6, <1>7, <1>8, <1>9, <1>10, <1>11, <1>12, <1>13, <1>14 DEF Next, PaymentsNext

(***************************************************************************)
(* A payment that went through is never on an order that waits for         *)
(* payment, except where updateOrderStatus put it there: no callback,      *)
(* refund, release, dispute or shipment takes an order back, in whatever   *)
(* order they commit.                                                      *)
(***************************************************************************)
THEOREM CompletedIsSeenAlways == Spec => []CompletedIsSeen
<1>1. Init => CompletedIsSeen
  BY DEF Init, PaymentsInit, NoRow, Row, CompletedIsSeen
<1>2. ASSUME TypeOK, CompletedIsSeen, [Next]_vars
      PROVE  CompletedIsSeen'
  <2>1. "PENDING_PAYMENT" \in byHand => "PENDING_PAYMENT" \in byHand'
    BY <1>2, HandKept
  <2>2. CASE "PENDING_PAYMENT" \in byHand' \/ order' # "PENDING_PAYMENT"
    BY <2>2 DEF CompletedIsSeen
  <2>3. CASE "PENDING_PAYMENT" \notin byHand' /\ order' = "PENDING_PAYMENT"
    <3>1. order = "PENDING_PAYMENT" /\ Through' \subseteq Through
      BY <1>2, <2>3, WaitingStep
    <3>2. QED
      BY <1>2, <2>1, <2>3, <3>1 DEF CompletedIsSeen, Through
  <2>4. QED
    BY <2>2, <2>3
<1>3. QED
  BY <1>1, <1>2, SettlementTypeCorrect, PTL DEF Spec
---------------------------------------------------------------------------
(***************************************************************************)
(* One call to the shipping service at a time, next to any number of calls *)
(* to the payment service.  A call that has read the shipment writes next, *)
(* so what it read still holds.                                            *)
(***************************************************************************)
OneClerk ==
    \A k, l \in Clerk : clerk[k].pc # "idle" /\ clerk[l].pc # "idle" => k = l

Over == shipment \in {"DELIVERED", "RETURNED"}

\* What a call to the shipping service read is still so when it commits.
ReadIsFresh(k) ==
    /\ clerk[k].pc = "create" => shipment = "none"
    /\ clerk[k].pc \in {"track", "cancel"} => ~Over
    /\ clerk[k].pc = "label" => clerk[k].seen = shipment

FreshInv == TypeOK /\ \A k \in Clerk : ReadIsFresh(k)

LEMMA BeginFresh ==
    ASSUME FreshInv, NEW k \in Clerk, NEW pc, NEW s, Begin(k, pc, s), Reading,
           pc = "create" => shipment = "none",
           pc \in {"track", "cancel"} => ~Over,
           pc = "label" => s = shipment
    PROVE  \A l \in Clerk : ReadIsFresh(l)'
<1>1. clerk'[k] = [pc |-> pc, seen |-> s]
      /\ \A l \in Clerk : l # k => clerk'[l] = clerk[l]
  BY AfterBegin DEF FreshInv
<1>2. shipment' = shipment
  BY DEF Reading
<1>3. ASSUME NEW l \in Clerk
      PROVE  ReadIsFresh(l)'
  BY <1>1, <1>2, <1>3 DEF FreshInv, ReadIsFresh, Over
<1>4. QED
  BY <1>3

\* The call that ends was the only one, and leaves nobody with a stale read.
LEMMA FinishFresh ==
    ASSUME FreshInv, OneClerk, NEW k \in Clerk, clerk[k].pc # "idle", Finish(k)
    PROVE  \A l \in Clerk : ReadIsFresh(l)'
<1>1. clerk'[k].pc = "idle" /\ \A l \in Clerk : l # k => clerk'[l] = clerk[l]
  BY AfterFinish DEF FreshInv
<1>2. ASSUME NEW l \in Clerk
      PROVE  clerk'[l].pc = "idle"
  BY <1>1, <1>2 DEF OneClerk
<1>3. QED
  BY <1>2 DEF ReadIsFresh

LEMMA ShippingFresh ==
    ASSUME FreshInv, OneClerk, NEW k \in Clerk, Shipping(k)
    PROVE  (\A l \in Clerk : ReadIsFresh(l)') /\ (Over => shipment' = shipment)
<1>1. CASE ReadCreate(k)
  BY <1>1, BeginFresh DEF ReadCreate, Reading
<1>2. ASSUME NEW s \in Tracked, ReadTrack(k, s)
      PROVE  (\A l \in Clerk : ReadIsFresh(l)') /\ (Over => shipment' = shipment)
  BY <1>2, BeginFresh DEF ReadTrack, Reading, Over
<1>3. CASE ReadLabel(k)
  BY <1>3, BeginFresh DEF ReadLabel, Reading
<1>4. CASE ReadCancel(k)
  BY <1>4, BeginFresh DEF ReadCancel, Reading, Over
<1>5. CASE CommitCreate(k)
  BY <1>5, FinishFresh DEF CommitCreate, Write, Reading, Over
<1>6. CASE CommitTrack(k) \/ CommitCancel(k)
  <2>1. ~Over
    BY <1>6 DEF CommitTrack, CommitCancel, FreshInv, ReadIsFresh
  <2>2. QED
    BY <1>6, <2>1, FinishFresh DEF CommitTrack, CommitCancel, Write
<1>7. CASE CommitLabel(k)
  <2>1. clerk[k].seen = shipment
    BY <1>7 DEF CommitLabel, FreshInv, ReadIsFresh
  <2>2. QED
    BY <1>7, <2>1, FinishFresh DEF CommitLabel, Write, Over
<1>8. CASE Abandon(k)
  BY <1>8, FinishFresh DEF Abandon, Reading
<1>9. QED
  BY <1>1, <1>2, <1>3, <1>4, <1>5, <1>6, <1>7, <1>8 DEF Shipping

LEMMA NextFresh ==
    ASSUME FreshInv, OneClerk, [Next]_vars
    PROVE  FreshInv' /\ (Over => shipment' = shipment)
<1>1. TypeOK'
  BY NextTyped DEF FreshInv
<1>2. CASE \E k \in Clerk : Shipping(k)
  BY <1>1, <1>2, ShippingFresh DEF FreshInv
<1>3. CASE UNCHANGED <<shipment, clerk>>
  BY <1>1, <1>3 DEF FreshInv, ReadIsFresh, Over
<1>4. QED
  BY <1>2, <1>3 DEF Next, vars

(***************************************************************************)
(* A shipment that was delivered or returned stays so while the shipping   *)
(* service answers one call at a time, whatever the payment service does   *)
(* meanwhile and whichever calls crash.  A second call at the same time    *)
(* breaks it: generateLabel writes back the status it read before the      *)
(* delivery.                                                               *)
(***************************************************************************)
THEOREM DeliveryIsFinalWithOneClerk == Spec /\ []OneClerk => DeliveryIsFinal
<1>1. Init => FreshInv
  BY InitTyped DEF Init, Free, FreshInv, ReadIsFresh
<1>2. FreshInv /\ OneClerk /\ [Next]_vars => FreshInv'
  BY NextFresh
<1>3. FreshInv /\ OneClerk /\ [Next]_vars
        => [(shipment \in {"DELIVERED", "RETURNED"}) => shipment' = shipment]_vars
  BY NextFresh DEF Over
<1>4. QED
  BY <1>1, <1>2, <1>3, PTL DEF Spec, DeliveryIsFinal
=============================================================================

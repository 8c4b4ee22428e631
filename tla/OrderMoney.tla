----------------------------- MODULE OrderMoney -----------------------------
(***************************************************************************)
(* What the payment and shipping services promise about one order, with no *)
(* word on how.  Goods leave once, and only after a charge or a record by  *)
(* hand.  The seller is paid once, and only after one of these or against  *)
(* an escrow that exists and is released.  An escrow is a record of the    *)
(* platform and no money that came in: Hold and Release ask for no charge, *)
(* as createEscrow and releaseEscrow do not.                               *)
(***************************************************************************)
CONSTANTS
    Payment,       \* identifiers of payments
    HasProfile     \* the seller has a profile, and so can be paid

VARIABLES
    charged,       \* the card payments that the provider charged
    vouched,       \* somebody recorded by hand that the order is past payment
    held,          \* the escrows opened
    released,      \* the escrows released to the seller
    shipped,       \* the goods have left
    paidOut        \* the seller's payout exists

money == <<charged, vouched, held, released, shipped, paidOut>>

Backed == charged # {} \/ vouched

Init ==
    /\ charged = {} /\ held = {} /\ released = {}
    /\ vouched = FALSE /\ shipped = FALSE /\ paidOut = FALSE

Charge(p) ==
    /\ charged' = charged \cup {p}
    /\ UNCHANGED <<vouched, held, released, shipped, paidOut>>

Vouch ==
    /\ vouched' = TRUE
    /\ UNCHANGED <<charged, held, released, shipped, paidOut>>

Hold(p) ==
    /\ held' = held \cup {p}
    /\ UNCHANGED <<charged, vouched, released, shipped, paidOut>>

\* A release pays the seller, and a seller is paid once.
Release(p) ==
    /\ p \in held
    /\ HasProfile => ~paidOut
    /\ released' = released \cup {p}
    /\ paidOut' = HasProfile
    /\ UNCHANGED <<charged, vouched, held, shipped>>

Ship ==
    /\ Backed /\ ~shipped
    /\ shipped' = TRUE
    /\ UNCHANGED <<charged, vouched, held, released, paidOut>>

PayOut ==
    /\ Backed \/ released # {}
    /\ HasProfile /\ ~paidOut
    /\ paidOut' = TRUE
    /\ UNCHANGED <<charged, vouched, held, released, shipped>>

Next ==
    \/ \E p \in Payment : Charge(p) \/ Hold(p) \/ Release(p)
    \/ Vouch \/ Ship \/ PayOut

Spec == Init /\ [][Next]_money
=============================================================================

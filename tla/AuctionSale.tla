---------------------------- MODULE AuctionSale ----------------------------
(***************************************************************************)
(* What the auction service promises about one auction, whatever happens   *)
(* to the bids: its status follows the state machine                       *)
(* (services/auction-service/src/auction/auction-state.machine.ts), the    *)
(* fate of its lots is decided once, and a sale makes exactly one order.   *)
(***************************************************************************)
CONSTANTS User          \* the people who may win

VARIABLES status,       \* of the auction
          lot,          \* status of its lots
          sales         \* the orders made for it, each with its buyer

sale == <<status, lot, sales>>

Init == status = "DRAFT" /\ lot = "pending" /\ sales = {}

Publish == status = "DRAFT" /\ status' = "PUBLISHED" /\ UNCHANGED <<lot, sales>>

Start == status = "PUBLISHED" /\ status' = "LIVE" /\ UNCHANGED <<lot, sales>>

\* The auction ends with a winner: the one order it will ever have.
Sell ==
    /\ status = "LIVE" /\ status' = "COMPLETED"
    /\ lot' = "sold"
    /\ sales = {} /\ \E s \in sales' : s.buyer \in User /\ sales' = {s}

\* The auction ends without one.
PassIn ==
    /\ status = "LIVE" /\ status' = "COMPLETED"
    /\ lot' = "unsold"
    /\ UNCHANGED sales

Cancel ==
    /\ status \in {"DRAFT", "PUBLISHED", "LIVE"} /\ status' = "CANCELLED"
    /\ lot' = "withdrawn"
    /\ UNCHANGED sales

Archive ==
    /\ status \in {"COMPLETED", "CANCELLED"} /\ status' = "ARCHIVED"
    /\ UNCHANGED <<lot, sales>>

Next == Publish \/ Start \/ Sell \/ PassIn \/ Cancel \/ Archive

Spec == Init /\ [][Next]_sale
=============================================================================

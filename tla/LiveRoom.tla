------------------------------ MODULE LiveRoom ------------------------------
(***************************************************************************)
(* The auctioneer's desk of a live auction                                 *)
(* (services/live-service/src/auctioneer/auctioneer.service.ts), next to   *)
(* the bid service of module Bidding: the desk opens, sells and passes the *)
(* lots, and takes phone bids into the same book.                          *)
(*                                                                         *)
(* The desk uses no transaction.  A call is a slot of Desk, one action is  *)
(* one query, and several desks may be open on one auction.  Bids belong   *)
(* to the auction, not to a lot.                                           *)
(***************************************************************************)
EXTENDS Bidding

CONSTANTS
    LotCount,            \* the lots of the auction, by lotNumber
    Desk,                \* calls of the desk in progress at the same time
    Admin,               \* the people for whom the desk takes phone bids
    PhoneOffer           \* the amounts of phone bids (bound)

ASSUME RoomAssumption ==
    /\ LotCount \in Nat
    /\ Admin \subseteq User
    /\ PhoneOffer \subseteq Nat \ {0}

VARIABLES
    lots,      \* the rows of auction_lots
    desk       \* the calls in progress

room == <<lots, desk>>
roomVars == <<vars, room>>

Lot == 1..LotCount
Nobody == "nobody"
LotRow == [status : {"pending", "active", "sold", "unsold"}, hammer : Nat,
           winner : User \cup {Nobody}]
DeskPC == {"idle", "next", "open", "sell", "pass", "phone", "phoneCreate", "phonePrice"}
AtEase == [pc |-> "idle", lot |-> 0, bid |-> 0, user |-> Creator, amount |-> 0]

RoomTypeOK ==
    /\ TypeOK
    /\ lots \in [Lot -> LotRow]
    /\ desk \in [Desk -> [pc : DeskPC, lot : 0..LotCount, bid : Nat, user : User, amount : Nat]]
---------------------------------------------------------------------------
Resting(d) == desk[d].pc = "idle"
Move(d, q) == desk' = [desk EXCEPT ![d] = q]
Rest(d) == Move(d, AtEase)
OnLot(pc, l) == [AtEase EXCEPT !.pc = pc, !.lot = l]

Book == <<auction, bids, now, req>>   \* what the bid service works on
---------------------------------------------------------------------------
(***************************************************************************)
(* openLot, and nextLot, which finds the lot to open.                      *)
(***************************************************************************)
ReadOpen(d, l) ==
    /\ Resting(d) /\ lots[l].status = "pending"
    /\ Move(d, OnLot("open", l))
    /\ UNCHANGED <<Book, lots>>

\* Any lot that is active may be the one found; 0 when there is none.
ReadCurrent(d) ==
    LET A == {l \in Lot : lots[l].status = "active"} IN
    /\ Resting(d)
    /\ \E c \in IF A = {} THEN {0} ELSE A : Move(d, OnLot("next", c))
    /\ UNCHANGED <<Book, lots>>

ReadNext(d) ==
    LET P == {l \in Lot : l > desk[d].lot /\ lots[l].status = "pending"} IN
    /\ desk[d].pc = "next"
    /\ \/ P = {} /\ Rest(d)
       \/ \E l \in P : (\A m \in P : l <= m) /\ Move(d, OnLot("open", l))
    /\ UNCHANGED <<Book, lots>>

CommitOpen(d) ==
    /\ desk[d].pc = "open"
    /\ lots' = [lots EXCEPT ![desk[d].lot].status = "active"]
    /\ Rest(d)
    /\ UNCHANGED Book
---------------------------------------------------------------------------
(***************************************************************************)
(* sold and passLot, of any lot in any status.                             *)
(***************************************************************************)
Winning == {i \in Active : bids[i].winning}

\* Without a winning bid the lot is passed.
ReadWinner(d, l) ==
    /\ Resting(d)
    /\ \E h \in FirstByAmount(Winning) :
         Move(d, [OnLot(IF h = 0 THEN "pass" ELSE "sell", l) EXCEPT !.bid = h])
    /\ UNCHANGED <<Book, lots>>

\* Mutant: the hammer price is the current price of the auction.
SoldAtCurrentPrice(i) ==
    [status |-> "sold", hammer |-> auction.currentPrice, winner |-> bids[i].user]

SoldTo(i) == [status |-> "sold", hammer |-> bids[i].amount, winner |-> bids[i].user]

CommitSold(d) ==
    LET q == desk[d] IN
    /\ q.pc = "sell"
    /\ lots' = [lots EXCEPT ![q.lot] = SoldTo(q.bid)]
    /\ Rest(d)
    /\ UNCHANGED Book

ReadPass(d, l) ==
    /\ Resting(d)
    /\ Move(d, OnLot("pass", l))
    /\ UNCHANGED <<Book, lots>>

\* Mutant: a status that no code knows.
PassedOver(row) == [row EXCEPT !.status = "passed"]

\* A hammer price and a winner from before stay.
Passed(row) == [row EXCEPT !.status = "unsold"]

CommitPass(d) ==
    /\ desk[d].pc = "pass"
    /\ lots' = [lots EXCEPT ![desk[d].lot] = Passed(@)]
    /\ Rest(d)
    /\ UNCHANGED Book
---------------------------------------------------------------------------
(***************************************************************************)
(* acceptPhoneBid: three writes, and neither the status of the auction nor *)
(* the amount is checked.                                                  *)
(***************************************************************************)
BeginPhone(d, u, a) ==
    /\ Resting(d) /\ Len(bids) < MaxBids
    /\ Move(d, [AtEase EXCEPT !.pc = "phone", !.user = u, !.amount = a])
    /\ UNCHANGED <<Book, lots>>

\* Mutant: the bids that are cleared are restored as well.
ClearedAndRestored(W) ==
    [i \in DOMAIN bids |-> IF i \in W THEN [bids[i] EXCEPT !.winning = FALSE, !.retracted = FALSE]
                                      ELSE bids[i]]

\* Retracted bids are cleared too.
ClearedByPhone(W) == ClearWinning(W)

\* Mutant: the price is set before the bid is created.
PriceFirst == "phonePrice"

AfterClearing == "phoneCreate"

ClearForPhone(d) ==
    LET W == {i \in DOMAIN bids : bids[i].winning} IN
    /\ desk[d].pc = "phone"
    /\ \A r \in Request : Locked(r) \cap W = {}
    /\ bids' = ClearedByPhone(W)
    /\ Move(d, [desk[d] EXCEPT !.pc = AfterClearing])
    /\ UNCHANGED <<auction, now, req, lots>>

\* Mutant: the insert counts the bid, and so does the update.
CountedTwice == [auction EXCEPT !.bidCount = @ + 1]

AuctionAtInsert == auction

CreatePhoneBid(d) ==
    LET q == desk[d] IN
    /\ q.pc = "phoneCreate"
    /\ bids' = Append(bids, NewBid(q.user, q.amount, "MANUAL", 0, FALSE, 0))
    /\ auction' = AuctionAtInsert
    /\ Move(d, [q EXCEPT !.pc = "phonePrice"])
    /\ UNCHANGED <<now, req, lots>>

SetPhonePrice(d) ==
    /\ desk[d].pc = "phonePrice"
    /\ auction' = [auction EXCEPT !.currentPrice = desk[d].amount, !.bidCount = @ + 1]
    /\ Rest(d)
    /\ UNCHANGED <<bids, now, req, lots>>

\* The process stops, or a query fails.
DeskBreaks(d) ==
    /\ Crashes /\ ~Resting(d)
    /\ Rest(d)
    /\ UNCHANGED <<Book, lots>>
---------------------------------------------------------------------------
RoomInit ==
    /\ Init
    /\ lots = [l \in Lot |-> [status |-> "pending", hammer |-> 0, winner |-> Nobody]]
    /\ desk = [d \in Desk |-> AtEase]

DeskCall(d) ==
    \/ ReadCurrent(d)
    \/ \E l \in Lot : ReadOpen(d, l) \/ ReadWinner(d, l) \/ ReadPass(d, l)
    \/ \E u \in Admin, a \in PhoneOffer : BeginPhone(d, u, a)

\* The steps that a call takes by itself.
DeskGoesOn(d) ==
    \/ ReadNext(d) \/ CommitOpen(d)
    \/ CommitSold(d) \/ CommitPass(d)
    \/ ClearForPhone(d) \/ CreatePhoneBid(d) \/ SetPhonePrice(d)

DeskStep(d) == DeskCall(d) \/ DeskGoesOn(d) \/ DeskBreaks(d)

RoomNext ==
    \/ Next /\ UNCHANGED room
    \/ \E d \in Desk : DeskStep(d)

RoomSpec == RoomInit /\ [][RoomNext]_roomVars
---------------------------------------------------------------------------
(***************************************************************************)
(* Properties.                                                             *)
(***************************************************************************)
\* A lot that is sold, or has been, has the price and the winner of one bid,
\* whatever bids and retractions came between the query that found that bid and
\* the update, and whatever the lot was before (sold).
HammerIsABid ==
    \A l \in Lot : lots[l].hammer # 0 \/ lots[l].status = "sold" =>
        \E i \in DOMAIN bids : bids[i].user = lots[l].winner /\ bids[i].amount = lots[l].hammer

\* A lot that is closed, sold or passed, is not opened again (openLot: "Lot is
\* already in 'sold' status").  Two desks break it: one has found the lot
\* pending, the other opens it and sells it, and the first opens it then.
ClosedLotStaysClosed ==
    [][\A l \in Lot : lots[l].status \in {"sold", "unsold"} =>
         lots'[l].status # "active"]_roomVars
=============================================================================

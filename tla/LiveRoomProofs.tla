--------------------------- MODULE LiveRoomProofs ---------------------------
(***************************************************************************)
(* The desk of LiveRoom writes to the same tables as the bid service, and  *)
(* outside any transaction.  For every number of desks, lots, calls and    *)
(* bids: the rows keep their types, no bid is rewritten, and a hammer      *)
(* price is always a bid's.  The steps of the bid service are those of     *)
(* module Bidding, so their lemmas are reused as they are.                 *)
(***************************************************************************)
EXTENDS LiveRoom, BiddingSafety

DeskRow == [pc : DeskPC, lot : 0..LotCount, bid : Nat, user : User, amount : Nat]

RoomTyped ==
    /\ lots \in [Lot -> LotRow]
    /\ desk \in [Desk -> DeskRow]

\* A call that will sell knows a lot and a bid that exists.
DeskKnows(q) ==
    /\ q.pc \in {"sell", "pass", "open"} => q.lot \in Lot
    /\ q.pc = "sell" => q.bid \in 1..Len(bids)

Hammered ==
    \A l \in Lot : lots[l].hammer # 0 \/ lots[l].status = "sold" =>
        \E i \in 1..Len(bids) : bids[i].user = lots[l].winner /\ bids[i].amount = lots[l].hammer

\* What the desk keeps by itself, beside the book.
RoomPart ==
    /\ RoomTyped
    /\ \A d \in Desk : DeskKnows(desk[d])
    /\ Hammered

RoomInv == IInv /\ RoomPart
---------------------------------------------------------------------------
(***************************************************************************)
(* The desk and the book.                                                  *)
(***************************************************************************)
LEMMA RowsOfRoom ==
    ASSUME RoomInv
    PROVE  TypeOK /\ Len(bids) \in Nat /\ DOMAIN bids = 1..Len(bids)
BY ActiveInDomain DEF RoomInv, IInv

\* Room steps that leave the bid service alone keep its invariant.
LEMMA BookUntouched ==
    ASSUME RoomInv, UNCHANGED Book
    PROVE  IInv' /\ RowsKept
<1>1. IInv'
  BY DEF RoomInv, IInv, TypeOK, RefsOK, RefOK, Book
<1>2. RowsKept
  BY RowsOfRoom, SameRowsKept DEF Book
<1>3. QED
  BY <1>1, <1>2

LEMMA DeskWrites ==
    ASSUME RoomInv, bids' \in Seq(Bid), RowsKept, auction' \in Auction, now' = now, req' = req
    PROVE  IInv'
<1>1. TypeOK'
  BY DEF RoomInv, IInv, TypeOK
<1>2. Len(bids) \in Nat /\ Len(bids') \in Nat /\ Len(bids) <= Len(bids')
  BY RowsOfRoom DEF RowsKept
<1>3. ASSUME NEW r \in Request
      PROVE  RefOK(req[r])'
  <2>1. req[r] \in Call /\ RefOK(req[r])
    BY DEF RoomInv, IInv, TypeOK, RefsOK
  <2>2. QED
    BY <1>2, <2>1 DEF RefOK, Call
<1>4. QED
  BY <1>1, <1>3 DEF IInv, RefsOK

LEMMA ClearForPhoneBook ==
    ASSUME RoomInv, NEW d \in Desk, ClearForPhone(d)
    PROVE  IInv' /\ RowsKept
<1>1. TypeOK /\ Len(bids) \in Nat
  BY RowsOfRoom
<1>2. bids' = ClearWinning({i \in DOMAIN bids : bids[i].winning})
  BY DEF ClearForPhone, ClearedByPhone
<1>3. bids' \in Seq(Bid) /\ Len(bids') = Len(bids)
  BY <1>1, <1>2, ClearWinningType
<1>4. RowsKept
  BY <1>1, <1>2, <1>3, ClearWinningKeeps DEF RowsKept
<1>5. auction' \in Auction /\ now' = now /\ req' = req
  BY <1>1 DEF ClearForPhone, TypeOK
<1>6. QED
  BY <1>3, <1>4, <1>5, DeskWrites

LEMMA CreatePhoneBidBook ==
    ASSUME RoomInv, NEW d \in Desk, CreatePhoneBid(d)
    PROVE  IInv' /\ RowsKept
<1> DEFINE b == NewBid(desk[d].user, desk[d].amount, "MANUAL", 0, FALSE, 0)
<1>1. TypeOK /\ Len(bids) \in Nat /\ bids \in Seq(Bid)
  BY RowsOfRoom DEF TypeOK
<1>2. b \in Bid
  <2>1. desk[d].user \in User /\ desk[d].amount \in Nat
    BY DEF RoomInv, RoomPart, RoomTyped, DeskRow
  <2>2. "MANUAL" \in BidType /\ FALSE \in BOOLEAN /\ 0 \in Nat
    BY DEF BidType
  <2>3. QED
    BY <1>1, <2>1, <2>2, NewBidType
<1>3. bids' = Append(bids, b)
  BY DEF CreatePhoneBid
<1> HIDE DEF b
<1>4. /\ bids' \in Seq(Bid) /\ Len(bids') = Len(bids) + 1
      /\ \A i \in 1..Len(bids) : bids'[i] = bids[i]
  BY <1>1, <1>2, <1>3, AppendProperties
<1>5. RowsKept
  <2>1. Len(bids) <= Len(bids')
    BY <1>1, <1>4
  <2>2. \A i \in 1..Len(bids) : Kept(bids[i], bids'[i])
    BY <1>4, KeptSame
  <2>3. QED
    BY <2>1, <2>2 DEF RowsKept
<1>6. auction' \in Auction /\ now' = now /\ req' = req
  BY <1>1 DEF CreatePhoneBid, AuctionAtInsert, TypeOK
<1>7. QED
  BY <1>4, <1>5, <1>6, DeskWrites

LEMMA SetPhonePriceBook ==
    ASSUME RoomInv, NEW d \in Desk, SetPhonePrice(d)
    PROVE  IInv' /\ RowsKept
<1>1. TypeOK /\ auction \in Auction /\ desk[d].amount \in Nat
  BY RowsOfRoom DEF TypeOK, RoomInv, RoomPart, RoomTyped, DeskRow
<1>2. auction' \in Auction
  <2>1. auction.bidCount + 1 \in Int
    BY <1>1, AuctionTypes
  <2>2. auction' = [auction EXCEPT !.currentPrice = desk[d].amount,
                                   !.bidCount = auction.bidCount + 1]
    BY DEF SetPhonePrice
  <2>3. QED
    BY <1>1, <2>1, <2>2, AuctionFields
<1>3. RowsKept
  BY <1>1, SameRowsKept DEF SetPhonePrice
<1>4. bids' \in Seq(Bid) /\ now' = now /\ req' = req
  BY <1>1 DEF SetPhonePrice, TypeOK
<1>5. QED
  BY <1>2, <1>3, <1>4, DeskWrites

LEMMA NextBook ==
    ASSUME RoomInv, [RoomNext]_roomVars
    PROVE  IInv' /\ RowsKept
<1>1. CASE [Next]_vars
  BY <1>1, NextIInv, StepKeepsRows DEF RoomInv
<1>2. ASSUME NEW d \in Desk, DeskStep(d)
      PROVE  IInv' /\ RowsKept
  <2>1. CASE ClearForPhone(d) \/ CreatePhoneBid(d) \/ SetPhonePrice(d)
    BY <2>1, ClearForPhoneBook, CreatePhoneBidBook, SetPhonePriceBook
  <2>2. CASE ~(ClearForPhone(d) \/ CreatePhoneBid(d) \/ SetPhonePrice(d))
    <3>1. UNCHANGED Book
      BY <1>2, <2>2 DEF DeskStep, DeskCall, DeskGoesOn, DeskBreaks, ReadOpen, ReadCurrent,
         ReadNext, CommitOpen, ReadWinner, CommitSold, ReadPass, CommitPass, BeginPhone
    <3>2. QED
      BY <3>1, BookUntouched
  <2>3. QED
    BY <2>1, <2>2
<1>3. QED
  BY <1>1, <1>2 DEF RoomNext, roomVars
---------------------------------------------------------------------------
(***************************************************************************)
(* The lots and the desk's calls.                                          *)
(***************************************************************************)
LEMMA OnLotTyped ==
    ASSUME NEW pc \in DeskPC, NEW l \in 0..LotCount
    PROVE  /\ OnLot(pc, l) \in DeskRow /\ OnLot(pc, l).pc = pc /\ OnLot(pc, l).lot = l
           /\ AtEase \in DeskRow /\ AtEase.pc = "idle"
<1>1. AtEase \in DeskRow /\ AtEase.pc = "idle"
  BY BiddingAssumption, RoomAssumption DEF AtEase, DeskRow, DeskPC
<1>2. QED
  BY <1>1 DEF OnLot, DeskRow

\* A call that goes on knows what it needs.
LEMMA MoveKeeps ==
    ASSUME RoomInv, RowsKept, NEW d \in Desk, NEW q \in DeskRow, Move(d, q),
           q.pc \in {"sell", "pass", "open"} => q.lot \in Lot,
           q.pc = "sell" => q.bid \in 1..Len(bids)
    PROVE  desk' \in [Desk -> DeskRow] /\ \A e \in Desk : DeskKnows(desk[e])'
<1>1. desk \in [Desk -> DeskRow]
  BY DEF RoomInv, RoomPart, RoomTyped
<1>2. desk'[d] = q /\ \A e \in Desk : e # d => desk'[e] = desk[e]
  BY <1>1 DEF Move
<1>3. 1..Len(bids) \subseteq 1..Len(bids')
  BY RowsOfRoom DEF RowsKept, RoomInv
<1>4. ASSUME NEW e \in Desk
      PROVE  DeskKnows(desk[e])'
  BY <1>2, <1>3 DEF RoomInv, RoomPart, DeskKnows
<1>5. QED
  BY <1>1, <1>4 DEF Move

LEMMA DeskAtRest ==
    ASSUME RoomInv, RowsKept, desk' = desk
    PROVE  \A e \in Desk : DeskKnows(desk[e])'
<1>1. Len(bids) \in Nat /\ Len(bids) <= Len(bids')
  BY RowsOfRoom DEF RowsKept
<1>2. 1..Len(bids) \subseteq 1..Len(bids')
  BY <1>1 DEF RowsKept, TypeOK
<1>3. QED
  BY <1>2 DEF RoomInv, RoomPart, DeskKnows

\* The sale that row r records is also in s, and no sale is made up.
SaleKept(r, s) == /\ s.hammer = r.hammer /\ s.winner = r.winner
                  /\ s.status = "sold" => r.status = "sold"

\* The amounts and the bidders of the book do not change.
LEMMA HammeredKept ==
    ASSUME RoomInv, RowsKept, NEW L \in SUBSET Lot,
           \A l \in Lot \ L : SaleKept(lots[l], lots'[l]),
           \A l \in L : \E i \in 1..Len(bids) :
               lots'[l].hammer = bids[i].amount /\ lots'[l].winner = bids[i].user
    PROVE  Hammered'
<1>1. \A i \in 1..Len(bids) : /\ i \in 1..Len(bids')
                              /\ bids'[i].user = bids[i].user
                              /\ bids'[i].amount = bids[i].amount
  BY RowsOfRoom DEF RowsKept, Kept
<1>2. ASSUME NEW l \in Lot, lots'[l].hammer # 0 \/ lots'[l].status = "sold"
      PROVE  \E i \in 1..Len(bids) :
                 bids[i].user = lots'[l].winner /\ bids[i].amount = lots'[l].hammer
  <2>1. CASE l \in L
    BY <2>1
  <2>2. CASE l \notin L
    BY <1>2, <2>2 DEF RoomInv, RoomPart, Hammered, SaleKept
  <2>3. QED
    BY <2>1, <2>2
<1>3. QED
  BY <1>1, <1>2 DEF Hammered

LEMMA SameLots ==
    ASSUME RoomInv, RowsKept, lots' = lots
    PROVE  lots' \in [Lot -> LotRow] /\ Hammered'
<1> DEFINE L == {}
<1>1. L \in SUBSET Lot
  OBVIOUS
<1>2. \A l \in Lot \ L : SaleKept(lots[l], lots'[l])
  BY DEF SaleKept
<1>3. \A l \in L : \E i \in 1..Len(bids) :
         lots'[l].hammer = bids[i].amount /\ lots'[l].winner = bids[i].user
  OBVIOUS
<1>4. Hammered'
  <2> HIDE DEF L
  <2> QED
    BY <1>1, <1>2, <1>3, HammeredKept
<1>5. QED
  BY <1>4 DEF RoomInv, RoomPart, RoomTyped

\* One lot gets a new status, and keeps its hammer price and its winner.
LEMMA StatusMoves ==
    ASSUME RoomInv, RowsKept, NEW k \in Lot, NEW s \in {"active", "unsold"},
           lots' = [lots EXCEPT ![k] = [lots[k] EXCEPT !.status = s]]
    PROVE  lots' \in [Lot -> LotRow] /\ Hammered'
<1> DEFINE L == {}
<1>1. lots \in [Lot -> LotRow]
  BY DEF RoomInv, RoomPart, RoomTyped
<1>2. lots' \in [Lot -> LotRow]
  BY <1>1 DEF LotRow
<1>3. \A l \in Lot : SaleKept(lots[l], lots'[l])
  BY <1>1 DEF LotRow, SaleKept
<1>4. /\ L \in SUBSET Lot
      /\ \A l \in Lot \ L : SaleKept(lots[l], lots'[l])
      /\ \A l \in L : \E i \in 1..Len(bids) :
            lots'[l].hammer = bids[i].amount /\ lots'[l].winner = bids[i].user
  BY <1>3
<1>5. Hammered'
  <2> HIDE DEF L
  <2> QED
    BY <1>4, HammeredKept
<1>6. QED
  BY <1>2, <1>5

LEMMA LotSold ==
    ASSUME RoomInv, RowsKept, NEW k \in Lot, NEW h \in 1..Len(bids),
           lots' = [lots EXCEPT ![k] = SoldTo(h)]
    PROVE  lots' \in [Lot -> LotRow] /\ Hammered'
<1>1. lots \in [Lot -> LotRow] /\ bids[h] \in Bid
  BY RowsOfRoom DEF RoomInv, RoomPart, RoomTyped, TypeOK
<1>2. bids[h].user \in User /\ bids[h].amount \in Nat
  BY <1>1 DEF Bid
<1>3. lots' \in [Lot -> LotRow]
  BY <1>1, <1>2 DEF LotRow, SoldTo
<1>4. lots'[k].hammer = bids[h].amount /\ lots'[k].winner = bids[h].user
  BY <1>1 DEF SoldTo
<1>5. /\ {k} \in SUBSET Lot
      /\ \A l \in Lot \ {k} : SaleKept(lots[l], lots'[l])
      /\ \A l \in {k} : \E i \in 1..Len(bids) :
            lots'[l].hammer = bids[i].amount /\ lots'[l].winner = bids[i].user
  BY <1>1, <1>4 DEF SaleKept
<1>6. QED
  BY <1>3, <1>5, HammeredKept
---------------------------------------------------------------------------
(***************************************************************************)
(* The steps of the desk.                                                  *)
(***************************************************************************)
\* A call that only moves on leaves the lots as they are.
LEMMA OnlyMoves ==
    ASSUME RoomInv, RowsKept, NEW d \in Desk, NEW q \in DeskRow, Move(d, q), lots' = lots,
           q.pc \in {"sell", "pass", "open"} => q.lot \in Lot,
           q.pc = "sell" => q.bid \in 1..Len(bids)
    PROVE  RoomPart'
BY MoveKeeps, SameLots DEF RoomPart, RoomTyped

\* A call that ends does so with the lots in order.
LEMMA RestKeeps ==
    ASSUME RoomInv, RowsKept, NEW d \in Desk, Rest(d), lots' \in [Lot -> LotRow], Hammered'
    PROVE  RoomPart'
<1>1. AtEase \in DeskRow /\ AtEase.pc = "idle"
  BY BiddingAssumption, RoomAssumption DEF AtEase, DeskRow, DeskPC
<1>2. QED
  BY <1>1, MoveKeeps DEF Rest, RoomPart, RoomTyped

LEMMA DeskCallKeeps ==
    ASSUME RoomInv, RowsKept, NEW d \in Desk, DeskCall(d)
    PROVE  RoomPart'
<1>1. LotCount \in Nat /\ Lot \subseteq 0..LotCount
  BY RoomAssumption DEF Lot
<1>2. CASE ReadCurrent(d)
  <2>1. PICK k \in 0..LotCount : Move(d, OnLot("next", k))
    BY <1>1, <1>2 DEF ReadCurrent
  <2>2. OnLot("next", k) \in DeskRow /\ OnLot("next", k).pc = "next"
    BY OnLotTyped DEF DeskPC
  <2>3. QED
    BY <1>2, <2>1, <2>2, OnlyMoves DEF ReadCurrent
<1>3. ASSUME NEW l \in Lot, ReadOpen(d, l)
      PROVE  RoomPart'
  <2>1. OnLot("open", l) \in DeskRow /\ OnLot("open", l).pc = "open" /\ OnLot("open", l).lot = l
    BY <1>1, OnLotTyped DEF DeskPC
  <2>2. QED
    BY <1>3, <2>1, OnlyMoves DEF ReadOpen
<1>4. ASSUME NEW l \in Lot, ReadWinner(d, l)
      PROVE  RoomPart'
  <2> DEFINE q(h) == [OnLot(IF h = 0 THEN "pass" ELSE "sell", l) EXCEPT !.bid = h]
  <2>1. PICK h \in FirstByAmount(Winning) : Move(d, q(h))
    BY <1>4 DEF ReadWinner
  <2>2. Winning \subseteq 1..Len(bids) /\ Len(bids) \in Nat
    BY RowsOfRoom, ActiveInDomain DEF Winning
  <2>3. h \in {0} \cup 1..Len(bids)
    BY <2>2, FirstByAmountIn
  <2>4. q(h) \in DeskRow /\ q(h).lot = l /\ (q(h).pc = "sell" => h # 0) /\ q(h).bid = h
    <3>1. CASE h = 0
      BY <1>1, <2>2, <2>3, <3>1, OnLotTyped DEF DeskPC, DeskRow
    <3>2. CASE h # 0
      BY <1>1, <2>2, <2>3, <3>2, OnLotTyped DEF DeskPC, DeskRow
    <3>3. QED
      BY <3>1, <3>2
  <2>5. lots' = lots
    BY <1>4 DEF ReadWinner
  <2>6. QED
    <3> HIDE DEF q
    <3> QED
      BY <2>1, <2>3, <2>4, <2>5, OnlyMoves
<1>5. ASSUME NEW l \in Lot, ReadPass(d, l)
      PROVE  RoomPart'
  <2>1. OnLot("pass", l) \in DeskRow /\ OnLot("pass", l).pc = "pass" /\ OnLot("pass", l).lot = l
    BY <1>1, OnLotTyped DEF DeskPC
  <2>2. QED
    BY <1>5, <2>1, OnlyMoves DEF ReadPass
<1>6. ASSUME NEW u \in Admin, NEW a \in PhoneOffer, BeginPhone(d, u, a)
      PROVE  RoomPart'
  <2> DEFINE q == [AtEase EXCEPT !.pc = "phone", !.user = u, !.amount = a]
  <2>1. u \in User /\ a \in Nat
    BY RoomAssumption
  <2>2. q \in DeskRow /\ q.pc = "phone"
    <3>1. AtEase \in DeskRow
      BY BiddingAssumption, RoomAssumption DEF AtEase, DeskRow, DeskPC
    <3>2. QED
      BY <2>1, <3>1 DEF DeskRow, DeskPC
  <2>3. Move(d, q) /\ lots' = lots
    BY <1>6 DEF BeginPhone
  <2>4. QED
    <3> HIDE DEF q
    <3> QED
      BY <2>2, <2>3, OnlyMoves
<1>7. QED
  BY <1>2, <1>3, <1>4, <1>5, <1>6 DEF DeskCall

LEMMA DeskGoesOnKeeps ==
    ASSUME RoomInv, RowsKept, NEW d \in Desk, DeskGoesOn(d) \/ DeskBreaks(d)
    PROVE  RoomPart'
<1>0. /\ desk[d] \in DeskRow /\ DeskKnows(desk[d])
      /\ lots' = lots => lots' \in [Lot -> LotRow] /\ Hammered'
  BY SameLots DEF RoomInv, RoomPart, RoomTyped
<1>1. CASE ReadNext(d)
  <2>1. CASE Rest(d)
    BY <1>0, <1>1, <2>1, RestKeeps DEF ReadNext
  <2>2. CASE \E l \in Lot : Move(d, OnLot("open", l))
    <3>1. PICK l \in Lot : Move(d, OnLot("open", l))
      BY <2>2
    <3>2. /\ OnLot("open", l) \in DeskRow /\ OnLot("open", l).pc = "open"
          /\ OnLot("open", l).lot = l
      BY RoomAssumption, OnLotTyped DEF DeskPC, Lot
    <3>3. QED
      BY <1>1, <3>1, <3>2, OnlyMoves DEF ReadNext
  <2>3. QED
    BY <1>1, <2>1, <2>2 DEF ReadNext
<1>2. CASE CommitOpen(d)
  <2>1. desk[d].lot \in Lot /\ lots \in [Lot -> LotRow]
    BY <1>0, <1>2 DEF CommitOpen, DeskKnows, RoomInv, RoomPart, RoomTyped
  <2>2. lots' = [lots EXCEPT ![desk[d].lot] = [lots[desk[d].lot] EXCEPT !.status = "active"]]
    BY <1>2, <2>1 DEF CommitOpen
  <2>3. QED
    BY <1>2, <2>1, <2>2, StatusMoves, RestKeeps DEF CommitOpen
<1>3. CASE CommitSold(d)
  <2>1. desk[d].lot \in Lot /\ desk[d].bid \in 1..Len(bids)
    BY <1>0, <1>3 DEF CommitSold, DeskKnows
  <2>2. lots' = [lots EXCEPT ![desk[d].lot] = SoldTo(desk[d].bid)]
    BY <1>3 DEF CommitSold
  <2>3. QED
    BY <1>3, <2>1, <2>2, LotSold, RestKeeps DEF CommitSold
<1>4. CASE CommitPass(d)
  <2>1. desk[d].lot \in Lot
    BY <1>0, <1>4 DEF CommitPass, DeskKnows
  <2>2. lots' = [lots EXCEPT ![desk[d].lot] = [lots[desk[d].lot] EXCEPT !.status = "unsold"]]
    BY <1>4, <2>1 DEF CommitPass, Passed
  <2>3. QED
    BY <1>4, <2>1, <2>2, StatusMoves, RestKeeps DEF CommitPass
<1>5. ASSUME NEW pc \in {"phoneCreate", "phonePrice"},
             Move(d, [desk[d] EXCEPT !.pc = pc]), lots' = lots
      PROVE  RoomPart'
  <2> DEFINE q == [desk[d] EXCEPT !.pc = pc]
  <2>1. q \in DeskRow /\ q.pc = pc
    BY <1>0 DEF DeskRow, DeskPC
  <2>2. Move(d, q)
    BY <1>5
  <2>3. QED
    <3> HIDE DEF q
    <3> QED
      BY <1>5, <2>1, <2>2, OnlyMoves
<1>6. CASE ClearForPhone(d)
  BY <1>5, <1>6 DEF ClearForPhone, AfterClearing
<1>7. CASE CreatePhoneBid(d)
  BY <1>5, <1>7 DEF CreatePhoneBid
<1>8. CASE SetPhonePrice(d) \/ DeskBreaks(d)
  BY <1>0, <1>8, RestKeeps DEF SetPhonePrice, DeskBreaks
<1>9. QED
  BY <1>1, <1>2, <1>3, <1>4, <1>6, <1>7, <1>8 DEF DeskGoesOn

LEMMA InitRoom == RoomInit => RoomInv
<1> SUFFICES ASSUME RoomInit
             PROVE  RoomInv
  OBVIOUS
<1>1. IInv
  BY InitIInv DEF RoomInit
<1>2. AtEase \in DeskRow /\ AtEase.pc = "idle"
  BY BiddingAssumption, RoomAssumption DEF AtEase, DeskRow, DeskPC
<1>3. RoomTyped
  BY <1>2 DEF RoomInit, RoomTyped, LotRow
<1>4. (\A d \in Desk : DeskKnows(desk[d])) /\ Hammered
  BY <1>2 DEF RoomInit, DeskKnows, Hammered
<1>5. QED
  BY <1>1, <1>3, <1>4 DEF RoomInv, RoomPart

LEMMA NextRoom == RoomInv /\ [RoomNext]_roomVars => RoomInv' /\ RowsKept
<1> SUFFICES ASSUME RoomInv, [RoomNext]_roomVars
             PROVE  RoomInv' /\ RowsKept
  OBVIOUS
<1>1. IInv' /\ RowsKept
  BY NextBook
<1>2. CASE UNCHANGED room
  BY <1>1, <1>2, SameLots, DeskAtRest DEF room, RoomInv, RoomPart, RoomTyped
<1>3. ASSUME NEW d \in Desk, DeskStep(d)
      PROVE  RoomPart'
  BY <1>1, <1>3, DeskCallKeeps, DeskGoesOnKeeps DEF DeskStep
<1>4. QED
  BY <1>1, <1>2, <1>3 DEF RoomNext, roomVars, room, RoomInv
---------------------------------------------------------------------------
(***************************************************************************)
(* The bid service next to a second writer: what its calls remember stays  *)
(* true while a desk clears, appends and prices (SInv of BiddingSafety).   *)
(***************************************************************************)
\* What a step of the desk may change in the book.
DeskChange ==
    /\ OutsideWrite
    /\ auction'.actualEnd = auction.actualEnd
    /\ auction'.reserveMet = auction.reserveMet
    /\ \/ auction'.currentPrice = auction.currentPrice
       \/ \E i \in 1..Len(bids) : auction'.currentPrice = bids[i].amount

\* The price that acceptPhoneBid is about to write is that of its bid.
DeskPriced(q) == q.pc = "phonePrice" => \E i \in 1..Len(bids) : q.amount = bids[i].amount

RoomSafe == SInv /\ \A d \in Desk : DeskPriced(desk[d])

LEMMA DeskKeepsCalls ==
    ASSUME IInv, IInv', SInv, DeskChange, NEW p \in Request
    PROVE  CallSound(req[p])'
<1> DEFINE q == req[p]
<1>1. /\ Len(bids) \in Nat /\ Len(bids') \in Nat /\ Len(bids) <= Len(bids')
      /\ \A i \in 1..Len(bids) : i \in 1..Len(bids') /\ Kept(bids[i], bids'[i])
      /\ req' = req
  BY RowsAround DEF DeskChange, OutsideWrite
<1>2. ReserveSeen(q) /\ EndSeen(q)
  BY DEF SInv, CallSound
<1>3. BookCall(q)'
  BY BookPart, OutsideKeepsCalls DEF DeskChange
<1>4. ReserveSeen(q)'
  BY <1>1, <1>2 DEF ReserveSeen, ReserveReached, Kept
<1>5. EndSeen(q)'
  <2> SUFFICES ASSUME q.pc \in {"validate", "commit"} PROVE Extended(q.end, Len(bids'))
    BY <1>1 DEF EndSeen, Extended
  <2>1. Extended(q.end, Len(bids))
    BY <1>2 DEF EndSeen
  <2>2. QED
    BY <1>1, <2>1, ExtendedMore
<1>6. QED
  BY <1>3, <1>4, <1>5 DEF CallSound, BookCall

\* The price, the end date and the reserve flag are the bid service's still.
LEMMA DeskKeepsRow ==
    ASSUME IInv, IInv', SInv, DeskChange
    PROVE  ReserveMetIsTrue' /\ PriceIsABid' /\ ExtensionsArePaidFor'
<1>1. /\ Len(bids) \in Nat /\ Len(bids') \in Nat /\ Len(bids) <= Len(bids')
      /\ DOMAIN bids = 1..Len(bids) /\ DOMAIN bids' = 1..Len(bids')
      /\ \A i \in 1..Len(bids) : i \in 1..Len(bids') /\ Kept(bids[i], bids'[i])
  BY RowsAround DEF DeskChange, OutsideWrite
<1>2. ReserveMetIsTrue'
  BY <1>1 DEF DeskChange, SInv, ReserveMetIsTrue, Kept
<1>3. PriceIsABid'
  BY <1>1 DEF DeskChange, SInv, PriceIsABid, Kept
<1>4. ExtensionsArePaidFor'
  <2> SUFFICES ASSUME auction'.actualEnd # 0
               PROVE  \E k \in 1..Len(bids') :
                        auction'.actualEnd = EndDate + k * AntiSnipeExtension
    BY DEF ExtensionsArePaidFor
  <2>1. PICK k \in 1..Len(bids) : auction.actualEnd = EndDate + k * AntiSnipeExtension
    BY DEF DeskChange, SInv, ExtensionsArePaidFor
  <2>2. QED
    BY <1>1, <2>1 DEF DeskChange
<1>5. QED
  BY <1>2, <1>3, <1>4

LEMMA DeskKeepsSafe ==
    ASSUME IInv, IInv', SInv, DeskChange
    PROVE  SInv'
<1>1. (\A p \in Request : CallSound(req[p]))'
  BY DeskKeepsCalls
<1>2. BookInv'
  BY BookPart, OutsideKeepsBook DEF DeskChange
<1>3. QED
  BY <1>1, <1>2, DeskKeepsRow DEF SInv, BookInv

\* Each step of the desk changes no more than that.
LEMMA DeskChanges ==
    ASSUME RoomInv, RoomSafe, IInv', RowsKept, NEW d \in Desk, DeskStep(d)
    PROVE  DeskChange
<1>1. TypeOK /\ auction \in Auction /\ bids \in Seq(Bid) /\ Len(bids) \in Nat
  BY RowsOfRoom DEF TypeOK
<1>2. ASSUME Len(bids') = Len(bids) PROVE OutsideRows
  BY <1>1, <1>2 DEF OutsideRows
<1>3. CASE ClearForPhone(d)
  <2>1. Len(bids') = Len(bids)
    BY <1>1, <1>3, ClearWinningType DEF ClearForPhone, ClearedByPhone
  <2>2. QED
    BY <1>2, <1>3, <2>1 DEF ClearForPhone, DeskChange, OutsideWrite
<1>4. CASE CreatePhoneBid(d)
  <2> DEFINE b == NewBid(desk[d].user, desk[d].amount, "MANUAL", 0, FALSE, 0)
  <2>1. ~b.auto /\ b.seen = 0
    BY DEF NewBid
  <2>2. bids' = Append(bids, b)
    BY <1>4 DEF CreatePhoneBid
  <2> HIDE DEF b
  <2>3. Len(bids') = Len(bids) + 1 /\ bids'[Len(bids) + 1] = b
    BY <1>1, <2>2
  <2>4. OutsideRows
    BY <1>1, <2>1, <2>3 DEF OutsideRows
  <2>5. QED
    BY <1>4, <2>4 DEF CreatePhoneBid, AuctionAtInsert, DeskChange, OutsideWrite
<1>5. CASE SetPhonePrice(d)
  <2>1. /\ auction'.currentPrice = desk[d].amount
        /\ auction'.actualEnd = auction.actualEnd
        /\ auction'.reserveMet = auction.reserveMet
    BY <1>1, <1>5 DEF SetPhonePrice, Auction
  <2>2. \E i \in 1..Len(bids) : auction'.currentPrice = bids[i].amount
    BY <1>5, <2>1 DEF SetPhonePrice, RoomSafe, DeskPriced
  <2>3. req' = req /\ OutsideRows
    BY <1>2, <1>5 DEF SetPhonePrice
  <2>4. QED
    BY <2>1, <2>2, <2>3 DEF DeskChange, OutsideWrite
<1>6. CASE ~(ClearForPhone(d) \/ CreatePhoneBid(d) \/ SetPhonePrice(d))
  <2>1. UNCHANGED Book
    BY <1>6 DEF DeskStep, DeskCall, DeskGoesOn, DeskBreaks, ReadOpen, ReadCurrent,
       ReadNext, CommitOpen, ReadWinner, CommitSold, ReadPass, CommitPass, BeginPhone
  <2>2. QED
    BY <1>2, <2>1 DEF Book, DeskChange, OutsideWrite
<1>7. QED
  BY <1>3, <1>4, <1>5, <1>6

\* A call of the desk moves only itself.
LEMMA MovesOne ==
    ASSUME RoomInv, NEW d \in Desk, DeskStep(d), NEW e \in Desk, e # d
    PROVE  desk'[e] = desk[e]
<1>1. desk \in [Desk -> DeskRow]
  BY DEF RoomInv, RoomPart, RoomTyped
<1>2. \E q : Move(d, q)
  BY DEF DeskStep, DeskCall, DeskGoesOn, DeskBreaks, ReadOpen, ReadCurrent,
     ReadNext, CommitOpen, ReadWinner, CommitSold, ReadPass, CommitPass, BeginPhone,
     ClearForPhone, CreatePhoneBid, SetPhonePrice, Rest
<1>3. QED
  BY <1>1, <1>2 DEF Move

LEMMA OwnDesk ==
    ASSUME RoomInv, [RoomNext]_roomVars, NEW e \in Desk, desk'[e] # desk[e]
    PROVE  DeskStep(e)
<1>1. PICK d \in Desk : DeskStep(d)
  BY DEF RoomNext, roomVars, room
<1>2. QED
  BY <1>1, MovesOne

\* Only CreatePhoneBid leaves a call with a price to write.
LEMMA OnlyThisPrices ==
    ASSUME RoomInv, [RoomNext]_roomVars, NEW e \in Desk, desk'[e] # desk[e], ~CreatePhoneBid(e)
    PROVE  desk'[e].pc # "phonePrice"
<1>1. /\ DeskStep(e) /\ desk \in [Desk -> DeskRow]
      /\ AtEase \in DeskRow /\ AtEase.pc = "idle"
  BY OwnDesk, BiddingAssumption, RoomAssumption
  DEF RoomInv, RoomPart, RoomTyped, AtEase, DeskRow, DeskPC
<1>2. CASE DeskGoesOn(e) \/ DeskBreaks(e)
  BY <1>1, <1>2 DEF DeskGoesOn, DeskBreaks, ReadNext, CommitOpen, CommitSold,
     CommitPass, ClearForPhone, AfterClearing, SetPhonePrice, Rest, Move, OnLot, DeskRow
<1>3. CASE DeskCall(e)
  BY <1>1, <1>3 DEF DeskCall, ReadOpen, ReadCurrent, ReadWinner, ReadPass, BeginPhone,
     Move, OnLot, DeskRow
<1>4. QED
  BY <1>1, <1>2, <1>3 DEF DeskStep

LEMMA DeskPricedStep ==
    ASSUME RoomInv, RoomSafe, IInv', RowsKept, [RoomNext]_roomVars, NEW e \in Desk
    PROVE  DeskPriced(desk[e])'
<1>1. /\ Len(bids) \in Nat /\ desk \in [Desk -> DeskRow] /\ bids \in Seq(Bid)
      /\ AtEase \in DeskRow /\ AtEase.pc = "idle"
      /\ \A i \in 1..Len(bids) : i \in 1..Len(bids') /\ Kept(bids[i], bids'[i])
  BY RowsOfRoom, RowsAround, BiddingAssumption, RoomAssumption
  DEF RoomInv, RoomPart, RoomTyped, TypeOK, AtEase, DeskRow, DeskPC
<1>2. CASE desk'[e] = desk[e]
  BY <1>1, <1>2 DEF RoomSafe, DeskPriced, Kept
<1>3. CASE desk'[e] # desk[e]
  <2>1. DeskStep(e)
    BY <1>3, OwnDesk
  <2>2. CASE CreatePhoneBid(e)
    <3> DEFINE b == NewBid(desk[e].user, desk[e].amount, "MANUAL", 0, FALSE, 0)
    <3>1. b.amount = desk[e].amount
      BY DEF NewBid
    <3>2. bids' = Append(bids, b) /\ desk'[e].amount = desk[e].amount
      BY <1>1, <2>2 DEF CreatePhoneBid, Move, DeskRow
    <3> HIDE DEF b
    <3>3. Len(bids') = Len(bids) + 1 /\ bids'[Len(bids) + 1] = b
      BY <1>1, <3>2
    <3>4. Len(bids) + 1 \in 1..Len(bids')
      BY <1>1, <3>3
    <3>5. QED
      BY <3>1, <3>2, <3>3, <3>4 DEF DeskPriced
  <2>3. CASE ~CreatePhoneBid(e)
    <3>1. desk'[e].pc # "phonePrice"
      BY <1>3, <2>3, OnlyThisPrices
    <3>2. QED
      BY <3>1 DEF DeskPriced
  <2>4. QED
    BY <2>2, <2>3
<1>4. QED
  BY <1>2, <1>3

LEMMA InitSafeRoom == RoomInit => RoomSafe
<1> SUFFICES ASSUME RoomInit PROVE RoomSafe
  OBVIOUS
<1>1. SInv
  BY InitSInv DEF RoomInit
<1>2. \A d \in Desk : desk[d].pc = "idle"
  BY DEF RoomInit, AtEase
<1>3. QED
  BY <1>1, <1>2 DEF RoomSafe, DeskPriced

LEMMA NextSafeRoom == RoomInv /\ RoomSafe /\ [RoomNext]_roomVars => RoomSafe'
<1> SUFFICES ASSUME RoomInv, RoomSafe, [RoomNext]_roomVars PROVE RoomSafe'
  OBVIOUS
<1>1. IInv /\ IInv' /\ RowsKept /\ SInv
  BY NextBook DEF RoomInv, RoomSafe
<1>2. SInv'
  <2>1. CASE [Next]_vars
    BY <1>1, <2>1, NextSInv
  <2>2. ASSUME NEW d \in Desk, DeskStep(d) PROVE SInv'
    BY <1>1, <2>2, DeskChanges, DeskKeepsSafe
  <2>3. QED
    BY <2>1, <2>2 DEF RoomNext, roomVars
<1>3. (\A e \in Desk : DeskPriced(desk[e]))'
  BY <1>1, DeskPricedStep
<1>4. QED
  BY <1>2, <1>3 DEF RoomSafe
---------------------------------------------------------------------------
(***************************************************************************)
(* One desk at a time: the lot that a call is about to open has stayed     *)
(* pending since the call found it.                                        *)
(***************************************************************************)
OneDesk == \A d, e \in Desk : ~Resting(d) /\ ~Resting(e) => d = e

OpenKnows == \A d \in Desk : desk[d].pc = "open" => lots[desk[d].lot].status = "pending"

\* The lots change only in the updates of a call that found its lot before.
LEMMA OnlyCommits ==
    ASSUME [RoomNext]_roomVars,
           \A d \in Desk : ~(CommitOpen(d) \/ CommitPass(d) \/ CommitSold(d))
    PROVE  lots' = lots
BY DEF RoomNext, roomVars, room, DeskStep, DeskCall, DeskGoesOn, DeskBreaks, ReadOpen,
   ReadCurrent, ReadNext, ReadWinner, ReadPass, BeginPhone, ClearForPhone, CreatePhoneBid,
   SetPhonePrice

LEMMA OpenStaysKnown ==
    ASSUME RoomInv, OneDesk, OpenKnows, [RoomNext]_roomVars
    PROVE  OpenKnows'
<1>1. desk \in [Desk -> DeskRow] /\ lots \in [Lot -> LotRow] /\ AtEase.pc = "idle"
  BY DEF RoomInv, RoomPart, RoomTyped, AtEase
<1>2. SUFFICES ASSUME NEW d \in Desk, desk'[d].pc = "open"
               PROVE  lots'[desk'[d].lot].status = "pending"
  BY DEF OpenKnows
<1>3. CASE desk'[d] # desk[d]
  <2>1. DeskStep(d)
    BY <1>3, OwnDesk
  <2>2. (\E l \in Lot : ReadOpen(d, l)) \/ ReadNext(d)
    <3>1. ASSUME DeskCall(d), ~\E l \in Lot : ReadOpen(d, l)
          PROVE  FALSE
      BY <1>1, <1>2, <3>1 DEF DeskCall, ReadCurrent, ReadWinner, ReadPass, BeginPhone,
         Move, OnLot, AtEase
    <3>2. ASSUME DeskGoesOn(d) \/ DeskBreaks(d), ~ReadNext(d)
          PROVE  FALSE
      BY <1>1, <1>2, <3>2 DEF DeskGoesOn, DeskBreaks, CommitOpen, CommitSold, CommitPass,
         ClearForPhone, AfterClearing, CreatePhoneBid, SetPhonePrice, Rest, Move, DeskRow
    <3>3. QED
      BY <2>1, <3>1, <3>2 DEF DeskStep
  <2>3. ASSUME NEW l \in Lot, ReadOpen(d, l)
        PROVE  lots'[desk'[d].lot].status = "pending"
    BY <1>1, <2>3 DEF ReadOpen, Move, OnLot, AtEase
  <2>4. ASSUME ReadNext(d)
        PROVE  lots'[desk'[d].lot].status = "pending"
    <3>1. PICK l \in Lot : lots[l].status = "pending" /\ Move(d, OnLot("open", l))
      BY <1>1, <1>2, <2>4 DEF ReadNext, Rest, Move
    <3>2. QED
      BY <1>1, <2>4, <3>1 DEF ReadNext, Move, OnLot, AtEase
  <2>5. QED
    BY <2>2, <2>3, <2>4
<1>4. CASE desk'[d] = desk[d]
  <2>1. ASSUME NEW e \in Desk, CommitOpen(e) \/ CommitPass(e) \/ CommitSold(e)
        PROVE  FALSE
    <3>1. e = d
      BY <1>2, <1>4, <2>1 DEF OneDesk, Resting, CommitOpen, CommitPass, CommitSold
    <3>2. desk'[e].pc = "idle"
      BY <1>1, <2>1 DEF CommitOpen, CommitPass, CommitSold, Rest, Move
    <3>3. QED
      BY <1>2, <3>1, <3>2
  <2>2. lots' = lots
    BY <2>1, OnlyCommits
  <2>3. QED
    BY <1>2, <1>4, <2>2 DEF OpenKnows
<1>5. QED
  BY <1>3, <1>4
---------------------------------------------------------------------------
(***************************************************************************)
(* bidCount with a second writer, which counts its bids as late as         *)
(* setProxyBid does.                                                       *)
(***************************************************************************)
DeskWaiting == {d \in Desk : desk[d].pc = "phonePrice"}

RoomCountSound ==
    /\ IsFiniteSet(Uncounted) /\ IsFiniteSet(DeskWaiting)
    /\ auction.bidCount + Cardinality(Uncounted) + Cardinality(DeskWaiting)
         <= Cardinality(Counted)

LEMMA DeskWaitingAfter ==
    ASSUME RoomInv, [RoomNext]_roomVars, IsFiniteSet(DeskWaiting)
    PROVE  /\ IsFiniteSet(DeskWaiting')
           /\ Cardinality(DeskWaiting) \in Nat /\ Cardinality(DeskWaiting') \in Nat
           /\ \A d \in Desk : CreatePhoneBid(d) =>
                Cardinality(DeskWaiting') <= Cardinality(DeskWaiting) + 1
           /\ \A d \in Desk : SetPhonePrice(d) =>
                Cardinality(DeskWaiting') <= Cardinality(DeskWaiting) - 1
           /\ (\A d \in Desk : ~CreatePhoneBid(d)) =>
                Cardinality(DeskWaiting') <= Cardinality(DeskWaiting)
<1>1. desk \in [Desk -> DeskRow] /\ AtEase.pc = "idle"
  BY DEF RoomInv, RoomPart, RoomTyped, AtEase
<1>2. ASSUME NEW S, IsFiniteSet(S), DeskWaiting' \subseteq S
      PROVE  /\ IsFiniteSet(DeskWaiting') /\ Cardinality(DeskWaiting') \in Nat
             /\ Cardinality(DeskWaiting') <= Cardinality(S)
  BY <1>2, FS_Subset, FS_CardinalityType
<1>3. Cardinality(DeskWaiting) \in Nat
  BY FS_CardinalityType
<1>4. ASSUME NEW d \in Desk, CreatePhoneBid(d)
      PROVE  /\ IsFiniteSet(DeskWaiting') /\ Cardinality(DeskWaiting') \in Nat
             /\ Cardinality(DeskWaiting') <= Cardinality(DeskWaiting) + 1
  <2>1. DeskWaiting' \subseteq DeskWaiting \cup {d}
    BY <1>1, <1>4 DEF CreatePhoneBid, Move, DeskWaiting
  <2>2. /\ IsFiniteSet(DeskWaiting \cup {d})
        /\ Cardinality(DeskWaiting \cup {d}) \in {Cardinality(DeskWaiting),
                                                  Cardinality(DeskWaiting) + 1}
    BY FS_AddElement
  <2>3. QED
    BY <1>2, <1>3, <2>1, <2>2
<1>5. ASSUME NEW d \in Desk, SetPhonePrice(d)
      PROVE  Cardinality(DeskWaiting') <= Cardinality(DeskWaiting) - 1
  <2>1. DeskWaiting' \subseteq DeskWaiting \ {d} /\ d \in DeskWaiting
    BY <1>1, <1>5 DEF SetPhonePrice, Rest, Move, DeskWaiting
  <2>2. /\ IsFiniteSet(DeskWaiting \ {d})
        /\ Cardinality(DeskWaiting \ {d}) = Cardinality(DeskWaiting) - 1
    BY <2>1, FS_RemoveElement
  <2>3. QED
    BY <1>2, <2>1, <2>2
<1>6. ASSUME \A d \in Desk : ~CreatePhoneBid(d)
      PROVE  /\ IsFiniteSet(DeskWaiting') /\ Cardinality(DeskWaiting') \in Nat
             /\ Cardinality(DeskWaiting') <= Cardinality(DeskWaiting)
  <2>1. DeskWaiting' \subseteq DeskWaiting
    BY <1>1, <1>6, OnlyThisPrices DEF DeskWaiting
  <2>2. QED
    BY <1>2, <2>1
<1>7. QED
  BY <1>3, <1>4, <1>5, <1>6

\* A phone bid is a row more; the other steps of the desk keep the count.
LEMMA DeskCounts ==
    ASSUME RoomInv, IInv', NEW d \in Desk, DeskStep(d)
    PROVE  /\ CreatePhoneBid(d) => Cardinality(Counted') = Cardinality(Counted) + 1
           /\ ~CreatePhoneBid(d) => Cardinality(Counted) <= Cardinality(Counted')
<1>1. /\ TypeOK /\ TypeOK' /\ bids \in Seq(Bid) /\ Len(bids) \in Nat
      /\ Cardinality(Counted) \in Nat
  BY RowsOfRoom, CountedFinite DEF TypeOK, IInv
<1>2. ASSUME CreatePhoneBid(d)
      PROVE  Cardinality(Counted') = Cardinality(Counted) + 1
  <2> DEFINE b == NewBid(desk[d].user, desk[d].amount, "MANUAL", 0, FALSE, 0)
  <2>1. b.reason = "none" /\ bids' = Append(bids, b)
    BY <1>2 DEF NewBid, CreatePhoneBid
  <2> HIDE DEF b
  <2>2. /\ Len(bids') = Len(bids) + 1 /\ bids'[Len(bids) + 1] = b
        /\ \A k \in 1..Len(bids) : bids'[k].reason = bids[k].reason
    BY <1>1, <2>1
  <2>3. QED
    BY <1>1, <2>1, <2>2, CountedMore
<1>3. ASSUME ClearForPhone(d)
      PROVE  Cardinality(Counted) <= Cardinality(Counted')
  <2> DEFINE W == {i \in DOMAIN bids : bids[i].winning}
  <2>1. bids' = ClearWinning(W)
    BY <1>3 DEF ClearForPhone, ClearedByPhone
  <2> HIDE DEF W
  <2>2. Len(bids') = Len(bids) /\ \A k \in 1..Len(bids) : bids'[k].reason = bids[k].reason
    BY <1>1, <2>1, ClearWinningType, ClearedReasons
  <2>3. /\ Len(bids) <= Len(bids') /\ 0 \notin 1..Len(bids)
        /\ \A k \in 1..Len(bids) : k # 0 /\ bids[k].reason # "user" => bids'[k].reason # "user"
    BY <1>1, <2>2
  <2>4. QED
    BY <1>1, <2>3, CountedKept
<1>4. ASSUME ~CreatePhoneBid(d), ~ClearForPhone(d)
      PROVE  Cardinality(Counted) <= Cardinality(Counted')
  <2>1. bids' = bids
    BY <1>4 DEF DeskStep, DeskCall, DeskGoesOn, DeskBreaks, ReadOpen, ReadCurrent, ReadNext,
       CommitOpen, ReadWinner, CommitSold, ReadPass, CommitPass, BeginPhone, SetPhonePrice, Book
  <2>2. QED
    BY <1>1, <2>1 DEF Counted
<1>5. QED
  BY <1>2, <1>3, <1>4

LEMMA DeskKeepsCount ==
    ASSUME RoomInv, RoomCountSound, IInv', NEW d \in Desk, DeskStep(d)
    PROVE  RoomCountSound'
<1> DEFINE w == Cardinality(Uncounted)
           e == Cardinality(DeskWaiting)
           f == Cardinality(DeskWaiting')
           c == Cardinality(Counted)
           k == Cardinality(Counted')
           n == auction.bidCount
           m == auction'.bidCount
<1>0. [RoomNext]_roomVars
  BY DEF RoomNext
<1>1. /\ auction \in Auction /\ auction' \in Auction /\ n \in Int /\ m \in Int
      /\ IsFiniteSet(Uncounted) /\ IsFiniteSet(DeskWaiting) /\ n + w + e <= c
      /\ w \in Nat /\ c \in Nat
  BY RowsOfRoom, FS_CardinalityType, CountedFinite
  DEF RoomCountSound, TypeOK, IInv, Auction
<1>2. IsFiniteSet(DeskWaiting') /\ e \in Nat /\ f \in Nat
  BY <1>0, <1>1, DeskWaitingAfter
<1>3. req' = req
  BY DEF DeskStep, DeskCall, DeskGoesOn, DeskBreaks, ReadOpen, ReadCurrent, ReadNext,
     CommitOpen, ReadWinner, CommitSold, ReadPass, CommitPass, BeginPhone, ClearForPhone,
     CreatePhoneBid, SetPhonePrice, Book
<1>4. Uncounted' = Uncounted
  BY <1>3 DEF Uncounted
<1>5. k \in Int
  <2>1. TypeOK' /\ bids' \in Seq(Bid)
    BY DEF IInv, TypeOK
  <2>2. Counted' \in SUBSET (1..Len(bids')) /\ IsFiniteSet(1..Len(bids'))
    BY <2>1, FS_Interval DEF Counted
  <2>3. IsFiniteSet(Counted')
    BY <2>2, FS_Subset
  <2>4. QED
    BY <2>3, FS_CardinalityType
<1>6. m + f - k <= n + e - c
  <2>1. CASE CreatePhoneBid(d)
    <3>1. m = n /\ k = c + 1 /\ f <= e + 1
      BY <1>0, <1>1, <2>1, DeskCounts, DeskWaitingAfter DEF CreatePhoneBid, AuctionAtInsert
    <3>2. QED
      <4> HIDE DEF m, n, k, c, f, e
      <4> QED
        BY <1>1, <1>2, <1>5, <3>1
  <2>2. CASE SetPhonePrice(d)
    <3>1. m = n + 1 /\ f <= e - 1 /\ bids' = bids
      BY <1>0, <1>1, <2>2, DeskWaitingAfter DEF SetPhonePrice, Auction
    <3>2. k = c
      BY <3>1 DEF Counted
    <3>3. QED
      <4> HIDE DEF m, n, k, c, f, e
      <4> QED
        BY <1>1, <1>2, <1>5, <3>1, <3>2
  <2>3. CASE ~CreatePhoneBid(d) /\ ~SetPhonePrice(d)
    <3>1. auction' = auction
      BY <2>3 DEF DeskStep, DeskCall, DeskGoesOn, DeskBreaks, ReadOpen, ReadCurrent, ReadNext,
         CommitOpen, ReadWinner, CommitSold, ReadPass, CommitPass, BeginPhone, ClearForPhone,
         Book
    <3>2. DeskWaiting' \subseteq DeskWaiting
      <4>1. ASSUME NEW h \in Desk, desk'[h].pc = "phonePrice"
            PROVE  desk[h].pc = "phonePrice"
        BY <1>0, <2>3, <4>1, MovesOne, OnlyThisPrices
      <4>2. QED
        BY <4>1 DEF DeskWaiting
    <3>3. m = n /\ c <= k /\ f <= e
      BY <1>1, <2>3, <3>1, <3>2, DeskCounts, FS_Subset
    <3>4. QED
      <4> HIDE DEF m, n, k, c, f, e
      <4> QED
        BY <1>1, <1>2, <1>5, <3>3
  <2>4. QED
    BY <2>1, <2>2, <2>3
<1>7. m + w + f <= k
  <2> HIDE DEF m, n, w, k, c, f, e
  <2> QED
    BY <1>1, <1>2, <1>5, <1>6
<1>8. QED
  BY <1>1, <1>2, <1>4, <1>7 DEF RoomCountSound

LEMMA NextRoomCount == RoomInv /\ RoomCountSound /\ [RoomNext]_roomVars => RoomCountSound'
<1> SUFFICES ASSUME RoomInv, RoomCountSound, [RoomNext]_roomVars PROVE RoomCountSound'
  OBVIOUS
<1>1. IInv /\ IInv'
  BY NextBook DEF RoomInv
<1>2. CASE [Next]_vars /\ UNCHANGED room
  <2>1. /\ DeskWaiting' = DeskWaiting /\ IsFiniteSet(Uncounted) /\ IsFiniteSet(DeskWaiting)
        /\ auction.bidCount \in Int /\ auction'.bidCount \in Int
        /\ Cardinality(DeskWaiting) \in Nat
    BY <1>1, <1>2, FS_CardinalityType
    DEF RoomCountSound, DeskWaiting, room, IInv, TypeOK, Auction
  <2>2. QED
    BY <1>1, <1>2, <2>1, CountStep DEF RoomCountSound
<1>3. ASSUME NEW d \in Desk, DeskStep(d) PROVE RoomCountSound'
  BY <1>1, <1>3, DeskKeepsCount
<1>4. QED
  BY <1>2, <1>3 DEF RoomNext, roomVars

LEMMA InitRoomCount == RoomInit => RoomCountSound
<1> SUFFICES ASSUME RoomInit PROVE RoomCountSound
  OBVIOUS
<1>1. Uncounted = {} /\ Counted = {} /\ auction.bidCount = 0
  BY IdleType DEF RoomInit, Init, Uncounted, Counted
<1>2. DeskWaiting = {}
  BY DEF RoomInit, AtEase, DeskWaiting
<1>3. QED
  BY <1>1, <1>2, FS_EmptySet DEF RoomCountSound
---------------------------------------------------------------------------
(***************************************************************************)
(* The theorems.                                                           *)
(***************************************************************************)
\* Whatever the desks and the bid service do to the shared tables, in any
\* order, every row of the auction, its bids and its lots keeps its type, and
\* a lot has one of the four statuses (auctioneer.service.ts).
THEOREM RoomTypeCorrect == RoomSpec => []RoomTypeOK
<1>1. RoomInv => RoomTypeOK
  BY DEF RoomInv, RoomPart, IInv, RoomTypeOK, RoomTyped, DeskRow
<1>2. QED
  BY <1>1, InitRoom, NextRoom, PTL DEF RoomSpec

\* A hammer price and its winner are those of one bid of the auction, however
\* many lots are sold at the same time and whatever is bid or retracted between
\* the query of sold() and its update: bids are appended and never rewritten,
\* so the bid that the call remembers is still there.
THEOREM HammerIsABidAlways == RoomSpec => []HammerIsABid
<1>1. RoomInv => HammerIsABid
  BY RowsOfRoom DEF RoomInv, RoomPart, Hammered, HammerIsABid
<1>2. QED
  BY <1>1, InitRoom, NextRoom, PTL DEF RoomSpec

\* The desk clears and appends bids outside any transaction, and still rewrites
\* no bid and brings no retracted bid back (acceptPhoneBid).
THEOREM RoomHistoryKept == RoomSpec => HistoryIsKept
<1> DEFINE Keeps ==
      /\ Len(bids) <= Len(bids')
      /\ \A i \in DOMAIN bids :
            /\ bids'[i].user = bids[i].user /\ bids'[i].amount = bids[i].amount
            /\ bids'[i].type = bids[i].type /\ bids'[i].max = bids[i].max
            /\ bids[i].retracted => bids'[i].retracted
<1>1. RoomInv /\ RowsKept => [Keeps]_vars
  BY RowsOfRoom DEF RowsKept, Kept
<1>2. RoomInv /\ [RoomNext]_roomVars => [Keeps]_vars
  BY <1>1, NextRoom
<1>3. QED
  BY <1>2, InitRoom, NextRoom, PTL DEF RoomSpec, HistoryIsKept

\* What the bid service promises survives a second writer that checks nothing:
\* proxies stay within their maximum, bids beat what they saw, the reserve flag
\* and the extensions are earned, and the price is a bid's (acceptPhoneBid).
THEOREM BidServiceStaysSafe ==
    RoomSpec => [](/\ ProxyWithinMax /\ BeatsWhatItSaw /\ ReserveMetIsTrue
                   /\ PriceIsABid /\ ExtensionsArePaidFor)
<1>1. RoomSafe => /\ ProxyWithinMax /\ BeatsWhatItSaw /\ ReserveMetIsTrue
                  /\ PriceIsABid /\ ExtensionsArePaidFor
  BY DEF RoomSafe, SInv
<1>2. QED
  BY <1>1, InitRoom, NextRoom, InitSafeRoom, NextSafeRoom, PTL DEF RoomSpec

\* While no two calls of the desk overlap, a lot that was sold or passed is not
\* opened again, whatever the bid service does meanwhile: openLot and nextLot
\* open a lot that is pending still when they write (openLot, nextLot).
THEOREM ClosedStaysClosedWithOneDesk == RoomSpec /\ []OneDesk => ClosedLotStaysClosed
<1> DEFINE Stays == \A l \in Lot : lots[l].status \in {"sold", "unsold"} =>
                       lots'[l].status # "active"
<1>1. ASSUME RoomInv, OpenKnows, [RoomNext]_roomVars
      PROVE  Stays
  <2>1. lots \in [Lot -> LotRow] /\ \A d \in Desk : DeskKnows(desk[d])
    BY <1>1 DEF RoomInv, RoomPart, RoomTyped
  <2>2. ASSUME NEW d \in Desk, CommitOpen(d)
        PROVE  Stays
    <3>1. desk[d].lot \in Lot /\ lots[desk[d].lot].status = "pending"
      BY <1>1, <2>1, <2>2 DEF CommitOpen, DeskKnows, OpenKnows
    <3>2. \A l \in Lot : l # desk[d].lot => lots'[l] = lots[l]
      BY <2>1, <2>2 DEF CommitOpen
    <3>3. QED
      BY <3>1, <3>2
  <2>3. ASSUME NEW d \in Desk, CommitPass(d) \/ CommitSold(d)
        PROVE  Stays
    BY <2>1, <2>3 DEF CommitPass, CommitSold, Passed, SoldTo, LotRow
  <2>4. CASE lots' = lots
    BY <2>4
  <2>5. QED
    <3> HIDE DEF Stays
    <3> QED
      BY <1>1, <2>2, <2>3, <2>4, OnlyCommits
<1>2. RoomInv /\ OpenKnows /\ [RoomNext]_roomVars => [Stays]_roomVars
  BY <1>1
<1>3. RoomInit => OpenKnows
  BY DEF RoomInit, AtEase, OpenKnows
<1>4. RoomInv /\ OneDesk /\ OpenKnows /\ [RoomNext]_roomVars => OpenKnows'
  BY OpenStaysKnown
<1>5. QED
  BY <1>2, <1>3, <1>4, InitRoom, NextRoom, PTL DEF RoomSpec, ClosedLotStaysClosed

\* bidCount stays at most the bids on the book although the desk, like
\* setProxyBid, counts a bid in a query of its own after it inserted it.
THEOREM RoomCountNeverAboveBook == RoomSpec => []BidCountNeverOverstates
<1>1. RoomInv /\ RoomCountSound => BidCountNeverOverstates
  <2> SUFFICES ASSUME RoomInv, RoomCountSound PROVE BidCountNeverOverstates
    OBVIOUS
  <2>1. /\ auction.bidCount \in Int /\ Cardinality(Uncounted) \in Nat
        /\ Cardinality(DeskWaiting) \in Nat /\ Cardinality(Counted) \in Nat
    BY RowsOfRoom, AuctionTypes, CountedFinite, FS_CardinalityType DEF RoomCountSound
  <2>2. QED
    BY <2>1 DEF RoomCountSound, BidCountNeverOverstates
<1>2. QED
  BY <1>1, InitRoom, NextRoom, InitRoomCount, NextRoomCount, PTL DEF RoomSpec
=============================================================================

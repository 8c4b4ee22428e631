------------------------- MODULE AuctionHouseProofs -------------------------
(***************************************************************************)
(* The operations of the auction service read, decide and commit without   *)
(* looking again, among bids that interleave with them.  For every number  *)
(* of operations and calls: the rows keep their types, and what an order   *)
(* says is true of the book, although end decided on an older one.  The    *)
(* steps of the bid service are those of module Bidding, so their lemmas   *)
(* are reused as they are.                                                 *)
(***************************************************************************)
EXTENDS AuctionHouse, BiddingSafety

TaskRow == [pc : TaskPC, winner : Nat, price : Nat, met : BOOLEAN, saw : Nat]
LotRecord == [status : LotStatus, hammer : Nat, winner : User \cup {Nobody}]
OrderRow == [bid : Nat, buyer : User, hammer : Nat, saw : Nat]

\* A row of the book that may be sold at this price.
Sellable(i, price) ==
    /\ i \in 1..Len(bids)
    /\ price <= bids[i].amount
    /\ \E j \in 1..Len(bids) : bids[j].amount = price
    /\ AuctionType = "DUTCH" \/ MeetsReserve(bids[i].amount)

\* The first n rows make this price, and none of them that stands is a better
\* offer.
Unbeaten(i, price, n) ==
    /\ i \in 1..Len(bids) /\ n \in 0..Len(bids)
    /\ PaysByRule(i, price, n)
    /\ \A j \in 1..n : ~bids[j].retracted =>
         IF AuctionType = "DUTCH" THEN i <= j ELSE j # i => bids[j].amount <= price

\* What end still knows when it commits.
KnowsSale(q) ==
    q.pc = "endCommit" /\ q.winner # 0 =>
        Sellable(q.winner, q.price) /\ Unbeaten(q.winner, q.price, q.saw)

\* An order sells a row of the book to its owner, and no row is sold twice.
OrderBacked(o) ==
    /\ Sellable(o.bid, o.hammer) /\ bids[o.bid].user = o.buyer
    /\ Unbeaten(o.bid, o.hammer, o.saw)
OnceEach == \A o, p \in orders : p.bid = o.bid => p = o

HouseTyped ==
    /\ lot \in LotRecord
    /\ orders \subseteq OrderRow
    /\ task \in [Worker -> TaskRow]

HousePart ==
    /\ HouseTyped
    /\ BookPositive
    /\ \A t \in Worker : KnowsSale(task[t])
    /\ \A o \in orders : OrderBacked(o)
    /\ OnceEach
    /\ SoldLotHasOrder /\ FateMatchesStatus

HouseInv == IInv /\ HousePart
---------------------------------------------------------------------------
(***************************************************************************)
(* A finite set has a greatest element.                                    *)
(***************************************************************************)
LEMMA Greatest ==
    ASSUME NEW S, IsFiniteSet(S), S # {}, NEW w \in [S -> Int]
    PROVE  \E h \in S : \A j \in S : w[j] <= w[h]
<1> DEFINE Above(x) == {y \in S : w[y] > w[x]}
           T == {Above(x) : x \in S}
           R == StrictSubsetOrdering(S)
<1>1. IsWellFoundedOn(R, FiniteSubsetsOf(S))
  BY FS_StrictSubsetOrderingWellFounded
<1>2. T \subseteq FiniteSubsetsOf(S) /\ T # {}
  <2>1. \A x \in S : Above(x) \in SUBSET S /\ IsFiniteSet(Above(x))
    BY FS_Subset
  <2>2. \A X \in T : X \in FiniteSubsetsOf(S)
    BY <2>1 DEF FiniteSubsetsOf
  <2>3. PICK x \in S : TRUE
    OBVIOUS
  <2>4. Above(x) \in T
    OBVIOUS
  <2>5. QED
    <3> HIDE DEF T
    <3> QED
      BY <2>2, <2>4
<1>3. PICK X \in T : \A Y \in T : <<Y, X>> \notin R
  <2> HIDE DEF T, R
  <2> QED
    BY <1>1, <1>2, WFMin
<1>4. PICK h \in S : X = Above(h)
  BY <1>3
<1>5. ASSUME NEW j \in S, w[j] > w[h]
      PROVE  FALSE
  <2>1. Above(j) \subseteq Above(h) /\ j \in Above(h) /\ j \notin Above(j)
    BY <1>5
  <2>2. <<Above(j), Above(h)>> \in R
    BY <2>1 DEF StrictSubsetOrdering
  <2>3. QED
    BY <1>3, <1>4, <2>2
<1>6. QED
  BY <1>5

LEMMA RowsFinite ==
    ASSUME TypeOK, NEW S \in SUBSET Active
    PROVE  IsFiniteSet(S) /\ S \subseteq 1..Len(bids)
<1>1. Len(bids) \in Nat /\ Active \subseteq 1..Len(bids)
  BY ActiveInDomain
<1>2. S \in SUBSET (1..Len(bids)) /\ IsFiniteSet(1..Len(bids))
  BY <1>1, FS_Interval
<1>3. QED
  BY <1>2, FS_Subset

\* findFirst finds a bid when there is one.
LEMMA FirstExists ==
    ASSUME TypeOK, NEW S \in SUBSET Active, S # {}
    PROVE  FirstByAmount(S) # {} /\ FirstByAmount(S) \subseteq S
<1> DEFINE w == [i \in S |-> bids[i].amount]
<1>1. IsFiniteSet(S) /\ S \subseteq 1..Len(bids)
  BY RowsFinite
<1>2. w \in [S -> Int]
  BY <1>1, ActiveInDomain DEF Bid
<1>3. \E h \in S : \A j \in S : w[j] <= w[h]
  <2> HIDE DEF w
  <2> QED
    BY <1>1, <1>2, Greatest
<1>4. QED
  BY <1>3 DEF FirstByAmount

LEMMA EarliestExists ==
    ASSUME TypeOK, Active # {}
    PROVE  Earliest \in Active /\ \A j \in Active : Earliest <= j
<1> DEFINE w == [i \in Active |-> 0 - i]
<1>1. IsFiniteSet(Active) /\ Active \subseteq 1..Len(bids) /\ Len(bids) \in Nat
  BY RowsFinite, ActiveInDomain
<1>2. w \in [Active -> Int]
  BY <1>1
<1>3. PICK h \in Active : \A j \in Active : w[j] <= w[h]
  <2> HIDE DEF w
  <2> QED
    BY <1>1, <1>2, Greatest
<1>4. \A j \in Active : h <= j
  BY <1>1, <1>3
<1>5. QED
  BY <1>4 DEF Earliest
---------------------------------------------------------------------------
(***************************************************************************)
(* determineWinner: a sale is of a bid that stands, at the amount of a bid *)
(* that is not above it, and the reserve is met unless the auction is a    *)
(* Dutch one.                                                              *)
(***************************************************************************)
LEMMA WinnerSells ==
    ASSUME TypeOK, NEW s \in Winners
    PROVE  /\ s \in [winner : Nat, price : Nat, met : BOOLEAN]
           /\ s.winner # 0 => Sellable(s.winner, s.price)
           /\ s.winner # 0 => Unbeaten(s.winner, s.price, Len(bids))
<1>1. /\ Len(bids) \in Nat /\ Active \subseteq 1..Len(bids)
      /\ \A i \in 1..Len(bids) : i \in Nat /\ bids[i].amount \in Nat
  BY ActiveInDomain DEF Bid
<1>2. \A a \in Nat : MeetsReserve(a) \in BOOLEAN
  BY DEF MeetsReserve
<1>3. CASE s = NoSale
  BY <1>3 DEF NoSale
<1>4. CASE /\ Active # {} /\ AuctionType = "DUTCH"
           /\ s = Sale(Earliest, bids[Earliest].amount, MeetsReserve(bids[Earliest].amount))
  <2>1. Earliest \in 1..Len(bids) /\ \A j \in Active : Earliest <= j
    BY <1>1, <1>4, EarliestExists
  <2>2. /\ s \in [winner : Nat, price : Nat, met : BOOLEAN]
        /\ s.winner = Earliest /\ s.price = bids[Earliest].amount
    BY <1>1, <1>2, <1>4, <2>1 DEF Sale
  <2>3. Sellable(s.winner, s.price)
    BY <1>1, <1>4, <2>1, <2>2 DEF Sellable
  <2>4. Unbeaten(s.winner, s.price, Len(bids))
    BY <1>1, <1>4, <2>1, <2>2, ActiveInDomain DEF Unbeaten, PaysByRule, Active
  <2>5. QED
    BY <2>2, <2>3, <2>4
<1>5. ASSUME NEW h \in FirstByAmount(Active), Active # {}, AuctionType # "DUTCH",
             MeetsReserve(bids[h].amount), s = Sale(h, FinalPrice(h), TRUE)
      PROVE  /\ s \in [winner : Nat, price : Nat, met : BOOLEAN]
             /\ s.winner # 0 => Sellable(s.winner, s.price)
             /\ s.winner # 0 => Unbeaten(s.winner, s.price, Len(bids))
  <2>1. h \in Active /\ \A j \in Active : bids[j].amount <= bids[h].amount
    BY <1>5 DEF FirstByAmount
  <2>2. /\ \E j \in Active : FinalPrice(h) = bids[j].amount
        /\ \A j \in Active \ {h} : bids[j].amount <= FinalPrice(h)
        /\ PaysByRule(h, FinalPrice(h), Len(bids))
    <3>1. CASE AuctionType = "VICKREY" /\ Active # {h}
      <4> DEFINE F == FirstByAmount(Active \ {h})
                 c == CHOOSE x \in F : TRUE
      <4>1. Active \ {h} \in SUBSET Active /\ Active \ {h} # {}
        BY <2>1, <3>1
      <4>2. F # {} /\ F \subseteq Active \ {h}
        BY <4>1, FirstExists
      <4>3. c \in Active /\ \A j \in Active \ {h} : bids[j].amount <= bids[c].amount
        <5>1. \A x \in F : \A j \in Active \ {h} : bids[j].amount <= bids[x].amount
          BY <4>1 DEF FirstByAmount
        <5> HIDE DEF F
        <5>2. QED
          BY <4>2, <5>1
      <4>4. FinalPrice(h) = bids[c].amount
        BY <3>1 DEF FinalPrice
      <4>5. c \in (1..Len(bids)) \ {h}
        BY <1>1, <4>2
      <4> HIDE DEF c
      <4>6. PaysByRule(h, FinalPrice(h), Len(bids))
        BY <3>1, <4>4, <4>5 DEF PaysByRule
      <4>7. QED
        BY <4>3, <4>4, <4>6
    <3>2. CASE ~(AuctionType = "VICKREY" /\ Active # {h})
      <4>1. FinalPrice(h) = bids[h].amount
        BY <3>2 DEF FinalPrice
      <4>2. PaysByRule(h, FinalPrice(h), Len(bids))
        BY <3>2, <4>1 DEF PaysByRule, Active
      <4>3. QED
        BY <2>1, <4>1, <4>2
    <3>3. QED
      BY <3>1, <3>2
  <2>3. QED
    <3>1. s = [winner |-> h, price |-> FinalPrice(h), met |-> TRUE]
      BY <1>5 DEF Sale
    <3>2. h \in 1..Len(bids) /\ FinalPrice(h) \in Nat
      BY <1>1, <2>1, <2>2
    <3>3. FinalPrice(h) <= bids[h].amount
      BY <2>1, <2>2
    <3>4. \E j \in 1..Len(bids) : bids[j].amount = FinalPrice(h)
      BY <1>1, <2>2
    <3>5. Sellable(h, FinalPrice(h))
      BY <1>5, <3>2, <3>3, <3>4, Zenon DEF Sellable
    <3>6. s \in [winner : Nat, price : Nat, met : BOOLEAN]
      BY <1>1, <3>1, <3>2
    <3>7. Unbeaten(h, FinalPrice(h), Len(bids))
      BY <1>1, <1>5, <2>2, <3>2, ActiveInDomain DEF Unbeaten, Active
    <3>8. QED
      BY <3>1, <3>5, <3>6, <3>7
<1>6. QED
  BY <1>3, <1>4, <1>5 DEF Winners
---------------------------------------------------------------------------
(***************************************************************************)
(* What was true of a row when it was read is true of it for ever.         *)
(***************************************************************************)
LEMMA HouseFacts ==
    ASSUME HouseInv
    PROVE  /\ TypeOK /\ Len(bids) \in Nat /\ DOMAIN bids = 1..Len(bids)
           /\ bids \in Seq(Bid) /\ auction \in Auction /\ now \in Nat
           /\ lot \in LotRecord /\ orders \subseteq OrderRow
           /\ task \in [Worker -> TaskRow]
           /\ \A i \in 1..Len(bids) : bids[i] \in Bid
BY ActiveInDomain DEF HouseInv, HousePart, HouseTyped, IInv, TypeOK

LEMMA SellableKept ==
    ASSUME HouseInv, RowsKept, NEW i, NEW price, Sellable(i, price)
    PROVE  Sellable(i, price)' /\ bids'[i].user = bids[i].user
<1>1. \A j \in 1..Len(bids) : /\ j \in 1..Len(bids')
                              /\ bids'[j].amount = bids[j].amount
                              /\ bids'[j].user = bids[j].user
  BY HouseFacts DEF RowsKept, Kept
<1>2. i \in 1..Len(bids) /\ bids'[i].amount = bids[i].amount
  BY <1>1 DEF Sellable
<1>3. i \in 1..Len(bids') /\ price <= bids'[i].amount
  BY <1>1, <1>2 DEF Sellable
<1>4. \E j \in 1..Len(bids') : bids'[j].amount = price
  BY <1>1 DEF Sellable
<1>5. AuctionType = "DUTCH" \/ MeetsReserve(bids'[i].amount)
  BY <1>2, Zenon DEF Sellable
<1>6. QED
  BY <1>1, <1>2, <1>3, <1>4, <1>5, Zenon DEF Sellable, MeetsReserve

LEMMA UnbeatenKept ==
    ASSUME HouseInv, RowsKept, NEW i, NEW price, NEW n, Unbeaten(i, price, n)
    PROVE  Unbeaten(i, price, n)'
<1>1. n \in 0..Len(bids) /\ n \in 0..Len(bids')
  <2>1. Len(bids) \in Nat /\ Len(bids) <= Len(bids') /\ n \in 0..Len(bids)
    BY HouseFacts DEF RowsKept, Unbeaten
  <2>2. QED
    BY <2>1, LenProperties
<1>2. \A j \in 1..n : /\ bids'[j].amount = bids[j].amount
                      /\ bids[j].retracted => bids'[j].retracted
  BY <1>1, HouseFacts DEF RowsKept, Kept
<1>3. i \in 1..Len(bids) /\ i \in 1..Len(bids') /\ bids'[i].amount = bids[i].amount
  BY HouseFacts DEF RowsKept, Kept, Unbeaten
<1>4. PaysByRule(i, price, n)'
  BY <1>2, <1>3 DEF Unbeaten, PaysByRule
<1>5. QED
  BY <1>1, <1>2, <1>3, <1>4 DEF Unbeaten

LEMMA OrdersKept ==
    ASSUME HouseInv, RowsKept, NEW o \in orders
    PROVE  OrderBacked(o)'
<1>1. OrderBacked(o)
  BY DEF HouseInv, HousePart
<1>2. QED
  BY <1>1, SellableKept, UnbeatenKept DEF OrderBacked

\* An operation that moves on knows what it needs.
LEMMA TaskMoves ==
    ASSUME HouseInv, RowsKept, NEW t \in Worker, NEW q \in TaskRow, Becomes(t, q), KnowsSale(q)
    PROVE  task' \in [Worker -> TaskRow] /\ \A u \in Worker : KnowsSale(task[u])'
<1>1. task \in [Worker -> TaskRow]
  BY HouseFacts
<1>2. task' \in [Worker -> TaskRow] /\ \A u \in Worker : task'[u] = q \/ task'[u] = task[u]
  BY <1>1 DEF Becomes
<1>3. ASSUME NEW u \in Worker
      PROVE  KnowsSale(task[u])'
  <2>1. KnowsSale(task'[u])
    BY <1>2 DEF HouseInv, HousePart
  <2>2. QED
    BY <2>1, SellableKept, UnbeatenKept DEF KnowsSale
<1>4. QED
  BY <1>2, <1>3

LEMMA TasksWait ==
    ASSUME HouseInv, RowsKept, task' = task
    PROVE  \A u \in Worker : KnowsSale(task[u])'
<1>1. \A u \in Worker : KnowsSale(task[u])
  BY DEF HouseInv, HousePart
<1>2. QED
  BY <1>1, SellableKept, UnbeatenKept DEF KnowsSale

LEMMA IdleTask ==
    /\ NoTask \in TaskRow /\ KnowsSale(NoTask)
    /\ \A pc \in TaskPC : /\ [NoTask EXCEPT !.pc = pc] \in TaskRow
                          /\ KnowsSale([NoTask EXCEPT !.pc = pc])
    /\ \A n \in Nat : LET q == [NoTask EXCEPT !.pc = "dutchCommit", !.price = n]
                     IN  q \in TaskRow /\ KnowsSale(q)
BY DEF NoTask, TaskRow, TaskPC, KnowsSale
---------------------------------------------------------------------------
(***************************************************************************)
(* The operations, by what they write.                                     *)
(***************************************************************************)
\* A write of the auction service leaves the calls as they are.
LEMMA HouseWrites ==
    ASSUME HouseInv, bids' \in Seq(Bid), RowsKept, Len(bids') = Len(bids),
           auction' \in Auction, now' = now, req' = req
    PROVE  IInv' /\ BookPositive'
<1>1. TypeOK'
  BY DEF HouseInv, IInv, TypeOK
<1>2. \A r \in Request : RefOK(req[r])'
  <2>1. \A r \in Request : RefOK(req[r])
    BY DEF HouseInv, IInv, RefsOK
  <2>2. QED
    BY <2>1 DEF RefOK
<1>3. BookPositive'
  <2>1. \A i \in 1..Len(bids') : bids'[i].amount > 0
    BY DEF RowsKept, Kept, HouseInv, HousePart, BookPositive
  <2>2. \A r \in Request : CallPositive(req[r])'
    BY DEF HouseInv, HousePart, BookPositive, CallPositive
  <2>3. QED
    BY <2>1, <2>2 DEF BookPositive
<1>4. QED
  BY <1>1, <1>2, <1>3 DEF IInv, RefsOK

LEMMA BookAsItIs ==
    ASSUME HouseInv, bids' = bids, auction' \in Auction, now' = now, req' = req
    PROVE  IInv' /\ BookPositive' /\ RowsKept
<1>1. RowsKept
  BY HouseFacts, SameRowsKept
<1>2. QED
  BY <1>1, HouseFacts, HouseWrites

\* No operation of this kind makes an order or sells a lot.
LEMMA SalesAsTheyAre ==
    ASSUME HouseInv, RowsKept, orders' = orders,
           lot' = lot \/ \E s \in LotStatus \ {"sold"} : lot' = [lot EXCEPT !.status = s]
    PROVE  /\ lot' \in LotRecord /\ orders' \subseteq OrderRow
           /\ (\A o \in orders : OrderBacked(o))' /\ OnceEach' /\ SoldLotHasOrder'
<1>1. lot' \in LotRecord
  BY HouseFacts DEF LotRecord
<1>2. SoldLotHasOrder'
  BY HouseFacts DEF HouseInv, HousePart, SoldLotHasOrder, LotRecord
<1>3. OnceEach'
  BY DEF HouseInv, HousePart, OnceEach
<1>4. \A o \in orders' : OrderBacked(o)'
  BY OrdersKept
<1>5. QED
  BY <1>1, <1>2, <1>3, <1>4, HouseFacts

\* What the operations have in common that make no order.
LEMMA NoSaleStep ==
    ASSUME HouseInv, NEW t \in Worker, NEW q \in TaskRow, Becomes(t, q), KnowsSale(q),
           bids' = bids, now' = now, req' = req, orders' = orders, auction' \in Auction,
           lot' = lot \/ \E s \in LotStatus \ {"sold"} : lot' = [lot EXCEPT !.status = s],
           FateMatchesStatus'
    PROVE  HouseInv'
<1>1. IInv' /\ BookPositive' /\ RowsKept
  BY BookAsItIs
<1>2. task' \in [Worker -> TaskRow] /\ \A u \in Worker : KnowsSale(task[u])'
  BY <1>1, TaskMoves
<1>3. QED
  BY <1>1, <1>2, SalesAsTheyAre DEF HouseInv, HousePart, HouseTyped

LEMMA TaskOnly ==
    ASSUME HouseInv, NEW t \in Worker, NEW q \in TaskRow, Becomes(t, q), KnowsSale(q), OnlyTask(t)
    PROVE  HouseInv'
<1>1. FateMatchesStatus'
  BY DEF HouseInv, HousePart, FateMatchesStatus, OnlyTask, vars
<1>2. bids' = bids /\ now' = now /\ req' = req /\ orders' = orders /\ lot' = lot
      /\ auction' \in Auction
  BY HouseFacts DEF OnlyTask, vars
<1>3. QED
  BY <1>1, <1>2, NoSaleStep
---------------------------------------------------------------------------
(***************************************************************************)
(* The operations.                                                         *)
(***************************************************************************)
LEMMA WaitingKeeps ==
    ASSUME HouseInv, NEW t \in Worker, NEW pc \in TaskPC, Waiting(t, pc), OnlyTask(t)
    PROVE  HouseInv'
<1> DEFINE q == [NoTask EXCEPT !.pc = pc]
<1>1. q \in TaskRow /\ KnowsSale(q) /\ Becomes(t, q)
  BY IdleTask DEF Waiting
<1> HIDE DEF q
<1>2. QED
  BY <1>1, TaskOnly

LEMMA ReadsKeep ==
    ASSUME HouseInv, NEW t \in Worker,
           \/ ReadPublish(t) \/ CronStart(t) \/ ReadStart(t) \/ CronEnd(t) \/ ReadCancel(t)
           \/ Fail(t)
    PROVE  HouseInv'
<1>1. {"publishCommit", "start", "startCommit", "end", "cancelCommit"} \subseteq TaskPC
  BY DEF TaskPC
<1>2. CASE Fail(t)
  BY <1>2, IdleTask, TaskOnly DEF Fail
<1>3. CASE ReadPublish(t) \/ CronStart(t) \/ ReadStart(t) \/ CronEnd(t) \/ ReadCancel(t)
  <2>1. PICK pc \in {"publishCommit", "start", "startCommit", "end", "cancelCommit"} :
           Waiting(t, pc) /\ OnlyTask(t)
    BY <1>3 DEF ReadPublish, CronStart, ReadStart, CronEnd, ReadCancel
  <2>2. QED
    BY <1>1, <2>1, WaitingKeeps
<1>4. QED
  BY <1>2, <1>3

LEMMA ReadEndKeeps ==
    ASSUME HouseInv, NEW t \in Worker, ReadEnd(t)
    PROVE  HouseInv'
<1>1. PICK s \in Winners :
         Becomes(t, [pc |-> "endCommit", winner |-> s.winner, met |-> s.met, saw |-> Len(bids),
                     price |-> IF s.price > 0 THEN s.price ELSE auction.currentPrice])
  BY DEF ReadEnd
<1> DEFINE p == IF s.price > 0 THEN s.price ELSE auction.currentPrice
           q == [pc |-> "endCommit", winner |-> s.winner, met |-> s.met, saw |-> Len(bids),
                 price |-> p]
<1>2. /\ s \in [winner : Nat, price : Nat, met : BOOLEAN]
      /\ s.winner # 0 => Sellable(s.winner, s.price)
      /\ s.winner # 0 => Unbeaten(s.winner, s.price, Len(bids))
  BY <1>1, HouseFacts, WinnerSells
<1>3. p \in Nat /\ (s.winner # 0 => p = s.price)
  <2>1. auction.currentPrice \in Nat
    BY HouseFacts, AuctionTypes
  <2>2. s.winner # 0 => s.price > 0
    <3>1. \A j \in 1..Len(bids) : bids[j].amount > 0
      BY DEF HouseInv, HousePart, BookPositive
    <3>2. QED
      BY <1>2, <3>1 DEF Sellable
  <2>3. QED
    BY <1>2, <2>1, <2>2
<1> HIDE DEF p
<1>4. q \in TaskRow
  BY <1>2, <1>3, HouseFacts DEF TaskRow, TaskPC
<1>5. KnowsSale(q)
  BY <1>2, <1>3 DEF KnowsSale
<1>6. Becomes(t, q) /\ OnlyTask(t)
  BY <1>1 DEF p, ReadEnd
<1> HIDE DEF q
<1>7. QED
  BY <1>4, <1>5, <1>6, TaskOnly

LEMMA CronDutchKeeps ==
    ASSUME HouseInv, NEW t \in Worker, CronDutch(t)
    PROVE  HouseInv'
<1> DEFINE p == auction.currentPrice - DutchDecrement
           q == [NoTask EXCEPT !.pc = "dutchCommit", !.price = p]
<1>1. CASE Waiting(t, "end")
  BY <1>1, WaitingKeeps DEF CronDutch, TaskPC
<1>2. CASE p > StartPrice /\ Becomes(t, q)
  <2>1. p \in Nat
    <3>1. auction.currentPrice \in Nat /\ DutchDecrement \in Nat /\ StartPrice \in Nat
      BY HouseFacts, AuctionTypes, HouseAssumption, BiddingAssumption
    <3>2. QED
      BY <1>2, <3>1
  <2>2. q \in TaskRow /\ KnowsSale(q)
    BY <2>1, IdleTask
  <2>3. OnlyTask(t)
    BY DEF CronDutch
  <2> HIDE DEF q
  <2>4. QED
    BY <1>2, <2>2, <2>3, TaskOnly
<1>3. QED
  <2>1. auction.currentPrice \in Nat /\ DutchDecrement \in Nat /\ StartPrice \in Nat
    BY HouseFacts, AuctionTypes, HouseAssumption, BiddingAssumption
  <2>2. p <= StartPrice \/ p > StartPrice
    BY <2>1
  <2>3. Waiting(t, "end") \/ (~(p <= StartPrice) /\ Becomes(t, q))
    BY DEF CronDutch
  <2>4. QED
    BY <1>1, <1>2, <2>2, <2>3

LEMMA StatusCommitsKeep ==
    ASSUME HouseInv, NEW t \in Worker,
           CommitPublish(t) \/ CommitStart(t) \/ CommitDutch(t) \/ CommitCancel(t)
    PROVE  HouseInv'
<1>1. /\ auction \in Auction /\ now \in Nat /\ task[t] \in TaskRow /\ task[t].price \in Nat
      /\ OpeningPrice \in Nat
  BY HouseFacts, BiddingAssumption DEF TaskRow
<1>2. NoTask \in TaskRow /\ KnowsSale(NoTask)
  BY IdleTask
<1>3. CASE CommitPublish(t)
  <2>1. auction' \in Auction /\ auction'.status = "PUBLISHED"
    BY <1>1, <1>3 DEF CommitPublish, To, Auction, Status
  <2>2. FateMatchesStatus'
    BY <2>1 DEF FateMatchesStatus
  <2>3. QED
    BY <1>2, <1>3, <2>1, <2>2, NoSaleStep DEF CommitPublish
<1>4. CASE CommitStart(t)
  <2>1. auction' \in Auction /\ auction'.status = "LIVE"
    BY <1>1, <1>4 DEF CommitStart, To, Auction, Status
  <2>2. FateMatchesStatus'
    BY <2>1 DEF FateMatchesStatus
  <2>3. QED
    BY <1>2, <1>4, <2>1, <2>2, NoSaleStep DEF CommitStart
<1>5. CASE CommitDutch(t)
  <2>1. auction' \in Auction /\ auction'.status = auction.status /\ lot' = lot
    BY <1>1, <1>5 DEF CommitDutch, Auction
  <2>2. FateMatchesStatus'
    BY <2>1 DEF FateMatchesStatus, HouseInv, HousePart
  <2>3. QED
    BY <1>2, <1>5, <2>1, <2>2, NoSaleStep DEF CommitDutch
<1>6. CASE CommitCancel(t)
  <2>1. auction' \in Auction /\ auction'.status = "CANCELLED"
    BY <1>1, <1>6 DEF CommitCancel, To, Auction, Status
  <2>2. lot' = [lot EXCEPT !.status = "withdrawn"] /\ lot'.status = "withdrawn"
    BY <1>6, HouseFacts DEF CommitCancel, LotRecord
  <2>3. FateMatchesStatus'
    BY <2>1, <2>2 DEF FateMatchesStatus
  <2>4. "withdrawn" \in LotStatus \ {"sold"}
    BY DEF LotStatus
  <2>5. QED
    BY <1>2, <1>6, <2>1, <2>2, <2>3, <2>4, NoSaleStep DEF CommitCancel
<1>7. QED
  BY <1>3, <1>4, <1>5, <1>6

LEMMA ArchiveKeeps ==
    ASSUME HouseInv, Archive
    PROVE  HouseInv'
<1>1. auction' \in Auction /\ auction'.status = "ARCHIVED"
  BY HouseFacts DEF Archive, To, Auction, Status
<1>2. auction.status \in {"COMPLETED", "CANCELLED"}
  BY DEF Archive, Allowed, From
<1>3. FateMatchesStatus'
  BY <1>1, <1>2 DEF FateMatchesStatus, HouseInv, HousePart, Archive, house
<1>4. IInv' /\ BookPositive' /\ RowsKept
  BY <1>1, BookAsItIs DEF Archive
<1>5. lot' = lot /\ orders' = orders /\ task' = task
  BY DEF Archive, house
<1>6. QED
  BY <1>3, <1>4, <1>5, SalesAsTheyAre, TasksWait, HouseFacts DEF HouseInv, HousePart, HouseTyped

\* The bid service never changes the status of an auction.
LEMMA StatusStays ==
    ASSUME HouseInv, [Next]_vars
    PROVE  auction'.status = auction.status
<1>1. auction \in Auction
  BY HouseFacts
<1>2. ASSUME NEW r \in Request,
             \/ CommitBid(r) \/ MarkReserveMet(r) \/ CommitAnswer(r)
             \/ SetProxyPrice(r) \/ CommitRetract(r)
      PROVE  auction'.status = auction.status
  <2>1. CommitBid(r) => auction'.status = auction.status
    BY <1>1 DEF CommitBid, Auction
  <2>2. MarkReserveMet(r) \/ CommitAnswer(r) => auction'.status = auction.status
    BY <1>1 DEF MarkReserveMet, CommitAnswer, Auction
  <2>3. SetProxyPrice(r) \/ CommitRetract(r) => auction'.status = auction.status
    BY <1>1 DEF SetProxyPrice, CommitRetract, AuctionAfterRetract, Auction
  <2>4. QED
    BY <1>2, <2>1, <2>2, <2>3
<1>3. QED
  BY <1>2, AuctionChange

LEMMA BidsKeep ==
    ASSUME HouseInv, [Next]_vars, UNCHANGED house
    PROVE  HouseInv'
<1>1. IInv' /\ RowsKept /\ BookPositive'
  BY NextIInv, StepKeepsRows, BookStaysPositive DEF HouseInv, HousePart
<1>2. lot' = lot /\ orders' = orders /\ task' = task
  BY DEF house
<1>3. auction'.status = auction.status
  BY StatusStays
<1>4. FateMatchesStatus'
  BY <1>2, <1>3 DEF FateMatchesStatus, HouseInv, HousePart
<1>5. QED
  BY <1>1, <1>2, <1>4, SalesAsTheyAre, TasksWait, HouseFacts DEF HouseInv, HousePart, HouseTyped
\* The transaction of end.
LEMMA EndedAuction ==
    ASSUME HouseInv, NEW t \in Worker, CommitEnd(t)
    PROVE  auction' \in Auction /\ auction'.status = "COMPLETED" /\ now' = now /\ req' = req
<1>1. task[t].price \in Nat /\ task[t].met \in BOOLEAN /\ auction \in Auction /\ now \in Nat
  BY HouseFacts DEF TaskRow
<1>2. auction' = [auction EXCEPT !.status = "COMPLETED", !.actualEnd = now,
                                 !.reserveMet = task[t].met, !.currentPrice = task[t].price]
  BY DEF CommitEnd, To
<1>3. now' = now /\ req' = req
  BY DEF CommitEnd
<1>4. QED
  BY <1>1, <1>2, <1>3 DEF Auction, Status

LEMMA PassInKeeps ==
    ASSUME HouseInv, NEW t \in Worker, CommitEnd(t), task[t].winner = 0
    PROVE  HouseInv'
<1>1. /\ lot' = [lot EXCEPT !.status = "unsold"] /\ bids' = bids /\ orders' = orders
      /\ Becomes(t, NoTask)
  BY DEF CommitEnd
<1>2. FateMatchesStatus'
  BY <1>1, EndedAuction, HouseFacts DEF FateMatchesStatus, LotRecord
<1>3. "unsold" \in LotStatus \ {"sold"}
  BY DEF LotStatus
<1>4. QED
  BY <1>1, <1>2, <1>3, EndedAuction, IdleTask, NoSaleStep

\* A sale marks one row of the book and leaves the rest of it alone.
LEMMA SellRows ==
    ASSUME HouseInv, NEW t \in Worker, CommitEnd(t), task[t].winner # 0
    PROVE  /\ bids' \in Seq(Bid) /\ Len(bids') = Len(bids) /\ RowsKept
           /\ \A i \in 1..Len(bids) : bids'[i].reason = bids[i].reason
<1> DEFINE w == task[t].winner
<1>1. w \in 1..Len(bids) /\ bids[w] \in Bid
  BY HouseFacts DEF HouseInv, HousePart, KnowsSale, CommitEnd, Sellable
<1>2. bids' = [bids EXCEPT ![w] = [bids[w] EXCEPT !.winning = TRUE]]
  BY DEF CommitEnd
<1>3. [bids[w] EXCEPT !.winning = TRUE] \in Bid
  BY <1>1 DEF Bid
<1> HIDE DEF w
<1>4. bids' \in Seq(Bid) /\ Len(bids') = Len(bids)
  BY <1>1, <1>2, <1>3, HouseFacts
<1>5. ASSUME NEW i \in 1..Len(bids)
      PROVE  Kept(bids[i], bids'[i]) /\ bids'[i].reason = bids[i].reason
  <2>1. bids'[i] \in {bids[i], [bids[i] EXCEPT !.winning = TRUE]} /\ bids[i] \in Bid
    BY <1>2, HouseFacts
  <2>2. [bids[i] EXCEPT !.winning = TRUE].reason = bids[i].reason
    BY <2>1 DEF Bid
  <2>3. QED
    BY <2>1, <2>2, KeptUpdates
<1>6. QED
  BY <1>4, <1>5, HouseFacts DEF RowsKept

LEMMA SellKeeps ==
    ASSUME HouseInv, NEW t \in Worker, CommitEnd(t), task[t].winner # 0
    PROVE  HouseInv'
<1> DEFINE q == task[t]
           w == q.winner
<1>1. /\ q \in TaskRow /\ Sellable(w, q.price) /\ Unbeaten(w, q.price, q.saw)
      /\ w \in 1..Len(bids)
      /\ q.price \in Nat /\ w \in Nat /\ q.saw \in Nat
  BY HouseFacts DEF HouseInv, HousePart, KnowsSale, CommitEnd, Sellable, TaskRow
<1>2. /\ bids' = [bids EXCEPT ![w].winning = TRUE]
      /\ lot' = [status |-> "sold", hammer |-> q.price, winner |-> bids[w].user]
      /\ orders' = orders \cup {Order(q)} /\ ~Ordered(w)
      /\ Becomes(t, NoTask)
  BY DEF CommitEnd
<1>3. bids[w] \in Bid /\ bids[w].user \in User
  BY <1>1, HouseFacts DEF Bid
<1>4. bids' \in Seq(Bid) /\ Len(bids') = Len(bids) /\ RowsKept
  BY SellRows
<1>5. IInv' /\ BookPositive'
  BY <1>4, EndedAuction, HouseWrites
<1>6. task' \in [Worker -> TaskRow] /\ \A u \in Worker : KnowsSale(task[u])'
  BY <1>2, <1>4, IdleTask, TaskMoves
<1>7. lot' \in LotRecord /\ Order(q) \in OrderRow
  BY <1>1, <1>2, <1>3 DEF LotRecord, LotStatus, OrderRow, Order
<1>8. PICK o : /\ o = Order(q) /\ o.bid = w /\ o.hammer = q.price /\ o.buyer = bids[w].user
               /\ o.saw = q.saw
  <2>1. /\ Order(q).bid = w /\ Order(q).hammer = q.price /\ Order(q).buyer = bids[w].user
        /\ Order(q).saw = q.saw
    BY DEF Order
  <2>2. QED
    BY <2>1
<1>9. OrderBacked(o)'
  <2>1. /\ Sellable(o.bid, o.hammer) /\ bids[o.bid].user = o.buyer
        /\ Unbeaten(o.bid, o.hammer, o.saw)
    BY <1>1, <1>8
  <2>2. /\ Sellable(o.bid, o.hammer)' /\ bids'[o.bid].user = bids[o.bid].user
        /\ Unbeaten(o.bid, o.hammer, o.saw)'
    BY <1>4, <2>1, SellableKept, UnbeatenKept
  <2>3. QED
    BY <2>1, <2>2 DEF OrderBacked
<1>10. OnceEach'
  BY <1>2, <1>8 DEF HouseInv, HousePart, OnceEach, Ordered
<1>11. SoldLotHasOrder'
  BY <1>2, <1>8 DEF SoldLotHasOrder
<1>12. FateMatchesStatus'
  BY <1>2, EndedAuction DEF FateMatchesStatus
<1>13. orders' \subseteq OrderRow
  BY <1>2, <1>7, HouseFacts
<1>14. (\A x \in orders : OrderBacked(x))'
  <2>1. ASSUME NEW p \in orders PROVE OrderBacked(p)'
    BY <1>4, OrdersKept
  <2>2. \A p \in orders' : p \in orders \/ p = o
    BY <1>2, <1>8
  <2>3. QED
    BY <1>9, <2>1, <2>2
<1>15. QED
  BY <1>5, <1>6, <1>7, <1>10, <1>11, <1>12, <1>13, <1>14 DEF HouseInv, HousePart, HouseTyped
---------------------------------------------------------------------------
LEMMA InitHouse == HouseInit => HouseInv
<1> SUFFICES ASSUME HouseInit PROVE HouseInv
  OBVIOUS
<1>1. auction \in Auction /\ bids = <<>> /\ bids \in Seq(Bid) /\ Len(bids) = 0 /\ now \in Nat
  BY BiddingAssumption, EmptySeq DEF HouseInit, Auction, Status
<1>2. /\ req \in [Request -> Call]
      /\ \A r \in Request : RefOK(req[r]) /\ CallPositive(req[r])
  BY IdleType DEF HouseInit, RefOK, CallPositive
<1>3. IInv /\ BookPositive
  BY <1>1, <1>2 DEF IInv, TypeOK, RefsOK, BookPositive
<1>4. HouseTyped /\ \A t \in Worker : KnowsSale(task[t])
  BY IdleTask DEF HouseInit, HouseTyped, LotRecord, LotStatus
<1>5. OnceEach /\ (\A o \in orders : OrderBacked(o)) /\ SoldLotHasOrder /\ FateMatchesStatus
  BY DEF HouseInit, OnceEach, SoldLotHasOrder, FateMatchesStatus
<1>6. QED
  BY <1>3, <1>4, <1>5 DEF HouseInv, HousePart

LEMMA NextHouse == HouseInv /\ [HouseNext]_allVars => HouseInv'
<1> SUFFICES ASSUME HouseInv, [HouseNext]_allVars PROVE HouseInv'
  OBVIOUS
<1>1. CASE [Next]_vars /\ UNCHANGED house
  BY <1>1, BidsKeep
<1>2. ASSUME NEW t \in Worker, Run(t)
      PROVE  HouseInv'
  BY <1>2, ReadsKeep, ReadEndKeeps, CronDutchKeeps, StatusCommitsKeep, PassInKeeps, SellKeeps
  DEF Run
<1>3. CASE Archive
  BY <1>3, ArchiveKeeps
<1>4. QED
  BY <1>1, <1>2, <1>3 DEF HouseNext, allVars

\* What end, start, cancel and the jobs know stays true of the book while bids
\* are made and retracted under them.
THEOREM HouseInvariant == HouseSpec => []HouseInv
BY InitHouse, NextHouse, PTL DEF HouseSpec
---------------------------------------------------------------------------
(***************************************************************************)
(* The bid service in the house: what its calls know of the book           *)
(* (BookInv of BiddingSafety) stays true while the operations write.       *)
(***************************************************************************)
\* What an operation may do to the book: mark the bid it sells.
LEMMA HouseTouches ==
    ASSUME HouseInv, Archive \/ \E t \in Worker : Run(t)
    PROVE  /\ req' = req /\ RowsKept /\ Len(bids') = Len(bids)
           /\ \A i \in 1..Len(bids) : bids'[i].reason = bids[i].reason
           /\ auction'.bidCount = auction.bidCount
<1>0. auction \in Auction /\ Len(bids) \in Nat
  BY HouseFacts
<1>1. ASSUME bids' = bids
      PROVE  /\ RowsKept /\ Len(bids') = Len(bids)
             /\ \A i \in 1..Len(bids) : bids'[i].reason = bids[i].reason
  BY <1>1, HouseFacts, SameRowsKept
<1>2. CASE Archive
  <2>1. bids' = bids /\ req' = req /\ auction'.bidCount = auction.bidCount
    BY <1>0, <1>2 DEF Archive, Auction
  <2>2. QED
    BY <1>1, <2>1
<1>3. ASSUME NEW t \in Worker, Run(t), ~CommitEnd(t)
      PROVE  bids' = bids /\ req' = req /\ auction'.bidCount = auction.bidCount
  <2>1. CASE OnlyTask(t)
    BY <2>1 DEF OnlyTask, vars
  <2>2. CASE CommitPublish(t) \/ CommitStart(t) \/ CommitCancel(t) \/ CommitDutch(t)
    BY <1>0, <2>2 DEF CommitPublish, CommitStart, CommitCancel, CommitDutch, Auction
  <2>3. QED
    BY <1>3, <2>1, <2>2 DEF Run, ReadPublish, CronStart, ReadStart, CronEnd, ReadEnd,
       ReadCancel, CronDutch, Fail
<1>4. ASSUME NEW t \in Worker, CommitEnd(t)
      PROVE  /\ req' = req /\ auction'.bidCount = auction.bidCount
             /\ RowsKept /\ Len(bids') = Len(bids)
             /\ \A i \in 1..Len(bids) : bids'[i].reason = bids[i].reason
  <2>1. req' = req /\ auction'.bidCount = auction.bidCount
    BY <1>0, <1>4 DEF CommitEnd, Auction
  <2>2. CASE task[t].winner # 0
    BY <1>4, <2>1, <2>2, SellRows
  <2>3. CASE task[t].winner = 0
    <3>1. bids' = bids
      BY <1>4, <2>3 DEF CommitEnd
    <3>2. QED
      BY <1>1, <2>1, <3>1
  <2>4. QED
    BY <2>2, <2>3
<1>5. QED
  BY <1>1, <1>2, <1>3, <1>4

\* A step of the house is one of the bid service or touches the book like that.
LEMMA HouseCases ==
    ASSUME [HouseNext]_allVars
    PROVE  \/ [Next]_vars /\ UNCHANGED house
           \/ Archive \/ \E t \in Worker : Run(t)
BY DEF HouseNext, allVars

LEMMA HouseKeepsRows ==
    ASSUME HouseInv, [HouseNext]_allVars
    PROVE  RowsKept /\ IInv /\ IInv'
<1>1. IInv /\ IInv'
  BY NextHouse DEF HouseInv
<1>2. RowsKept
  BY <1>1, HouseCases, HouseTouches, StepKeepsRows
<1>3. QED
  BY <1>1, <1>2

LEMMA InitBook == HouseInit => BookInv /\ CountSound
<1> SUFFICES ASSUME HouseInit PROVE BookInv /\ CountSound
  OBVIOUS
<1>1. /\ bids = <<>> /\ Len(bids) = 0 /\ DOMAIN bids = {} /\ auction.bidCount = 0
      /\ \A r \in Request : req[r].pc = "idle"
  BY EmptySeq, IdleType DEF HouseInit
<1>2. SawEarlier /\ ProxyWithinMax /\ BeatsWhatItSaw
  BY <1>1 DEF SawEarlier, ProxyWithinMax, BeatsWhatItSaw
<1>3. \A r \in Request : BookCall(req[r])
  BY <1>1 DEF BookCall, SawLower, WithinMandate, PriceOfABid
<1>4. Uncounted = {} /\ Counted = {}
  BY <1>1 DEF Uncounted, Counted
<1>5. CountSound
  BY <1>1, <1>4, FS_EmptySet DEF CountSound
<1>6. QED
  BY <1>2, <1>3, <1>5 DEF BookInv

LEMMA NextBook == HouseInv /\ BookInv /\ [HouseNext]_allVars => BookInv'
<1> SUFFICES ASSUME HouseInv, BookInv, [HouseNext]_allVars PROVE BookInv'
  OBVIOUS
<1>1. RowsKept /\ IInv /\ IInv'
  BY HouseKeepsRows
<1>2. CASE [Next]_vars
  BY <1>1, <1>2, NextBookInv
<1>3. CASE Archive \/ \E t \in Worker : Run(t)
  <2>1. req' = req /\ Len(bids') = Len(bids) /\ Len(bids) \in Nat
    BY <1>3, HouseTouches, HouseFacts
  <2>2. OutsideWrite
    BY <1>1, <2>1 DEF OutsideWrite, OutsideRows
  <2>3. QED
    BY <1>1, <2>2, OutsideKeepsBook
<1>4. QED
  BY <1>2, <1>3, HouseCases

LEMMA NextCount == HouseInv /\ CountSound /\ [HouseNext]_allVars => CountSound'
<1> SUFFICES ASSUME HouseInv, CountSound, [HouseNext]_allVars PROVE CountSound'
  OBVIOUS
<1>1. IInv /\ IInv'
  BY HouseKeepsRows
<1>2. CASE [Next]_vars
  <2>1. auction.bidCount \in Int /\ auction'.bidCount \in Int
    BY <1>1 DEF IInv, TypeOK, Auction
  <2>2. QED
    BY <1>1, <1>2, <2>1, CountStep DEF CountSound
<1>3. CASE Archive \/ \E t \in Worker : Run(t)
  <2>1. /\ req' = req /\ Len(bids') = Len(bids) /\ auction'.bidCount = auction.bidCount
        /\ \A i \in 1..Len(bids) : bids'[i].reason = bids[i].reason
    BY <1>3, HouseTouches
  <2>2. DOMAIN bids = 1..Len(bids) /\ DOMAIN bids' = 1..Len(bids')
    BY <1>1 DEF IInv, TypeOK
  <2>3. Uncounted' = Uncounted /\ Counted' = Counted
    BY <2>1, <2>2 DEF Uncounted, Counted
  <2>4. QED
    BY <2>1, <2>3 DEF CountSound
<1>4. QED
  BY <1>2, <1>3, HouseCases
---------------------------------------------------------------------------
(***************************************************************************)
(* The displayed price, where no job lowers it: end keeps the price it     *)
(* read or writes the amount of a bid, start writes the opening price.     *)
(***************************************************************************)
PriceFrom(a) ==
    a \in {OpeningPrice, StartPrice} \/ \E i \in 1..Len(bids) : a = bids[i].amount

PriceTask(q) == q.pc # "dutchCommit" /\ (q.pc = "endCommit" => PriceFrom(q.price))

HousePriced == PriceIsABid /\ \A t \in Worker : PriceTask(task[t])

LEMMA PriceFromKept ==
    ASSUME HouseInv, RowsKept, NEW a, PriceFrom(a)
    PROVE  PriceFrom(a)'
<1>1. \A i \in 1..Len(bids) : i \in 1..Len(bids') /\ bids'[i].amount = bids[i].amount
  BY HouseFacts DEF RowsKept, Kept
<1>2. QED
  BY <1>1 DEF PriceFrom

\* Without a winner determineWinner has no price.
LEMMA NoWinnerNoPrice ==
    ASSUME TypeOK, NEW s \in Winners, s.winner = 0
    PROVE  s.price = 0
<1>1. 0 \notin Active
  BY ActiveInDomain
<1>2. CASE s = NoSale
  BY <1>2 DEF NoSale
<1>3. ASSUME NEW h \in Active, NEW a, NEW m, s = Sale(h, a, m)
      PROVE  FALSE
  BY <1>1, <1>3 DEF Sale
<1>4. QED
  BY <1>2, <1>3, EarliestExists DEF Winners, FirstByAmount

\* What an operation writes as the price, and what it leaves a later step.
LEMMA OperationPrices ==
    ASSUME AuctionType # "DUTCH", HouseInv, HousePriced, NEW t \in Worker, Run(t)
    PROVE  /\ PriceFrom(auction'.currentPrice)
           /\ \E q : Becomes(t, q) /\ PriceTask(q)
<1>1. /\ auction \in Auction /\ PriceFrom(auction.currentPrice) /\ PriceTask(task[t])
      /\ PriceTask(NoTask)
  BY HouseFacts DEF HousePriced, PriceIsABid, PriceFrom, PriceTask, NoTask
<1>2. CASE ReadEnd(t)
  <2>1. PICK s \in Winners :
          Becomes(t, [pc |-> "endCommit", winner |-> s.winner, met |-> s.met, saw |-> Len(bids),
                      price |-> IF s.price > 0 THEN s.price ELSE auction.currentPrice])
    BY <1>2 DEF ReadEnd
  <2>2. s.price \in Nat /\ (s.winner # 0 => Sellable(s.winner, s.price))
        /\ (s.winner = 0 => s.price = 0)
    BY HouseFacts, WinnerSells, NoWinnerNoPrice
  <2>3. PriceFrom(IF s.price > 0 THEN s.price ELSE auction.currentPrice)
    BY <1>1, <2>2 DEF Sellable, PriceFrom
  <2>4. auction' = auction
    BY <1>2 DEF ReadEnd, OnlyTask, vars
  <2>5. QED
    BY <1>1, <2>1, <2>3, <2>4 DEF PriceTask
<1>3. CASE CommitEnd(t)
  <2>1. auction'.currentPrice = task[t].price /\ task[t].pc = "endCommit" /\ Becomes(t, NoTask)
    BY <1>1, <1>3 DEF CommitEnd, Auction
  <2>2. QED
    BY <1>1, <2>1 DEF PriceTask
<1>4. CASE CommitStart(t)
  <2>1. auction'.currentPrice = OpeningPrice /\ Becomes(t, NoTask)
    BY <1>1, <1>4 DEF CommitStart, Auction
  <2>2. QED
    BY <1>1, <2>1 DEF PriceFrom
<1>5. CASE CommitPublish(t) \/ CommitCancel(t)
  <2>1. auction'.currentPrice = auction.currentPrice /\ Becomes(t, NoTask)
    BY <1>1, <1>5 DEF CommitPublish, CommitCancel, Auction
  <2>2. QED
    BY <1>1, <2>1
<1>6. CASE \/ ReadPublish(t) \/ CronStart(t) \/ ReadStart(t) \/ CronEnd(t) \/ ReadCancel(t)
           \/ Fail(t)
  <2>1. auction' = auction
    BY <1>6 DEF ReadPublish, CronStart, ReadStart, CronEnd, ReadCancel, Fail, OnlyTask, vars
  <2>2. \/ Becomes(t, NoTask)
        \/ \E pc \in {"publishCommit", "start", "startCommit", "end", "cancelCommit"} :
             Waiting(t, pc)
    BY <1>6 DEF ReadPublish, CronStart, ReadStart, CronEnd, ReadCancel, Fail
  <2>3. \A pc \in {"publishCommit", "start", "startCommit", "end", "cancelCommit"} :
          PriceTask([NoTask EXCEPT !.pc = pc])
    BY DEF PriceTask, NoTask
  <2>4. QED
    BY <1>1, <2>1, <2>2, <2>3 DEF Waiting
<1>7. ~CronDutch(t) /\ ~CommitDutch(t)
  BY <1>1 DEF CronDutch, CommitDutch, PriceTask
<1>8. QED
  BY <1>2, <1>3, <1>4, <1>5, <1>6, <1>7 DEF Run

LEMMA NextPriced ==
    ASSUME AuctionType # "DUTCH", HouseInv, BookInv, HousePriced, [HouseNext]_allVars
    PROVE  HousePriced'
<1>1. RowsKept /\ IInv /\ IInv' /\ task \in [Worker -> TaskRow]
      /\ \A t \in Worker : PriceTask(task[t])
  BY HouseKeepsRows, HouseFacts DEF HousePriced
<1>2. ASSUME NEW q, PriceTask(q)
      PROVE  PriceTask(q)'
  BY <1>1, <1>2, PriceFromKept DEF PriceTask
<1>3. CASE [Next]_vars /\ UNCHANGED house
  <2>1. PriceIsABid'
    BY <1>1, <1>3, PriceStep DEF HousePriced
  <2>2. task' = task
    BY <1>3 DEF house
  <2>3. QED
    BY <1>1, <1>2, <2>1, <2>2 DEF HousePriced, PriceTask, PriceFrom
<1>4. CASE Archive
  <2>1. bids' = bids /\ auction'.currentPrice = auction.currentPrice /\ task' = task
    BY <1>4, HouseFacts DEF Archive, house, Auction
  <2>2. QED
    BY <2>1 DEF HousePriced, PriceIsABid, PriceTask, PriceFrom
<1>5. ASSUME NEW t \in Worker, Run(t)
      PROVE  HousePriced'
  <2>1. PICK q : Becomes(t, q) /\ PriceTask(q) /\ PriceFrom(auction'.currentPrice)
    BY <1>5, OperationPrices
  <2>2. \A u \in Worker : PriceTask(task'[u])
    BY <1>1, <2>1 DEF Becomes
  <2>3. (\A u \in Worker : PriceTask(task[u]))'
    <3>1. ASSUME NEW u \in Worker
          PROVE  PriceTask(task[u])'
      <4>1. PriceTask(task'[u])
        BY <2>2
      <4>2. ASSUME task'[u].pc = "endCommit"
            PROVE  \/ task'[u].price \in {OpeningPrice, StartPrice}
                   \/ \E i \in 1..Len(bids') : task'[u].price = bids'[i].amount
        <5>1. PriceFrom(task'[u].price)
          BY <4>1, <4>2 DEF PriceTask
        <5>2. \A i \in 1..Len(bids) : i \in 1..Len(bids') /\ bids'[i].amount = bids[i].amount
          BY <1>1, HouseFacts DEF RowsKept, Kept
        <5>3. QED
          BY <5>1, <5>2 DEF PriceFrom
      <4>3. QED
        BY <4>1, <4>2 DEF PriceTask, PriceFrom
    <3>2. QED
      BY <3>1
  <2>4. PriceFrom(auction.currentPrice)'
    BY <1>1, <2>1, PriceFromKept DEF PriceFrom
  <2>5. PriceIsABid'
    BY <1>1, <2>4 DEF PriceFrom, PriceIsABid, IInv, TypeOK
  <2>6. QED
    BY <2>3, <2>5 DEF HousePriced
<1>6. QED
  BY <1>3, <1>4, <1>5, HouseCases

LEMMA InitPriced == HouseInit => HousePriced
BY DEF HouseInit, HousePriced, PriceIsABid, PriceTask, NoTask
---------------------------------------------------------------------------
(***************************************************************************)
(* The theorems.                                                           *)
(***************************************************************************)
\* However many operations overlap with each other and with the bids, the rows
\* of the auction, its lots and its orders keep their types: determineWinner
\* always finds a row, and a Dutch price never falls below zero.
THEOREM HouseTypeCorrect == HouseSpec => [](TypeOK /\ HouseTypeOK)
<1>1. HouseInv => TypeOK /\ HouseTypeOK
  BY DEF HouseInv, HousePart, HouseTyped, IInv, HouseTypeOK, TaskRow, LotRecord, OrderRow
<1>2. QED
  BY <1>1, HouseInvariant, PTL

\* end decides on bids it read before its transaction and never looks again;
\* its orders are still true of the book: the buyer owns the bid, the price is
\* the one his type of auction gives and not above his offer, and the reserve is
\* met.
THEOREM OrdersAlwaysMatchBook == HouseSpec => []OrdersMatchBook
<1>1. HouseInv => OrdersMatchBook
  <2> SUFFICES ASSUME HouseInv, NEW o \in orders
               PROVE  /\ o.bid \in DOMAIN bids /\ bids[o.bid].user = o.buyer
                      /\ o.hammer <= bids[o.bid].amount
                      /\ PaysByRule(o.bid, o.hammer, o.saw)
                      /\ AuctionType = "DUTCH" \/ MeetsReserve(bids[o.bid].amount)
                      /\ \A p \in orders : p.bid = o.bid => p = o
    BY DEF OrdersMatchBook
  <2>1. OrderBacked(o) /\ OnceEach /\ DOMAIN bids = 1..Len(bids)
    BY HouseFacts DEF HouseInv, HousePart
  <2>2. AuctionType = "DUTCH" \/ MeetsReserve(bids[o.bid].amount)
    BY <2>1, Zenon DEF OrderBacked, Sellable
  <2>3. /\ o.bid \in DOMAIN bids /\ bids[o.bid].user = o.buyer
        /\ o.hammer <= bids[o.bid].amount
        /\ PaysByRule(o.bid, o.hammer, o.saw)
    BY <2>1 DEF OrderBacked, Sellable, Unbeaten
  <2>4. \A p \in orders : p.bid = o.bid => p = o
    BY <2>1 DEF OnceEach
  <2>5. QED
    BY <2>2, <2>3, <2>4, Zenon
<1>2. QED
  BY <1>1, HouseInvariant, PTL

\* When an order is made, and for ever after, no bid that end could see and that
\* stands was a better offer than what the buyer pays, however many bids were
\* placed, retracted or sold between the read of end and its transaction.
THEOREM BestSeenBidAlwaysWins == HouseSpec => []BestSeenBidWins
<1>1. HouseInv => BestSeenBidWins
  <2> SUFFICES ASSUME HouseInv, NEW o \in orders, NEW i \in 1..o.saw, ~bids[i].retracted
               PROVE  IF AuctionType = "DUTCH" THEN o.bid <= i
                      ELSE i # o.bid => bids[i].amount <= o.hammer
    BY DEF BestSeenBidWins
  <2>1. Unbeaten(o.bid, o.hammer, o.saw)
    BY DEF HouseInv, HousePart, OrderBacked
  <2>2. QED
    BY <2>1 DEF Unbeaten
<1>2. QED
  BY <1>1, HouseInvariant, PTL

\* A lot is shown as sold only together with the order of its winner at its
\* hammer price, whichever operations ran or crashed in between.
THEOREM SoldLotsHaveOrders == HouseSpec => []SoldLotHasOrder
<1>1. HouseInv => SoldLotHasOrder
  BY DEF HouseInv, HousePart
<1>2. QED
  BY <1>1, HouseInvariant, PTL

\* The lots of a completed, cancelled or archived auction are decided the way
\* its status says, also when end, cancel and the jobs overlap.
THEOREM FateAlwaysMatches == HouseSpec => []FateMatchesStatus
<1>1. HouseInv => FateMatchesStatus
  BY DEF HouseInv, HousePart
<1>2. QED
  BY <1>1, HouseInvariant, PTL

\* While auctions are started, ended, cancelled and archived under it, the bid
\* service still never bids for a user above his maximum, and a client's bid in
\* an ascending auction still beats every standing bid its call had seen.
THEOREM BidServiceStaysHonest == HouseSpec => [](ProxyWithinMax /\ BeatsWhatItSaw)
<1>1. BookInv => ProxyWithinMax /\ BeatsWhatItSaw
  BY DEF BookInv
<1>2. QED
  BY <1>1, InitBook, NextBook, HouseInvariant, PTL DEF HouseSpec

\* No operation rewrites who bid what, or brings a retracted bid back: end marks
\* the row of the bid it read and nothing else.
THEOREM HouseKeepsHistory == HouseSpec => HistoryIsKept
<1> DEFINE A == /\ Len(bids) <= Len(bids')
                /\ \A i \in DOMAIN bids :
                     /\ bids'[i].user = bids[i].user /\ bids'[i].amount = bids[i].amount
                     /\ bids'[i].type = bids[i].type /\ bids'[i].max = bids[i].max
                     /\ bids[i].retracted => bids'[i].retracted
<1>1. HouseInv /\ [HouseNext]_allVars => [A]_vars
  <2> SUFFICES ASSUME HouseInv, [HouseNext]_allVars PROVE A
    OBVIOUS
  <2>1. RowsKept /\ DOMAIN bids = 1..Len(bids)
    BY HouseKeepsRows, HouseFacts
  <2>2. QED
    BY <2>1 DEF RowsKept, Kept
<1>2. QED
  BY <1>1, HouseInvariant, PTL DEF HouseSpec, HistoryIsKept

\* bidCount still never claims more bids than their owners have left unretracted:
\* the operations write the same row of the auction, but not its count.
THEOREM HouseKeepsCount == HouseSpec => []BidCountNeverOverstates
<1>1. HouseInv /\ CountSound => BidCountNeverOverstates
  <2> SUFFICES ASSUME HouseInv, CountSound PROVE BidCountNeverOverstates
    OBVIOUS
  <2>1. /\ auction.bidCount \in Int /\ Cardinality(Uncounted) \in Nat
        /\ Cardinality(Counted) \in Nat
    BY HouseFacts, AuctionTypes, CountedFinite, FS_CardinalityType DEF CountSound
  <2>2. QED
    BY <2>1 DEF CountSound, BidCountNeverOverstates
<1>2. QED
  BY <1>1, InitBook, NextCount, HouseInvariant, PTL DEF HouseSpec

\* Unless the auction is a Dutch one, whose price a job lowers, the displayed
\* price stays the opening price, the start price or the amount of a bid when
\* start and end write it too, from what they read before their transactions.
THEOREM HousePriceIsABid ==
    ASSUME AuctionType # "DUTCH"
    PROVE  HouseSpec => []PriceIsABid
<1>1. HouseInv /\ BookInv /\ HousePriced /\ [HouseNext]_allVars => HousePriced'
  BY NextPriced
<1>2. HousePriced => PriceIsABid
  BY DEF HousePriced
<1>3. QED
  BY <1>1, <1>2, InitPriced, InitBook, NextBook, HouseInvariant, PTL DEF HouseSpec
=============================================================================

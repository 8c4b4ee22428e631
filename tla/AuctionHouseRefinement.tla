----------------------- MODULE AuctionHouseRefinement -----------------------
(***************************************************************************)
(* When operations of the auction service do not overlap, on one replica   *)
(* or on many, they implement AuctionSale, whatever calls of the bid       *)
(* service interleave with them.  The transactions check nothing, so what  *)
(* makes this true is that the status an operation read is the status it   *)
(* overwrites.                                                             *)
(***************************************************************************)
EXTENDS AuctionHouseProofs

\* At most one operation is in progress.
Alone == \A t, u \in Worker : task[t].pc # "idle" /\ task[u].pc # "idle" => t = u

Undecided == {"DRAFT", "PUBLISHED", "LIVE"}

\* The status an operation read is still there when it commits.
ReadIsCurrent(q) ==
    /\ q.pc = "publishCommit" => auction.status = "DRAFT"
    /\ q.pc = "startCommit" => auction.status = "PUBLISHED"
    /\ q.pc = "endCommit" => auction.status = "LIVE"
    /\ q.pc = "cancelCommit" => auction.status \in Undecided

\* Nothing is sold or withdrawn before the auction is over, and no code enters
\* PRE_BID.
NothingDecided == auction.status \in Undecided => orders = {} /\ lot.status = "pending"

SerialPart ==
    /\ \A t \in Worker : ReadIsCurrent(task[t])
    /\ auction.status # "PRE_BID"
    /\ NothingDecided

SerialInv == HouseInv /\ SerialPart

SaleStep == Promise!Next \/ UNCHANGED Promise!sale
---------------------------------------------------------------------------
LEMMA SerialFacts ==
    ASSUME SerialInv, NEW t \in Worker
    PROVE  /\ auction \in Auction /\ lot \in LotRecord /\ task \in [Worker -> TaskRow]
           /\ task[t] \in TaskRow /\ ReadIsCurrent(task[t])
           /\ auction.status # "PRE_BID" /\ NothingDecided
           /\ NoTask.pc = "idle" /\ \A pc : [NoTask EXCEPT !.pc = pc].pc = pc
BY HouseFacts DEF SerialInv, SerialPart, NoTask

\* A step that keeps status, lots and orders.
LEMMA NothingSold ==
    ASSUME SerialInv, NEW t \in Worker, NEW q, Becomes(t, q), ReadIsCurrent(q),
           auction'.status = auction.status, lot' = lot, orders' = orders
    PROVE  SerialPart' /\ SaleStep
<1>1. \A u \in Worker : task'[u] = q \/ task'[u] = task[u]
  BY SerialFacts DEF Becomes
<1>2. \A u \in Worker : ReadIsCurrent(task[u])'
  BY <1>1 DEF SerialInv, SerialPart, ReadIsCurrent
<1>3. (auction.status # "PRE_BID")' /\ NothingDecided'
  BY DEF SerialInv, SerialPart, NothingDecided
<1>4. SaleStep
  BY DEF SaleStep, Promise!sale
<1>5. QED
  BY <1>2, <1>3, <1>4 DEF SerialPart

LEMMA WaitsForCommit ==
    ASSUME SerialInv, NEW t \in Worker, NEW pc, Waiting(t, pc), OnlyTask(t),
           pc = "publishCommit" => auction.status = "DRAFT",
           pc = "startCommit" => auction.status = "PUBLISHED",
           pc = "cancelCommit" => auction.status \in Undecided,
           pc # "endCommit"
    PROVE  SerialPart' /\ SaleStep
<1> DEFINE q == [NoTask EXCEPT !.pc = pc]
<1>1. q.pc = pc
  BY SerialFacts
<1>2. Becomes(t, q)
  BY DEF Waiting
<1> HIDE DEF q
<1>3. ReadIsCurrent(q)
  BY <1>1 DEF ReadIsCurrent
<1>4. auction'.status = auction.status /\ lot' = lot /\ orders' = orders
  BY DEF OnlyTask, vars
<1>5. QED
  BY <1>2, <1>3, <1>4, NothingSold

LEMMA SerialReads ==
    ASSUME SerialInv, NEW t \in Worker,
           \/ ReadPublish(t) \/ CronStart(t) \/ ReadStart(t) \/ CronEnd(t) \/ ReadEnd(t)
           \/ ReadCancel(t) \/ CronDutch(t) \/ CommitDutch(t) \/ Fail(t)
    PROVE  SerialPart' /\ SaleStep
<1>1. auction \in Auction /\ auction.status # "PRE_BID" /\ NoTask.pc = "idle"
  BY SerialFacts
<1>2. CASE ReadPublish(t)
  BY <1>2, WaitsForCommit DEF ReadPublish, Allowed, From
<1>3. CASE CronStart(t) \/ CronEnd(t)
  BY <1>3, WaitsForCommit DEF CronStart, CronEnd
<1>4. CASE ReadStart(t)
  BY <1>1, <1>4, WaitsForCommit DEF ReadStart, Allowed, From
<1>5. CASE ReadCancel(t)
  BY <1>1, <1>5, WaitsForCommit DEF ReadCancel, Allowed, From, Undecided
<1>6. ASSUME NEW q, Becomes(t, q), OnlyTask(t), ReadIsCurrent(q)
      PROVE  SerialPart' /\ SaleStep
  <2>1. auction'.status = auction.status /\ lot' = lot /\ orders' = orders
    BY <1>6 DEF OnlyTask, vars
  <2>2. QED
    BY <1>6, <2>1, NothingSold
<1>7. CASE ReadEnd(t)
  <2>1. auction.status = "LIVE" /\ OnlyTask(t)
    BY <1>7 DEF ReadEnd, Allowed, From
  <2>2. PICK q : Becomes(t, q) /\ q.pc = "endCommit"
    BY <1>7 DEF ReadEnd
  <2>3. ReadIsCurrent(q)
    BY <2>1, <2>2 DEF ReadIsCurrent
  <2>4. QED
    BY <1>6, <2>1, <2>2, <2>3
<1>8. CASE CronDutch(t)
  <2>1. CASE Waiting(t, "end")
    BY <1>8, <2>1, WaitsForCommit DEF CronDutch
  <2>2. CASE \E n : Becomes(t, [NoTask EXCEPT !.pc = "dutchCommit", !.price = n])
    <3>1. PICK q : Becomes(t, q) /\ q.pc = "dutchCommit"
      <4>1. PICK n : Becomes(t, [NoTask EXCEPT !.pc = "dutchCommit", !.price = n])
        BY <2>2
      <4>2. [NoTask EXCEPT !.pc = "dutchCommit", !.price = n].pc = "dutchCommit"
        BY DEF NoTask
      <4>3. QED
        BY <4>1, <4>2
    <3>2. ReadIsCurrent(q) /\ OnlyTask(t)
      BY <1>8, <3>1 DEF ReadIsCurrent, CronDutch
    <3>3. QED
      BY <1>6, <3>1, <3>2
  <2>3. QED
    BY <1>8, <2>1, <2>2 DEF CronDutch
<1>9. CASE CommitDutch(t)
  <2>1. auction'.status = auction.status /\ lot' = lot /\ orders' = orders /\ Becomes(t, NoTask)
    BY <1>1, <1>9 DEF CommitDutch, Auction
  <2>2. ReadIsCurrent(NoTask)
    BY <1>1 DEF ReadIsCurrent
  <2>3. QED
    BY <2>1, <2>2, NothingSold
<1>10. CASE Fail(t)
  <2>1. ReadIsCurrent(NoTask) /\ Becomes(t, NoTask) /\ OnlyTask(t)
    BY <1>1, <1>10 DEF ReadIsCurrent, Fail
  <2>2. QED
    BY <1>6, <2>1
<1>11. QED
  BY <1>2, <1>3, <1>4, <1>5, <1>7, <1>8, <1>9, <1>10
---------------------------------------------------------------------------
(***************************************************************************)
(* The commits, when nothing else is in progress.                          *)
(***************************************************************************)
\* After a commit every operation is idle.
LEMMA NothingElse ==
    ASSUME SerialInv, Alone, NEW t \in Worker, task[t].pc # "idle", Becomes(t, NoTask)
    PROVE  \A u \in Worker : task'[u].pc = "idle"
BY SerialFacts DEF Becomes, Alone

LEMMA SerialCommits ==
    ASSUME SerialInv, Alone, NEW t \in Worker,
           CommitPublish(t) \/ CommitStart(t) \/ CommitCancel(t)
    PROVE  SerialPart' /\ SaleStep
<1>1. auction \in Auction /\ ReadIsCurrent(task[t]) /\ NothingDecided /\ lot \in LotRecord
  BY SerialFacts
<1>2. \A u \in Worker : ReadIsCurrent(task[u])'
  <2>1. task[t].pc # "idle" /\ Becomes(t, NoTask)
    BY DEF CommitPublish, CommitStart, CommitCancel
  <2>2. QED
    BY <2>1, NothingElse DEF ReadIsCurrent
<1>3. CASE CommitPublish(t)
  <2>1. /\ auction.status = "DRAFT" /\ auction'.status = "PUBLISHED"
        /\ lot' = lot /\ orders' = orders
    BY <1>1, <1>3 DEF CommitPublish, ReadIsCurrent, To, Auction
  <2>2. NothingDecided'
    BY <1>1, <2>1 DEF NothingDecided, Undecided
  <2>3. SaleStep
    BY <2>1 DEF SaleStep, Promise!Next, Promise!Publish
  <2>4. QED
    BY <1>2, <2>1, <2>2, <2>3 DEF SerialPart
<1>4. CASE CommitStart(t)
  <2>1. /\ auction.status = "PUBLISHED" /\ auction'.status = "LIVE"
        /\ lot' = lot /\ orders' = orders
    BY <1>1, <1>4 DEF CommitStart, ReadIsCurrent, To, Auction
  <2>2. NothingDecided'
    BY <1>1, <2>1 DEF NothingDecided, Undecided
  <2>3. SaleStep
    BY <2>1 DEF SaleStep, Promise!Next, Promise!Start
  <2>4. QED
    BY <1>2, <2>1, <2>2, <2>3 DEF SerialPart
<1>5. CASE CommitCancel(t)
  <2>1. /\ auction.status \in {"DRAFT", "PUBLISHED", "LIVE"} /\ auction'.status = "CANCELLED"
        /\ lot'.status = "withdrawn" /\ orders' = orders
    BY <1>1, <1>5 DEF CommitCancel, ReadIsCurrent, To, Auction, LotRecord, Undecided
  <2>2. NothingDecided'
    BY <2>1 DEF NothingDecided, Undecided
  <2>3. SaleStep
    BY <2>1 DEF SaleStep, Promise!Next, Promise!Cancel
  <2>4. QED
    BY <1>2, <2>1, <2>2, <2>3 DEF SerialPart
<1>6. QED
  BY <1>3, <1>4, <1>5

LEMMA SerialEnd ==
    ASSUME SerialInv, Alone, NEW t \in Worker, CommitEnd(t)
    PROVE  SerialPart' /\ SaleStep
<1>1. HouseInv /\ lot \in LotRecord /\ ReadIsCurrent(task[t]) /\ NothingDecided
  BY SerialFacts DEF SerialInv
<1>2. auction.status = "LIVE" /\ auction'.status = "COMPLETED" /\ orders = {}
  BY <1>1, EndedAuction DEF CommitEnd, ReadIsCurrent, NothingDecided, Undecided
<1>3. SerialPart'
  <2>1. \A u \in Worker : ReadIsCurrent(task[u])'
    <3>1. task[t].pc # "idle" /\ Becomes(t, NoTask)
      BY DEF CommitEnd
    <3>2. QED
      BY <3>1, NothingElse DEF ReadIsCurrent
  <2>2. NothingDecided'
    BY <1>2 DEF NothingDecided, Undecided
  <2>3. QED
    BY <1>2, <2>1, <2>2 DEF SerialPart
<1>4. CASE task[t].winner = 0
  <2>1. lot'.status = "unsold" /\ orders' = orders
    BY <1>1, <1>4 DEF CommitEnd, LotRecord
  <2>2. Promise!PassIn
    BY <1>2, <2>1 DEF Promise!PassIn
  <2>3. QED
    BY <1>3, <2>2 DEF SaleStep, Promise!Next
<1>5. CASE task[t].winner # 0
  <2> DEFINE o == Order(task[t])
  <2>1. lot'.status = "sold" /\ orders' = {o}
    BY <1>2, <1>5 DEF CommitEnd
  <2>2. o.buyer \in User
    <3>1. KnowsSale(task[t]) /\ task[t].pc = "endCommit"
      BY <1>1 DEF HouseInv, HousePart, CommitEnd
    <3>2. bids[task[t].winner].user \in User
      BY <1>1, <1>5, <3>1, HouseFacts DEF KnowsSale, Sellable, Bid
    <3>3. QED
      BY <3>2 DEF Order
  <2> HIDE DEF o
  <2>3. Promise!Sell
    BY <1>2, <2>1, <2>2 DEF Promise!Sell
  <2>4. QED
    BY <1>3, <2>3 DEF SaleStep, Promise!Next
<1>6. QED
  BY <1>4, <1>5

LEMMA SerialArchive ==
    ASSUME SerialInv, Archive
    PROVE  SerialPart' /\ SaleStep
<1>1. /\ auction.status \in {"COMPLETED", "CANCELLED"} /\ auction'.status = "ARCHIVED"
      /\ lot' = lot /\ orders' = orders /\ task' = task
  BY HouseFacts DEF Archive, Allowed, From, To, house, Auction, SerialInv
<1>2. \A u \in Worker : ReadIsCurrent(task[u])'
  BY <1>1 DEF Archive, Idling, ReadIsCurrent
<1>3. NothingDecided'
  BY <1>1 DEF NothingDecided, Undecided
<1>4. SaleStep
  BY <1>1 DEF SaleStep, Promise!Next, Promise!Archive
<1>5. QED
  BY <1>1, <1>2, <1>3, <1>4 DEF SerialPart

LEMMA SerialBids ==
    ASSUME SerialInv, [Next]_vars, UNCHANGED house
    PROVE  SerialPart' /\ SaleStep
<1>1. lot' = lot /\ orders' = orders /\ task' = task /\ auction'.status = auction.status
  BY StatusStays DEF house, SerialInv
<1>2. SerialPart'
  BY <1>1 DEF SerialInv, SerialPart, ReadIsCurrent, NothingDecided
<1>3. SaleStep
  BY <1>1 DEF SaleStep, Promise!sale
<1>4. QED
  BY <1>2, <1>3
---------------------------------------------------------------------------
LEMMA InitAlone == HouseInit => SerialInv /\ Promise!Init
<1>1. HouseInit => HouseInv
  BY InitHouse
<1>2. HouseInit => SerialPart
  BY DEF HouseInit, SerialPart, ReadIsCurrent, NoTask, NothingDecided
<1>3. HouseInit => Promise!Init
  BY DEF HouseInit, Promise!Init
<1>4. QED
  BY <1>1, <1>2, <1>3 DEF SerialInv

LEMMA NextSerial == SerialInv /\ Alone /\ [HouseNext]_allVars => SerialInv' /\ SaleStep
<1> SUFFICES ASSUME SerialInv, Alone, [HouseNext]_allVars
             PROVE  SerialInv' /\ SaleStep
  OBVIOUS
<1>1. HouseInv'
  BY NextHouse DEF SerialInv
<1>2. CASE [Next]_vars /\ UNCHANGED house
  BY <1>1, <1>2, SerialBids DEF SerialInv
<1>3. ASSUME NEW t \in Worker, Run(t)
      PROVE  SerialPart' /\ SaleStep
  BY <1>3, SerialReads, SerialCommits, SerialEnd DEF Run
<1>4. CASE Archive
  BY <1>1, <1>4, SerialArchive DEF SerialInv
<1>5. QED
  BY <1>1, <1>2, <1>3, <1>4 DEF HouseNext, allVars, SerialInv

(***************************************************************************)
(* The theorems.                                                           *)
(***************************************************************************)
\* As long as operations of the auction service do not overlap in time, on
\* however many replicas, the status goes the way of the state machine, the
\* lots are decided once and a sale makes one order, among any bids.
THEOREM AloneImplementsSale == HouseSpec /\ []Alone => ImplementsSale
<1>1. SerialInv /\ Alone /\ [HouseNext]_allVars => SerialInv' /\ [Promise!Next]_Promise!sale
  BY NextSerial DEF SaleStep
<1>2. QED
  BY <1>1, InitAlone, PTL DEF HouseSpec, ImplementsSale, Promise!Spec

\* One operation at a time keeps the promise of AuctionSale.
THEOREM OneWorkerImplementsSale ==
    ASSUME \A t, u \in Worker : t = u
    PROVE  HouseSpec => ImplementsSale
<1>1. Alone
  BY DEF Alone
<1>2. QED
  BY <1>1, AloneImplementsSale, PTL

(***************************************************************************)
(* What overlapping operations break (HouseTwoReplicas), and only they.    *)
(***************************************************************************)
\* A step of AuctionSale is one of the state machine's.
LEMMA SaleFollowsMachine ==
    ASSUME SaleStep, auction'.status # auction.status
    PROVE  \E action \in DOMAIN From : Allowed(action) /\ auction'.status = To[action]
<1>1. {"PUBLISH", "START", "END", "CANCEL", "ARCHIVE"} \subseteq DOMAIN From
  BY DEF From
<1>2. CASE Promise!Publish \/ Promise!Start
  BY <1>1, <1>2 DEF Promise!Publish, Promise!Start, Allowed, From, To
<1>3. CASE Promise!Sell \/ Promise!PassIn
  BY <1>1, <1>3 DEF Promise!Sell, Promise!PassIn, Allowed, From, To
<1>4. CASE Promise!Cancel
  BY <1>1, <1>4 DEF Promise!Cancel, Allowed, From, To
<1>5. CASE Promise!Archive
  BY <1>1, <1>5 DEF Promise!Archive, Allowed, From, To
<1>6. QED
  BY <1>2, <1>3, <1>4, <1>5 DEF SaleStep, Promise!Next, Promise!sale

\* As long as operations of the auction service do not overlap, every change of
\* the status is one the state machine allows: the transactions need no second
\* check then, whatever the bid service writes to the row in between.
THEOREM AloneFollowsMachine == HouseSpec /\ []Alone => StatusFollowsMachine
<1> DEFINE A == auction'.status # auction.status =>
                  \E action \in DOMAIN From : /\ Allowed(action)
                                              /\ auction'.status = To[action]
<1>1. SerialInv /\ Alone /\ [HouseNext]_allVars => SerialInv' /\ [A]_allVars
  BY NextSerial, SaleFollowsMachine
<1>2. QED
  BY <1>1, InitAlone, PTL DEF HouseSpec, StatusFollowsMachine

AtMostOne == orders = {} \/ \E o : orders = {o}

\* As long as operations of the auction service do not overlap, an auction has
\* one order at most, although nothing in the database but the bid is unique.
THEOREM AloneMakesOneOrder == HouseSpec /\ []Alone => []OneOrder
<1>1. HouseInit => AtMostOne
  BY DEF HouseInit, AtMostOne
<1>2. AtMostOne /\ SaleStep => AtMostOne'
  BY DEF AtMostOne, SaleStep, Promise!Next, Promise!Publish, Promise!Start, Promise!Sell,
         Promise!PassIn, Promise!Cancel, Promise!Archive, Promise!sale
<1>3. SerialInv /\ AtMostOne /\ Alone /\ [HouseNext]_allVars => SerialInv' /\ AtMostOne'
  BY <1>2, NextSerial
<1>4. AtMostOne => OneOrder
  BY FS_EmptySet, FS_Singleton DEF AtMostOne, OneOrder
<1>5. QED
  BY <1>1, <1>3, <1>4, InitAlone, PTL DEF HouseSpec
=============================================================================

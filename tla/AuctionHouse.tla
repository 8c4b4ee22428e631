---------------------------- MODULE AuctionHouse ----------------------------
(***************************************************************************)
(* The auction service on the same auction row: publish, start, end and    *)
(* cancel, the jobs of the scheduler, and the choice of the winner,        *)
(* interleaved with the bid service of module Bidding                      *)
(* (services/auction-service/src/auction/auction.service.ts,               *)
(* scheduler/auction-scheduler.service.ts, types/*.strategy.ts).           *)
(*                                                                         *)
(* Every operation reads the auction, checks what it read against the      *)
(* state machine and then commits one transaction that checks nothing      *)
(* again.  An operation in progress is a slot of Worker: the scheduler     *)
(* runs on every replica, and the endpoints can be called at any time.     *)
(***************************************************************************)
EXTENDS Bidding

CONSTANTS
    Worker,              \* operations in progress at the same time
    StartDate,           \* auction.startDate
    DutchDecrement,      \* auction.dutchDecrement, 0 for null
    Manual               \* the operations that people call (bound)

ASSUME HouseAssumption ==
    StartDate \in Nat /\ DutchDecrement \in Nat

VARIABLES
    lot,       \* the rows of auction_lots, which always change together
    orders,    \* the rows of table orders for this auction
    task       \* the operations in progress

house == <<lot, orders, task>>
allVars == <<vars, house>>

Nobody == "nobody"
LotStatus == {"pending", "sold", "unsold", "withdrawn"}
TaskPC == {"idle", "publishCommit", "start", "startCommit", "end", "endCommit",
           "cancelCommit", "dutchCommit"}

NoTask == [pc |-> "idle", winner |-> 0, price |-> 0, met |-> FALSE, saw |-> 0]

HouseTypeOK ==
    /\ lot \in [status : LotStatus, hammer : Nat, winner : User \cup {Nobody}]
    /\ orders \subseteq [bid : Nat, buyer : User, hammer : Nat, saw : Nat]
    /\ task \in [Worker -> [pc : TaskPC, winner : Nat, price : Nat, met : BOOLEAN, saw : Nat]]
---------------------------------------------------------------------------
\* The state machine: from where an action is allowed, and where it leads.
From == [PUBLISH |-> {"DRAFT"}, START |-> {"PUBLISHED", "PRE_BID"}, END |-> {"LIVE"},
         CANCEL |-> {"DRAFT", "PUBLISHED", "PRE_BID", "LIVE"},
         ARCHIVE |-> {"COMPLETED", "CANCELLED"}]
To == [PUBLISH |-> "PUBLISHED", START |-> "LIVE", END |-> "COMPLETED",
       CANCEL |-> "CANCELLED", ARCHIVE |-> "ARCHIVED"]

Allowed(action) == auction.status \in From[action]

(***************************************************************************)
(* determineWinner of the six strategies, on the bids that stand.          *)
(***************************************************************************)
NoSale == [winner |-> 0, price |-> 0, met |-> FALSE]
Sale(i, price, met) == [winner |-> i, price |-> price, met |-> met]

MeetsReserve(amount) == ReservePrice = 0 \/ amount >= ReservePrice

\* Mutant: the winner pays what he offered, as in every other auction.
FirstPrice(h) == bids[h].amount

\* Vickrey: the second highest bid, or the only one.
FinalPrice(h) ==
    IF AuctionType = "VICKREY" /\ Active # {h}
    THEN bids[CHOOSE s \in FirstByAmount(Active \ {h}) : TRUE].amount
    ELSE bids[h].amount

Earliest == CHOOSE i \in Active : \A j \in Active : i <= j

\* Mutant: the winning mark is trusted.
WinnersByMark ==
    LET W == {i \in Active : bids[i].winning}
    IN  IF W = {} THEN {NoSale} ELSE {Sale(i, bids[i].amount, TRUE) : i \in W}

\* Equal amounts have no order, so any of the highest bids may win.  A Dutch
\* auction goes to the earliest bid, its reserve met or not.
Winners ==
    IF Active = {} THEN {NoSale}
    ELSE IF AuctionType = "DUTCH"
    THEN {Sale(Earliest, bids[Earliest].amount, MeetsReserve(bids[Earliest].amount))}
    ELSE {IF MeetsReserve(bids[h].amount) THEN Sale(h, FinalPrice(h), TRUE) ELSE NoSale :
            h \in FirstByAmount(Active)}
---------------------------------------------------------------------------
(***************************************************************************)
(* The operations.                                                         *)
(***************************************************************************)
Idling(t) == task[t].pc = "idle"
Becomes(t, q) == task' = [task EXCEPT ![t] = q]
Waiting(t, pc) == Becomes(t, [NoTask EXCEPT !.pc = pc])
OnlyTask(t) == UNCHANGED <<vars, lot, orders>>

\* publish, by the creator: the draft has lots and valid prices.
ReadPublish(t) ==
    /\ "publish" \in Manual /\ Idling(t)
    /\ Allowed("PUBLISH")
    /\ StartDate > now
    /\ ReservePrice # 0 => ReservePrice >= StartPrice
    /\ Waiting(t, "publishCommit") /\ OnlyTask(t)

CommitPublish(t) ==
    /\ task[t].pc = "publishCommit"
    /\ auction' = [auction EXCEPT !.status = To["PUBLISH"]]
    /\ Becomes(t, NoTask)
    /\ UNCHANGED <<bids, now, req, lot, orders>>

\* handleScheduledAuctionStart finds the auction, and calls start.
CronStart(t) ==
    /\ Idling(t)
    /\ auction.status = "PUBLISHED" /\ StartDate <= now
    /\ Waiting(t, "start") /\ OnlyTask(t)

ReadStart(t) ==
    /\ task[t].pc = "start" \/ (Idling(t) /\ "start" \in Manual)
    /\ Allowed("START")
    /\ Waiting(t, "startCommit") /\ OnlyTask(t)

CommitStart(t) ==
    /\ task[t].pc = "startCommit"
    /\ auction' = [auction EXCEPT !.status = To["START"], !.currentPrice = OpeningPrice]
    /\ Becomes(t, NoTask)
    /\ UNCHANGED <<bids, now, req, lot, orders>>

\* Mutant: an extended auction is not found.
PastEndDate == auction.actualEnd = 0 /\ EndDate <= now

Over == EffectiveEnd <= now

\* handleAuctionEnd finds the auction, and calls end.
CronEnd(t) ==
    /\ Idling(t)
    /\ auction.status = "LIVE" /\ Over
    /\ Waiting(t, "end") /\ OnlyTask(t)

\* end reads the auction with its bids and determines the winner; without one
\* it keeps the price it read.  The number of bids it saw is history, and read
\* by no action.
ReadEnd(t) ==
    /\ task[t].pc = "end" \/ (Idling(t) /\ "end" \in Manual)
    /\ Allowed("END")
    /\ \E s \in Winners :
         Becomes(t, [pc |-> "endCommit", winner |-> s.winner, met |-> s.met, saw |-> Len(bids),
                     price |-> IF s.price > 0 THEN s.price ELSE auction.currentPrice])
    /\ OnlyTask(t)

Order(q) ==
    [bid |-> q.winner, buyer |-> bids[q.winner].user, hammer |-> q.price, saw |-> q.saw]

\* orders.bidId is unique: the transaction of a second order for a bid fails.
Ordered(i) == \E o \in orders : o.bid = i

\* Mutant: the order is created after the transaction, and can be lost.
CommitEndOnly(t) ==
    LET q == task[t] IN
    /\ q.pc = "endCommit"
    /\ auction' = [auction EXCEPT !.status = To["END"], !.actualEnd = now,
                                  !.reserveMet = q.met, !.currentPrice = q.price]
    /\ bids' = [bids EXCEPT ![q.winner].winning = TRUE]
    /\ lot' = [lot EXCEPT !.status = IF q.winner = 0 THEN "unsold" ELSE "sold",
                          !.hammer = q.price,
                          !.winner = IF q.winner = 0 THEN @ ELSE bids[q.winner].user]
    /\ Becomes(t, NoTask)
    /\ UNCHANGED <<now, req, orders>>

\* The transaction of end; it waits for the row of the winning bid.
CommitEnd(t) ==
    LET q == task[t] IN
    /\ q.pc = "endCommit"
    /\ auction' = [auction EXCEPT !.status = To["END"], !.actualEnd = now,
                                  !.reserveMet = q.met, !.currentPrice = q.price]
    /\ \/ /\ q.winner = 0
          /\ lot' = [lot EXCEPT !.status = "unsold"]
          /\ UNCHANGED <<bids, orders>>
       \/ /\ q.winner # 0 /\ ~Ordered(q.winner)
          /\ \A r \in Request : q.winner \notin Locked(r)
          /\ bids' = [bids EXCEPT ![q.winner].winning = TRUE]
          /\ lot' = [status |-> "sold", hammer |-> q.price, winner |-> bids[q.winner].user]
          /\ orders' = orders \cup {Order(q)}
    /\ Becomes(t, NoTask)
    /\ UNCHANGED <<now, req>>

ReadCancel(t) ==
    /\ "cancel" \in Manual /\ Idling(t)
    /\ Allowed("CANCEL")
    /\ Waiting(t, "cancelCommit") /\ OnlyTask(t)

\* Mutant: the lots are forgotten.
CommitCancelOnly(t) ==
    /\ task[t].pc = "cancelCommit"
    /\ auction' = [auction EXCEPT !.status = To["CANCEL"], !.actualEnd = now]
    /\ Becomes(t, NoTask)
    /\ UNCHANGED <<bids, now, req, lot, orders>>

CommitCancel(t) ==
    /\ task[t].pc = "cancelCommit"
    /\ auction' = [auction EXCEPT !.status = To["CANCEL"], !.actualEnd = now]
    /\ lot' = [lot EXCEPT !.status = "withdrawn"]
    /\ Becomes(t, NoTask)
    /\ UNCHANGED <<bids, now, req, orders>>

\* Mutant: the floor is forgotten.
CronDutchPastFloor(t) ==
    /\ Idling(t) /\ AuctionType = "DUTCH" /\ DutchDecrement # 0
    /\ auction.status = "LIVE"
    /\ Becomes(t, [NoTask EXCEPT !.pc = "dutchCommit",
                                 !.price = auction.currentPrice - DutchDecrement])
    /\ OnlyTask(t)

\* handleDutchPriceReduction: the interval has passed; at the floor, which is
\* startPrice, the job calls end.
CronDutch(t) ==
    LET price == auction.currentPrice - DutchDecrement IN
    /\ Idling(t) /\ AuctionType = "DUTCH" /\ DutchDecrement # 0
    /\ auction.status = "LIVE"
    /\ IF price <= StartPrice THEN Waiting(t, "end")
       ELSE Becomes(t, [NoTask EXCEPT !.pc = "dutchCommit", !.price = price])
    /\ OnlyTask(t)

CommitDutch(t) ==
    /\ task[t].pc = "dutchCommit"
    /\ auction' = [auction EXCEPT !.currentPrice = task[t].price]
    /\ Becomes(t, NoTask)
    /\ UNCHANGED <<bids, now, req, lot, orders>>

\* handleArchiving, one statement: thirty days after the last change no call
\* that was in progress then is still running.
Archive ==
    /\ Allowed("ARCHIVE")
    /\ \A t \in Worker : Idling(t)
    /\ \A r \in Request : req[r].pc = "idle"
    /\ auction' = [auction EXCEPT !.status = To["ARCHIVE"]]
    /\ UNCHANGED <<bids, now, req, house>>

\* An operation ends without effect: the state machine refuses what it reads,
\* its transaction fails (a second order for the bid), or its replica dies.
\* end locks the auction before the bid and the bid service the other way
\* round: PostgreSQL aborts one of the two, which is a Crash or a Fail as well.
Fail(t) ==
    LET q == task[t] IN
    /\ \/ q.pc = "start" /\ ~Allowed("START")
       \/ q.pc = "end" /\ ~Allowed("END")
       \/ q.pc = "endCommit" /\ q.winner # 0 /\ Ordered(q.winner)
       \/ q.pc # "idle" /\ Crashes
    /\ Becomes(t, NoTask) /\ OnlyTask(t)
---------------------------------------------------------------------------
HouseInit ==
    /\ auction = [status |-> "DRAFT", currentPrice |-> OpeningPrice, bidCount |-> 0,
                  reserveMet |-> FALSE, actualEnd |-> 0]
    /\ bids = <<>>
    /\ now = 1
    /\ req = [r \in Request |-> Idle]
    /\ lot = [status |-> "pending", hammer |-> 0, winner |-> Nobody]
    /\ orders = {}
    /\ task = [t \in Worker |-> NoTask]

Run(t) ==
    \/ ReadPublish(t) \/ CommitPublish(t)
    \/ CronStart(t) \/ ReadStart(t) \/ CommitStart(t)
    \/ CronEnd(t) \/ ReadEnd(t) \/ CommitEnd(t)
    \/ ReadCancel(t) \/ CommitCancel(t)
    \/ CronDutch(t) \/ CommitDutch(t)
    \/ Fail(t)

HouseNext ==
    \/ Next /\ UNCHANGED house
    \/ \E t \in Worker : Run(t)
    \/ Archive

HouseSpec == HouseInit /\ [][HouseNext]_allVars

\* The wall clock runs, every tick of a job comes again, and a call or an
\* operation in progress goes on or fails; what is tried again and again does
\* not fail for ever, and gets the row it waits for.  Nobody has to call publish,
\* start, end or cancel, and the Dutch price need not fall.
FairHouse ==
    /\ HouseSpec
    /\ WF_vars(Tick)
    /\ \A r \in Request : SF_vars(Continue(r)) /\ SF_vars(CommitRetract(r))
    /\ \A t \in Worker :
         /\ WF_allVars(CommitPublish(t) \/ CommitCancel(t) \/ CommitDutch(t) \/ Fail(t))
         /\ SF_allVars(CronStart(t)) /\ SF_allVars(CommitStart(t))
         /\ SF_allVars(task[t].pc = "start" /\ ReadStart(t))
         /\ SF_allVars(CronEnd(t)) /\ SF_allVars(CommitEnd(t))
         /\ SF_allVars(task[t].pc = "end" /\ ReadEnd(t))
---------------------------------------------------------------------------
(***************************************************************************)
(* What holds however the operations and the bids interleave.              *)
(***************************************************************************)
\* The price of bid i by the rule of the auction, for one who has seen n bids:
\* its own amount, or in a Vickrey auction that of another bid.  A Vickrey
\* winner pays his own amount only if every other bid he was read with has been
\* retracted.
PaysByRule(i, price, n) ==
    LET others == (1..n) \ {i} IN
    \/ /\ price = bids[i].amount
       /\ AuctionType = "VICKREY" => \A j \in others : bids[j].retracted
    \/ AuctionType = "VICKREY" /\ \E j \in others : bids[j].amount = price

\* Each order goes to the owner of a bid, at the price that the type of the
\* auction gives to it and that is not above his offer; the reserve was met,
\* except in a Dutch auction; and no bid is sold twice, although end decides on
\* bids it read before its transaction.
OrdersMatchBook ==
    \A o \in orders :
        /\ o.bid \in DOMAIN bids /\ bids[o.bid].user = o.buyer
        /\ o.hammer <= bids[o.bid].amount
        /\ PaysByRule(o.bid, o.hammer, o.saw)
        /\ AuctionType = "DUTCH" \/ MeetsReserve(bids[o.bid].amount)
        /\ \A p \in orders : p.bid = o.bid => p = o

\* Nobody whose bid was on the book when end read it, and stands, offered more
\* than the buyer pays, or was there before him in a Dutch auction: retractions
\* that commit between the read of end and its transaction do not make the
\* choice wrong.  Bids placed in that time are not covered.
BestSeenBidWins ==
    \A o \in orders : \A i \in 1..o.saw : ~bids[i].retracted =>
        IF AuctionType = "DUTCH" THEN o.bid <= i
        ELSE i # o.bid => bids[i].amount <= o.hammer

\* A lot that is shown as sold has an order of its winner at its hammer price,
\* whatever ended, restarted or crashed in between.
SoldLotHasOrder ==
    lot.status = "sold" =>
        \E o \in orders : o.buyer = lot.winner /\ o.hammer = lot.hammer

\* The fate of the lots goes with the status of the auction, which two
\* operations may change one after the other from the same reading.
FateMatchesStatus ==
    /\ auction.status = "COMPLETED" => lot.status \in {"sold", "unsold"}
    /\ auction.status = "CANCELLED" => lot.status = "withdrawn"
    /\ auction.status = "ARCHIVED" => lot.status # "pending"

(***************************************************************************)
(* What holds when operations come one at a time (one Worker).             *)
(***************************************************************************)
Promise == INSTANCE AuctionSale
             WITH status <- auction.status, lot <- lot.status, sales <- orders

\* One auction-service operation at a time, among bids that interleave with it,
\* keeps the promise of AuctionSale: one decision, at most one order.
ImplementsSale == Promise!Spec

\* The scheduler starts a published auction and ends it, whatever is bid.
EveryAuctionCloses ==
    auction.status = "PUBLISHED" ~> auction.status \in {"COMPLETED", "CANCELLED", "ARCHIVED"}

(***************************************************************************)
(* What the repository says that concurrent operations break.              *)
(***************************************************************************)
\* auction-state.machine.ts:61-66 "Cannot perform action": every change of
\* status is one the state machine allows.
StatusFollowsMachine ==
    [][auction'.status # auction.status =>
         \E action \in DOMAIN From : /\ Allowed(action)
                                     /\ auction'.status = To[action]]_allVars

\* auction.service.ts:796 "Create Order for the winner": one auction, one order.
OneOrder == Cardinality(orders) <= 1
=============================================================================

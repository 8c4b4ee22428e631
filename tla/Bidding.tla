------------------------------ MODULE Bidding ------------------------------
(***************************************************************************)
(* The bid service on one auction: placeBid with its proxy answer,         *)
(* setProxyBid, cancelProxyBid and retractBid                              *)
(* (services/bid-service/src/bid/bid.service.ts and                        *)
(* services/bid-service/src/proxy-bid/proxy-bid.service.ts).               *)
(*                                                                         *)
(* Every replica of the service runs each HTTP call as an async function   *)
(* over one PostgreSQL database.  A call is a slot of Request; one action  *)
(* is what the call does between two awaits, so calls interleave exactly   *)
(* where the code yields.  What a call read earlier is kept in req[r] and  *)
(* used later as the code uses it, stale or not.  A $transaction is one    *)
(* action when it only writes; when it reads too (retractBid, the proxy    *)
(* answer) the read is an action of its own, as PostgreSQL's default READ  *)
(* COMMITTED isolation allows, and the rows it has written stay locked     *)
(* until the commit.                                                       *)
(***************************************************************************)
EXTENDS Integers, Sequences, FiniteSets

CONSTANTS
    User,                \* the people who call the service
    Creator,             \* auction.createdBy
    AuctionType,         \* auction.type
    StartPrice,          \* auction.startPrice, in the smallest unit of currency
    OpeningPrice,        \* what auction-service start() put in currentPrice
    MinIncrement,        \* auction.minIncrement
    Tiers,               \* auction.increments, records [from, to, inc]
    ReservePrice,        \* auction.reservePrice, 0 for null
    BuyNowPrice,         \* auction.buyNowPrice, 0 when buy-now is off
    EndDate,             \* auction.endDate
    AntiSnipeMinutes,    \* auction.antiSnipeMinutes
    AntiSnipeExtension,  \* auction.antiSnipeExtension
    RetractWindow,       \* the five minutes in which a bid may be retracted
    Request,             \* calls in progress at the same time
    Calls,               \* the endpoints that clients call (bound)
    Crashes,             \* whether replicas and queries fail (TRUE or FALSE)
    Kinds,               \* the types that clients give their bids (bound)
    Offer,               \* the amounts that clients submit (bound)
    MaxBids,             \* no new call that adds a bid from this many on (bound)
    MaxTime              \* the clock stops here (bound)

BidType == {"MANUAL", "PROXY", "BUY_NOW"}   \* ABSENTEE is treated as MANUAL
Tier == [from : Nat, to : Nat, inc : Nat \ {0}]

ASSUME BiddingAssumption ==
    /\ Creator \in User
    /\ AuctionType \in {"ENGLISH", "DUTCH", "SEALED_BID", "VICKREY", "TIMED", "HYBRID"}
    /\ StartPrice \in Nat \ {0} /\ OpeningPrice \in Nat \ {0}
    /\ MinIncrement \in Nat \ {0} /\ Tiers \subseteq Tier
    /\ ReservePrice \in Nat /\ BuyNowPrice \in Nat
    /\ EndDate \in Nat \ {0}
    /\ AntiSnipeMinutes \in Nat /\ AntiSnipeExtension \in Nat
    /\ RetractWindow \in Nat
    /\ Crashes \in BOOLEAN /\ Kinds \subseteq BidType
    /\ Offer \subseteq Nat \ {0}
    /\ MaxBids \in Nat /\ MaxTime \in Nat

VARIABLES
    auction,   \* the row of table auctions: status, currentPrice, bidCount,
               \* reserveMet, actualEnd (0 for null)
    bids,      \* the rows of table bids in the order of createdAt
    now,       \* the wall clock
    req        \* the calls in progress

vars == <<auction, bids, now, req>>
---------------------------------------------------------------------------
(***************************************************************************)
(* Rows and calls.  Two fields of a bid are history and read by no action: *)
(* auto (the system created it, not a client) and seen (how many bids      *)
(* there were when placeBid read the highest one).                         *)
(***************************************************************************)
Status == {"DRAFT", "PUBLISHED", "PRE_BID", "LIVE", "COMPLETED", "CANCELLED", "ARCHIVED"}

Auction == [status : Status,
            currentPrice : Nat, bidCount : Int, reserveMet : BOOLEAN,
            actualEnd : Nat]

Reason == {"none", "user", "replaced", "cancelled"}   \* retractedReason

Bid == [user : User, amount : Nat, type : BidType, max : Nat,
        winning : BOOLEAN, retracted : BOOLEAN, reason : Reason,
        at : Nat, auto : BOOLEAN, seen : Nat]

NewBid(u, a, t, m, auto, seen) ==
    [user |-> u, amount |-> a, type |-> t, max |-> m,
     winning |-> TRUE, retracted |-> FALSE, reason |-> "none",
     at |-> now, auto |-> auto, seen |-> seen]

PC == {"idle",
       "validate", "commit", "reserve", "respond", "answer", "answerCommit",
       "setFind", "setRetract", "setHighest", "setClear", "setCreate", "setPrice",
       "cancel",
       "retract", "retractCommit"}

\* The locals of a call; a field that the pc does not use has its idle value.
Call == [pc : PC, user : User, amount : Nat, type : BidType, max : Nat,
         price : Nat, reserveMet : BOOLEAN, end : Nat, seen : Nat,
         clear : SUBSET Nat, bid : Nat, next : Nat]

Idle == [pc |-> "idle", user |-> Creator, amount |-> 0, type |-> "MANUAL",
         max |-> 0, price |-> 0, reserveMet |-> FALSE, end |-> 0, seen |-> 0,
         clear |-> {}, bid |-> 0, next |-> 0]

\* The constants are numbers, users and sets of them; the rows and the calls
\* are records of the shapes above.
TypeOK ==
    /\ auction \in Auction
    /\ bids \in Seq(Bid)
    /\ now \in Nat
    /\ req \in [Request -> Call]
---------------------------------------------------------------------------
(***************************************************************************)
(* Queries.                                                                *)
(***************************************************************************)
Active == {i \in DOMAIN bids : ~bids[i].retracted}

\* What findFirst({orderBy: amount desc}) may return among the rows S: any of
\* the highest (ties have no order in SQL), 0 for null.
FirstByAmount(S) ==
    IF S = {} THEN {0}
    ELSE {i \in S : \A j \in S : bids[j].amount <= bids[i].amount}

\* What findFirst({orderBy: createdAt desc}) returns, as a set.
LatestProxy(u) ==
    LET P == {i \in Active : bids[i].user = u /\ bids[i].type = "PROXY"}
    IN  {i \in P : \A j \in P : j <= i}

\* getMinIncrement: the increments relation is read without an order, so any
\* tier that applies may be the one found.
Increments(p) ==
    LET T == {t \in Tiers : t.from <= p /\ p < t.to}
    IN  IF T = {} THEN {MinIncrement} ELSE {t.inc : t \in T}

EffectiveEnd == IF auction.actualEnd = 0 THEN EndDate ELSE auction.actualEnd

Ascending == AuctionType \in {"ENGLISH", "TIMED", "HYBRID"}

Larger(a, b) == IF a >= b THEN a ELSE b
Smaller(a, b) == IF a <= b THEN a ELSE b

ClearWinning(S) ==
    [i \in DOMAIN bids |-> IF i \in S THEN [bids[i] EXCEPT !.winning = FALSE]
                                      ELSE bids[i]]

(***************************************************************************)
(* Row locks of PostgreSQL.  A transaction that is still open holds the    *)
(* rows it has written; another call that writes one of them waits.  Two   *)
(* calls that wait for each other are a deadlock, and PostgreSQL aborts    *)
(* one of them.                                                            *)
(***************************************************************************)
Locked(r) == CASE req[r].pc = "answerCommit"  -> req[r].clear
               [] req[r].pc = "retractCommit" -> {req[r].bid}
               [] OTHER                       -> {}

Free(r, S) == \A p \in Request \ {r} : Locked(p) \cap S = {}

WaitsFor(r, p) ==
    /\ r # p
    /\ req[r].pc = "retractCommit"
    /\ req[r].next \in Locked(p)

Deadlocked(r) ==
    \E S \in SUBSET Request :
        /\ r \in S
        /\ \A x \in S : \E y \in S : WaitsFor(x, y)
        /\ \A y \in S : \E x \in S : WaitsFor(x, y)
---------------------------------------------------------------------------
(***************************************************************************)
(* placeBid.                                                               *)
(***************************************************************************)
AcceptingStatus ==
    {"LIVE"} \cup (IF AuctionType \in {"SEALED_BID", "VICKREY"} THEN {"PRE_BID"} ELSE {})

\* Steps 1 and 2: read the auction row.
BeginPlaceBid(r, u, a, t, m) ==
    /\ "placeBid" \in Calls /\ Len(bids) < MaxBids
    /\ req[r].pc = "idle"
    /\ auction.status \in AcceptingStatus
    /\ u # Creator
    /\ req' = [req EXCEPT ![r] =
                 [Idle EXCEPT !.pc = "validate", !.user = u, !.amount = a,
                              !.type = t, !.max = m, !.end = EffectiveEnd,
                              !.reserveMet = auction.reserveMet]]
    /\ UNCHANGED <<auction, bids, now>>

\* Mutant: the increment is forgotten; the comparison is with the start price.
AcceptableFromStart(q, h, inc) ==
    /\ Ascending => q.amount >= StartPrice
    /\ q.type = "BUY_NOW" => BuyNowPrice # 0 /\ q.amount >= BuyNowPrice

\* Steps 5 and 6, against the highest bid h that step 4 read.
Acceptable(q, h, inc) ==
    /\ Ascending => q.amount >= IF h = 0 THEN StartPrice ELSE bids[h].amount + inc
    /\ q.type = "BUY_NOW" => BuyNowPrice # 0 /\ q.amount >= BuyNowPrice

\* Mutant: a refused bid is tried again as it is.
Retried(q) == q

\* A call that throws is over.
Refused(q) == Idle

\* Step 4 reads the highest bid; a bid that fails steps 5 and 6 is refused.
ValidateBid(r) ==
    LET q == req[r] IN
    /\ q.pc = "validate"
    /\ \E h \in FirstByAmount(Active) :
       \E inc \in Increments(IF h = 0 THEN StartPrice ELSE bids[h].amount) :
         req' = [req EXCEPT ![r] =
                   IF Acceptable(q, h, inc)
                   THEN [q EXCEPT !.pc = "commit", !.seen = Len(bids),
                                  !.clear = IF h # 0 /\ bids[h].winning THEN {h} ELSE {}]
                   ELSE Refused(q)]
    /\ UNCHANGED <<auction, bids, now>>

\* Steps 3 and 7: a blacklisted bidder or a suspected shill is turned away.
TurnAway(r) ==
    /\ req[r].pc = "commit"
    /\ req' = [req EXCEPT ![r] = Idle]
    /\ UNCHANGED <<auction, bids, now>>

\* Mutant: the extension is counted from now.
ExtendedFromNow(end) ==
    IF now < end /\ end - now <= AntiSnipeMinutes
    THEN now + AntiSnipeExtension ELSE auction.actualEnd

\* The end that step 8 writes: the one it read, extended inside the window.
ExtendedEnd(end) ==
    IF now < end /\ end - now <= AntiSnipeMinutes
    THEN end + AntiSnipeExtension ELSE auction.actualEnd

\* Mutant: any bid on an auction with a reserve reports the reserve met.
ReachesAnyReserve(q) == ReservePrice # 0 /\ ~q.reserveMet

\* The condition of step 9, on the row that step 1 read.
ReachesReserve(q) ==
    ReservePrice # 0 /\ ~q.reserveMet /\ q.amount >= ReservePrice

\* Step 8, the transaction: everything it writes comes from steps 1 to 4.
CommitBid(r) ==
    LET q == req[r] IN
    /\ q.pc = "commit"
    /\ Free(r, q.clear)
    /\ bids' = Append(ClearWinning(q.clear),
                      NewBid(q.user, q.amount, q.type, q.max, FALSE, q.seen))
    /\ auction' = [auction EXCEPT !.currentPrice = q.amount, !.bidCount = @ + 1,
                                  !.actualEnd = ExtendedEnd(q.end)]
    /\ req' = [req EXCEPT ![r] =
                 [Idle EXCEPT !.pc = IF ReachesReserve(q) THEN "reserve" ELSE "respond",
                              !.user = q.user, !.amount = q.amount]]
    /\ UNCHANGED now

\* Step 9, outside the transaction.
MarkReserveMet(r) ==
    /\ req[r].pc = "reserve"
    /\ auction' = [auction EXCEPT !.reserveMet = TRUE]
    /\ req' = [req EXCEPT ![r].pc = "respond"]
    /\ UNCHANGED <<bids, now>>

(***************************************************************************)
(* Step 12, processProxyBids: at most one proxy answers the bid.           *)
(***************************************************************************)
\* Mutant: a proxy is eligible when it covers the bid, without the increment.
ProxiesCoveringBid(u, floor) ==
    {i \in Active : /\ bids[i].type = "PROXY" /\ bids[i].max # 0
                    /\ bids[i].user # u /\ bids[i].max >= floor - MinIncrement}

EligibleProxies(u, floor) ==
    {i \in Active : /\ bids[i].type = "PROXY" /\ bids[i].max # 0
                    /\ bids[i].user # u /\ bids[i].max >= floor}

\* resolveCompetingProxies: h has the highest maximum, s the next one.
CompetingAmount(h, s, floor, inc) ==
    Larger(IF bids[h].max = bids[s].max THEN bids[h].max
           ELSE Smaller(bids[s].max + inc, bids[h].max),
           floor)

Answer(r, i, amount) ==
    req' = [req EXCEPT ![r] = [Idle EXCEPT !.pc = "answer", !.user = bids[i].user,
                                           !.amount = amount, !.max = bids[i].max]]

FindProxies(r) ==
    LET q == req[r] IN
    /\ q.pc = "respond"
    /\ \E inc \in Increments(q.amount) :
         LET floor == q.amount + inc
             E == EligibleProxies(q.user, floor)
         IN  \/ /\ E = {}
                /\ req' = [req EXCEPT ![r] = Idle]
             \/ \E i \in E : E = {i} /\ Answer(r, i, floor)
             \/ \E h \in E, s \in E :
                  /\ h # s
                  /\ \A i \in E : bids[i].max <= bids[h].max
                  /\ \A i \in E \ {h} : bids[i].max <= bids[s].max
                  /\ Answer(r, h, CompetingAmount(h, s, floor, inc))
    /\ UNCHANGED <<auction, bids, now>>

\* placeProxyBidRecord: updateMany takes the rows that are winning now, ...
ClearForAnswer(r) ==
    LET W == {i \in Active : bids[i].winning} IN
    /\ req[r].pc = "answer"
    /\ Free(r, W)
    /\ req' = [req EXCEPT ![r].pc = "answerCommit", ![r].clear = W]
    /\ UNCHANGED <<auction, bids, now>>

\* ... then the answer is inserted and the transaction commits.
CommitAnswer(r) ==
    LET q == req[r] IN
    /\ q.pc = "answerCommit"
    /\ bids' = Append(ClearWinning(q.clear),
                      NewBid(q.user, q.amount, "PROXY", q.max, TRUE, 0))
    /\ auction' = [auction EXCEPT !.currentPrice = q.amount, !.bidCount = @ + 1]
    /\ req' = [req EXCEPT ![r] = Idle]
    /\ UNCHANGED now
---------------------------------------------------------------------------
(***************************************************************************)
(* setProxyBid: no transaction, each write is visible as soon as it is     *)
(* made.                                                                   *)
(***************************************************************************)
BeginSetProxy(r, u, m) ==
    /\ "setProxyBid" \in Calls /\ Len(bids) < MaxBids
    /\ req[r].pc = "idle"
    /\ auction.status = "LIVE"
    /\ u # Creator
    /\ m > auction.currentPrice
    /\ req' = [req EXCEPT ![r] =
                 [Idle EXCEPT !.pc = "setFind", !.user = u, !.max = m,
                              !.price = auction.currentPrice]]
    /\ UNCHANGED <<auction, bids, now>>

FindExistingProxy(r) ==
    LET P == LatestProxy(req[r].user) IN
    /\ req[r].pc = "setFind"
    /\ \/ /\ P = {}
          /\ req' = [req EXCEPT ![r].pc = "setHighest"]
       \/ \E i \in P : req' = [req EXCEPT ![r].pc = "setRetract", ![r].bid = i]
    /\ UNCHANGED <<auction, bids, now>>

\* Neither isWinning nor bidCount is touched.
ReplaceExistingProxy(r) ==
    LET i == req[r].bid IN
    /\ req[r].pc = "setRetract"
    /\ Free(r, {i})
    /\ bids' = [bids EXCEPT ![i].retracted = TRUE, ![i].reason = "replaced"]
    /\ req' = [req EXCEPT ![r].pc = "setHighest", ![r].bid = 0]
    /\ UNCHANGED <<auction, now>>

\* The initial amount of the proxy of user u over the highest bid h.
InitialAmount(q, h, inc) ==
    Smaller(CASE h = 0                 -> StartPrice
              [] h # 0 /\ bids[h].user = q.user -> bids[h].amount
              [] OTHER                 -> bids[h].amount + inc,
            q.max)

FindHighestForProxy(r) ==
    LET q == req[r] IN
    /\ q.pc = "setHighest"
    /\ \E h \in FirstByAmount(Active), inc \in Increments(q.price) :
         LET outbid == IF h # 0 /\ bids[h].winning /\ bids[h].user # q.user
                       THEN {h} ELSE {}
         IN  req' = [req EXCEPT ![r] =
                       [q EXCEPT !.pc = IF outbid = {} THEN "setCreate" ELSE "setClear",
                                 !.amount = InitialAmount(q, h, inc),
                                 !.clear = outbid, !.price = 0]]
    /\ UNCHANGED <<auction, bids, now>>

ClearOutbid(r) ==
    LET q == req[r] IN
    /\ q.pc = "setClear"
    /\ Free(r, q.clear)
    /\ bids' = ClearWinning(q.clear)
    /\ req' = [req EXCEPT ![r].pc = "setCreate", ![r].clear = {}]
    /\ UNCHANGED <<auction, now>>

\* Mutant: the maximum is published as the current price.
CreateProxyBidShowingMax(r) ==
    LET q == req[r] IN
    /\ q.pc = "setCreate"
    /\ bids' = Append(bids, NewBid(q.user, q.amount, "PROXY", q.max, FALSE, 0))
    /\ req' = [req EXCEPT ![r] = [Idle EXCEPT !.pc = "setPrice", !.amount = q.max]]
    /\ UNCHANGED <<auction, now>>

CreateProxyBid(r) ==
    LET q == req[r] IN
    /\ q.pc = "setCreate"
    /\ bids' = Append(bids, NewBid(q.user, q.amount, "PROXY", q.max, FALSE, 0))
    /\ req' = [req EXCEPT ![r] = [Idle EXCEPT !.pc = "setPrice", !.amount = q.amount]]
    /\ UNCHANGED <<auction, now>>

SetProxyPrice(r) ==
    /\ req[r].pc = "setPrice"
    /\ auction' = [auction EXCEPT !.currentPrice = req[r].amount, !.bidCount = @ + 1]
    /\ req' = [req EXCEPT ![r] = Idle]
    /\ UNCHANGED <<bids, now>>
---------------------------------------------------------------------------
(***************************************************************************)
(* cancelProxyBid: finds the latest proxy record, then retracts it.        *)
(***************************************************************************)
BeginCancelProxy(r, u) ==
    /\ "cancelProxyBid" \in Calls
    /\ req[r].pc = "idle"
    /\ \E i \in LatestProxy(u) :
         req' = [req EXCEPT ![r] = [Idle EXCEPT !.pc = "cancel", !.bid = i]]
    /\ UNCHANGED <<auction, bids, now>>

CancelProxy(r) ==
    LET i == req[r].bid IN
    /\ req[r].pc = "cancel"
    /\ Free(r, {i})
    /\ bids' = [bids EXCEPT ![i].retracted = TRUE, ![i].reason = "cancelled"]
    /\ req' = [req EXCEPT ![r] = Idle]
    /\ UNCHANGED <<auction, now>>
---------------------------------------------------------------------------
(***************************************************************************)
(* retractBid, called by the owner of bid i.                               *)
(***************************************************************************)
BeginRetract(r, i) ==
    /\ "retractBid" \in Calls
    /\ req[r].pc = "idle"
    /\ ~bids[i].retracted
    /\ now - bids[i].at <= RetractWindow
    /\ req' = [req EXCEPT ![r] = [Idle EXCEPT !.pc = "retract", !.bid = i]]
    /\ UNCHANGED <<auction, bids, now>>

\* In the transaction: update the bid, which locks its row, then read the
\* highest of the others.
PickNewHighest(r) ==
    LET i == req[r].bid IN
    /\ req[r].pc = "retract"
    /\ Free(r, {i})
    /\ \E h \in FirstByAmount(Active \ {i}) :
         req' = [req EXCEPT ![r].pc = "retractCommit", ![r].next = h]
    /\ UNCHANGED <<auction, bids, now>>

\* Mutant: the new highest bid is restored as it was when it was read.
RowsRestoringHighest(i, h) ==
    [k \in DOMAIN bids |->
       CASE k = i -> [bids[k] EXCEPT !.retracted = TRUE, !.winning = FALSE,
                                     !.reason = "user"]
         [] k # i /\ k = h -> [bids[k] EXCEPT !.winning = TRUE, !.retracted = FALSE]
         [] OTHER -> bids[k]]

\* Bid i retracted, bid h (0 for none) the new winning one.
RowsAfterRetract(i, h) ==
    [k \in DOMAIN bids |->
       CASE k = i -> [bids[k] EXCEPT !.retracted = TRUE, !.winning = FALSE,
                                     !.reason = "user"]
         [] k # i /\ k = h -> [bids[k] EXCEPT !.winning = TRUE]
         [] OTHER -> bids[k]]

\* Mutants: the count is not decremented, or the price loses the amount.
AuctionKeepingCount(i, h) ==
    [auction EXCEPT !.currentPrice = IF h = 0 THEN StartPrice ELSE bids[h].amount]
AuctionMinusBid(i, h) ==
    [auction EXCEPT !.currentPrice = @ - bids[i].amount, !.bidCount = @ - 1]

AuctionAfterRetract(i, h) ==
    [auction EXCEPT !.currentPrice = IF h = 0 THEN StartPrice ELSE bids[h].amount,
                    !.bidCount = @ - 1]

\* The rest of the transaction; it waits for the row of the new highest bid.
CommitRetract(r) ==
    LET i == req[r].bid
        h == req[r].next
    IN
    /\ req[r].pc = "retractCommit"
    /\ Free(r, {h})
    /\ bids' = RowsAfterRetract(i, h)
    /\ auction' = AuctionAfterRetract(i, h)
    /\ req' = [req EXCEPT ![r] = Idle]
    /\ UNCHANGED now
---------------------------------------------------------------------------
\* PostgreSQL aborts a transaction of a deadlock; the call fails.
AbortDeadlock(r) ==
    /\ Deadlocked(r)
    /\ req' = [req EXCEPT ![r] = Idle]
    /\ UNCHANGED <<auction, bids, now>>

\* The replica dies, or a query fails: what is not committed is lost.
Crash(r) ==
    /\ Crashes
    /\ req[r].pc # "idle"
    /\ req' = [req EXCEPT ![r] = Idle]
    /\ UNCHANGED <<auction, bids, now>>

Tick ==
    /\ now < MaxTime
    /\ now' = now + 1
    /\ UNCHANGED <<auction, bids, req>>

Begin(r) ==
    \* The maximum of a bid that is not PROXY is stored but read by nothing.
    \/ \E u \in User, a \in Offer, t \in Kinds :
       \E m \in IF t = "PROXY" THEN Offer \cup {0} ELSE {0} :
         BeginPlaceBid(r, u, a, t, m)
    \/ \E u \in User, m \in Offer : BeginSetProxy(r, u, m)
    \/ \E u \in User : BeginCancelProxy(r, u)
    \/ \E i \in DOMAIN bids : BeginRetract(r, i)

\* The steps that a running replica takes by itself.
Continue(r) ==
    \/ ValidateBid(r) \/ CommitBid(r) \/ MarkReserveMet(r)
    \/ FindProxies(r) \/ ClearForAnswer(r) \/ CommitAnswer(r)
    \/ FindExistingProxy(r) \/ ReplaceExistingProxy(r) \/ FindHighestForProxy(r)
    \/ ClearOutbid(r) \/ CreateProxyBid(r) \/ SetProxyPrice(r)
    \/ CancelProxy(r)
    \/ PickNewHighest(r) \/ CommitRetract(r) \/ AbortDeadlock(r)

Init ==
    /\ auction = [status |-> "LIVE", currentPrice |-> OpeningPrice, bidCount |-> 0,
                  reserveMet |-> FALSE, actualEnd |-> 0]
    /\ bids = <<>>
    /\ now = 0
    /\ req = [r \in Request |-> Idle]

Next ==
    \/ \E r \in Request : Begin(r) \/ Continue(r) \/ TurnAway(r) \/ Crash(r)
    \/ Tick

Spec == Init /\ [][Next]_vars

\* A call that has begun goes on: the event loop resumes every await that has
\* its answer.  PostgreSQL queues the waiters of a row lock, so a call that
\* waits for a row gets it (strong fairness).  Nobody has to call anything.
FairSpec == Spec /\ \A r \in Request : SF_vars(Continue(r))
---------------------------------------------------------------------------
(***************************************************************************)
(* What holds however the calls interleave.                                *)
(***************************************************************************)
\* The maximum that a client authorised when he recorded proxy bid j himself.
Authorised(j, u, m) ==
    bids[j].user = u /\ bids[j].type = "PROXY" /\ ~bids[j].auto /\ bids[j].max = m

\* A bid that the service makes for a user (processProxyBids) never exceeds its
\* maximum, and that maximum is one the user gave himself, earlier, however
\* many answers were chained in between (proxy-bid.service.ts:165-297 copies
\* it from record to record).
ProxyWithinMax ==
    \A i \in DOMAIN bids : bids[i].auto =>
        /\ bids[i].amount <= bids[i].max
        /\ \E j \in 1..(i - 1) : Authorised(j, bids[i].user, bids[i].max)

\* placeBid in an ascending auction: a bid is higher than every bid that was
\* on the book when its call read it, unless that bid is retracted
\* (bid.service.ts:107-143).  Later, concurrent bids are not covered.
BeatsWhatItSaw ==
    Ascending =>
        \A i \in DOMAIN bids : \A j \in 1..bids[i].seen :
            ~bids[j].retracted => bids[i].amount > bids[j].amount

\* reserveMet is set after the transaction of a bid (bid.service.ts:243-256):
\* it says that some client's bid reached the reserve, retracted since or not.
ReserveMetIsTrue ==
    auction.reserveMet =>
        \E i \in DOMAIN bids : ~bids[i].auto /\ bids[i].amount >= ReservePrice

\* currentPrice, which five places of the code write, is the opening price, the
\* start price or the amount of a bid that exists, never a proxy's maximum.
PriceIsABid ==
    \/ auction.currentPrice \in {OpeningPrice, StartPrice}
    \/ \E i \in DOMAIN bids : auction.currentPrice = bids[i].amount

\* The end date moves by whole extensions, and each extension is paid for by a
\* client's bid of its own: concurrent bids that read the same end date extend
\* it once (bid.service.ts:213-237).
ExtensionsArePaidFor ==
    auction.actualEnd # 0 =>
        \E k \in 1..Len(bids) : auction.actualEnd = EndDate + k * AntiSnipeExtension

\* What the two services write to a bid after its creation is only isWinning
\* and its retraction: nobody rewrites who bid what, and a retracted bid does
\* not come back, although five calls update rows they read earlier.
HistoryIsKept ==
    [][/\ Len(bids) <= Len(bids')
       /\ \A i \in DOMAIN bids :
            /\ bids'[i].user = bids[i].user /\ bids'[i].amount = bids[i].amount
            /\ bids'[i].type = bids[i].type /\ bids'[i].max = bids[i].max
            /\ bids[i].retracted => bids'[i].retracted]_vars

\* Every call ends: two retractions that wait for each other's rows are told
\* apart by the deadlock detector, and nothing else waits for ever.
EveryCallEnds == \A r \in Request : req[r].pc # "idle" ~> req[r].pc = "idle"
---------------------------------------------------------------------------
(***************************************************************************)
(* What holds when calls come one at a time (Request has one member), and  *)
(* what the repository says that interleaved or even single calls break.   *)
(***************************************************************************)
Quiet == \A r \in Request : req[r].pc = "idle"

\* In an ascending auction the displayed price is never below a bid that
\* stands, between calls.
PriceCoversBook ==
    Quiet /\ Ascending => \A i \in Active : bids[i].amount <= auction.currentPrice

\* Between calls bidCount is the number of bids that their owners have not
\* retracted with retractBid.
Counted == {i \in DOMAIN bids : bids[i].reason # "user"}
BidCountIsExact == Quiet => auction.bidCount = Cardinality(Counted)

\* However the calls interleave or break off, bidCount never claims more bids
\* than that; it may claim fewer (a bid retracted twice, a crash in setProxyBid).
BidCountNeverOverstates == auction.bidCount <= Cardinality(Counted)

\* An anti-snipe step only ever extends the auction (bid.service.ts:212,
\* "if bid is within antiSnipeMinutes of endDate, extend").
EndOnlyMovesLater ==
    [][auction'.actualEnd # auction.actualEnd =>
         auction'.actualEnd >= EffectiveEnd]_vars

\* bid.service.ts:177 "Mark previous winning bid as no longer winning": between
\* calls, the bids that stand and are marked winning are all of one bidder.
OneWinner ==
    Quiet => \A i, j \in Active : bids[i].winning /\ bids[j].winning
                                    => bids[i].user = bids[j].user

\* bid.controller.ts:43 "Bid conflict (outbid during processing)": the bid that
\* placeBid accepts is higher than every bid that stands when it is inserted.
OutbidDuringProcessingIsRefused ==
    [][\A r \in Request : Ascending /\ req[r].pc = "commit" /\ Len(bids') > Len(bids)
                          /\ req'[r].pc \in {"reserve", "respond"} =>
         \A i \in Active : bids[i].amount < req[r].amount]_vars

\* proxy-bid.service.ts:225 "Cancel a user's proxy bid on an auction": after
\* that, and until the user sets a new one, the service does not bid for him.
CancelledProxyIsSilent ==
    [][\A i \in DOMAIN bids' \ DOMAIN bids : bids'[i].auto =>
         \A c \in DOMAIN bids :
            bids[c].user = bids'[i].user /\ bids[c].reason = "cancelled" =>
               \E j \in c..Len(bids) : /\ bids[j].user = bids'[i].user
                                       /\ bids[j].type = "PROXY" /\ ~bids[j].auto
                                       /\ j > c]_vars

=============================================================================

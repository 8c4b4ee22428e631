# Formal model of the Müzayede auction platform

TLA+ modules, TLC configurations and TLAPS proofs about the part of this
repository where money and concurrency meet: the bid service, the auction
service, the auctioneer's desk of the live service, and what follows a sale in
the payment and shipping services. They share the rows of one PostgreSQL
database and run in several replicas each
(`infrastructure/kubernetes/charts/muzayede/values.yaml` gives `replicaCount` 2
to 3 and autoscaling). The repository has no unit test for any of these
services; what its contracts and load tests exercise is one caller at a time.

## 1. Inventory

### Modelled

**Bid service** (`services/bid-service`). State: the table `bids` and the
columns `currentPrice`, `bidCount`, `reserveMet`, `actualEndDate` of `auctions`.
Operations: `placeBid` (nine steps that touch the database: status and owner,
blacklist, highest bid, minimum, buy-now, shill detection, the transaction, the
reserve flag, the proxy answer), `setProxyBid` (four writes with no
transaction), `cancelProxyBid`, `retractBid` (a transaction that reads). Every
`await` lets another call in; the database answers under READ COMMITTED. What
makes it correct: a bid beats what it was compared with; nobody bids above the
maximum he authorised; the displayed price, count and reserve flag describe the
book; the end date moves only by earned extensions; history is not rewritten;
nothing waits for ever.

**Auction service** (`services/auction-service`). State: `auctions.status` and
dates, `auction_lots`, `orders`. Operations: `create`, `publish`, `start`,
`end`, `cancel`; scheduler jobs that start (30 s), end (10 s), lower Dutch
prices (5 s) and archive (daily), on every replica at once; `determineWinner`
of six strategies. Each operation reads, asks the state machine, and commits a
transaction that checks nothing again. What makes it correct: the status follows
the state machine; lots are decided once, in agreement with the status; a sale
makes one order, to the owner of a real bid, at the price of its type of auction, above the reserve;
a published auction is closed in the end.

**Auctioneer's desk** (`services/live-service/src/auctioneer`). State: the rows
of `auction_lots`, one by one, and again `bids` and `auctions`: the desk is a
second writer of the book. Operations: `openLot`, `nextLot`, `sold`, `passLot`,
`acceptPhoneBid`, none of them in a transaction. What makes it correct: a
lot that is sold has the price and the winner of one bid, a closed lot is not opened
again, and what the bid service relies on survives writes that it does not see. A sale
itself is kept by nothing: selling the lot again replaces its price and winner.

**Payments and escrow** (`services/payment-service`). State: the `payments`,
the `seller_payouts` and the `status` of one order. Operations:
`initiatePayment` of three methods, the provider's form, `handleCallback`,
`refund`, `createEscrow`, `releaseEscrow`, `handleDispute`, `requestPayout`,
`approvePayout`, `processPayouts`, `updateOrderStatus`. Callbacks are lost,
repeated and late; most operations read in one query and write in another. What
makes it correct: no payment is reported that the provider did not charge; the
seller is paid once, and only after a charge, a record by hand, or the release of an
escrow (for which `releaseEscrow` asks for no money); a charged card does not stay
open, which the configured callback address breaks (section 4).

**Shipping** (`services/shipping-service`). State: the `shipments` row of the
order and again the order's `status`. Operations: `createShipment`,
`updateShipmentStatus`, `generateLabel`, `cancelShipment`, a read and a
transaction each. What makes it correct: goods leave only for an order that was
paid, once.

They interact through the shared rows only. `start` opens bidding, bids move the
end date that the end job reads, `end` snapshots the bids and then waits for the
row lock of the winner that a retraction may hold; `end`, `cancel` and the desk do
not wait for calls that passed the status check. `end` creates the order that the
payment service settles, and the payment and shipping services each move its
status without asking the other.

### Not modelled yet, with state worth modelling

| component | state | operations | what is hard |
|---|---|---|---|
| `update` of a draft (`auction.service.ts`) | prices and dates of `auctions` | update against publish | prices and dates are constants of `Bidding`, and its theorems hold for each value of them; making them variables is a change of every module that extends it |
| accounts, KYC, blacklist, erasure (`auth-service/kyc`, `user-service`) | `users.kycStatus`, `isActive`, `email`, `kyc_documents`, `user_blacklist` | upload, review, blacklist, freeze, delete | two reviewers count each other's document as pending; `softDelete` writes back the email that it read, over an erasure in between |
| fractional offerings (`fractional.service.ts`, `FractionalOwnership.sol`) | `availableShares`; shares, dividends | buy, sell, distribute, claim | the shares are checked in one query and taken in another; the contract itself is serial |
| order numbers and invoices (`orders`, `invoice`) | `orders.orderNumber` | count or latest plus one | concurrent numbering, two formats; `end` retries, and `EveryAuctionCloses` shows that it gets through |
| tokens, one-time passwords (`auth-service`) | audit log, in-memory map | refresh, reset, verify | check then revoke, memory of one replica |

### Not modelled, with the reason

*Absentee bids* (`live-service/src/absentee`): `executeAbsenteeBidsForLot`, the only
code that would turn one into a bid, is called by nothing, so the table is read
by no other code. *In-memory anti-snipe counter* (`anti-snipe.service.ts`):
only `handleBidPlaced` changes it, and nothing calls that. *Notifications,
streaming, chat, the gateway, analytics, search, the apps and the AI service*:
output to providers, relays, projections of other tables, or no state.
*Products, users' profiles, content*: create, read, update and delete over
their own tables. *NFT and badge contracts*: thin extensions of library tokens.
Most of the repository's lines are pages of the web and mobile apps, generated
contract bindings and seed data, in which no two actors meet. `PROJECT.json` lists
every part.

## 2. Modules

| module | models | by |
|---|---|---|
| `Bidding` | bid service on one auction | one action per stretch of code between two awaits |
| `MCBidding` | small instances of `Bidding` | TLC |
| `BiddingProofs` | `Bidding`: type correctness and references | TLAPS |
| `BiddingSafety` | `Bidding`: the safety properties | TLAPS |
| `AuctionSale` | abstract: what the auction service promises about one auction | status, lot, sales |
| `AuctionHouse` | auction service and scheduler, EXTENDS `Bidding` | a read and a commit per operation |
| `MCAuctionHouse` | small instances of `AuctionHouse` | TLC |
| `AuctionHouseProofs` | `AuctionHouse`: its invariants | TLAPS |
| `AuctionHouseRefinement` | `AuctionHouse` implements `AuctionSale` when operations do not overlap | TLAPS |
| `LiveRoom` | auctioneer's desk, EXTENDS `Bidding` | one action per query |
| `MCLiveRoom` | a small instance of `LiveRoom` | TLC |
| `LiveRoomProofs` | `LiveRoom`: its invariants, and those of `Bidding` that survive it | TLAPS |
| `OrderMoney` | abstract: what leaves the platform, and against what | sets and flags |
| `Payments` | payment service on one order | a read and a commit per operation |
| `Settlement` | shipping service, EXTENDS `Payments` | a read and a commit per operation |
| `MCSettlement` | a small instance of `Settlement` | TLC |
| `SettlementProofs`, `SettlementSafety` | `Settlement`: types, safety properties | TLAPS |
| `SettlementRefinement` | `Settlement` implements `OrderMoney` | TLAPS |

**State of `Bidding`.** `auction` is the row of the auction, `bids` the rows of
its bids in the order of `createdAt`, `now` the clock, and `req[r]` the locals of
a call in progress: `pc` names the await where it stands, and the other fields
are what it read before and will use later, stale or not. `auto` and `seen` of a
bid are history for the properties; no action reads them.

**Actions of `Bidding`.** `placeBid` is `BeginPlaceBid` (steps 1, 2),
`ValidateBid` (4 to 6), `TurnAway` (3, 7), `CommitBid` (8), `MarkReserveMet` (9),
then `FindProxies`, `ClearForAnswer`, `CommitAnswer` (12). `setProxyBid` is
`BeginSetProxy`, `FindExistingProxy`, `ReplaceExistingProxy`,
`FindHighestForProxy`, `ClearOutbid`, `CreateProxyBid`, `SetProxyPrice`.
`cancelProxyBid` is `BeginCancelProxy`, `CancelProxy`; `retractBid` is
`BeginRetract`, `PickNewHighest`, `CommitRetract`. A transaction that only
writes is one action. One that reads between its writes (the answer, the
retraction) is two, and its first write holds a row lock (`Locked`, `Free`) until
the second; `AbortDeadlock` is PostgreSQL's detector. `Crash` is a replica that
dies or a query that fails, at any await.

**`AuctionHouse`.** `lot` stands for the rows of `auction_lots`, which
this service always changes together (the desk changes them one by one, in
`LiveRoom`); `orders` are the orders of this auction; `task[t]`
is an operation in progress. `saw`, in an operation and its order, is history for
`BestSeenBidWins`: how many bids there were when `end` read them. The number of `Worker`s is the number of operations
that overlap: two replicas' jobs, or a job and a person. `ReadEnd` reads the
auction and its bids in one step, and `CommitEnd` is the transaction.

**`LiveRoom`.** `lots` are the rows of `auction_lots`, `desk[d]` a call of
the desk. `openLot` is `ReadOpen`, `CommitOpen`; `nextLot` is `ReadCurrent`,
`ReadNext`, `CommitOpen`; `sold` is `ReadWinner`, `CommitSold` (or `CommitPass`
when nobody bid); `passLot` is `ReadPass`, `CommitPass`; `acceptPhoneBid` is
`BeginPhone`, `ClearForPhone`, `CreatePhoneBid`, `SetPhonePrice`. `sold` takes the
winning bid of the whole auction, because bids belong to no lot, and neither
`sold` nor `passLot` looks at the status of the lot: the guards are as weak as
the code's. The second query of `nextLot` and the status read of `openLot` behind
it are one action: a lot can stop being pending between them, and the call then opens it
in the model where `openLot` would refuse, so the model allows more than the code and
leaves nothing out.

**`Payments` and `Settlement`.** `order` is the order's status, `pay[p]` a row of
`payments`, of whose `providerRef` only the kind is kept (`Ref`): none, the token of the
provider's form, or another reference. `form[p]` is the provider's side (external): it
charges or declines once, and reports any number of times. There are two places to report to:
`ThreeDCallback`, the address that the form names by default, whose handler asks the
provider and writes nothing (`ThreeDAnswered`), and `Callback`, the endpoint that writes
and that takes any reference at any time. `payout` is the row of `seller_payouts` and its unique
key. `initiatePayment` is `Initiate` and then `StoreToken` (card), `StoreReference` (bank
transfer) or `HoldEscrow` (escrow, which makes a second row); `handleCallback` is `Callback` (verify and find)
and `Settle` (the transaction). `verifyCallback` answers "failed" when the provider
cannot be reached, hence the choice in `Verified`; the provider's id of the payment, if it
sends one, takes the place of the token in `Settle`. `refund`, `releaseEscrow` and
`requestPayout` are a read and a commit; `Dispute` is `handleDispute`, which
`refundEscrow` is too; `KeyTaken` is the unique key that rolls a transaction back.
`shipment` and `clerk[k]` are the shipping service, a `Read...` and a `Commit...` per
operation. `byHand` and `released` are history for the properties: the statuses that
`updateOrderStatus` wrote (`vouched`: one of them is past payment); the escrows released so
far. `OrderMoney` has the escrows opened as `held`: its `Release` asks that the escrow
exists, and for no charge, as the code does not.

**Abstractions.** Money is whole units (the rounding of decimals to
floating point is listed as a hazard, not modelled); time is whole minutes;
`ABSENTEE` bids behave as manual ones; several rows with equal amounts are chosen
from nondeterministically, as SQL does; the tier of an increment likewise,
because the relation is read without an order; audit rows, broadcasts and
notifications are left out. `PRE_BID` is accepted by the guards but entered by no
code, so no run reaches it. In `Payments` amounts, invoices and dates are left out, and
`approvePayout` and `processPayouts` are one action. `refund` is modelled as the
service has it, although `iyzico.controller.ts:127` and `:146` take the route
`payments/:id/refund` before it and cancel at the provider without a write.

## 3. Runs

In the bidding runs users are two bidders `a`, `b` and the creator `c`.
`CHECK_DEADLOCK FALSE` everywhere: when nobody calls and the clock has stopped,
nothing happens.

| run | instance | shows |
|---|---|---|
| `BiddingAll` | all endpoints, 2 calls, crashes, offers 1–3, new bids while there are none (the two calls still add up to two, and answers more) | `TypeOK`, `BeatsWhatItSaw`, `BidCountNeverOverstates`, `HistoryIsKept`, `EveryCallEnds` |
| `BiddingClock` | `placeBid` manual and buy-now, `setProxyBid`, 2 calls, crashes, a tier, a reserve, offers 1, 2, 4, time 0–2 around the end at 1 | `ProxyWithinMax`, `PriceIsABid`, `ExtensionsArePaidFor`, `ReserveMetIsTrue` |
| `BiddingSerial` | all endpoints and types, one call at a time, no crash, time 0–3 | `PriceCoversBook`, `BidCountIsExact`, `EndOnlyMovesLater` |
| `BiddingTwoWinners` | one call at a time | `OneWinner` is violated |
| `BiddingOutbid` | 2 calls | `OutbidDuringProcessingIsRefused` is violated |
| `BiddingCancelledProxy` | one call at a time | `CancelledProxyIsSilent` is violated |
| `HouseConcurrent` | Vickrey, reserve 2, 2 operations, 2 bids and their retractions | `OrdersMatchBook`, `BestSeenBidWins`, `SoldLotHasOrder`, `FateMatchesStatus` |
| `HousePromise` | Dutch, price 3 to 1, 1 operation, failures, all endpoints | `HouseTypeOK`, `ImplementsSale`, `EveryAuctionCloses` |
| `HouseTwoReplicas` | English, 2 operations | `StatusFollowsMachine` is violated: `publish` commits over `cancel` |
| `Settlement` | 2 payments of any method, 2 calls over both services, crashes, disputes, `PENDING_PAYMENT` set by hand, a delivery | `TypeOK`, `PaidIsCharged`, `GoodsAreBacked`, `PayoutIsBacked`, `OneEscrowReleased`, `CompletedIsSeen`, `KeepsPromise`, `DeliveryIsFinal` |
| `ChargedLeftOpen` | 1 card payment, 1 call, no crash, fairness | `ChargedIsSettled` is violated |
| `LiveRoom` | 2 lots, 2 desks, 1 call of the bid service, crashes, proxies, a phone bid | `RoomTypeOK`, `HammerIsABid`, `PriceIsABid`, `BidCountNeverOverstates`, `HistoryIsKept` |

**Why the bounds are enough.** Every hazard of the bid service is a race of two
calls or a sequence of at most four: two slots in `Request` give every pairwise
interleaving, stale reads and lock cycles included (a cycle needs two). Two
bidders are enough because bids compare users for equality only; three amounts
give lower, equal and higher with an increment of one, and offers of 1, 2 and 4 leave room
for an answer between. `MaxBids` limits new calls, not the book: calls that have begun and answers add bids beyond it. The clock
runs past the original end and into the extensions, two of which two bids can earn.
`BiddingClock` leaves proxies placed through `placeBid` to `BiddingSerial`, and every mix
of kinds to the theorems. In `Settlement` two
payments are what one escrow purchase makes, and enough for a card next to an escrow and
for a second attempt after a first; `MaxCalls` 2 leaves two calls of the payment service
to race, or one against one of the shipping service. `AdminStatus` holds the one status
that could break `CompletedIsSeen`; with PAID beside it the run is too long, and what
an order recorded as paid by hand allows is left to the theorems. The two calls of a
service are interchangeable, hence the symmetry. In `LiveRoom` two
desks race for a lot, two lots can be bought by one bid, and `MaxBids` 1 applies to
phone bids and new calls: a proxy of 2 and a phone bid of 3 meet in either order, and the
phone bid can lower nothing or everything. Each property was
also checked against a plausible error of the code (`mutants` of `PROJECT.json`):
the instance is large enough to expose it. For the safety properties of the passing
runs the bounds do not matter in the end: section 5 proves them for every value.

**The serial and the concurrent runs together** say where the code relies on
calls not overlapping. `PriceCoversBook`, `BidCountIsExact` and
`EndOnlyMovesLater` hold in `BiddingSerial` and fail with two calls: a bid
validated against an old highest bid may commit last; two retractions of one bid
both count; a slow bid writes the end it computed from an old one.
`BidCountNeverOverstates` and `ExtensionsArePaidFor` are what is left of them. In the
same way `ImplementsSale` holds with one operation at a time and fails with two.
`DeliveryIsFinal` is checked with one call of the shipping service (`Clerk` has one
member) and fails with two, since `generateLabel` writes back the status it read.
The violated properties are placed in the same way by theorems: `BiddingOutbid` and
`HouseTwoReplicas` need an overlap, and hold without one
(`OutbidIsRefusedWithOneCall`, `AloneFollowsMachine`); `BiddingTwoWinners` needs
no overlap but needs `setProxyBid` (`OneWinnerWithoutSetProxy`).

**Fairness.** `FairSpec` of `Bidding` lets a call that has begun go on, strongly: the event
loop resumes an await that has its answer, and PostgreSQL queues the waiters of a
row. Nobody has to call anything. `FairHouse` adds a clock that ticks, jobs that
come again (they are cron jobs), and that what is retried does not fail for ever;
weak fairness would not do, since an operation that fails is disabled in between.
`publish`, `cancel`, a manual `start` or `end` and the fall of a Dutch price are
under no fairness, so `EveryAuctionCloses` is the merit of the two jobs alone.
`FairSpec` of `Settlement` lets a call that runs go on (weakly) and has the provider post to
the address that its form names, again and again while the payment is open
(`ThreeDCallback`, strongly). That is all the deployment gives: nobody has to call
`payments/callback`, and no code polls. No buyer, seller or administrator has to do anything.

## 4. What the repository says and the code does otherwise

* `bid.service.ts:177` "Mark previous winning bid as no longer winning": the bid
  read as the highest is one of several that may be marked (`BiddingTwoWinners`).
* `bid.controller.ts:43` "Bid conflict (outbid during processing)": only what was
  there at validation is compared (`BiddingOutbid`).
* `proxy-bid.service.ts:225` "Cancel a user's proxy bid": the answers made for the
  user are proxy records too, and stay (`BiddingCancelledProxy`).
* `auction-state.machine.ts:70-75` refuses a step it does not allow: it is asked about
  the status read, not the one overwritten (`HouseTwoReplicas`, where `publish` commits over
  a cancellation; `start`, `end` and `cancel` write in the same way). An overlap of two `end`s can make two orders for different bids of one auction (`OneOrder`).

* `payment.controller.ts:56` "Payment provider callback (iyzico webhook)" documents
  `payments/callback`, and `payment.service.ts:197` "Update Payment status" what it does; the
  form, however, sends the provider to `payments/3d-callback` (`iyzico.service.ts:143-146`,
  used at `:610`; no environment or chart file sets `IYZICO_CALLBACK_URL`), whose handler
  (`iyzico.controller.ts:109-125`) writes nothing (`ChargedLeftOpen`).

Met while modelling, with no run of their own:

* `types/vickrey.strategy.ts:46` and `:91` say that the only bidder of a Vickrey auction pays
  the start price; `:122` takes his own amount. `FinalPrice` is the code's, and
  `OrdersMatchBook` holds for it: a Vickrey winner pays another bid's amount, or his own if
  no other bid stood.

* `timed.strategy.ts` says "NO extension whatsoever", and the bid service extends
  every type; the Dutch job logs "Ending as unsold" and calls `end`, which sells to the
  earliest bid; two proxy records of one user compete with each other.
* `escrow.service.ts:83` lists conditions for a release, and `releaseEscrow` checks none
  of them; an escrow order never becomes PAID, which `createShipment` asks for; a
  payout requested first makes the release fail on the unique key for ever.
* A callback that failed late overwrites a completed payment with FAILED and leaves
  the order paid; a verification that could not reach the provider marks a charged
  payment FAILED.
* `shipping.service.ts:439` lets a shipment be cancelled "if it has not been picked up
  yet", and the code accepts PICKED_UP; the order becomes PAID whatever it was, and a
  RETURNED shipment blocks a new one.
* `passLot` is documented for lots whose reserve was not met, and `sold` does not look at the
  reserve; a lot that was sold can be opened again by a slow `openLot`
  (`openLot` refuses "already in 'sold' status" at `:115-118`, before its update), or sold again
  to another bidder; the winner can
  retract his bid after the hammer.
* `absentee.service.ts` says that the auctioneer executes absentee bids: nothing calls it.

## 5. Proofs

Proved for every value of the constants that the named assumptions admit
(`BiddingAssumption`, `RoomAssumption`, `PaymentsAssumption`, `TrackedAssumption`): any
users, any number of calls, desks, operations and payments, any amounts and tiers, any bounds.

| module | theorem | statement |
|---|---|---|
| `BiddingProofs` | `TypeCorrect`, `InvariantHolds` | `Spec => []TypeOK`, `Spec => []IInv` |
| `BiddingSafety` | `HistoryKept` | `Spec => HistoryIsKept` |
| | `ProxiesStayWithinMax` | `Spec => []ProxyWithinMax` |
| | `BidsBeatWhatTheySaw` | `Spec => []BeatsWhatItSaw` |
| | `ReserveMetOnlyIfReached` | `Spec => []ReserveMetIsTrue` |
| | `PriceIsAlwaysABid` | `Spec => []PriceIsABid` |
| | `ExtensionsAlwaysPaidFor` | `Spec => []ExtensionsArePaidFor` |
| | `BidCountNeverAboveBook` | `Spec => []BidCountNeverOverstates` |
| | `EndMovesLaterWithOneCall` | one call at a time: `Spec => EndOnlyMovesLater` |
| | `CountExactWithOneCall` | one call at a time, no crash: `Spec => []BidCountIsExact` |
| | `PriceCoversWithOneCall` | one call at a time, no crash: `Spec => []PriceCoversBook` |
| | `OutbidIsRefusedWithOneCall` | one call at a time: `Spec => OutbidDuringProcessingIsRefused` |
| | `OneWinnerWithoutSetProxy` | one call at a time, ascending, no `setProxyBid`: `Spec => []OneWinner` |
| `AuctionHouseProofs` | `HouseTypeCorrect` | `HouseSpec => [](TypeOK /\ HouseTypeOK)` |
| | `OrdersAlwaysMatchBook` | `HouseSpec => []OrdersMatchBook` |
| | `BestSeenBidAlwaysWins` | `HouseSpec => []BestSeenBidWins` |
| | `SoldLotsHaveOrders` | `HouseSpec => []SoldLotHasOrder` |
| | `FateAlwaysMatches` | `HouseSpec => []FateMatchesStatus` |
| | `BidServiceStaysHonest`, `HouseKeepsHistory`, `HouseKeepsCount` | `ProxyWithinMax`, `BeatsWhatItSaw`, `HistoryIsKept` and `BidCountNeverOverstates` under `HouseSpec` |
| | `HousePriceIsABid` | not a Dutch auction: `HouseSpec => []PriceIsABid` |
| `AuctionHouseRefinement` | `AloneImplementsSale` | `HouseSpec /\ []Alone => ImplementsSale` |
| | `OneWorkerImplementsSale` | one worker: `HouseSpec => ImplementsSale` |
| | `AloneFollowsMachine`, `AloneMakesOneOrder` | `HouseSpec /\ []Alone => StatusFollowsMachine`, `=> []OneOrder` |
| `LiveRoomProofs` | `RoomTypeCorrect`, `HammerIsABidAlways` | `RoomSpec => []RoomTypeOK`, `RoomSpec => []HammerIsABid` |
| | `RoomHistoryKept`, `RoomCountNeverAboveBook` | `HistoryIsKept` and `BidCountNeverOverstates` under `RoomSpec` |
| | `BidServiceStaysSafe` | `ProxyWithinMax`, `BeatsWhatItSaw`, `ReserveMetIsTrue`, `PriceIsABid`, `ExtensionsArePaidFor` under `RoomSpec` |
| | `ClosedStaysClosedWithOneDesk` | `RoomSpec /\ []OneDesk => ClosedLotStaysClosed` |
| `SettlementProofs` | `SettlementTypeCorrect` | `Spec => []TypeOK` |
| `SettlementSafety` | `PaidIsChargedAlways`, `GoodsAreBackedAlways`, `PayoutIsBackedAlways`, `OneEscrowReleasedAlways` | `Spec => []` of the property of that name |
| `SettlementRefinement` | `SettlementKeepsPromise` | `Spec => KeepsPromise` |
| | `CompletedIsSeenAlways` | `Spec => []CompletedIsSeen` |
| | `DeliveryIsFinalWithOneClerk` | `Spec /\ []OneClerk => DeliveryIsFinal` |

**`Bidding`.** `TypeOK` is not inductive: `ReplaceExistingProxy`, `CancelProxy` and `CommitRetract`
write or read the row at a position that their call found some steps earlier, and
from an arbitrary well-typed state that position could lie outside the book.
`IInv` adds `RefsOK`: the positions `bid` and `next` that a call is going to use
are rows of `bids`. It is inductive because `bids` only grows (`StepKeepsIInv` carries
the references of the calls that do not move) and because each read picks a row that
exists. One lemma per group of handlers proves `IInv'`; `NextIInv` combines them.

The safety properties are not inductive either: what they say of a new bid depends
on what the call that inserts it remembers. `SInv` adds one conjunct for each
kind of memory (`CallSound`):

* `SawLower`: between validation and insert, every bid the call saw that still stands
  is lower than the call's amount (amounts never change, a bid leaves the book but does
  not come back);
* `WithinMandate`: an answer under way is within a maximum, and some row is the
  user's own record of that maximum;
* `PriceOfABid`: the price `setProxyBid` has yet to write is the amount of a row;
* `ReserveSeen`: a call that has yet to write `reserveMet` follows a bid that reached
  the reserve;
* `EndSeen`: the end date that `placeBid` read, stale or not, is the planned end and at
  most as many extensions as there are rows.

Two facts carry the proof. `StepKeepsRows`: every row keeps its contents except
`winning` and its retraction; so each conjunct stays true of the calls that do
not move, whatever the others write. `HowItGotThere`: each of those program counters
is reached by one action only, which is where the conjunct is established.

`BidCountNeverOverstates` needs a count of calls: a row is on the book before it is
counted, so `CountSound` says that `bidCount` and the calls in `setPrice` together are at
most the counted rows. For one call at a time the slack disappears. `EndKnown`: the end
that a call read is the end as it is. `CountKnown`: `bidCount` and the one call that has
yet to count are exactly the counted rows. `SerialPrice`: the amount of a call between
its validation and its last write covers every bid that stands, and so does the
price except while the one call has yet to write it (`setPrice`).

`LadderInv` carries the two theorems about bids that overlap and about the mark of the winning
bid, crashes included. `Ladder`: the bids that stand rise in the order in which they were made.
`MarkOnTop`: a marked bid is the latest that stands, so there is one at most. `Outbids`: from
validation to insert the amount of a bid is above the book as it is, not only as it was read.
`Rung`: what the one call knows of the marks it will clear, of the price it answers to and
of the bid that a retraction will mark; and that it is not in `setProxyBid`, which inserts
whatever the highest bid is and breaks the ladder. A crash leaves at worst no mark.
`OutbidIsRefusedWithOneCall` needs only `Outbids`, and so allows `setProxyBid`.

**`AuctionHouse`.** The steps of the bid service are those of `Bidding`, so its lemmas
are used as they are. `HouseInv` adds what an operation knows: `KnowsSale` (the winner that
`end` found is a row, at a price that some row makes, above the reserve),
`OrderBacked` and `OnceEach` of the orders, and `BookPositive`, without which `end` would take
a price of zero for no sale. That a highest and an earliest bid exist is
proved from finiteness (`Greatest`). `BestSeenBidWins` needs `Unbeaten` of an `end` in
progress and of the orders: the first `saw` bids make the price by the rule of the auction
(`PaysByRule`), and none of them that still stands is above it. A retraction only helps, and bids keep their amounts, so it survives
everything until the transaction commits (`UnbeatenKept`). It is what a sale promises although
a bid placed in between is not counted.

The other direction, what the auction service does to the bid service: `HouseTouches` says
that its operations leave the calls in progress, the number of bids, their contents (except
the mark of the winner) and the count alone. That is an `OutsideWrite`, for which `BiddingSafety` proves once that
`BookInv` (what the calls remember of the book, `ProxyWithinMax`, `BeatsWhatItSaw`) survives it; the
steps of the live room are `OutsideWrite`s too. Not all of `SInv` survives: `end` and `cancel`
write the end date, and `end` writes `reserveMet` by a rule of its own, so
`ExtensionsArePaidFor` and `ReserveMetIsTrue` are stated for the bid service and the
live room only; the Dutch job makes prices that no bid has, hence the assumption of
`HousePriceIsABid`.

The refinement adds what is true only while operations
do not overlap: what was read is current (`ReadIsCurrent`), and nothing is sold
before the auction is over (`NothingDecided`). `AloneFollowsMachine` and `AloneMakesOneOrder`
are read off the refinement: a step of `AuctionSale` that changes the status is one of the
machine's, and only its `Sell` makes an order, from a status that it leaves.

**`LiveRoom`.** `RoomInv` is `IInv` and `DeskKnows` (the bid that `sold` found is a row of
the book) and `Hammered` (every hammer price, and every lot that reads sold, is a row's). That `SInv` survives the desk
is proved by treating each desk step as a change of rows that keeps users and amounts, or
an insert that every conjunct tolerates; `DeskPriced` says that the amount of a phone
bid that is on the book but not yet the price is a row's. `ClosedStaysClosedWithOneDesk` needs
`OpenKnows`: while nobody else is at the desk, the lot that a call is about to open is
pending still; with two desks TLC has a counterexample of four steps.

**`Settlement`.** `IInv` says what a call knows across its await. `FormOwned`: a payment that
does not exist has no form, and a call about to store the token of one holds an existing
payment without a form, which no other call holds. `CallKnows`: a call about to settle holds
an existing payment and with success follows a charge, one about to refund an existing payment (by card: a charged one),
one about to release an existing escrow payment, one about to pay out a paid order.
`StatusIsBacked`: what a status of the order says about the money. `ReleaseIsPaid`: when the
seller has a profile a release leaves a payout behind, so the unique key stops the next
one. `ClerkKnows`: a shipment under way follows a paid order. `GoodsAreBacked` is thus
inductive although the order may be refunded in between: what backed it does not go
away. The refinement maps each commit to one step of `OrderMoney`
and every read to a stutter. `DeliveryIsFinal` needs `FreshInv`: while nobody else is at
the shipping service, what a call of it read is still so when it commits (no shipment yet,
not over, or the status that a label writes back). Payment calls may overlap with it,
since they write no shipment.

TLC found no violation of the inductive invariants on the instances of the runs before
they were proved.

**Only model-checked.** The liveness properties `EveryCallEnds` and `EveryAuctionCloses`:
fairness and ENABLED are beyond the prover. No module of the project
declares a RECURSIVE operator.

## 6. Plan

Done: `Bidding`, `AuctionSale`, `AuctionHouse`, `Payments`, `Settlement`, `OrderMoney` and
`LiveRoom`, with their runs; theorems for every safety property of the passing runs, for both
refinements, for what holds of the bid service under the other writers, and for what the
violated properties are worth while calls do not overlap.

Left, in the order in which they would add most:

1. `Accounts`: KYC reviews, blacklist, freeze and erasure of one user over `auth-service` and
   `user-service`; an approval that some document earned, and what holds only while
   calls do not overlap.
2. `update` of a draft: prices and dates as variables of `AuctionHouse`.
3. Offerings of shares: no more shares sold than there are, with calls that do not overlap.

--------------------------- MODULE BiddingProofs ---------------------------
(***************************************************************************)
(* Theorems about Bidding, for every value of its constants that satisfies *)
(* BiddingAssumption: any number of users and calls in progress, any       *)
(* amounts, any type of auction.                                           *)
(***************************************************************************)
EXTENDS Bidding, SequenceTheorems, TLAPS

(***************************************************************************)
(* The indices a call holds denote bids that exist: bids are never         *)
(* deleted, so what was read before an await is still there after it.      *)
(***************************************************************************)
RefOK(q) ==
    /\ q.pc \in {"setRetract", "cancel", "retract", "retractCommit"}
         => q.bid \in 1..Len(bids)
    /\ q.pc = "retractCommit" => q.next \in 0..Len(bids)

RefsOK == \A r \in Request : RefOK(req[r])

IInv == TypeOK /\ RefsOK

(***************************************************************************)
(* The helpers of the model.                                               *)
(***************************************************************************)
LEMMA IncrementsPositive ==
    ASSUME NEW p \in Nat
    PROVE  Increments(p) \subseteq Nat \ {0}
BY BiddingAssumption DEF Increments, Tier

LEMMA ActiveInDomain ==
    ASSUME TypeOK
    PROVE  /\ DOMAIN bids = 1..Len(bids)
           /\ Len(bids) \in Nat
           /\ Active \subseteq 1..Len(bids)
           /\ \A i \in 1..Len(bids) : bids[i] \in Bid
BY DEF TypeOK, Active

LEMMA FirstByAmountIn ==
    ASSUME NEW S, NEW h \in FirstByAmount(S)
    PROVE  h \in {0} \cup S
BY DEF FirstByAmount

\* Rows after an update: clearing isWinning keeps the shape of the table.
LEMMA ClearWinningType ==
    ASSUME TypeOK, NEW S
    PROVE  /\ ClearWinning(S) \in Seq(Bid)
           /\ Len(ClearWinning(S)) = Len(bids)
<1>1. \A i \in 1..Len(bids) : ClearWinning(S)[i] \in Bid
  BY ActiveInDomain DEF ClearWinning, Bid
<1>2. DOMAIN ClearWinning(S) = 1..Len(bids)
  BY ActiveInDomain DEF ClearWinning
<1>3. ClearWinning(S) = [i \in 1..Len(bids) |-> ClearWinning(S)[i]]
  BY ActiveInDomain DEF ClearWinning
<1>4. QED
  BY <1>1, <1>2, <1>3, ActiveInDomain, SeqDef, LenProperties

LEMMA NewBidType ==
    ASSUME TypeOK, NEW u \in User, NEW a \in Nat, NEW t \in BidType, NEW m \in Nat,
           NEW auto \in BOOLEAN, NEW seen \in Nat
    PROVE  NewBid(u, a, t, m, auto, seen) \in Bid
BY DEF NewBid, Bid, Reason, TypeOK

LEMMA IdleType == Idle \in Call /\ Idle.pc = "idle"
BY BiddingAssumption DEF Idle, Call, PC, BidType

\* A call keeps its shape when one of its fields is assigned.
LEMMA CallFields ==
    ASSUME NEW q \in Call
    PROVE  /\ \A v \in PC : [q EXCEPT !.pc = v] \in Call
           /\ \A v \in User : [q EXCEPT !.user = v] \in Call
           /\ \A v \in Nat : [q EXCEPT !.amount = v] \in Call
           /\ \A v \in BidType : [q EXCEPT !.type = v] \in Call
           /\ \A v \in Nat : [q EXCEPT !.max = v] \in Call
           /\ \A v \in Nat : [q EXCEPT !.price = v] \in Call
           /\ \A v \in BOOLEAN : [q EXCEPT !.reserveMet = v] \in Call
           /\ \A v \in Nat : [q EXCEPT !.end = v] \in Call
           /\ \A v \in Nat : [q EXCEPT !.seen = v] \in Call
           /\ \A v \in SUBSET Nat : [q EXCEPT !.clear = v] \in Call
           /\ \A v \in Nat : [q EXCEPT !.bid = v] \in Call
           /\ \A v \in Nat : [q EXCEPT !.next = v] \in Call
<1>1. /\ \A v \in PC : [q EXCEPT !.pc = v] \in Call
      /\ \A v \in User : [q EXCEPT !.user = v] \in Call
      /\ \A v \in Nat : [q EXCEPT !.amount = v] \in Call
  BY DEF Call
<1>2. /\ \A v \in BidType : [q EXCEPT !.type = v] \in Call
      /\ \A v \in Nat : [q EXCEPT !.max = v] \in Call
      /\ \A v \in Nat : [q EXCEPT !.price = v] \in Call
  BY DEF Call
<1>3. /\ \A v \in BOOLEAN : [q EXCEPT !.reserveMet = v] \in Call
      /\ \A v \in Nat : [q EXCEPT !.end = v] \in Call
      /\ \A v \in Nat : [q EXCEPT !.seen = v] \in Call
  BY DEF Call
<1>4. /\ \A v \in SUBSET Nat : [q EXCEPT !.clear = v] \in Call
      /\ \A v \in Nat : [q EXCEPT !.bid = v] \in Call
      /\ \A v \in Nat : [q EXCEPT !.next = v] \in Call
  BY DEF Call
<1>5. QED
  BY <1>1, <1>2, <1>3, <1>4

\* The types of the fields of a call, of a row of bids and of the auction.
LEMMA CallTypes ==
    ASSUME NEW q \in Call
    PROVE  /\ q.pc \in PC /\ q.user \in User /\ q.type \in BidType
           /\ q.amount \in Nat /\ q.max \in Nat /\ q.price \in Nat
           /\ q.reserveMet \in BOOLEAN
           /\ q.end \in Nat /\ q.seen \in Nat /\ q.clear \in SUBSET Nat
           /\ q.bid \in Nat /\ q.next \in Nat
BY DEF Call

LEMMA AuctionTypes ==
    ASSUME TypeOK
    PROVE  /\ auction.currentPrice \in Nat /\ auction.bidCount \in Int
           /\ auction.bidCount + 1 \in Int /\ auction.bidCount - 1 \in Int
           /\ auction.actualEnd \in Nat
BY DEF TypeOK, Auction

LEMMA AuctionFields ==
    ASSUME TypeOK
    PROVE  /\ \A p \in Nat, n \in Int :
                [auction EXCEPT !.currentPrice = p, !.bidCount = n] \in Auction
           /\ \A p \in Nat, n \in Int, e \in Nat :
                [auction EXCEPT !.currentPrice = p, !.bidCount = n,
                                !.actualEnd = e] \in Auction
           /\ [auction EXCEPT !.reserveMet = TRUE] \in Auction
BY DEF TypeOK, Auction

(***************************************************************************)
(* A step of call r that assigns slot r the value x and deletes no bid     *)
(* preserves the invariant.                                                *)
(***************************************************************************)
LEMMA StepKeepsIInv ==
    ASSUME IInv, NEW r \in Request, NEW x \in Call,
           req' = [req EXCEPT ![r] = x],
           auction' \in Auction, bids' \in Seq(Bid), now' \in Nat,
           Len(bids') >= Len(bids),
           RefOK(x)
    PROVE  IInv'
<1>1. TypeOK'
  BY DEF IInv, TypeOK
<1>2. Len(bids) \in Nat /\ Len(bids') \in Nat
  BY DEF IInv, TypeOK
<1>3. ASSUME NEW q \in Call, RefOK(q)
      PROVE  /\ q.pc \in {"setRetract", "cancel", "retract", "retractCommit"}
                  => q.bid \in 1..Len(bids')
             /\ q.pc = "retractCommit" => q.next \in 0..Len(bids')
  BY <1>2, <1>3 DEF RefOK, Call
<1>4. RefsOK'
  <2>1. \A p \in Request : req'[p] \in Call /\ RefOK(req'[p])
    BY DEF IInv, TypeOK, RefsOK
  <2>2. QED
    BY <1>3, <2>1 DEF RefsOK, RefOK
<1>5. QED
  BY <1>1, <1>4 DEF IInv

\* The special case of a step that only moves the call on.
LEMMA ReadKeepsIInv ==
    ASSUME IInv, NEW r \in Request, NEW x \in Call,
           req' = [req EXCEPT ![r] = x],
           UNCHANGED <<auction, bids, now>>,
           RefOK(x)
    PROVE  IInv'
<1>1. auction' \in Auction /\ bids' \in Seq(Bid) /\ now' \in Nat /\ Len(bids') >= Len(bids)
  BY DEF IInv, TypeOK
<1>2. QED
  BY <1>1, StepKeepsIInv

(***************************************************************************)
(* placeBid.                                                               *)
(***************************************************************************)
LEMMA ExtendedEndType ==
    ASSUME TypeOK, NEW e \in Nat
    PROVE  ExtendedEnd(e) \in Nat
<1>1. auction.actualEnd \in Nat /\ now \in Nat
  BY AuctionTypes DEF TypeOK
<1>2. QED
  BY <1>1, BiddingAssumption DEF ExtendedEnd

LEMMA PlaceBidKeepsIInv ==
    ASSUME IInv, NEW r \in Request
    PROVE  /\ \A u \in User, a \in Nat, t \in BidType, m \in Nat :
                BeginPlaceBid(r, u, a, t, m) => IInv'
           /\ ValidateBid(r) => IInv'
           /\ CommitBid(r) => IInv'
           /\ MarkReserveMet(r) => IInv'
<1> DEFINE q == req[r]
<1>0. q \in Call /\ Idle \in Call /\ RefOK(Idle)
  BY IdleType DEF IInv, TypeOK, RefOK
<1>1. TypeOK /\ auction \in Auction /\ bids \in Seq(Bid) /\ now \in Nat /\ Len(bids) \in Nat
  BY DEF IInv, TypeOK
<1>2. ASSUME NEW u \in User, NEW a \in Nat, NEW t \in BidType, NEW m \in Nat,
             BeginPlaceBid(r, u, a, t, m)
      PROVE  IInv'
  <2> DEFINE x == [Idle EXCEPT !.pc = "validate", !.user = u, !.amount = a,
                               !.type = t, !.max = m, !.end = EffectiveEnd,
                               !.reserveMet = auction.reserveMet]
  <2>1. EffectiveEnd \in Nat /\ auction.reserveMet \in BOOLEAN
    BY <1>1, BiddingAssumption DEF EffectiveEnd, Auction
  <2>2. x \in Call
    BY <1>0, <2>1, CallFields DEF PC
  <2>3. x.pc = "validate"
    BY <1>0 DEF Call
  <2>4. RefOK(x)
    BY <2>3 DEF RefOK
  <2>5. req' = [req EXCEPT ![r] = x] /\ UNCHANGED <<auction, bids, now>>
    BY <1>2 DEF BeginPlaceBid
  <2> HIDE DEF x
  <2>6. QED
    BY <2>2, <2>4, <2>5, ReadKeepsIInv
<1>3. ASSUME ValidateBid(r) PROVE IInv'
  <2>1. UNCHANGED <<auction, bids, now>>
    BY <1>3 DEF ValidateBid
  <2>2. PICK h \in FirstByAmount(Active) :
          \/ req' = [req EXCEPT ![r] = Idle]
          \/ req' = [req EXCEPT ![r] =
                       [q EXCEPT !.pc = "commit", !.seen = Len(bids),
                                 !.clear = IF h # 0 /\ bids[h].winning THEN {h} ELSE {}]]
    BY <1>3 DEF ValidateBid, Refused
  <2> DEFINE C == IF h # 0 /\ bids[h].winning THEN {h} ELSE {}
             x == [q EXCEPT !.pc = "commit", !.seen = Len(bids), !.clear = C]
  <2>3. C \in SUBSET Nat
    BY <1>1, FirstByAmountIn, ActiveInDomain
  <2>4. x \in Call
    BY <1>0, <1>1, <2>3, CallFields DEF PC
  <2>5. x.pc = "commit"
    BY <1>0 DEF Call
  <2>6. RefOK(x)
    BY <2>5 DEF RefOK
  <2>7. req' = [req EXCEPT ![r] = Idle] \/ req' = [req EXCEPT ![r] = x]
    BY <2>2
  <2> HIDE DEF x
  <2>8. QED
    BY <1>0, <2>1, <2>4, <2>6, <2>7, ReadKeepsIInv
<1>4. ASSUME CommitBid(r) PROVE IInv'
  <2> DEFINE p == IF ReachesReserve(q) THEN "reserve" ELSE "respond"
             x == [Idle EXCEPT !.pc = p, !.user = q.user, !.amount = q.amount]
             b == NewBid(q.user, q.amount, q.type, q.max, FALSE, q.seen)
  <2>1. b \in Bid
    BY <1>0, <1>1, CallTypes, NewBidType
  <2>2. bids' = Append(ClearWinning(q.clear), b) /\ now' = now
    BY <1>4 DEF CommitBid
  <2> HIDE DEF b
  <2>3. bids' \in Seq(Bid) /\ Len(bids') >= Len(bids)
    BY <1>1, <2>1, <2>2, ClearWinningType
  <2>4. q.amount \in Nat /\ auction.bidCount + 1 \in Int /\ ExtendedEnd(q.end) \in Nat
    BY <1>0, <1>1, CallTypes, AuctionTypes, ExtendedEndType
  <2>5. auction' \in Auction
    <3>1. auction' = [auction EXCEPT !.currentPrice = q.amount,
                                     !.bidCount = auction.bidCount + 1,
                                     !.actualEnd = ExtendedEnd(q.end)]
      BY <1>4 DEF CommitBid
    <3>2. QED
      BY <1>1, <2>4, <3>1, AuctionFields
  <2>6. x \in Call
    BY <1>0, CallTypes, CallFields DEF PC
  <2>7. x.pc = p
    BY <1>0 DEF Call
  <2>8. RefOK(x)
    BY <2>7 DEF RefOK
  <2>9. req' = [req EXCEPT ![r] = x]
    BY <1>4 DEF CommitBid
  <2> HIDE DEF x
  <2>10. QED
    BY <1>1, <2>2, <2>3, <2>5, <2>6, <2>8, <2>9, StepKeepsIInv
<1>5. ASSUME MarkReserveMet(r) PROVE IInv'
  <2> DEFINE x == [q EXCEPT !.pc = "respond"]
  <2>1. x \in Call
    BY <1>0, CallFields DEF PC
  <2>2. x.pc = "respond"
    BY <1>0 DEF Call
  <2>3. req' = [req EXCEPT ![r] = x] /\ auction' \in Auction /\ UNCHANGED <<bids, now>>
    BY <1>1, <1>5, AuctionFields DEF MarkReserveMet, TypeOK
  <2>4. RefOK(x)
    BY <2>2 DEF RefOK
  <2>5. Len(bids') >= Len(bids) /\ bids' \in Seq(Bid) /\ now' \in Nat
    BY <1>1, <2>3
  <2> HIDE DEF x
  <2>6. QED
    BY <2>1, <2>3, <2>4, <2>5, StepKeepsIInv
<1>6. QED
  BY <1>2, <1>3, <1>4, <1>5

(***************************************************************************)
(* processProxyBids.                                                       *)
(***************************************************************************)
LEMMA AnswerKeepsIInv ==
    ASSUME IInv, NEW r \in Request
    PROVE  /\ FindProxies(r) => IInv'
           /\ ClearForAnswer(r) => IInv'
           /\ CommitAnswer(r) => IInv'
<1> DEFINE q == req[r]
<1>0. q \in Call /\ Idle \in Call /\ RefOK(Idle)
  BY IdleType DEF IInv, TypeOK, RefOK
<1>1. TypeOK /\ auction \in Auction /\ bids \in Seq(Bid) /\ now \in Nat /\ Len(bids) \in Nat
  BY DEF IInv, TypeOK
<1>2. ASSUME FindProxies(r) PROVE IInv'
  <2>0. UNCHANGED <<auction, bids, now>>
    BY <1>2 DEF FindProxies
  <2>1. ASSUME NEW inc \in Increments(q.amount), NEW h \in Active, NEW s \in Active
        PROVE  /\ q.amount + inc \in Nat
               /\ CompetingAmount(h, s, q.amount + inc, inc) \in Nat
    <3>1. inc \in Nat /\ q.amount \in Nat
      BY <1>0, CallTypes, IncrementsPositive
    <3>2. bids[h].max \in Nat /\ bids[s].max \in Nat
      BY <1>1, ActiveInDomain DEF Bid
    <3>3. QED
      BY <3>1, <3>2 DEF CompetingAmount, Larger, Smaller
  <2>2. \A u, f : EligibleProxies(u, f) \subseteq Active
    BY DEF EligibleProxies
  <2>3. \/ req' = [req EXCEPT ![r] = Idle]
        \/ \E i \in Active, a \in Nat : Answer(r, i, a)
    BY <1>2, <2>1, <2>2 DEF FindProxies
  <2>4. ASSUME NEW i \in Active, NEW a \in Nat, Answer(r, i, a) PROVE IInv'
    <3> DEFINE x == [Idle EXCEPT !.pc = "answer", !.user = bids[i].user,
                                 !.amount = a, !.max = bids[i].max]
    <3>1. bids[i].user \in User /\ bids[i].max \in Nat
      BY <1>1, ActiveInDomain DEF Bid
    <3>2. x \in Call
      BY <1>0, <3>1, CallFields DEF PC
    <3>3. x.pc = "answer"
      BY <1>0 DEF Call
    <3>4. RefOK(x)
      BY <3>3 DEF RefOK
    <3>5. req' = [req EXCEPT ![r] = x]
      BY <2>4 DEF Answer
    <3> HIDE DEF x
    <3>6. QED
      BY <2>0, <3>2, <3>4, <3>5, ReadKeepsIInv
  <2>5. QED
    BY <1>0, <2>0, <2>3, <2>4, ReadKeepsIInv
<1>3. ASSUME ClearForAnswer(r) PROVE IInv'
  <2> DEFINE W == {i \in Active : bids[i].winning}
             x == [q EXCEPT !.pc = "answerCommit", !.clear = W]
  <2>1. W \in SUBSET Nat
    BY <1>1, ActiveInDomain
  <2>2. x \in Call
    BY <1>0, <2>1, CallFields DEF PC
  <2>3. x.pc = "answerCommit"
    BY <1>0 DEF Call
  <2>4. RefOK(x)
    BY <2>3 DEF RefOK
  <2>5. req' = [req EXCEPT ![r] = x] /\ UNCHANGED <<auction, bids, now>>
    BY <1>3 DEF ClearForAnswer, IInv, TypeOK
  <2> HIDE DEF x
  <2>6. QED
    BY <2>2, <2>4, <2>5, ReadKeepsIInv
<1>4. ASSUME CommitAnswer(r) PROVE IInv'
  <2> DEFINE b == NewBid(q.user, q.amount, "PROXY", q.max, TRUE, 0)
  <2>1. b \in Bid
    <3>1. "PROXY" \in BidType /\ TRUE \in BOOLEAN /\ 0 \in Nat
      BY DEF BidType
    <3>2. QED
      BY <1>0, <1>1, <3>1, CallTypes, NewBidType
  <2>2. bids' = Append(ClearWinning(q.clear), b) /\ now' = now
    BY <1>4 DEF CommitAnswer
  <2> HIDE DEF b
  <2>3. bids' \in Seq(Bid) /\ Len(bids') >= Len(bids)
    BY <1>1, <2>1, <2>2, ClearWinningType
  <2>4. q.amount \in Nat /\ auction.bidCount + 1 \in Int
    BY <1>0, <1>1, CallTypes, AuctionTypes
  <2>5. auction' = [auction EXCEPT !.currentPrice = q.amount,
                                   !.bidCount = auction.bidCount + 1]
    BY <1>4 DEF CommitAnswer
  <2>6. auction' \in Auction
    BY <1>1, <2>4, <2>5, AuctionFields
  <2>7. req' = [req EXCEPT ![r] = Idle]
    BY <1>4 DEF CommitAnswer
  <2>8. QED
    BY <1>0, <1>1, <2>2, <2>3, <2>6, <2>7, StepKeepsIInv
<1>5. QED
  BY <1>2, <1>3, <1>4

(***************************************************************************)
(* setProxyBid.                                                            *)
(***************************************************************************)
LEMMA SetProxyReadsKeepIInv ==
    ASSUME IInv, NEW r \in Request
    PROVE  /\ \A u \in User, m \in Nat : BeginSetProxy(r, u, m) => IInv'
           /\ FindExistingProxy(r) => IInv'
           /\ FindHighestForProxy(r) => IInv'
<1> DEFINE q == req[r]
<1>0. q \in Call /\ Idle \in Call
  BY IdleType DEF IInv, TypeOK
<1>1. TypeOK /\ bids \in Seq(Bid) /\ now \in Nat /\ Len(bids) \in Nat
  BY DEF IInv, TypeOK
<1>2. ASSUME NEW u \in User, NEW m \in Nat, BeginSetProxy(r, u, m) PROVE IInv'
  <2> DEFINE x == [Idle EXCEPT !.pc = "setFind", !.user = u, !.max = m,
                               !.price = auction.currentPrice]
  <2>1. x \in Call
    BY <1>0, <1>1, AuctionTypes, CallFields DEF PC
  <2>2. x.pc = "setFind"
    BY <1>0 DEF Call
  <2>3. RefOK(x)
    BY <2>2 DEF RefOK
  <2>4. req' = [req EXCEPT ![r] = x] /\ UNCHANGED <<auction, bids, now>>
    BY <1>2 DEF BeginSetProxy
  <2> HIDE DEF x
  <2>5. QED
    BY <2>1, <2>3, <2>4, ReadKeepsIInv
<1>3. ASSUME FindExistingProxy(r) PROVE IInv'
  <2>1. UNCHANGED <<auction, bids, now>>
    BY <1>3 DEF FindExistingProxy
  <2>2. CASE req' = [req EXCEPT ![r].pc = "setHighest"]
    <3> DEFINE x == [q EXCEPT !.pc = "setHighest"]
    <3>1. x \in Call
      BY <1>0, CallFields DEF PC
    <3>2. x.pc = "setHighest"
      BY <1>0 DEF Call
    <3>3. RefOK(x)
      BY <3>2 DEF RefOK
    <3>4. req' = [req EXCEPT ![r] = x]
      BY <2>2, <1>1 DEF TypeOK
    <3> HIDE DEF x
    <3>5. QED
      BY <2>1, <3>1, <3>3, <3>4, ReadKeepsIInv
  <2>3. ASSUME NEW i \in LatestProxy(q.user),
               req' = [req EXCEPT ![r].pc = "setRetract", ![r].bid = i]
        PROVE  IInv'
    <3> DEFINE x == [q EXCEPT !.pc = "setRetract", !.bid = i]
    <3>1. i \in 1..Len(bids) /\ i \in Nat
      BY <1>1, ActiveInDomain DEF LatestProxy
    <3>2. x \in Call
      BY <1>0, <3>1, CallFields DEF PC
    <3>3. x.pc = "setRetract" /\ x.bid = i
      BY <1>0 DEF Call
    <3>4. RefOK(x)
      BY <3>1, <3>3 DEF RefOK
    <3>5. req' = [req EXCEPT ![r] = x]
      BY <2>3, <1>1 DEF TypeOK
    <3> HIDE DEF x
    <3>6. QED
      BY <2>1, <3>2, <3>4, <3>5, ReadKeepsIInv
  <2>4. QED
    BY <1>3, <2>2, <2>3 DEF FindExistingProxy
<1>4. ASSUME FindHighestForProxy(r) PROVE IInv'
  <2>1. UNCHANGED <<auction, bids, now>>
    BY <1>4 DEF FindHighestForProxy
  <2>2. PICK h \in FirstByAmount(Active), inc \in Increments(q.price) :
          LET outbid == IF h # 0 /\ bids[h].winning /\ bids[h].user # q.user
                        THEN {h} ELSE {}
          IN  req' = [req EXCEPT ![r] =
                        [q EXCEPT !.pc = IF outbid = {} THEN "setCreate" ELSE "setClear",
                                  !.amount = InitialAmount(q, h, inc),
                                  !.clear = outbid, !.price = 0]]
    BY <1>4 DEF FindHighestForProxy
  <2> DEFINE C == IF h # 0 /\ bids[h].winning /\ bids[h].user # q.user THEN {h} ELSE {}
             p == IF C = {} THEN "setCreate" ELSE "setClear"
             a == InitialAmount(q, h, inc)
             x == [q EXCEPT !.pc = p, !.amount = a, !.clear = C, !.price = 0]
  <2>3. h \in Nat /\ (h # 0 => bids[h].amount \in Nat)
    BY <1>1, FirstByAmountIn, ActiveInDomain DEF Bid
  <2>4. a \in Nat
    <3>1. inc \in Nat /\ q.max \in Nat /\ StartPrice \in Nat
      BY <1>0, CallTypes, IncrementsPositive, BiddingAssumption
    <3>2. QED
      BY <2>3, <3>1 DEF InitialAmount, Smaller
  <2>5. x \in Call
    <3>1. p \in PC /\ C \in SUBSET Nat /\ 0 \in Nat
      BY <2>3 DEF PC
    <3> HIDE DEF p, C, a
    <3>2. QED
      BY <1>0, <2>4, <3>1, CallFields
  <2>6. x.pc = p
    BY <1>0 DEF Call
  <2>7. RefOK(x)
    BY <2>6 DEF RefOK
  <2>8. req' = [req EXCEPT ![r] = x]
    BY <2>2
  <2> HIDE DEF x
  <2>9. QED
    BY <2>1, <2>5, <2>7, <2>8, ReadKeepsIInv
<1>5. QED
  BY <1>2, <1>3, <1>4

\* A row keeps its shape when its retraction or isWinning is written.
LEMMA BidFields ==
    ASSUME NEW b \in Bid
    PROVE  /\ \A v \in Reason : [b EXCEPT !.retracted = TRUE, !.reason = v] \in Bid
           /\ \A v \in Reason : [b EXCEPT !.retracted = TRUE, !.winning = FALSE,
                                          !.reason = v] \in Bid
           /\ \A v \in BOOLEAN : [b EXCEPT !.winning = v] \in Bid
BY DEF Bid

\* Retracting a row, as setProxyBid and cancelProxyBid do.
LEMMA RetractedRow ==
    ASSUME TypeOK, NEW i \in 1..Len(bids), NEW v \in Reason
    PROVE  /\ [bids EXCEPT ![i].retracted = TRUE, ![i].reason = v] \in Seq(Bid)
           /\ Len([bids EXCEPT ![i].retracted = TRUE, ![i].reason = v]) = Len(bids)
<1> DEFINE b == [bids[i] EXCEPT !.retracted = TRUE, !.reason = v]
           new == [bids EXCEPT ![i].retracted = TRUE, ![i].reason = v]
<1>1. bids \in Seq(Bid) /\ bids[i] \in Bid
  BY ActiveInDomain DEF TypeOK
<1>2. b \in Bid
  BY <1>1, BidFields
<1>3. new = [bids EXCEPT ![i] = b]
  BY ActiveInDomain DEF TypeOK
<1> HIDE DEF b, new
<1>4. new \in Seq(Bid) /\ Len(new) = Len(bids)
  BY <1>1, <1>2, <1>3, ExceptSeq
<1>5. QED
  BY <1>4 DEF new

LEMMA SetProxyWritesKeepIInv ==
    ASSUME IInv, NEW r \in Request
    PROVE  /\ ReplaceExistingProxy(r) => IInv'
           /\ ClearOutbid(r) => IInv'
           /\ CreateProxyBid(r) => IInv'
           /\ SetProxyPrice(r) => IInv'
<1> DEFINE q == req[r]
<1>0. q \in Call /\ Idle \in Call /\ RefOK(Idle) /\ RefOK(q)
  BY IdleType DEF IInv, TypeOK, RefOK, RefsOK
<1>1. TypeOK /\ auction \in Auction /\ bids \in Seq(Bid) /\ now \in Nat /\ Len(bids) \in Nat
  BY DEF IInv, TypeOK
<1>2. ASSUME ReplaceExistingProxy(r) PROVE IInv'
  <2> DEFINE x == [q EXCEPT !.pc = "setHighest", !.bid = 0]
  <2>1. q.bid \in 1..Len(bids) /\ "replaced" \in Reason
    <3>1. q.pc = "setRetract"
      BY <1>2 DEF ReplaceExistingProxy
    <3>2. QED
      BY <1>0, <3>1 DEF RefOK, Reason
  <2>2. UNCHANGED <<auction, now>> /\ bids' =
          [bids EXCEPT ![q.bid].retracted = TRUE, ![q.bid].reason = "replaced"]
    BY <1>2 DEF ReplaceExistingProxy
  <2>3. bids' \in Seq(Bid) /\ Len(bids') >= Len(bids)
    BY <1>1, <2>1, <2>2, RetractedRow
  <2>4. x \in Call
    BY <1>0, CallFields DEF PC
  <2>5. x.pc = "setHighest"
    BY <1>0 DEF Call
  <2>6. RefOK(x)
    BY <2>5 DEF RefOK
  <2>7. req' = [req EXCEPT ![r] = x]
    BY <1>1, <1>2 DEF ReplaceExistingProxy, TypeOK
  <2> HIDE DEF x
  <2>8. QED
    BY <1>1, <2>2, <2>3, <2>4, <2>6, <2>7, StepKeepsIInv
<1>3. ASSUME ClearOutbid(r) PROVE IInv'
  <2> DEFINE x == [q EXCEPT !.pc = "setCreate", !.clear = {}]
  <2>1. UNCHANGED <<auction, now>> /\ bids' = ClearWinning(q.clear)
    BY <1>3 DEF ClearOutbid
  <2>2. bids' \in Seq(Bid) /\ Len(bids') >= Len(bids)
    BY <1>1, <2>1, ClearWinningType
  <2>3. x \in Call
    BY <1>0, CallFields DEF PC
  <2>4. x.pc = "setCreate"
    BY <1>0 DEF Call
  <2>5. RefOK(x)
    BY <2>4 DEF RefOK
  <2>6. req' = [req EXCEPT ![r] = x]
    BY <1>1, <1>3 DEF ClearOutbid, TypeOK
  <2> HIDE DEF x
  <2>7. QED
    BY <1>1, <2>1, <2>2, <2>3, <2>5, <2>6, StepKeepsIInv
<1>4. ASSUME CreateProxyBid(r) PROVE IInv'
  <2> DEFINE b == NewBid(q.user, q.amount, "PROXY", q.max, FALSE, 0)
             x == [Idle EXCEPT !.pc = "setPrice", !.amount = q.amount]
  <2>1. b \in Bid
    <3>1. "PROXY" \in BidType /\ FALSE \in BOOLEAN /\ 0 \in Nat
      BY DEF BidType
    <3>2. QED
      BY <1>0, <1>1, <3>1, CallTypes, NewBidType
  <2>2. UNCHANGED <<auction, now>> /\ bids' = Append(bids, b)
    BY <1>4 DEF CreateProxyBid
  <2> HIDE DEF b
  <2>3. bids' \in Seq(Bid) /\ Len(bids') >= Len(bids)
    BY <1>1, <2>1, <2>2
  <2>4. x \in Call
    BY <1>0, CallTypes, CallFields DEF PC
  <2>5. x.pc = "setPrice"
    BY <1>0 DEF Call
  <2>6. RefOK(x)
    BY <2>5 DEF RefOK
  <2>7. req' = [req EXCEPT ![r] = x]
    BY <1>4 DEF CreateProxyBid
  <2> HIDE DEF x
  <2>8. QED
    BY <1>1, <2>2, <2>3, <2>4, <2>6, <2>7, StepKeepsIInv
<1>5. ASSUME SetProxyPrice(r) PROVE IInv'
  <2>1. q.amount \in Nat /\ auction.bidCount + 1 \in Int
    BY <1>0, <1>1, CallTypes, AuctionTypes
  <2>2. auction' = [auction EXCEPT !.currentPrice = q.amount,
                                   !.bidCount = auction.bidCount + 1]
    BY <1>5 DEF SetProxyPrice
  <2>3. auction' \in Auction
    BY <1>1, <2>1, <2>2, AuctionFields
  <2>4. req' = [req EXCEPT ![r] = Idle] /\ UNCHANGED <<bids, now>>
    BY <1>5 DEF SetProxyPrice
  <2>5. bids' \in Seq(Bid) /\ now' \in Nat /\ Len(bids') >= Len(bids)
    BY <1>1, <2>4
  <2>6. QED
    BY <1>0, <2>3, <2>4, <2>5, StepKeepsIInv
<1>6. QED
  BY <1>2, <1>3, <1>4, <1>5

(***************************************************************************)
(* cancelProxyBid and retractBid.                                          *)
(***************************************************************************)
LEMMA CancelKeepsIInv ==
    ASSUME IInv, NEW r \in Request
    PROVE  /\ \A u \in User : BeginCancelProxy(r, u) => IInv'
           /\ CancelProxy(r) => IInv'
<1> DEFINE q == req[r]
<1>0. q \in Call /\ Idle \in Call /\ RefOK(Idle) /\ RefOK(q)
  BY IdleType DEF IInv, TypeOK, RefOK, RefsOK
<1>1. TypeOK /\ auction \in Auction /\ bids \in Seq(Bid) /\ now \in Nat /\ Len(bids) \in Nat
  BY DEF IInv, TypeOK
<1>2. ASSUME NEW u \in User, BeginCancelProxy(r, u) PROVE IInv'
  <2>1. PICK i \in LatestProxy(u) :
          req' = [req EXCEPT ![r] = [Idle EXCEPT !.pc = "cancel", !.bid = i]]
    BY <1>2 DEF BeginCancelProxy
  <2> DEFINE x == [Idle EXCEPT !.pc = "cancel", !.bid = i]
  <2>2. i \in 1..Len(bids) /\ i \in Nat
    BY <1>1, ActiveInDomain DEF LatestProxy
  <2>3. x \in Call
    BY <1>0, <2>2, CallFields DEF PC
  <2>4. x.pc = "cancel" /\ x.bid = i
    BY <1>0 DEF Call
  <2>5. RefOK(x)
    BY <2>2, <2>4 DEF RefOK
  <2>6. req' = [req EXCEPT ![r] = x] /\ UNCHANGED <<auction, bids, now>>
    BY <1>2, <2>1 DEF BeginCancelProxy
  <2> HIDE DEF x
  <2>7. QED
    BY <2>3, <2>5, <2>6, ReadKeepsIInv
<1>3. ASSUME CancelProxy(r) PROVE IInv'
  <2>1. q.bid \in 1..Len(bids) /\ "cancelled" \in Reason
    <3>1. q.pc = "cancel"
      BY <1>3 DEF CancelProxy
    <3>2. QED
      BY <1>0, <3>1 DEF RefOK, Reason
  <2>2. UNCHANGED <<auction, now>> /\ bids' =
          [bids EXCEPT ![q.bid].retracted = TRUE, ![q.bid].reason = "cancelled"]
    BY <1>3 DEF CancelProxy
  <2>3. bids' \in Seq(Bid) /\ Len(bids') >= Len(bids)
    BY <1>1, <2>1, <2>2, RetractedRow
  <2>4. req' = [req EXCEPT ![r] = Idle]
    BY <1>3 DEF CancelProxy
  <2>5. QED
    BY <1>0, <1>1, <2>2, <2>3, <2>4, StepKeepsIInv
<1>4. QED
  BY <1>2, <1>3

LEMMA RowsAfterRetractType ==
    ASSUME TypeOK, NEW i, NEW h
    PROVE  /\ RowsAfterRetract(i, h) \in Seq(Bid)
           /\ Len(RowsAfterRetract(i, h)) = Len(bids)
<1> DEFINE R == RowsAfterRetract(i, h)
<1>1. ASSUME NEW k \in 1..Len(bids) PROVE R[k] \in Bid
  <2>1. bids[k] \in Bid /\ "user" \in Reason /\ TRUE \in BOOLEAN
    BY ActiveInDomain DEF Reason
  <2>2. R[k] \in {[bids[k] EXCEPT !.retracted = TRUE, !.winning = FALSE, !.reason = "user"],
                  [bids[k] EXCEPT !.winning = TRUE], bids[k]}
    BY ActiveInDomain DEF RowsAfterRetract
  <2> HIDE DEF R
  <2>3. /\ [bids[k] EXCEPT !.retracted = TRUE, !.winning = FALSE, !.reason = "user"] \in Bid
        /\ [bids[k] EXCEPT !.winning = TRUE] \in Bid
    BY <2>1, BidFields
  <2>4. QED
    BY <2>1, <2>2, <2>3
<1>2. DOMAIN R = 1..Len(bids)
  BY ActiveInDomain DEF RowsAfterRetract
<1>3. R = [k \in 1..Len(bids) |-> R[k]]
  BY ActiveInDomain DEF RowsAfterRetract
<1> HIDE DEF R
<1>4. R \in Seq(Bid) /\ Len(R) = Len(bids)
  BY <1>1, <1>2, <1>3, ActiveInDomain, SeqDef, LenProperties
<1>5. QED
  BY <1>4 DEF R

LEMMA RetractKeepsIInv ==
    ASSUME IInv, NEW r \in Request
    PROVE  /\ \A i \in DOMAIN bids : BeginRetract(r, i) => IInv'
           /\ PickNewHighest(r) => IInv'
           /\ CommitRetract(r) => IInv'
<1> DEFINE q == req[r]
<1>0. q \in Call /\ Idle \in Call /\ RefOK(Idle) /\ RefOK(q)
  BY IdleType DEF IInv, TypeOK, RefOK, RefsOK
<1>1. TypeOK /\ auction \in Auction /\ bids \in Seq(Bid) /\ now \in Nat /\ Len(bids) \in Nat
  BY DEF IInv, TypeOK
<1>2. ASSUME NEW i \in DOMAIN bids, BeginRetract(r, i) PROVE IInv'
  <2> DEFINE x == [Idle EXCEPT !.pc = "retract", !.bid = i]
  <2>1. i \in 1..Len(bids) /\ i \in Nat
    BY <1>1
  <2>2. x \in Call
    BY <1>0, <2>1, CallFields DEF PC
  <2>3. x.pc = "retract" /\ x.bid = i
    BY <1>0 DEF Call
  <2>4. RefOK(x)
    BY <2>1, <2>3 DEF RefOK
  <2>5. req' = [req EXCEPT ![r] = x] /\ UNCHANGED <<auction, bids, now>>
    BY <1>2 DEF BeginRetract
  <2> HIDE DEF x
  <2>6. QED
    BY <2>2, <2>4, <2>5, ReadKeepsIInv
<1>3. ASSUME PickNewHighest(r) PROVE IInv'
  <2>1. PICK h \in FirstByAmount(Active \ {q.bid}) :
          req' = [req EXCEPT ![r].pc = "retractCommit", ![r].next = h]
    BY <1>3 DEF PickNewHighest
  <2> DEFINE x == [q EXCEPT !.pc = "retractCommit", !.next = h]
  <2>2. h \in 0..Len(bids) /\ h \in Nat
    BY <1>1, FirstByAmountIn, ActiveInDomain
  <2>3. q.bid \in 1..Len(bids)
    <3>1. q.pc = "retract"
      BY <1>3 DEF PickNewHighest
    <3>2. QED
      BY <1>0, <3>1 DEF RefOK
  <2>4. x \in Call
    BY <1>0, <2>2, CallFields DEF PC
  <2>5. x.pc = "retractCommit" /\ x.bid = q.bid /\ x.next = h
    BY <1>0 DEF Call
  <2>6. RefOK(x)
    BY <2>2, <2>3, <2>5 DEF RefOK
  <2>7. req' = [req EXCEPT ![r] = x] /\ UNCHANGED <<auction, bids, now>>
    BY <1>1, <1>3, <2>1 DEF PickNewHighest, TypeOK
  <2> HIDE DEF x
  <2>8. QED
    BY <2>4, <2>6, <2>7, ReadKeepsIInv
<1>4. ASSUME CommitRetract(r) PROVE IInv'
  <2> DEFINE h == q.next
             p == IF h = 0 THEN StartPrice ELSE bids[h].amount
  <2>1. h \in 0..Len(bids)
    <3>1. q.pc = "retractCommit"
      BY <1>4 DEF CommitRetract
    <3>2. QED
      BY <1>0, <3>1 DEF RefOK
  <2>2. p \in Nat /\ auction.bidCount - 1 \in Int
    BY <1>1, <2>1, AuctionTypes, ActiveInDomain, BiddingAssumption DEF Bid
  <2>3. auction' = [auction EXCEPT !.currentPrice = p, !.bidCount = auction.bidCount - 1]
    BY <1>4 DEF CommitRetract, AuctionAfterRetract
  <2> HIDE DEF p
  <2>4. auction' \in Auction
    BY <1>1, <2>2, <2>3, AuctionFields
  <2>5. bids' = RowsAfterRetract(q.bid, h) /\ now' = now
    BY <1>4 DEF CommitRetract
  <2>6. bids' \in Seq(Bid) /\ Len(bids') >= Len(bids)
    BY <1>1, <2>5, RowsAfterRetractType
  <2>7. req' = [req EXCEPT ![r] = Idle]
    BY <1>4 DEF CommitRetract
  <2>8. QED
    BY <1>0, <1>1, <2>4, <2>5, <2>6, <2>7, StepKeepsIInv
<1>5. QED
  BY <1>2, <1>3, <1>4

(***************************************************************************)
(* Every step preserves the invariant.                                     *)
(***************************************************************************)
LEMMA LostCallKeepsIInv ==
    ASSUME IInv, NEW r \in Request
    PROVE  TurnAway(r) \/ AbortDeadlock(r) \/ Crash(r) => IInv'
<1>1. Idle \in Call /\ RefOK(Idle)
  BY IdleType DEF RefOK
<1>2. TurnAway(r) \/ AbortDeadlock(r) \/ Crash(r)
        => req' = [req EXCEPT ![r] = Idle] /\ UNCHANGED <<auction, bids, now>>
  BY DEF TurnAway, AbortDeadlock, Crash
<1>3. QED
  BY <1>1, <1>2, ReadKeepsIInv

LEMMA InitIInv == Init => IInv
<1> SUFFICES ASSUME Init PROVE IInv
  OBVIOUS
<1>1. auction \in Auction
  BY BiddingAssumption DEF Init, Auction, Status
<1>2. bids \in Seq(Bid) /\ now \in Nat
  BY EmptySeq DEF Init
<1>3. \A r \in Request : req[r] = Idle
  BY DEF Init
<1>4. req \in [Request -> Call]
  BY IdleType DEF Init
<1>5. RefsOK
  BY <1>3, IdleType DEF RefsOK, RefOK
<1>6. QED
  BY <1>1, <1>2, <1>4, <1>5 DEF IInv, TypeOK

LEMMA NextIInv == IInv /\ [Next]_vars => IInv'
<1> SUFFICES ASSUME IInv, [Next]_vars PROVE IInv'
  OBVIOUS
<1>1. ASSUME NEW r \in Request, Begin(r) PROVE IInv'
  <2>1. ASSUME NEW u \in User, NEW a \in Offer, NEW t \in Kinds,
               NEW m \in IF t = "PROXY" THEN Offer \cup {0} ELSE {0},
               BeginPlaceBid(r, u, a, t, m)
        PROVE  IInv'
    <3>1. a \in Nat /\ t \in BidType /\ m \in Nat
      BY BiddingAssumption
    <3>2. QED
      BY <2>1, <3>1, PlaceBidKeepsIInv
  <2>2. ASSUME NEW u \in User, NEW m \in Offer, BeginSetProxy(r, u, m) PROVE IInv'
    BY <2>2, BiddingAssumption, SetProxyReadsKeepIInv
  <2>3. QED
    BY <1>1, <2>1, <2>2, CancelKeepsIInv, RetractKeepsIInv DEF Begin
<1>2. ASSUME NEW r \in Request, Continue(r) PROVE IInv'
  BY <1>2, PlaceBidKeepsIInv, AnswerKeepsIInv, SetProxyReadsKeepIInv,
     SetProxyWritesKeepIInv, CancelKeepsIInv, RetractKeepsIInv, LostCallKeepsIInv
  DEF Continue
<1>3. ASSUME NEW r \in Request, TurnAway(r) \/ Crash(r) PROVE IInv'
  BY <1>3, LostCallKeepsIInv
<1>4. ASSUME Tick PROVE IInv'
  BY <1>4 DEF Tick, IInv, TypeOK, RefsOK, RefOK
<1>5. CASE UNCHANGED vars
  BY <1>5 DEF vars, IInv, TypeOK, RefsOK, RefOK
<1>6. QED
  BY <1>1, <1>2, <1>3, <1>4, <1>5 DEF Next

\* Rows, auction and calls keep their shape, and no call holds the index of a
\* bid that does not exist.
THEOREM InvariantHolds == Spec => []IInv
BY InitIInv, NextIInv, PTL DEF Spec

\* Type correctness: the auction's currentPrice and the amounts are natural numbers in
\* every interleaving of placeBid, setProxyBid, cancelProxyBid and retractBid.
THEOREM TypeCorrect == Spec => []TypeOK
<1>1. IInv => TypeOK
  BY DEF IInv
<1>2. QED
  BY <1>1, InvariantHolds, PTL
=============================================================================

--------------------------- MODULE BiddingSafety ---------------------------
(***************************************************************************)
(* The safety properties of Bidding, for every value of its constants that *)
(* satisfies BiddingAssumption.  None of them is inductive: what makes     *)
(* them hold is what a call in progress still knows when it writes.  That  *)
(* is the strengthening SInv, one conjunct for each kind of call.          *)
(***************************************************************************)
EXTENDS BiddingProofs, FiniteSetTheorems

\* What placeBid validated is still true of the bids it saw.
SawLower(q) ==
    q.pc = "commit" =>
        /\ q.seen <= Len(bids)
        /\ Ascending => \A j \in 1..q.seen : ~bids[j].retracted => q.amount > bids[j].amount

\* The answer of a proxy stays within a maximum that its user recorded.
WithinMandate(q) ==
    q.pc \in {"answer", "answerCommit"} =>
        /\ q.amount <= q.max
        /\ \E j \in 1..Len(bids) : Authorised(j, q.user, q.max)

\* The price that setProxyBid is about to write is that of a bid.
PriceOfABid(q) ==
    q.pc = "setPrice" => \E i \in 1..Len(bids) : q.amount = bids[i].amount

ReserveReached ==
    \E i \in 1..Len(bids) : ~bids[i].auto /\ bids[i].amount >= ReservePrice

\* A call that is about to report the reserve met has seen a bid reach it.
ReserveSeen(q) == q.pc = "reserve" => ReserveReached

\* e is the end date moved by at most n extensions.
Extended(e, n) == \E k \in 0..n : e = EndDate + k * AntiSnipeExtension

\* The end date that placeBid read, stale or not, is one of those.
EndSeen(q) == q.pc \in {"validate", "commit"} => Extended(q.end, Len(bids))

CallSound(q) ==
    SawLower(q) /\ WithinMandate(q) /\ PriceOfABid(q) /\ ReserveSeen(q) /\ EndSeen(q)

\* A bid saw only bids that came before it.
SawEarlier == \A i \in 1..Len(bids) : bids[i].seen < i

\* What is said of the book alone, and not of the row of the auction, holds
\* whichever services write next to this one.
BookCall(q) == SawLower(q) /\ WithinMandate(q) /\ PriceOfABid(q)

BookInv ==
    /\ SawEarlier
    /\ \A r \in Request : BookCall(req[r])
    /\ ProxyWithinMax /\ BeatsWhatItSaw

SInv ==
    /\ SawEarlier
    /\ \A r \in Request : CallSound(req[r])
    /\ ProxyWithinMax /\ BeatsWhatItSaw /\ ReserveMetIsTrue
    /\ PriceIsABid /\ ExtensionsArePaidFor
---------------------------------------------------------------------------
(***************************************************************************)
(* What a step may do to the rows.                                         *)
(***************************************************************************)
Kept(b, d) ==
    /\ d.user = b.user /\ d.amount = b.amount /\ d.type = b.type /\ d.max = b.max
    /\ d.auto = b.auto /\ d.seen = b.seen
    /\ b.retracted => d.retracted

RowsKept ==
    Len(bids) <= Len(bids') /\ \A i \in 1..Len(bids) : Kept(bids[i], bids'[i])

LEMMA KeptUpdates ==
    ASSUME NEW b \in Bid
    PROVE  /\ Kept(b, b)
           /\ Kept(b, [b EXCEPT !.winning = FALSE])
           /\ Kept(b, [b EXCEPT !.winning = TRUE])
           /\ \A v : Kept(b, [b EXCEPT !.retracted = TRUE, !.reason = v])
           /\ \A v : Kept(b, [b EXCEPT !.retracted = TRUE, !.winning = FALSE, !.reason = v])
BY DEF Kept, Bid

LEMMA KeptSame == \A b : Kept(b, b)
BY DEF Kept

LEMMA ClearWinningKeeps ==
    ASSUME TypeOK, NEW S, NEW i \in 1..Len(bids)
    PROVE  Kept(bids[i], ClearWinning(S)[i])
<1>1. bids[i] \in Bid
  BY ActiveInDomain
<1>2. ClearWinning(S)[i] \in {bids[i], [bids[i] EXCEPT !.winning = FALSE]}
  BY ActiveInDomain DEF ClearWinning
<1>3. QED
  BY <1>1, <1>2, KeptUpdates

\* Inserting a row leaves the others where they are.
LEMMA InsertKeeps ==
    ASSUME TypeOK, NEW S, NEW b \in Bid, bids' = Append(ClearWinning(S), b)
    PROVE  /\ RowsKept
           /\ Len(bids') = Len(bids) + 1
           /\ bids'[Len(bids) + 1] = b
<1> DEFINE c == ClearWinning(S)
<1>1. c \in Seq(Bid) /\ Len(c) = Len(bids) /\ Len(bids) \in Nat
  BY ClearWinningType, ActiveInDomain
<1>2. \A i \in 1..Len(bids) : Kept(bids[i], c[i])
  BY ClearWinningKeeps
<1> HIDE DEF c
<1>3. bids' = Append(c, b)
  BY DEF c
<1>4. /\ Len(bids') = Len(bids) + 1
      /\ \A i \in 1..Len(bids) : bids'[i] = c[i]
      /\ bids'[Len(bids) + 1] = b
  BY <1>1, <1>3, AppendProperties
<1>5. QED
  BY <1>1, <1>2, <1>4 DEF RowsKept

LEMMA SameRowsKept ==
    ASSUME TypeOK, bids' = bids
    PROVE  RowsKept
<1>1. Len(bids) <= Len(bids')
  BY ActiveInDomain
<1>2. \A i \in 1..Len(bids) : Kept(bids[i], bids'[i])
  BY KeptSame
<1>3. QED
  BY <1>1, <1>2 DEF RowsKept

\* The row that a call inserts, and from what it knows.
Inserts(r, b) ==
    LET q == req[r] IN
    \/ CommitBid(r) /\ b = NewBid(q.user, q.amount, q.type, q.max, FALSE, q.seen)
    \/ CommitAnswer(r) /\ b = NewBid(q.user, q.amount, "PROXY", q.max, TRUE, 0)
    \/ CreateProxyBid(r) /\ b = NewBid(q.user, q.amount, "PROXY", q.max, FALSE, 0)

LEMMA InsertedRow ==
    ASSUME IInv, NEW r \in Request, NEW b, Inserts(r, b)
    PROVE  /\ b \in Bid
           /\ RowsKept
           /\ Len(bids') = Len(bids) + 1
           /\ bids'[Len(bids) + 1] = b
<1>1. TypeOK /\ req[r] \in Call
  BY DEF IInv, TypeOK
<1>2. b \in Bid
  <2> DEFINE q == req[r]
  <2>1. q.user \in User /\ q.amount \in Nat /\ q.type \in BidType /\ q.max \in Nat
        /\ q.seen \in Nat /\ 0 \in Nat /\ "PROXY" \in BidType
        /\ TRUE \in BOOLEAN /\ FALSE \in BOOLEAN
    BY <1>1, CallTypes DEF BidType
  <2>2. \/ b = NewBid(q.user, q.amount, q.type, q.max, FALSE, q.seen)
        \/ b = NewBid(q.user, q.amount, "PROXY", q.max, TRUE, 0)
        \/ b = NewBid(q.user, q.amount, "PROXY", q.max, FALSE, 0)
    BY DEF Inserts
  <2> HIDE DEF q
  <2>3. QED
    BY <1>1, <2>1, <2>2, NewBidType
<1>3. CASE CreateProxyBid(r) /\ bids' = Append(bids, b)
  <2>1. bids \in Seq(Bid) /\ Len(bids) \in Nat
    BY <1>1, ActiveInDomain DEF TypeOK
  <2>2. /\ Len(bids') = Len(bids) + 1
        /\ \A i \in 1..Len(bids) : bids'[i] = bids[i]
        /\ bids'[Len(bids) + 1] = b
    BY <1>2, <1>3, <2>1, AppendProperties
  <2>3. QED
    <3>1. Len(bids) <= Len(bids')
      BY <2>1, <2>2
    <3>2. \A i \in 1..Len(bids) : Kept(bids[i], bids'[i])
      BY <2>2, KeptSame
    <3>3. QED
      BY <1>2, <2>2, <3>1, <3>2 DEF RowsKept
<1>4. CASE \E S : bids' = Append(ClearWinning(S), b)
  BY <1>1, <1>2, <1>4, InsertKeeps
<1>5. QED
  BY <1>3, <1>4 DEF Inserts, CommitBid, CommitAnswer, CreateProxyBid

\* The updates of rows that insert nothing.
LEMMA UpdatesKeep ==
    ASSUME IInv, NEW r \in Request,
           \/ ReplaceExistingProxy(r) \/ ClearOutbid(r)
           \/ CancelProxy(r) \/ CommitRetract(r)
    PROVE  RowsKept /\ Len(bids') = Len(bids)
<1>1. TypeOK /\ req[r] \in Call /\ RefOK(req[r])
  BY DEF IInv, TypeOK, RefsOK
<1>2. DOMAIN bids = 1..Len(bids) /\ Len(bids) \in Nat
      /\ \A k \in 1..Len(bids) : bids[k] \in Bid
  BY <1>1, ActiveInDomain
<1>3. ASSUME NEW i \in 1..Len(bids), NEW v \in Reason,
             bids' = [bids EXCEPT ![i].retracted = TRUE, ![i].reason = v]
      PROVE  RowsKept /\ Len(bids') = Len(bids)
  <2>1. Len(bids') = Len(bids)
    BY <1>1, <1>3, RetractedRow
  <2>2. \A k \in 1..Len(bids) :
          bids'[k] \in {bids[k], [bids[k] EXCEPT !.retracted = TRUE, !.reason = v]}
    BY <1>2, <1>3
  <2>3. ASSUME NEW k \in 1..Len(bids) PROVE Kept(bids[k], bids'[k])
    <3>1. /\ Kept(bids[k], bids[k])
          /\ Kept(bids[k], [bids[k] EXCEPT !.retracted = TRUE, !.reason = v])
      BY <1>2, KeptUpdates
    <3>2. QED
      BY <2>2, <3>1
  <2>4. QED
    BY <1>2, <2>1, <2>3 DEF RowsKept
<1>4. CASE ReplaceExistingProxy(r)
  BY <1>1, <1>3, <1>4 DEF ReplaceExistingProxy, RefOK, Reason
<1>5. CASE CancelProxy(r)
  BY <1>1, <1>3, <1>5 DEF CancelProxy, RefOK, Reason
<1>6. CASE ClearOutbid(r)
  <2>1. bids' = ClearWinning(req[r].clear)
    BY <1>6 DEF ClearOutbid
  <2>2. QED
    BY <1>1, <1>2, <2>1, ClearWinningType, ClearWinningKeeps DEF RowsKept
<1>7. CASE CommitRetract(r)
  <2> DEFINE R == RowsAfterRetract(req[r].bid, req[r].next)
  <2>1. bids' = R /\ Len(R) = Len(bids)
    BY <1>1, <1>7, RowsAfterRetractType DEF CommitRetract
  <2>2. \A k \in 1..Len(bids) :
          R[k] \in {[bids[k] EXCEPT !.retracted = TRUE, !.winning = FALSE, !.reason = "user"],
                    [bids[k] EXCEPT !.winning = TRUE], bids[k]}
    BY <1>2 DEF RowsAfterRetract
  <2> HIDE DEF R
  <2>3. ASSUME NEW k \in 1..Len(bids) PROVE Kept(bids[k], bids'[k])
    <3>1. /\ Kept(bids[k], bids[k])
          /\ Kept(bids[k], [bids[k] EXCEPT !.winning = TRUE])
          /\ Kept(bids[k], [bids[k] EXCEPT !.retracted = TRUE, !.winning = FALSE,
                                           !.reason = "user"])
      BY <1>2, KeptUpdates
    <3>2. QED
      BY <2>1, <2>2, <3>1
  <2>4. QED
    BY <1>2, <2>1, <2>3 DEF RowsKept
<1>8. QED
  BY <1>4, <1>5, <1>6, <1>7

LEMMA RowsChange ==
    ASSUME [Next]_vars
    PROVE  \/ bids' = bids
           \/ \E r \in Request : \E b : Inserts(r, b)
           \/ \E r \in Request : \/ ReplaceExistingProxy(r) \/ ClearOutbid(r)
                                 \/ CancelProxy(r) \/ CommitRetract(r)
<1>1. ASSUME NEW r \in Request, Begin(r) \/ TurnAway(r) \/ Crash(r) PROVE bids' = bids
  BY <1>1 DEF Begin, BeginPlaceBid, BeginSetProxy, BeginCancelProxy, BeginRetract,
              TurnAway, Crash
<1>2. ASSUME NEW r \in Request, Continue(r)
      PROVE  \/ bids' = bids \/ \E b : Inserts(r, b)
             \/ ReplaceExistingProxy(r) \/ ClearOutbid(r)
             \/ CancelProxy(r) \/ CommitRetract(r)
  <2>1. \/ ValidateBid(r) \/ MarkReserveMet(r) \/ FindProxies(r) \/ ClearForAnswer(r)
        \/ FindExistingProxy(r) \/ FindHighestForProxy(r) \/ SetProxyPrice(r)
        \/ PickNewHighest(r) \/ AbortDeadlock(r)
        => bids' = bids
    BY DEF ValidateBid, MarkReserveMet, FindProxies, ClearForAnswer, FindExistingProxy,
           FindHighestForProxy, SetProxyPrice, PickNewHighest, AbortDeadlock
  <2>2. CommitBid(r) \/ CommitAnswer(r) \/ CreateProxyBid(r) => \E b : Inserts(r, b)
    BY DEF Inserts
  <2>3. QED
    BY <1>2, <2>1, <2>2 DEF Continue
<1>3. Tick \/ UNCHANGED vars => bids' = bids
  BY DEF Tick, vars
<1>4. QED
  BY <1>1, <1>2, <1>3 DEF Next

LEMMA StepKeepsRows ==
    ASSUME IInv, [Next]_vars
    PROVE  RowsKept
<1>1. TypeOK
  BY DEF IInv
<1>2. QED
  BY <1>1, RowsChange, SameRowsKept, InsertedRow, UpdatesKeep

\* What is written to a bid after its creation is only isWinning and its
\* retraction, whichever of the calls that interleave writes it.
THEOREM HistoryKept == Spec => HistoryIsKept
<1> DEFINE A == /\ Len(bids) <= Len(bids')
                /\ \A i \in DOMAIN bids :
                     /\ bids'[i].user = bids[i].user /\ bids'[i].amount = bids[i].amount
                     /\ bids'[i].type = bids[i].type /\ bids'[i].max = bids[i].max
                     /\ bids[i].retracted => bids'[i].retracted
<1>1. IInv /\ [Next]_vars => A
  <2> SUFFICES ASSUME IInv, [Next]_vars PROVE A
    OBVIOUS
  <2>1. RowsKept /\ TypeOK
    BY StepKeepsRows DEF IInv
  <2>2. QED
    BY <2>1, ActiveInDomain DEF RowsKept, Kept
<1>2. IInv /\ [Next]_vars => [A]_vars
  BY <1>1
<1>3. QED
  BY <1>2, InvariantHolds, PTL DEF Spec, HistoryIsKept
---------------------------------------------------------------------------
(***************************************************************************)
(* What a step may do to the calls.                                        *)
(***************************************************************************)
\* A step of call r leaves the others where they are.
LEMMA OwnSlot ==
    ASSUME TypeOK, NEW r \in Request, NEW p \in Request, p # r,
           Begin(r) \/ Continue(r) \/ TurnAway(r) \/ Crash(r)
    PROVE  req'[p] = req[p]
<1>1. req \in [Request -> Call]
  BY DEF TypeOK
<1>2. Begin(r) \/ TurnAway(r) \/ Crash(r) => req'[p] = req[p]
  BY <1>1 DEF Begin, BeginPlaceBid, BeginSetProxy, BeginCancelProxy, BeginRetract,
              TurnAway, Crash
<1>3. ValidateBid(r) \/ CommitBid(r) \/ MarkReserveMet(r) => req'[p] = req[p]
  BY <1>1 DEF ValidateBid, CommitBid, MarkReserveMet
<1>4. FindProxies(r) \/ ClearForAnswer(r) \/ CommitAnswer(r) => req'[p] = req[p]
  BY <1>1 DEF FindProxies, Answer, ClearForAnswer, CommitAnswer
<1>5. FindExistingProxy(r) \/ ReplaceExistingProxy(r) \/ FindHighestForProxy(r)
        => req'[p] = req[p]
  BY <1>1 DEF FindExistingProxy, ReplaceExistingProxy, FindHighestForProxy
<1>6. ClearOutbid(r) \/ CreateProxyBid(r) \/ SetProxyPrice(r) => req'[p] = req[p]
  BY <1>1 DEF ClearOutbid, CreateProxyBid, SetProxyPrice
<1>7. CancelProxy(r) \/ PickNewHighest(r) \/ CommitRetract(r) \/ AbortDeadlock(r)
        => req'[p] = req[p]
  BY <1>1 DEF CancelProxy, PickNewHighest, CommitRetract, AbortDeadlock
<1>8. QED
  BY <1>2, <1>3, <1>4, <1>5, <1>6, <1>7 DEF Continue

\* The pc that each step gives its call.
LEMMA PcAfter ==
    ASSUME TypeOK, NEW p \in Request, req'[p].pc # "idle"
    PROVE  /\ Begin(p) => req'[p].pc \in {"validate", "setFind", "cancel", "retract"}
           /\ TurnAway(p) \/ Crash(p) \/ AbortDeadlock(p) => FALSE
           /\ CommitAnswer(p) \/ SetProxyPrice(p) \/ CancelProxy(p) \/ CommitRetract(p) => FALSE
           /\ ValidateBid(p) => req'[p].pc = "commit"
           /\ CommitBid(p) => req'[p].pc \in {"reserve", "respond"}
           /\ MarkReserveMet(p) => req'[p].pc = "respond"
           /\ FindProxies(p) => req'[p].pc = "answer"
           /\ ClearForAnswer(p) => req'[p].pc = "answerCommit"
           /\ FindExistingProxy(p) => req'[p].pc \in {"setHighest", "setRetract"}
           /\ ReplaceExistingProxy(p) => req'[p].pc = "setHighest"
           /\ FindHighestForProxy(p) => req'[p].pc \in {"setCreate", "setClear"}
           /\ ClearOutbid(p) => req'[p].pc = "setCreate"
           /\ CreateProxyBid(p) => req'[p].pc = "setPrice"
           /\ PickNewHighest(p) => req'[p].pc = "retractCommit"
<1>1. req \in [Request -> Call] /\ req[p] \in Call /\ Idle \in Call /\ Idle.pc = "idle"
  BY IdleType DEF TypeOK
<1>2. Begin(p) => req'[p].pc \in {"validate", "setFind", "cancel", "retract"}
  <2>1. ASSUME NEW u, NEW a, NEW t, NEW m, BeginPlaceBid(p, u, a, t, m)
        PROVE  req'[p].pc = "validate"
    BY <1>1, <2>1 DEF BeginPlaceBid, Call
  <2>2. ASSUME NEW u, NEW m, BeginSetProxy(p, u, m) PROVE req'[p].pc = "setFind"
    BY <1>1, <2>2 DEF BeginSetProxy, Call
  <2>3. ASSUME NEW u, BeginCancelProxy(p, u) PROVE req'[p].pc = "cancel"
    BY <1>1, <2>3 DEF BeginCancelProxy, Call
  <2>4. ASSUME NEW i, BeginRetract(p, i) PROVE req'[p].pc = "retract"
    BY <1>1, <2>4 DEF BeginRetract, Call
  <2>5. QED
    BY <2>1, <2>2, <2>3, <2>4 DEF Begin
<1>3. /\ TurnAway(p) \/ Crash(p) \/ AbortDeadlock(p) => FALSE
      /\ CommitAnswer(p) \/ SetProxyPrice(p) \/ CancelProxy(p) \/ CommitRetract(p) => FALSE
  BY <1>1 DEF TurnAway, Crash, AbortDeadlock, CommitAnswer, SetProxyPrice, CancelProxy,
              CommitRetract
<1>4. ValidateBid(p) => req'[p].pc = "commit"
  BY <1>1 DEF ValidateBid, Refused, Call
<1>5. CommitBid(p) => req'[p].pc \in {"reserve", "respond"}
  BY <1>1 DEF CommitBid, Call
<1>6. MarkReserveMet(p) => req'[p].pc = "respond"
  BY <1>1 DEF MarkReserveMet, Call
<1>7. FindProxies(p) => req'[p].pc = "answer"
  BY <1>1 DEF FindProxies, Answer, Call
<1>8. ClearForAnswer(p) => req'[p].pc = "answerCommit"
  BY <1>1 DEF ClearForAnswer, Call
<1>9. /\ FindExistingProxy(p) => req'[p].pc \in {"setHighest", "setRetract"}
      /\ ReplaceExistingProxy(p) => req'[p].pc = "setHighest"
      /\ PickNewHighest(p) => req'[p].pc = "retractCommit"
  BY <1>1 DEF FindExistingProxy, ReplaceExistingProxy, PickNewHighest, Call
<1>10. FindHighestForProxy(p) => req'[p].pc \in {"setCreate", "setClear"}
  BY <1>1 DEF FindHighestForProxy, Call
<1>11. ClearOutbid(p) => req'[p].pc = "setCreate"
  BY <1>1 DEF ClearOutbid, Call
<1>12. CreateProxyBid(p) => req'[p].pc = "setPrice"
  BY <1>1 DEF CreateProxyBid, Call
<1>13. QED
  BY <1>2, <1>3, <1>4, <1>5, <1>6, <1>7, <1>8, <1>9, <1>10, <1>11, <1>12

\* How a call comes to each of the points that CallSound is about.
LEMMA HowItGotThere ==
    ASSUME TypeOK, [Next]_vars, NEW p \in Request, req'[p] # req[p]
    PROVE  /\ req'[p].pc = "validate" => Begin(p)
           /\ req'[p].pc = "commit" => ValidateBid(p)
           /\ req'[p].pc = "reserve" => CommitBid(p)
           /\ req'[p].pc = "answer" => FindProxies(p)
           /\ req'[p].pc = "answerCommit" => ClearForAnswer(p)
           /\ req'[p].pc = "setPrice" => CreateProxyBid(p)
           /\ req'[p].pc = "respond" => CommitBid(p) \/ MarkReserveMet(p)
           /\ req'[p].pc = "retractCommit" => PickNewHighest(p)
<1>1. Begin(p) \/ Continue(p) \/ TurnAway(p) \/ Crash(p)
  BY OwnSlot DEF Next, Tick, vars
<1>2. CASE req'[p].pc = "idle"
  BY <1>2
<1>3. CASE req'[p].pc # "idle"
  BY <1>1, <1>3, PcAfter DEF Continue
<1>4. QED
  BY <1>2, <1>3
---------------------------------------------------------------------------
(***************************************************************************)
(* Each part of SInv is preserved.                                         *)
(***************************************************************************)
\* The rows after a step: the old ones, kept, and at most one that a call
\* inserted.
LEMMA RowsAfter ==
    ASSUME IInv, [Next]_vars
    PROVE  /\ RowsKept /\ IInv'
           /\ Len(bids) \in Nat /\ DOMAIN bids = 1..Len(bids)
           /\ Len(bids') \in Nat /\ DOMAIN bids' = 1..Len(bids')
           /\ \A i \in 1..Len(bids) : bids[i] \in Bid
           /\ \A i \in 1..Len(bids') : bids'[i] \in Bid
           /\ \A i \in 1..Len(bids') :
                i <= Len(bids) \/ /\ i = Len(bids) + 1
                                  /\ \E r \in Request : Inserts(r, bids'[i])
<1>1. TypeOK /\ RowsKept /\ IInv'
  BY StepKeepsRows, NextIInv DEF IInv
<1>2. bids \in Seq(Bid) /\ bids' \in Seq(Bid)
  BY <1>1 DEF IInv, TypeOK
<1>3. /\ Len(bids) \in Nat /\ DOMAIN bids = 1..Len(bids)
      /\ Len(bids') \in Nat /\ DOMAIN bids' = 1..Len(bids')
      /\ \A i \in 1..Len(bids) : bids[i] \in Bid
      /\ \A i \in 1..Len(bids') : bids'[i] \in Bid
  BY <1>2
<1>4. \/ Len(bids') = Len(bids)
      \/ /\ Len(bids') = Len(bids) + 1
         /\ \E r \in Request : Inserts(r, bids'[Len(bids) + 1])
  BY RowsChange, UpdatesKeep, InsertedRow
<1>5. ASSUME NEW i \in 1..Len(bids')
      PROVE  i <= Len(bids) \/ /\ i = Len(bids) + 1
                               /\ \E r \in Request : Inserts(r, bids'[i])
  <2>1. CASE Len(bids') = Len(bids)
    BY <1>3, <2>1
  <2>2. CASE Len(bids') = Len(bids) + 1 /\ i = Len(bids) + 1
    <3>1. Len(bids') # Len(bids)
      <4>1. Len(bids) \in Nat
        BY <1>3
      <4>2. \A n \in Nat : n + 1 # n
        OBVIOUS
      <4>3. QED
        BY <2>2, <4>1, <4>2
    <3>2. \E r \in Request : Inserts(r, bids'[Len(bids) + 1])
      BY <1>4, <3>1
    <3>3. QED
      BY <2>2, <3>2
  <2>3. CASE Len(bids') = Len(bids) + 1 /\ i # Len(bids) + 1
    BY <1>3, <2>3
  <2>4. QED
    BY <1>4, <2>1, <2>2, <2>3
<1>6. QED
  BY <1>1, <1>3, <1>5

\* What the insertion of a row says of the call that inserts it.
LEMMA Inserted ==
    ASSUME NEW r, NEW b, Inserts(r, b)
    PROVE  LET q == req[r] IN
           /\ b.user = q.user /\ b.amount = q.amount /\ b.max = q.max
           /\ \/ q.pc = "commit" /\ ~b.auto /\ b.seen = q.seen /\ b.type = q.type
              \/ q.pc = "answerCommit" /\ b.auto /\ b.seen = 0 /\ b.type = "PROXY"
              \/ q.pc = "setCreate" /\ ~b.auto /\ b.seen = 0 /\ b.type = "PROXY"
<1>1. CASE CommitBid(r) /\ b = NewBid(req[r].user, req[r].amount, req[r].type,
                                      req[r].max, FALSE, req[r].seen)
  BY <1>1 DEF NewBid, CommitBid
<1>2. CASE CommitAnswer(r)
           /\ b = NewBid(req[r].user, req[r].amount, "PROXY", req[r].max, TRUE, 0)
  BY <1>2 DEF NewBid, CommitAnswer
<1>3. CASE CreateProxyBid(r)
           /\ b = NewBid(req[r].user, req[r].amount, "PROXY", req[r].max, FALSE, 0)
  BY <1>3 DEF NewBid, CreateProxyBid
<1>4. QED
  BY <1>1, <1>2, <1>3 DEF Inserts

LEMMA SawEarlierStep ==
    ASSUME IInv, BookInv, [Next]_vars
    PROVE  SawEarlier'
<1> SUFFICES ASSUME NEW i \in 1..Len(bids') PROVE bids'[i].seen < i
  BY DEF SawEarlier
<1>1. CASE i <= Len(bids)
  BY <1>1, RowsAfter DEF RowsKept, Kept, BookInv, SawEarlier
<1>2. CASE i = Len(bids) + 1 /\ \E r \in Request : Inserts(r, bids'[i])
  <2>1. PICK r \in Request : Inserts(r, bids'[i])
    BY <1>2
  <2>2. SawLower(req[r]) /\ req[r] \in Call /\ Len(bids) \in Nat
    BY RowsAfter DEF BookInv, BookCall, IInv, TypeOK
  <2>3. bids'[i].seen = 0 \/ bids'[i].seen <= Len(bids)
    BY <2>1, <2>2, Inserted DEF SawLower
  <2>4. bids'[i].seen \in Nat
    BY RowsAfter DEF Bid
  <2>5. QED
    BY <1>2, <2>2, <2>3, <2>4
<1>3. QED
  BY <1>1, <1>2, RowsAfter

LEMMA SawLowerStep ==
    ASSUME IInv, BookInv, [Next]_vars, NEW p \in Request, req'[p].pc = "commit"
    PROVE  /\ req'[p].seen <= Len(bids')
           /\ Ascending => \A j \in 1..req'[p].seen :
                ~bids'[j].retracted => req'[p].amount > bids'[j].amount
<1> DEFINE q == req[p]
<1>1. TypeOK /\ q \in Call
  BY DEF IInv, TypeOK
<1>2. CASE req'[p] = q
  <2>1. SawLower(q)
    BY DEF BookInv, BookCall
  <2>2. q.seen \in Nat /\ q.seen <= Len(bids)
    BY <1>1, <1>2, <2>1, CallTypes DEF SawLower
  <2>3. QED
    BY <1>2, <2>1, <2>2, RowsAfter DEF SawLower, RowsKept, Kept
<1>3. CASE req'[p] # q
  <2>1. ValidateBid(p)
    BY <1>1, <1>3, HowItGotThere
  <2>2. PICK h \in FirstByAmount(Active) :
          \E inc \in Increments(IF h = 0 THEN StartPrice ELSE bids[h].amount) :
            req'[p] = IF Acceptable(q, h, inc)
                      THEN [q EXCEPT !.pc = "commit", !.seen = Len(bids),
                                     !.clear = IF h # 0 /\ bids[h].winning THEN {h} ELSE {}]
                      ELSE Refused(q)
    BY <1>1, <2>1 DEF ValidateBid, TypeOK
  <2>3. PICK inc \in Increments(IF h = 0 THEN StartPrice ELSE bids[h].amount) :
          req'[p] = IF Acceptable(q, h, inc)
                    THEN [q EXCEPT !.pc = "commit", !.seen = Len(bids),
                                   !.clear = IF h # 0 /\ bids[h].winning THEN {h} ELSE {}]
                    ELSE Refused(q)
    BY <2>2
  <2>4. Acceptable(q, h, inc)
    BY <2>3, IdleType DEF Refused
  <2>5. req'[p].seen = Len(bids) /\ req'[p].amount = q.amount /\ bids' = bids
    BY <1>1, <2>1, <2>3, <2>4 DEF Call, ValidateBid
  <2>6. ASSUME Ascending, NEW j \in 1..Len(bids), ~bids[j].retracted
        PROVE  q.amount > bids[j].amount
    <3>1. j \in Active /\ 0 \notin Active
      BY <2>6, RowsAfter DEF Active
    <3>2. h \in Active /\ h # 0 /\ bids[j].amount <= bids[h].amount
      BY <3>1 DEF FirstByAmount
    <3>3. inc \in Nat \ {0} /\ bids[h].amount \in Nat /\ bids[j].amount \in Nat
      BY <1>1, <3>2, ActiveInDomain, IncrementsPositive DEF Bid
    <3>4. q.amount >= bids[h].amount + inc /\ q.amount \in Nat
      BY <1>1, <2>4, <2>6, <3>2, CallTypes DEF Acceptable
    <3>5. QED
      BY <3>2, <3>3, <3>4
  <2>7. QED
    BY <2>5, <2>6, RowsAfter
<1>4. QED
  BY <1>2, <1>3

LEMMA BeatsStep ==
    ASSUME IInv, BookInv, [Next]_vars
    PROVE  BeatsWhatItSaw'
<1> SUFFICES ASSUME Ascending, NEW i \in 1..Len(bids'), NEW j \in 1..bids'[i].seen,
                    ~bids'[j].retracted
             PROVE  bids'[i].amount > bids'[j].amount
  BY RowsAfter DEF BeatsWhatItSaw, Ascending
<1>1. bids'[i] \in Bid /\ Len(bids) \in Nat
  BY RowsAfter
<1>2. ASSUME j \in 1..Len(bids)
      PROVE  ~bids[j].retracted /\ bids'[j].amount = bids[j].amount
  BY <1>2, RowsAfter DEF RowsKept, Kept
<1>3. CASE i <= Len(bids)
  <2>1. i \in 1..Len(bids) /\ Kept(bids[i], bids'[i]) /\ bids[i].seen < i
    BY <1>1, <1>3, RowsAfter DEF RowsKept, BookInv, SawEarlier
  <2>2. bids'[i].seen = bids[i].seen /\ bids'[i].amount = bids[i].amount
    BY <2>1 DEF Kept
  <2>3. bids[i].seen \in Nat
    BY <1>1, <2>2 DEF Bid
  <2>4. j \in 1..bids[i].seen /\ j \in 1..Len(bids)
    BY <1>1, <2>1, <2>2, <2>3
  <2>5. bids[i].amount > bids[j].amount
    BY <1>2, <2>1, <2>4, RowsAfter DEF BookInv, BeatsWhatItSaw
  <2>6. QED
    BY <1>2, <2>2, <2>4, <2>5
<1>4. CASE i = Len(bids) + 1 /\ \E r \in Request : Inserts(r, bids'[i])
  <2>1. PICK r \in Request : Inserts(r, bids'[i])
    BY <1>4
  <2>2. SawLower(req[r]) /\ req[r].seen \in Nat
    BY CallTypes DEF BookInv, BookCall, IInv, TypeOK
  <2>3. /\ bids'[i].amount = req[r].amount
        /\ req[r].pc = "commit" /\ bids'[i].seen = req[r].seen
    BY <2>1, Inserted
  <2>4. j \in 1..req[r].seen /\ j \in 1..Len(bids)
    BY <1>1, <2>2, <2>3 DEF SawLower
  <2>5. QED
    BY <1>2, <2>2, <2>3, <2>4 DEF SawLower
<1>5. QED
  BY <1>3, <1>4, RowsAfter

\* A proxy record, whether its user or the system made it, goes back to a
\* maximum that the user recorded.
LEMMA ProxySource ==
    ASSUME ProxyWithinMax, DOMAIN bids = 1..Len(bids), Len(bids) \in Nat,
           NEW i \in 1..Len(bids), bids[i].type = "PROXY"
    PROVE  \E j \in 1..Len(bids) : Authorised(j, bids[i].user, bids[i].max)
<1>1. CASE bids[i].auto
  BY <1>1 DEF ProxyWithinMax
<1>2. CASE ~bids[i].auto
  BY <1>2 DEF Authorised
<1>3. QED
  BY <1>1, <1>2

\* The proxy that answers is one of the book, within its maximum.
LEMMA AnswerWithinMax ==
    ASSUME IInv, NEW p \in Request, FindProxies(p), req'[p].pc # "idle"
    PROVE  \E i \in 1..Len(bids), a \in Nat :
             Answer(p, i, a) /\ a <= bids[i].max /\ bids[i].type = "PROXY"
<1> DEFINE q == req[p]
<1>1. TypeOK /\ q \in Call /\ req \in [Request -> Call] /\ Idle.pc = "idle"
  BY IdleType DEF IInv, TypeOK
<1>2. PICK inc \in Increments(q.amount) :
        LET floor == q.amount + inc
            E == EligibleProxies(q.user, floor)
        IN  \/ req' = [req EXCEPT ![p] = Idle]
            \/ \E i \in E : Answer(p, i, floor)
            \/ \E h \in E, s \in E : Answer(p, h, CompetingAmount(h, s, floor, inc))
  BY DEF FindProxies
<1> DEFINE floor == q.amount + inc
           E == EligibleProxies(q.user, floor)
<1>3. inc \in Nat /\ floor \in Nat
  BY <1>1, CallTypes, IncrementsPositive
<1>4. \A i \in E : /\ i \in 1..Len(bids) /\ bids[i].type = "PROXY"
                   /\ bids[i].max \in Nat /\ floor <= bids[i].max
  BY <1>1, <1>3, ActiveInDomain DEF EligibleProxies, Bid
<1>5. req' # [req EXCEPT ![p] = Idle]
  BY <1>1
<1>6. ASSUME NEW h \in E, NEW s \in E
      PROVE  /\ CompetingAmount(h, s, floor, inc) \in Nat
             /\ CompetingAmount(h, s, floor, inc) <= bids[h].max
  <2>1. bids[h].max \in Nat /\ floor <= bids[h].max /\ bids[s].max \in Nat
    BY <1>4
  <2> HIDE DEF floor, E
  <2>2. QED
    BY <1>3, <2>1 DEF CompetingAmount, Larger, Smaller
<1>7. \/ \E i \in E : Answer(p, i, floor)
      \/ \E h \in E, s \in E : Answer(p, h, CompetingAmount(h, s, floor, inc))
  BY <1>2, <1>5
<1> HIDE DEF floor, E
<1>8. QED
  BY <1>3, <1>4, <1>6, <1>7

LEMMA WithinMandateStep ==
    ASSUME IInv, BookInv, [Next]_vars, NEW p \in Request,
           req'[p].pc \in {"answer", "answerCommit"}
    PROVE  /\ req'[p].amount <= req'[p].max
           /\ \E j \in 1..Len(bids') :
                /\ bids'[j].user = req'[p].user /\ bids'[j].type = "PROXY"
                /\ ~bids'[j].auto /\ bids'[j].max = req'[p].max
<1> DEFINE q == req[p]
<1>1. TypeOK /\ q \in Call /\ req \in [Request -> Call]
  BY DEF IInv, TypeOK
\* A source among the old rows is one among the new ones.
<1>2. ASSUME NEW u, NEW m, \E j \in 1..Len(bids) : Authorised(j, u, m)
      PROVE  \E j \in 1..Len(bids') :
               /\ bids'[j].user = u /\ bids'[j].type = "PROXY"
               /\ ~bids'[j].auto /\ bids'[j].max = m
  <2>1. PICK j \in 1..Len(bids) : Authorised(j, u, m)
    BY <1>2
  <2>2. j \in 1..Len(bids') /\ Kept(bids[j], bids'[j])
    BY RowsAfter DEF RowsKept
  <2>3. QED
    BY <2>1, <2>2 DEF Authorised, Kept
<1>3. CASE q.pc \in {"answer", "answerCommit"} /\ req'[p].user = q.user
           /\ req'[p].amount = q.amount /\ req'[p].max = q.max
  BY <1>2, <1>3 DEF BookInv, BookCall, WithinMandate
<1>4. CASE req'[p] # q /\ req'[p].pc = "answerCommit"
  <2>1. ClearForAnswer(p)
    BY <1>1, <1>4, HowItGotThere
  <2>2. q.pc = "answer" /\ req'[p].user = q.user
        /\ req'[p].amount = q.amount /\ req'[p].max = q.max
    BY <1>1, <2>1 DEF ClearForAnswer, Call
  <2>3. QED
    BY <1>3, <2>2
<1>5. CASE req'[p] # q /\ req'[p].pc = "answer"
  <2>1. FindProxies(p)
    BY <1>1, <1>5, HowItGotThere
  <2>2. PICK i \in 1..Len(bids), a \in Nat :
          Answer(p, i, a) /\ a <= bids[i].max /\ bids[i].type = "PROXY"
    BY <1>5, <2>1, AnswerWithinMax
  <2>3. req'[p].user = bids[i].user /\ req'[p].amount = a /\ req'[p].max = bids[i].max
    BY <1>1, <2>2, IdleType DEF Answer, Call
  <2>4. \E j \in 1..Len(bids) : Authorised(j, bids[i].user, bids[i].max)
    BY <2>2, RowsAfter, ProxySource DEF BookInv
  <2>5. QED
    BY <1>2, <2>2, <2>3, <2>4
<1>6. QED
  BY <1>3, <1>4, <1>5

LEMMA ProxyStep ==
    ASSUME IInv, BookInv, [Next]_vars
    PROVE  ProxyWithinMax'
<1> SUFFICES ASSUME NEW i \in 1..Len(bids'), bids'[i].auto
             PROVE  /\ bids'[i].amount <= bids'[i].max
                    /\ \E j \in 1..(i - 1) :
                         /\ bids'[j].user = bids'[i].user /\ bids'[j].type = "PROXY"
                         /\ ~bids'[j].auto /\ bids'[j].max = bids'[i].max
  BY RowsAfter DEF ProxyWithinMax, Authorised
<1>1. Len(bids) \in Nat /\ \A j \in 1..Len(bids) : Kept(bids[j], bids'[j])
  BY RowsAfter DEF RowsKept
<1>2. CASE i <= Len(bids)
  <2>1. i \in 1..Len(bids) /\ Kept(bids[i], bids'[i])
    BY <1>1, <1>2
  <2>2. bids[i].amount <= bids[i].max
        /\ \E j \in 1..(i - 1) : Authorised(j, bids[i].user, bids[i].max)
    BY <2>1, RowsAfter DEF BookInv, ProxyWithinMax, Kept
  <2>3. PICK j \in 1..(i - 1) : Authorised(j, bids[i].user, bids[i].max)
    BY <2>2
  <2>4. Kept(bids[j], bids'[j])
    BY <1>1, <2>1
  <2>5. QED
    BY <2>1, <2>2, <2>3, <2>4 DEF Authorised, Kept
<1>3. CASE i = Len(bids) + 1 /\ \E r \in Request : Inserts(r, bids'[i])
  <2>1. PICK r \in Request : Inserts(r, bids'[i])
    BY <1>3
  <2>2. /\ req[r].pc = "answerCommit" /\ bids'[i].user = req[r].user
        /\ bids'[i].amount = req[r].amount /\ bids'[i].max = req[r].max
    BY <2>1, Inserted
  <2>3. /\ req[r].amount <= req[r].max
        /\ \E j \in 1..Len(bids) : Authorised(j, req[r].user, req[r].max)
    BY <2>2 DEF BookInv, BookCall, WithinMandate
  <2>4. PICK j \in 1..Len(bids) : Authorised(j, req[r].user, req[r].max)
    BY <2>3
  <2>5. Kept(bids[j], bids'[j]) /\ j \in 1..(i - 1)
    BY <1>1, <1>3
  <2>6. QED
    BY <2>2, <2>3, <2>4, <2>5 DEF Authorised, Kept
<1>4. QED
  BY <1>2, <1>3, RowsAfter

LEMMA AuctionChange ==
    ASSUME [Next]_vars
    PROVE  \/ auction' = auction
           \/ \E r \in Request : \/ CommitBid(r) \/ MarkReserveMet(r) \/ CommitAnswer(r)
                                 \/ SetProxyPrice(r) \/ CommitRetract(r)
<1>1. ASSUME NEW r \in Request, Begin(r) \/ TurnAway(r) \/ Crash(r)
      PROVE  auction' = auction
  BY <1>1 DEF Begin, BeginPlaceBid, BeginSetProxy, BeginCancelProxy, BeginRetract,
              TurnAway, Crash
<1>2. ASSUME NEW r \in Request, Continue(r)
      PROVE  \/ auction' = auction
             \/ CommitBid(r) \/ MarkReserveMet(r) \/ CommitAnswer(r)
             \/ SetProxyPrice(r) \/ CommitRetract(r)
  BY <1>2 DEF Continue, ValidateBid, FindProxies, ClearForAnswer, FindExistingProxy,
              ReplaceExistingProxy, FindHighestForProxy, ClearOutbid, CreateProxyBid,
              CancelProxy, PickNewHighest, AbortDeadlock
<1>3. Tick \/ UNCHANGED vars => auction' = auction
  BY DEF Tick, vars
<1>4. QED
  BY <1>1, <1>2, <1>3 DEF Next

LEMMA PriceOfABidStep ==
    ASSUME IInv, BookInv, [Next]_vars, NEW p \in Request, req'[p].pc = "setPrice"
    PROVE  \E i \in 1..Len(bids') : req'[p].amount = bids'[i].amount
<1> DEFINE q == req[p]
<1>1. TypeOK /\ q \in Call /\ req \in [Request -> Call]
  BY DEF IInv, TypeOK
<1>2. CASE req'[p] = q
  <2>1. PICK i \in 1..Len(bids) : q.amount = bids[i].amount
    BY <1>2 DEF BookInv, BookCall, PriceOfABid
  <2>2. i \in 1..Len(bids') /\ bids'[i].amount = bids[i].amount
    BY RowsAfter DEF RowsKept, Kept
  <2>3. QED
    BY <1>2, <2>1, <2>2
<1>3. CASE req'[p] # q
  <2>1. CreateProxyBid(p)
    BY <1>1, <1>3, HowItGotThere
  <2>2. PICK b : Inserts(p, b) /\ b.amount = q.amount
    BY <2>1, Inserted DEF Inserts
  <2>3. Len(bids') = Len(bids) + 1 /\ bids'[Len(bids) + 1] = b
    BY <2>2, InsertedRow
  <2>4. Len(bids) + 1 \in 1..Len(bids')
    BY <2>3, RowsAfter
  <2>5. req'[p].amount = q.amount
    BY <1>1, <2>1, IdleType DEF CreateProxyBid, Call
  <2>6. QED
    BY <2>2, <2>3, <2>4, <2>5
<1>4. QED
  BY <1>2, <1>3

LEMMA PriceStep ==
    ASSUME IInv, BookInv, PriceIsABid, [Next]_vars
    PROVE  PriceIsABid'
<1> DEFINE P == \/ auction'.currentPrice \in {OpeningPrice, StartPrice}
                \/ \E i \in 1..Len(bids') : auction'.currentPrice = bids'[i].amount
<1> SUFFICES P
  BY RowsAfter DEF PriceIsABid
<1>0. auction \in Auction /\ Len(bids) \in Nat
  BY RowsAfter DEF IInv, TypeOK
\* The amount of an old row is still that of a row.
<1>1. ASSUME NEW i \in 1..Len(bids), auction'.currentPrice = bids[i].amount PROVE P
  <2>1. i \in 1..Len(bids') /\ bids'[i].amount = bids[i].amount
    BY RowsAfter DEF RowsKept, Kept
  <2>2. QED
    BY <1>1, <2>1
<1>2. CASE auction'.currentPrice = auction.currentPrice
  BY <1>1, <1>2, RowsAfter DEF PriceIsABid
<1>3. ASSUME NEW r \in Request, CommitBid(r) \/ CommitAnswer(r) PROVE P
  <2>1. PICK b : Inserts(r, b) /\ b.amount = req[r].amount
    BY <1>3, Inserted DEF Inserts
  <2>2. Len(bids') = Len(bids) + 1 /\ bids'[Len(bids) + 1] = b
    BY <2>1, InsertedRow
  <2>3. Len(bids) + 1 \in 1..Len(bids')
    BY <1>0, <2>2
  <2>4. auction'.currentPrice = req[r].amount
    BY <1>0, <1>3 DEF CommitBid, CommitAnswer, Auction
  <2>5. QED
    BY <2>1, <2>2, <2>3, <2>4
<1>4. ASSUME NEW r \in Request, SetProxyPrice(r) PROVE P
  <2>1. PICK i \in 1..Len(bids) : req[r].amount = bids[i].amount
    BY <1>4 DEF BookInv, BookCall, PriceOfABid, SetProxyPrice
  <2>2. auction'.currentPrice = req[r].amount
    BY <1>0, <1>4 DEF SetProxyPrice, Auction
  <2>3. QED
    BY <1>1, <2>1, <2>2
<1>5. ASSUME NEW r \in Request, CommitRetract(r) PROVE P
  <2>1. req[r].next \in 0..Len(bids)
    BY <1>5 DEF CommitRetract, IInv, RefsOK, RefOK
  <2>2. auction'.currentPrice = IF req[r].next = 0 THEN StartPrice
                                ELSE bids[req[r].next].amount
    BY <1>0, <1>5 DEF CommitRetract, AuctionAfterRetract, Auction
  <2>3. CASE req[r].next = 0
    BY <2>2, <2>3
  <2>4. CASE req[r].next # 0
    BY <1>0, <1>1, <2>1, <2>2, <2>4
  <2>5. QED
    BY <2>3, <2>4
<1>6. ASSUME NEW r \in Request, MarkReserveMet(r)
      PROVE  auction'.currentPrice = auction.currentPrice
  BY <1>0, <1>6 DEF MarkReserveMet, Auction
<1>7. QED
  BY <1>2, <1>3, <1>4, <1>5, <1>6, AuctionChange

LEMMA ReserveReachedKept ==
    ASSUME IInv, [Next]_vars, ReserveReached
    PROVE  ReserveReached'
<1>1. PICK i \in 1..Len(bids) : ~bids[i].auto /\ bids[i].amount >= ReservePrice
  BY DEF ReserveReached
<1>2. i \in 1..Len(bids') /\ Kept(bids[i], bids'[i])
  BY RowsAfter DEF RowsKept
<1>3. QED
  BY <1>1, <1>2 DEF ReserveReached, Kept

LEMMA ReserveSeenStep ==
    ASSUME IInv, SInv, [Next]_vars, NEW p \in Request, req'[p].pc = "reserve"
    PROVE  ReserveReached'
<1> DEFINE q == req[p]
<1>1. TypeOK /\ q \in Call /\ req \in [Request -> Call]
  BY DEF IInv, TypeOK
<1>2. CASE req'[p] = q
  BY <1>2, ReserveReachedKept DEF SInv, CallSound, ReserveSeen
<1>3. CASE req'[p] # q
  <2>1. CommitBid(p)
    BY <1>1, <1>3, HowItGotThere
  <2>2. PICK b : Inserts(p, b) /\ b.amount = q.amount /\ ~b.auto
    <3>1. q.pc = "commit" /\ \E b : Inserts(p, b)
      BY <2>1 DEF Inserts, CommitBid
    <3>2. QED
      BY <3>1, Inserted
  <2>3. Len(bids') = Len(bids) + 1 /\ bids'[Len(bids) + 1] = b
    BY <2>2, InsertedRow
  <2>4. Len(bids) + 1 \in 1..Len(bids')
    BY <2>3, RowsAfter
  <2>5. q.amount >= ReservePrice
    BY <1>1, <2>1, IdleType DEF CommitBid, ReachesReserve, Call
  <2>6. QED
    BY <2>2, <2>3, <2>4, <2>5 DEF ReserveReached
<1>4. QED
  BY <1>2, <1>3

LEMMA ReserveStep ==
    ASSUME IInv, SInv, [Next]_vars
    PROVE  ReserveMetIsTrue'
<1>0. auction \in Auction
  BY DEF IInv, TypeOK
<1>1. SUFFICES ASSUME auction'.reserveMet PROVE ReserveReached'
  BY RowsAfter DEF ReserveMetIsTrue, ReserveReached
<1>2. CASE auction.reserveMet
  BY <1>2, ReserveReachedKept, RowsAfter DEF SInv, ReserveMetIsTrue, ReserveReached
<1>3. CASE \E r \in Request : MarkReserveMet(r)
  BY <1>3, ReserveReachedKept DEF MarkReserveMet, SInv, CallSound, ReserveSeen
<1>4. ASSUME NEW r \in Request,
             CommitBid(r) \/ CommitAnswer(r) \/ SetProxyPrice(r) \/ CommitRetract(r)
      PROVE  auction.reserveMet
  BY <1>0, <1>1, <1>4 DEF CommitBid, CommitAnswer, SetProxyPrice, CommitRetract,
                          AuctionAfterRetract, Auction
<1>5. QED
  BY <1>1, <1>2, <1>3, <1>4, AuctionChange

\* One extension more than at most n extensions.
LEMMA OneMore ==
    ASSUME NEW n \in Nat, NEW e, Extended(e, n)
    PROVE  \E k \in 1..(n + 1) : e + AntiSnipeExtension = EndDate + k * AntiSnipeExtension
<1>1. PICK k \in 0..n : e = EndDate + k * AntiSnipeExtension
  BY DEF Extended
<1>2. AntiSnipeExtension \in Nat /\ EndDate \in Nat
  BY BiddingAssumption
<1>3. (k + 1) * AntiSnipeExtension = k * AntiSnipeExtension + AntiSnipeExtension
      /\ k * AntiSnipeExtension \in Nat
  BY <1>2
<1>4. k + 1 \in 1..(n + 1)
  OBVIOUS
<1>5. e + AntiSnipeExtension = EndDate + (k + 1) * AntiSnipeExtension
  BY <1>1, <1>2, <1>3
<1>6. QED
  BY <1>4, <1>5

LEMMA ExtendedMore ==
    ASSUME NEW n \in Nat, NEW m \in Nat, n <= m, NEW e, Extended(e, n)
    PROVE  Extended(e, m)
<1>1. PICK k \in 0..n : e = EndDate + k * AntiSnipeExtension
  BY DEF Extended
<1>2. k \in 0..m
  OBVIOUS
<1>3. QED
  BY <1>1, <1>2 DEF Extended

\* What placeBid reads as the end date.
LEMMA EffectiveEndExtended ==
    ASSUME IInv, ExtensionsArePaidFor
    PROVE  Extended(EffectiveEnd, Len(bids))
<1>1. Len(bids) \in Nat /\ EndDate \in Nat /\ AntiSnipeExtension \in Nat
  BY BiddingAssumption, ActiveInDomain DEF IInv
<1>2. CASE auction.actualEnd = 0
  <2>1. EndDate = EndDate + 0 * AntiSnipeExtension /\ 0 \in 0..Len(bids)
    BY <1>1
  <2>2. QED
    BY <1>2, <2>1 DEF Extended, EffectiveEnd
<1>3. CASE auction.actualEnd # 0
  <2>1. PICK k \in 1..Len(bids) :
          auction.actualEnd = EndDate + k * AntiSnipeExtension
    BY <1>3 DEF ExtensionsArePaidFor
  <2>2. k \in 0..Len(bids)
    BY <1>1
  <2>3. QED
    BY <1>3, <2>1, <2>2 DEF Extended, EffectiveEnd
<1>4. QED
  BY <1>2, <1>3

\* Where a call has its end date from.
LEMMA EndReadWhere ==
    ASSUME IInv, [Next]_vars, NEW p \in Request, req'[p].pc \in {"validate", "commit"}
    PROVE  \/ req[p].pc \in {"validate", "commit"} /\ req'[p].end = req[p].end
           \/ req'[p].end = EffectiveEnd
<1> DEFINE q == req[p]
<1>1. TypeOK /\ q \in Call /\ req \in [Request -> Call] /\ Idle \in Call
  BY IdleType DEF IInv, TypeOK
<1>2. CASE req'[p] # q /\ req'[p].pc = "commit"
  <2>1. ValidateBid(p)
    BY <1>1, <1>2, HowItGotThere
  <2>2. q.pc = "validate" /\ req'[p].end = q.end
    BY <1>1, <1>2, <2>1, IdleType DEF ValidateBid, Refused, Call
  <2>3. QED
    BY <2>2
<1>3. CASE req'[p] # q /\ req'[p].pc = "validate"
  <2>1. Begin(p)
    BY <1>1, <1>3, HowItGotThere
  <2>2. ASSUME NEW u, NEW a, NEW t, NEW m, BeginPlaceBid(p, u, a, t, m)
        PROVE  req'[p].end = EffectiveEnd
    BY <1>1, <2>2 DEF BeginPlaceBid, Call
  <2>3. ASSUME NEW u, NEW m, BeginSetProxy(p, u, m) PROVE req'[p].pc = "setFind"
    BY <1>1, <2>3 DEF BeginSetProxy, Call
  <2>4. ASSUME NEW u, BeginCancelProxy(p, u) PROVE req'[p].pc = "cancel"
    BY <1>1, <2>4 DEF BeginCancelProxy, Call
  <2>5. ASSUME NEW i, BeginRetract(p, i) PROVE req'[p].pc = "retract"
    BY <1>1, <2>5 DEF BeginRetract, Call
  <2>6. QED
    BY <1>3, <2>1, <2>2, <2>3, <2>4, <2>5 DEF Begin
<1>4. QED
  BY <1>2, <1>3

LEMMA EndSeenStep ==
    ASSUME IInv, SInv, [Next]_vars, NEW p \in Request,
           req'[p].pc \in {"validate", "commit"}
    PROVE  Extended(req'[p].end, Len(bids'))
<1>1. Len(bids) \in Nat /\ Len(bids') \in Nat /\ Len(bids) <= Len(bids')
  BY RowsAfter DEF RowsKept
<1>2. Extended(EffectiveEnd, Len(bids))
  BY EffectiveEndExtended DEF SInv
<1>3. req[p].pc \in {"validate", "commit"} => Extended(req[p].end, Len(bids))
  BY DEF SInv, CallSound, EndSeen
<1>4. QED
  BY <1>1, <1>2, <1>3, EndReadWhere, ExtendedMore

LEMMA ExtensionsStep ==
    ASSUME IInv, SInv, [Next]_vars
    PROVE  ExtensionsArePaidFor'
<1>1. TypeOK /\ auction \in Auction
  BY DEF IInv, TypeOK
<1>2. Len(bids) \in Nat /\ Len(bids') \in Nat /\ Len(bids) <= Len(bids')
  BY RowsAfter DEF RowsKept
<1>3. SUFFICES ASSUME auction'.actualEnd # 0
               PROVE  \E k \in 1..Len(bids') :
                        auction'.actualEnd = EndDate + k * AntiSnipeExtension
  BY DEF ExtensionsArePaidFor
<1>4. CASE auction'.actualEnd = auction.actualEnd
  <2>1. PICK k \in 1..Len(bids) :
          auction.actualEnd = EndDate + k * AntiSnipeExtension
    BY <1>3, <1>4 DEF SInv, ExtensionsArePaidFor
  <2>2. k \in 1..Len(bids')
    BY <1>2
  <2>3. QED
    BY <1>4, <2>1, <2>2
<1>5. ASSUME NEW r \in Request, CommitBid(r), auction'.actualEnd # auction.actualEnd
      PROVE  \E k \in 1..Len(bids') :
               auction'.actualEnd = EndDate + k * AntiSnipeExtension
  <2>1. auction'.actualEnd = req[r].end + AntiSnipeExtension
    BY <1>1, <1>5 DEF CommitBid, ExtendedEnd, Auction
  <2>2. Extended(req[r].end, Len(bids))
    BY <1>5 DEF CommitBid, SInv, CallSound, EndSeen
  <2>3. Len(bids') = Len(bids) + 1
    <3>1. PICK b : Inserts(r, b)
      BY <1>5 DEF Inserts
    <3>2. QED
      BY <3>1, InsertedRow
  <2>4. QED
    BY <1>2, <2>1, <2>2, <2>3, OneMore
<1>6. ASSUME NEW r \in Request,
             \/ MarkReserveMet(r) \/ CommitAnswer(r) \/ SetProxyPrice(r) \/ CommitRetract(r)
      PROVE  auction'.actualEnd = auction.actualEnd
  BY <1>1, <1>6 DEF MarkReserveMet, CommitAnswer, SetProxyPrice, CommitRetract,
                    AuctionAfterRetract, Auction
<1>7. QED
  BY <1>4, <1>5, <1>6, AuctionChange
---------------------------------------------------------------------------
LEMMA InitSInv == Init => SInv
<1> SUFFICES ASSUME Init PROVE SInv
  OBVIOUS
<1>1. bids = <<>> /\ Len(bids) = 0 /\ DOMAIN bids = {}
  BY EmptySeq DEF Init
<1>2. \A r \in Request : req[r].pc = "idle"
  BY IdleType DEF Init
<1>3. \A r \in Request : CallSound(req[r])
  BY <1>2 DEF CallSound, SawLower, WithinMandate, PriceOfABid, ReserveSeen, EndSeen
<1>4. SawEarlier /\ ProxyWithinMax /\ BeatsWhatItSaw
  BY <1>1 DEF SawEarlier, ProxyWithinMax, BeatsWhatItSaw
<1>5. ReserveMetIsTrue /\ PriceIsABid /\ ExtensionsArePaidFor
  BY DEF Init, ReserveMetIsTrue, PriceIsABid, ExtensionsArePaidFor
<1>6. QED
  BY <1>3, <1>4, <1>5 DEF SInv

LEMMA BookPart == SInv => BookInv
BY DEF SInv, BookInv, CallSound, BookCall

\* The calls of the bid service keep the part about the book by themselves.
LEMMA NextBookInv == IInv /\ BookInv /\ [Next]_vars => BookInv'
<1> SUFFICES ASSUME IInv, BookInv, [Next]_vars PROVE BookInv'
  OBVIOUS
<1>1. ASSUME NEW p \in Request PROVE BookCall(req[p])'
  <2>1. SawLower(req[p])'
    BY SawLowerStep DEF SawLower, Ascending
  <2>2. WithinMandate(req[p])'
    BY WithinMandateStep DEF WithinMandate, Authorised
  <2>3. PriceOfABid(req[p])'
    BY PriceOfABidStep DEF PriceOfABid
  <2>4. QED
    BY <2>1, <2>2, <2>3 DEF BookCall
<1>2. (\A p \in Request : BookCall(req[p]))'
  BY <1>1
<1>3. QED
  BY <1>2, SawEarlierStep, ProxyStep, BeatsStep DEF BookInv

LEMMA NextSInv == IInv /\ SInv /\ [Next]_vars => SInv'
<1> SUFFICES ASSUME IInv, SInv, [Next]_vars PROVE SInv'
  OBVIOUS
<1>1. BookInv /\ PriceIsABid
  BY BookPart DEF SInv
<1>2. BookInv'
  BY <1>1, NextBookInv
<1>3. ASSUME NEW p \in Request PROVE CallSound(req[p])'
  <2>1. BookCall(req[p])'
    BY <1>2 DEF BookInv
  <2>2. ReserveSeen(req[p])'
    BY ReserveSeenStep DEF ReserveSeen
  <2>3. EndSeen(req[p])'
    BY EndSeenStep DEF EndSeen, Extended
  <2>4. QED
    BY <2>1, <2>2, <2>3 DEF CallSound, BookCall
<1>4. (\A p \in Request : CallSound(req[p]))'
  BY <1>3
<1>5. ReserveMetIsTrue' /\ PriceIsABid' /\ ExtensionsArePaidFor'
  BY <1>1, ReserveStep, PriceStep, ExtensionsStep
<1>6. QED
  BY <1>2, <1>4, <1>5 DEF SInv, BookInv
---------------------------------------------------------------------------
(***************************************************************************)
(* The bid service next to other writers: what its calls remember stays    *)
(* true while the auctioneer's desk or the auction service writes to rows. *)
(***************************************************************************)
\* A row that another service adds is nobody's proxy answer, and was compared
\* with nothing.
OutsideRows ==
    \A i \in 1..Len(bids') : i > Len(bids) => ~bids'[i].auto /\ bids'[i].seen = 0

OutsideWrite == req' = req /\ RowsKept /\ OutsideRows

LEMMA RowsAround ==
    ASSUME IInv, IInv', RowsKept
    PROVE  /\ Len(bids) \in Nat /\ DOMAIN bids = 1..Len(bids)
           /\ Len(bids') \in Nat /\ DOMAIN bids' = 1..Len(bids')
           /\ Len(bids) <= Len(bids')
           /\ \A i \in 1..Len(bids) : i \in 1..Len(bids') /\ Kept(bids[i], bids'[i])
           /\ \A i \in 1..Len(bids) : bids[i] \in Bid
<1>1. bids \in Seq(Bid) /\ bids' \in Seq(Bid)
  BY DEF IInv, TypeOK
<1>2. /\ Len(bids) \in Nat /\ DOMAIN bids = 1..Len(bids)
      /\ Len(bids') \in Nat /\ DOMAIN bids' = 1..Len(bids')
      /\ \A i \in 1..Len(bids) : bids[i] \in Bid
  BY <1>1
<1>3. QED
  BY <1>2 DEF RowsKept

LEMMA OutsideSawEarlier ==
    ASSUME IInv, IInv', BookInv, OutsideWrite
    PROVE  SawEarlier'
<1> SUFFICES ASSUME NEW i \in 1..Len(bids') PROVE bids'[i].seen < i
  BY DEF SawEarlier
<1>1. CASE i \in 1..Len(bids)
  BY <1>1, RowsAround DEF OutsideWrite, BookInv, SawEarlier, Kept
<1>2. CASE i \notin 1..Len(bids)
  BY <1>2, RowsAround DEF OutsideWrite, OutsideRows
<1>3. QED
  BY <1>1, <1>2

LEMMA OutsideWithinMax ==
    ASSUME IInv, IInv', BookInv, OutsideWrite
    PROVE  ProxyWithinMax'
<1> SUFFICES ASSUME NEW i \in 1..Len(bids'), bids'[i].auto
             PROVE  /\ bids'[i].amount <= bids'[i].max
                    /\ \E j \in 1..(i - 1) :
                         /\ bids'[j].user = bids'[i].user /\ bids'[j].type = "PROXY"
                         /\ ~bids'[j].auto /\ bids'[j].max = bids'[i].max
  BY RowsAround DEF ProxyWithinMax, Authorised, OutsideWrite
<1>1. /\ Len(bids) \in Nat /\ DOMAIN bids = 1..Len(bids)
      /\ \A j \in 1..Len(bids) : Kept(bids[j], bids'[j])
  BY RowsAround DEF OutsideWrite
<1>2. i \in 1..Len(bids) /\ Kept(bids[i], bids'[i])
  BY <1>1, RowsAround DEF OutsideWrite, OutsideRows
<1>3. bids[i].amount <= bids[i].max
      /\ \E j \in 1..(i - 1) : Authorised(j, bids[i].user, bids[i].max)
  BY <1>1, <1>2 DEF BookInv, ProxyWithinMax, Kept
<1>4. PICK j \in 1..(i - 1) : Authorised(j, bids[i].user, bids[i].max)
  BY <1>3
<1>5. Kept(bids[j], bids'[j])
  BY <1>1, <1>2
<1>6. QED
  BY <1>2, <1>3, <1>4, <1>5 DEF Authorised, Kept

LEMMA OutsideBeats ==
    ASSUME IInv, IInv', BookInv, OutsideWrite
    PROVE  BeatsWhatItSaw'
<1> SUFFICES ASSUME Ascending, NEW i \in 1..Len(bids'), NEW j \in 1..bids'[i].seen,
                    ~bids'[j].retracted
             PROVE  bids'[i].amount > bids'[j].amount
  BY RowsAround DEF BeatsWhatItSaw, Ascending, OutsideWrite
<1>1. /\ Len(bids) \in Nat /\ DOMAIN bids = 1..Len(bids)
      /\ \A k \in 1..Len(bids) : Kept(bids[k], bids'[k]) /\ bids[k] \in Bid
  BY RowsAround DEF OutsideWrite
<1>2. i \in 1..Len(bids)
  BY <1>1, RowsAround DEF OutsideWrite, OutsideRows
<1>3. /\ bids'[i].seen = bids[i].seen /\ bids'[i].amount = bids[i].amount
      /\ bids[i].seen < i /\ bids[i].seen \in Nat
  BY <1>1, <1>2 DEF Kept, BookInv, SawEarlier, Bid
<1>4. j \in 1..bids[i].seen /\ j \in 1..Len(bids)
  BY <1>1, <1>2, <1>3
<1>5. ~bids[j].retracted /\ bids'[j].amount = bids[j].amount
  BY <1>1, <1>4 DEF Kept
<1>6. bids[i].amount > bids[j].amount
  BY <1>1, <1>2, <1>4, <1>5 DEF BookInv, BeatsWhatItSaw
<1>7. QED
  BY <1>3, <1>5, <1>6

LEMMA OutsideKeepsCalls ==
    ASSUME IInv, IInv', BookInv, OutsideWrite, NEW p \in Request
    PROVE  BookCall(req[p])'
<1> DEFINE q == req[p]
<1>1. /\ Len(bids) \in Nat /\ Len(bids') \in Nat /\ Len(bids) <= Len(bids')
      /\ \A i \in 1..Len(bids) : i \in 1..Len(bids') /\ Kept(bids[i], bids'[i])
      /\ req' = req
  BY RowsAround DEF OutsideWrite
<1>2. /\ SawLower(q) /\ WithinMandate(q) /\ PriceOfABid(q)
      /\ q.seen \in Nat
  BY CallTypes DEF BookInv, BookCall, IInv, TypeOK
<1>3. SawLower(q)'
  <2> SUFFICES ASSUME q.pc = "commit"
               PROVE  /\ q.seen <= Len(bids')
                      /\ Ascending => \A j \in 1..q.seen :
                           ~bids'[j].retracted => q.amount > bids'[j].amount
    BY <1>1 DEF SawLower, Ascending
  <2>1. q.seen <= Len(bids)
    BY <1>2 DEF SawLower
  <2>2. ASSUME Ascending, NEW j \in 1..q.seen, ~bids'[j].retracted
        PROVE  q.amount > bids'[j].amount
    <3>1. j \in 1..Len(bids) /\ Kept(bids[j], bids'[j])
      BY <1>1, <1>2, <2>1
    <3>2. QED
      BY <1>2, <2>2, <3>1 DEF SawLower, Kept
  <2>3. QED
    BY <1>1, <1>2, <2>1, <2>2
<1>4. WithinMandate(q)'
  <2> SUFFICES ASSUME q.pc \in {"answer", "answerCommit"}
               PROVE  /\ q.amount <= q.max
                      /\ \E j \in 1..Len(bids') :
                           /\ bids'[j].user = q.user /\ bids'[j].type = "PROXY"
                           /\ ~bids'[j].auto /\ bids'[j].max = q.max
    BY <1>1 DEF WithinMandate, Authorised
  <2>1. q.amount <= q.max
    BY <1>2 DEF WithinMandate
  <2>2. PICK j \in 1..Len(bids) : Authorised(j, q.user, q.max)
    BY <1>2 DEF WithinMandate
  <2>3. QED
    BY <1>1, <2>1, <2>2 DEF Authorised, Kept
<1>5. PriceOfABid(q)'
  BY <1>1, <1>2 DEF PriceOfABid, Kept
<1>6. QED
  BY <1>3, <1>4, <1>5 DEF BookCall

LEMMA OutsideKeepsBook ==
    ASSUME IInv, IInv', BookInv, OutsideWrite
    PROVE  BookInv'
<1>1. (\A p \in Request : BookCall(req[p]))'
  BY OutsideKeepsCalls
<1>2. QED
  BY <1>1, OutsideSawEarlier, OutsideWithinMax, OutsideBeats DEF BookInv
---------------------------------------------------------------------------
(***************************************************************************)
(* The book keeps positive amounts: a call that will insert a bid has an   *)
(* amount above zero, or a maximum above zero that it will come from.      *)
(***************************************************************************)
CallPositive(q) ==
    /\ q.pc \in {"validate", "commit", "answer", "answerCommit", "setClear", "setCreate"}
         => q.amount > 0
    /\ q.pc \in {"setFind", "setRetract", "setHighest"} => q.max > 0

BookPositive ==
    /\ \A i \in 1..Len(bids) : bids[i].amount > 0
    /\ \A r \in Request : CallPositive(req[r])

LEMMA BeginPositive ==
    ASSUME IInv, BookPositive, NEW p \in Request, Begin(p)
    PROVE  CallPositive(req'[p])
<1>1. /\ req \in [Request -> Call] /\ Idle \in Call /\ Idle.pc = "idle"
      /\ auction.currentPrice \in Nat
  BY IdleType, AuctionTypes DEF IInv, TypeOK
<1>2. ASSUME NEW u, NEW a \in Offer, NEW t, NEW m, BeginPlaceBid(p, u, a, t, m)
      PROVE  req'[p].pc = "validate" /\ req'[p].amount = a
  BY <1>1, <1>2 DEF BeginPlaceBid, Call
<1>3. ASSUME NEW u, NEW m \in Offer, BeginSetProxy(p, u, m)
      PROVE  req'[p].pc = "setFind" /\ req'[p].max = m
  BY <1>1, <1>3 DEF BeginSetProxy, Call
<1>4. ASSUME NEW u, BeginCancelProxy(p, u)
      PROVE  req'[p].pc = "cancel"
  BY <1>1, <1>4 DEF BeginCancelProxy, Call
<1>5. ASSUME NEW i, BeginRetract(p, i)
      PROVE  req'[p].pc = "retract"
  BY <1>1, <1>5 DEF BeginRetract, Call
<1>6. \A a \in Offer : a > 0
  BY BiddingAssumption
<1>7. ASSUME NEW u, NEW a \in Offer, NEW t, NEW m, BeginPlaceBid(p, u, a, t, m)
      PROVE  CallPositive(req'[p])
  BY <1>2, <1>6, <1>7 DEF CallPositive
<1>8. ASSUME NEW u, NEW m \in Offer, BeginSetProxy(p, u, m)
      PROVE  CallPositive(req'[p])
  BY <1>3, <1>6, <1>8 DEF CallPositive
<1>9. ASSUME NEW u, BeginCancelProxy(p, u) PROVE CallPositive(req'[p])
  BY <1>4, <1>9 DEF CallPositive
<1>10. ASSUME NEW i, BeginRetract(p, i) PROVE CallPositive(req'[p])
  BY <1>5, <1>10 DEF CallPositive
<1>11. QED
  BY <1>7, <1>8, <1>9, <1>10 DEF Begin

\* The amounts that a call computes from those of the book.
LEMMA AnswerPositive ==
    ASSUME IInv, BookPositive, NEW p \in Request, FindProxies(p)
    PROVE  CallPositive(req'[p])
<1> DEFINE q == req[p]
<1>1. /\ TypeOK /\ req \in [Request -> Call] /\ Idle \in Call /\ Idle.pc = "idle"
      /\ q.amount \in Nat
      /\ \A i \in Active : bids[i] \in Bid
  BY IdleType, CallTypes, ActiveInDomain DEF IInv, TypeOK
<1>2. ASSUME NEW i \in Active, NEW a \in Nat \ {0}, Answer(p, i, a)
      PROVE  CallPositive(req'[p])
  <2>1. req'[p].pc = "answer" /\ req'[p].amount = a
    BY <1>1, <1>2 DEF Answer, Call
  <2>2. QED
    BY <2>1 DEF CallPositive
<1>3. PICK inc \in Increments(q.amount) :
         LET floor == q.amount + inc
             E == EligibleProxies(q.user, floor)
         IN  \/ E = {} /\ req' = [req EXCEPT ![p] = Idle]
             \/ \E i \in E : E = {i} /\ Answer(p, i, floor)
             \/ \E h \in E, s \in E : Answer(p, h, CompetingAmount(h, s, floor, inc))
  BY DEF FindProxies
<1>4. inc \in Nat \ {0} /\ q.amount + inc \in Nat \ {0}
  BY <1>1, IncrementsPositive
<1>5. EligibleProxies(q.user, q.amount + inc) \subseteq Active
  BY DEF EligibleProxies
<1>6. ASSUME NEW h \in Active, NEW s \in Active
      PROVE  CompetingAmount(h, s, q.amount + inc, inc) \in Nat \ {0}
  <2>1. bids[h].max \in Nat /\ bids[s].max \in Nat
    BY <1>1 DEF Bid
  <2>2. QED
    BY <1>4, <2>1 DEF CompetingAmount, Larger, Smaller
<1>7. CASE req' = [req EXCEPT ![p] = Idle]
  BY <1>1, <1>7 DEF CallPositive
<1>8. QED
  BY <1>2, <1>3, <1>4, <1>5, <1>6, <1>7

LEMMA ProxyAmountPositive ==
    ASSUME IInv, BookPositive, NEW p \in Request, FindHighestForProxy(p)
    PROVE  CallPositive(req'[p])
<1> DEFINE q == req[p]
<1>1. /\ TypeOK /\ req \in [Request -> Call] /\ q \in Call /\ q.max \in Nat
      /\ q.price \in Nat /\ Len(bids) \in Nat /\ Active \subseteq 1..Len(bids)
      /\ \A i \in 1..Len(bids) : bids[i].amount \in Nat
  BY CallTypes, ActiveInDomain DEF IInv, TypeOK, Bid
<1>2. q.max > 0
  BY DEF FindHighestForProxy, BookPositive, CallPositive
<1>3. PICK h \in FirstByAmount(Active), inc \in Increments(q.price) :
         /\ req'[p].pc \in {"setCreate", "setClear"}
         /\ req'[p].amount = InitialAmount(q, h, inc)
  BY <1>1 DEF FindHighestForProxy, Call
<1>4. inc \in Nat \ {0} /\ h \in {0} \cup 1..Len(bids)
  BY <1>1, IncrementsPositive, FirstByAmountIn
<1>5. h # 0 => bids[h].amount \in Nat /\ bids[h].amount > 0
  BY <1>1, <1>4 DEF BookPositive
<1>6. StartPrice \in Nat \ {0}
  BY BiddingAssumption
<1>7. InitialAmount(q, h, inc) > 0
  <2>1. CASE h = 0
    BY <1>1, <1>2, <1>6, <2>1 DEF InitialAmount, Smaller
  <2>2. CASE h # 0
    BY <1>1, <1>2, <1>4, <1>5, <2>2 DEF InitialAmount, Smaller
  <2>3. QED
    BY <2>1, <2>2
<1>8. QED
  BY <1>3, <1>7 DEF CallPositive

\* The other steps of a call keep what it knows.
LEMMA CarriesPositive ==
    ASSUME IInv, BookPositive, NEW p \in Request
    PROVE  /\ ValidateBid(p) => CallPositive(req'[p])
           /\ CommitBid(p) \/ MarkReserveMet(p) => CallPositive(req'[p])
           /\ ClearForAnswer(p) => CallPositive(req'[p])
           /\ FindExistingProxy(p) \/ ReplaceExistingProxy(p) => CallPositive(req'[p])
           /\ ClearOutbid(p) => CallPositive(req'[p])
           /\ CreateProxyBid(p) => CallPositive(req'[p])
           /\ PickNewHighest(p) => CallPositive(req'[p])
<1>1. /\ req \in [Request -> Call] /\ req[p] \in Call /\ Idle \in Call /\ Idle.pc = "idle"
      /\ CallPositive(req[p])
  BY IdleType DEF IInv, TypeOK, BookPositive
<1>2. ValidateBid(p) => CallPositive(req'[p])
  BY <1>1 DEF ValidateBid, Refused, CallPositive, Call
<1>3. CommitBid(p) \/ MarkReserveMet(p) => CallPositive(req'[p])
  <2>1. CommitBid(p) => req'[p].pc \in {"reserve", "respond"}
    BY <1>1 DEF CommitBid, Call
  <2>2. MarkReserveMet(p) => req'[p].pc = "respond"
    BY <1>1 DEF MarkReserveMet, Call
  <2>3. QED
    BY <2>1, <2>2 DEF CallPositive
<1>4. ClearForAnswer(p) => CallPositive(req'[p])
  BY <1>1 DEF ClearForAnswer, CallPositive, Call
<1>5. FindExistingProxy(p) \/ ReplaceExistingProxy(p) => CallPositive(req'[p])
  BY <1>1 DEF FindExistingProxy, ReplaceExistingProxy, CallPositive, Call
<1>6. ClearOutbid(p) => CallPositive(req'[p])
  BY <1>1 DEF ClearOutbid, CallPositive, Call
<1>7. CreateProxyBid(p) \/ PickNewHighest(p) => CallPositive(req'[p])
  <2>1. CreateProxyBid(p) => req'[p].pc = "setPrice"
    BY <1>1 DEF CreateProxyBid, Call
  <2>2. PickNewHighest(p) => req'[p].pc = "retractCommit"
    BY <1>1 DEF PickNewHighest, Call
  <2>3. QED
    BY <2>1, <2>2 DEF CallPositive
<1>8. QED
  BY <1>2, <1>3, <1>4, <1>5, <1>6, <1>7

LEMMA BookStaysPositive ==
    ASSUME IInv, BookPositive, [Next]_vars
    PROVE  BookPositive'
<1>1. IInv /\ TypeOK /\ req \in [Request -> Call] /\ BookPositive
  BY DEF IInv, TypeOK
<1>2. ASSUME NEW p \in Request
      PROVE  CallPositive(req'[p])
  <2>1. CASE req'[p] = req[p]
    BY <1>1, <2>1 DEF BookPositive
  <2>2. CASE req'[p].pc = "idle"
    BY <2>2 DEF CallPositive
  <2>3. CASE req'[p] # req[p] /\ req'[p].pc # "idle"
    <3>1. Begin(p) \/ Continue(p) \/ TurnAway(p) \/ Crash(p)
      BY <1>1, <2>3, OwnSlot DEF Next, Tick, vars
    <3>2. Begin(p) \/ Continue(p)
      BY <1>1, <2>3, <3>1, PcAfter
    <3>3. CASE Begin(p)
      BY <3>3, BeginPositive
    <3>4. CASE Continue(p)
      BY <1>1, <2>3, <3>4, PcAfter, AnswerPositive, ProxyAmountPositive, CarriesPositive
      DEF Continue
    <3>5. QED
      BY <3>2, <3>3, <3>4
  <2>4. QED
    BY <2>1, <2>2, <2>3
<1>3. ASSUME NEW i \in 1..Len(bids')
      PROVE  bids'[i].amount > 0
  <2>1. CASE i <= Len(bids)
    BY <1>1, <2>1, RowsAfter DEF BookPositive, RowsKept, Kept
  <2>2. ASSUME NEW r \in Request, Inserts(r, bids'[i])
        PROVE  bids'[i].amount > 0
    <3>1. bids'[i].amount = req[r].amount
      BY <2>2, Inserted
    <3>2. req[r].pc \in {"commit", "answerCommit", "setCreate"}
      BY <2>2, Inserted
    <3>3. QED
      BY <1>1, <3>1, <3>2 DEF BookPositive, CallPositive
  <2>3. QED
    BY <1>1, <2>1, <2>2, RowsAfter
<1>4. QED
  <2>1. (\A p \in Request : CallPositive(req[p]))'
    BY <1>2 DEF CallPositive
  <2>2. QED
    BY <1>3, <2>1 DEF BookPositive
---------------------------------------------------------------------------
(***************************************************************************)
(* bidCount.  A row of setProxyBid is on the book before it is counted, so *)
(* what is bounded by the book is bidCount and the calls still to count.   *)
(***************************************************************************)
Uncounted == {r \in Request : req[r].pc = "setPrice"}

CountSound ==
    /\ IsFiniteSet(Uncounted)
    /\ auction.bidCount + Cardinality(Uncounted) <= Cardinality(Counted)

LEMMA CountedFinite ==
    ASSUME TypeOK
    PROVE  IsFiniteSet(Counted) /\ Cardinality(Counted) \in Nat
<1>1. IsFiniteSet(1..Len(bids))
  BY ActiveInDomain, FS_Interval
<1>2. Counted \in SUBSET (1..Len(bids))
  BY ActiveInDomain DEF Counted
<1>3. QED
  BY <1>1, <1>2, FS_Subset, FS_CardinalityType

\* Rows stay counted, all but one at most.
LEMMA CountedKept ==
    ASSUME TypeOK, TypeOK', Len(bids) <= Len(bids'), NEW x,
           \A k \in 1..Len(bids) : k # x /\ bids[k].reason # "user" => bids'[k].reason # "user"
    PROVE  /\ Cardinality(Counted) - 1 <= Cardinality(Counted')
           /\ x \notin 1..Len(bids) => Cardinality(Counted) <= Cardinality(Counted')
<1>1. /\ bids \in Seq(Bid) /\ bids' \in Seq(Bid)
      /\ IsFiniteSet(Counted) /\ Cardinality(Counted) \in Nat
  BY CountedFinite DEF TypeOK
<1>2. /\ DOMAIN bids = 1..Len(bids) /\ DOMAIN bids' = 1..Len(bids')
      /\ Len(bids) \in Nat /\ Len(bids') \in Nat
  BY <1>1
<1>3. Counted \ {x} \in SUBSET Counted'
  BY <1>2 DEF Counted
<1>4. IsFiniteSet(Counted') /\ Cardinality(Counted') \in Nat
  <2>1. IsFiniteSet(1..Len(bids'))
    BY <1>2, FS_Interval
  <2>2. Counted' \in SUBSET (1..Len(bids'))
    BY <1>2 DEF Counted
  <2>3. QED
    BY <2>1, <2>2, FS_Subset, FS_CardinalityType
<1>5. Cardinality(Counted \ {x}) <= Cardinality(Counted')
  BY <1>3, <1>4, FS_Subset
<1>6. Cardinality(Counted \ {x}) =
        IF x \in Counted THEN Cardinality(Counted) - 1 ELSE Cardinality(Counted)
  BY <1>1, FS_RemoveElement
<1>7. x \notin 1..Len(bids) => x \notin Counted
  BY <1>2 DEF Counted
<1>8. QED
  BY <1>1, <1>4, <1>5, <1>6, <1>7

\* A new row is counted.
LEMMA CountedMore ==
    ASSUME TypeOK, TypeOK', Len(bids') = Len(bids) + 1,
           \A k \in 1..Len(bids) : bids'[k].reason = bids[k].reason,
           bids'[Len(bids) + 1].reason = "none"
    PROVE  Cardinality(Counted') = Cardinality(Counted) + 1
<1>1. /\ bids \in Seq(Bid) /\ bids' \in Seq(Bid)
      /\ IsFiniteSet(Counted) /\ Cardinality(Counted) \in Nat
  BY CountedFinite DEF TypeOK
<1>2. /\ DOMAIN bids = 1..Len(bids) /\ DOMAIN bids' = 1..Len(bids')
      /\ Len(bids) \in Nat
  BY <1>1
<1>3. Counted' = Counted \cup {Len(bids) + 1}
  BY <1>2 DEF Counted
<1>4. Len(bids) + 1 \notin Counted
  BY <1>2 DEF Counted
<1>5. QED
  BY <1>1, <1>3, <1>4, FS_AddElement

LEMMA ClearedReasons ==
    ASSUME TypeOK, NEW S, NEW k \in 1..Len(bids)
    PROVE  ClearWinning(S)[k].reason = bids[k].reason
BY ActiveInDomain DEF ClearWinning, Bid

\* Each insertion is one row more, with its reason still none.
LEMMA InsertCounts ==
    ASSUME IInv, IInv', NEW r \in Request, CommitBid(r) \/ CommitAnswer(r) \/ CreateProxyBid(r)
    PROVE  Cardinality(Counted') = Cardinality(Counted) + 1
<1>1. TypeOK /\ TypeOK' /\ bids \in Seq(Bid) /\ Len(bids) \in Nat
  BY ActiveInDomain DEF IInv, TypeOK
<1>2. PICK b : Inserts(r, b)
  BY DEF Inserts
<1>3. Len(bids') = Len(bids) + 1 /\ bids'[Len(bids) + 1] = b
  BY <1>2, InsertedRow
<1>4. b.reason = "none"
  BY <1>2 DEF Inserts, NewBid
<1>5. ASSUME NEW k \in 1..Len(bids)
      PROVE  bids'[k].reason = bids[k].reason
  <2>1. CASE CreateProxyBid(r)
    BY <1>1, <2>1 DEF CreateProxyBid
  <2>2. ASSUME NEW S, NEW c, bids' = Append(ClearWinning(S), c)
        PROVE  bids'[k].reason = bids[k].reason
    <3>1. ClearWinning(S) \in Seq(Bid) /\ Len(ClearWinning(S)) = Len(bids)
      BY <1>1, ClearWinningType
    <3>2. bids'[k] = ClearWinning(S)[k]
      BY <1>1, <2>2, <3>1
    <3>3. QED
      BY <1>1, <3>2, ClearedReasons
  <2>3. QED
    BY <2>1, <2>2 DEF CommitBid, CommitAnswer
<1>6. QED
  BY <1>1, <1>3, <1>4, <1>5, CountedMore

\* A retraction takes at most one row out of the count, and no other update
\* takes any.
LEMMA UpdateCounts ==
    ASSUME IInv, IInv', NEW r \in Request
    PROVE  /\ CommitRetract(r) => Cardinality(Counted) - 1 <= Cardinality(Counted')
           /\ ReplaceExistingProxy(r) \/ ClearOutbid(r) \/ CancelProxy(r)
                => Cardinality(Counted) <= Cardinality(Counted')
<1>1. /\ TypeOK /\ TypeOK' /\ bids \in Seq(Bid) /\ Len(bids) \in Nat
      /\ DOMAIN bids = 1..Len(bids) /\ RefOK(req[r])
      /\ \A k \in 1..Len(bids) : bids[k] \in Bid
  BY ActiveInDomain DEF IInv, TypeOK, RefsOK
<1>2. ASSUME CommitRetract(r)
      PROVE  Cardinality(Counted) - 1 <= Cardinality(Counted')
  <2>1. bids' = RowsAfterRetract(req[r].bid, req[r].next) /\ Len(bids') = Len(bids)
    BY <1>1, <1>2, RowsAfterRetractType DEF CommitRetract
  <2>2. \A k \in 1..Len(bids) :
           k # req[r].bid /\ bids[k].reason # "user" => bids'[k].reason # "user"
    BY <1>1, <2>1 DEF RowsAfterRetract, Bid
  <2>3. Len(bids) <= Len(bids')
    BY <1>1, <2>1
  <2>4. QED
    BY <1>1, <2>2, <2>3, CountedKept
<1>3. ASSUME NEW i \in 1..Len(bids), NEW v \in {"replaced", "cancelled"},
             bids' = [bids EXCEPT ![i].retracted = TRUE, ![i].reason = v]
      PROVE  Cardinality(Counted) <= Cardinality(Counted')
  <2>1. Len(bids') = Len(bids)
    BY <1>1, <1>3, RetractedRow DEF Reason
  <2>2. \A k \in 1..Len(bids) : bids'[k].reason \in {bids[k].reason, v}
    BY <1>1, <1>3 DEF Bid
  <2>3. \A k \in 1..Len(bids) : k # 0 /\ bids[k].reason # "user" => bids'[k].reason # "user"
    BY <2>2
  <2>4. QED
    BY <1>1, <2>1, <2>3, CountedKept
<1>4. ReplaceExistingProxy(r) => Cardinality(Counted) <= Cardinality(Counted')
  BY <1>1, <1>3 DEF ReplaceExistingProxy, RefOK
<1>5. CancelProxy(r) => Cardinality(Counted) <= Cardinality(Counted')
  BY <1>1, <1>3 DEF CancelProxy, RefOK
<1>6. ASSUME ClearOutbid(r)
      PROVE  Cardinality(Counted) <= Cardinality(Counted')
  <2>1. bids' = ClearWinning(req[r].clear) /\ Len(bids') = Len(bids)
    BY <1>1, <1>6, ClearWinningType DEF ClearOutbid
  <2>2. \A k \in 1..Len(bids) : k # 0 /\ bids[k].reason # "user" => bids'[k].reason # "user"
    BY <1>1, <2>1, ClearedReasons
  <2>3. QED
    BY <1>1, <2>1, <2>2, CountedKept
<1>7. QED
  BY <1>2, <1>4, <1>5, <1>6

\* Which calls wait after a step.
LEMMA WaitingAfter ==
    ASSUME IInv, [Next]_vars, IsFiniteSet(Uncounted)
    PROVE  /\ IsFiniteSet(Uncounted')
           /\ Cardinality(Uncounted) \in Nat /\ Cardinality(Uncounted') \in Nat
           /\ \A r \in Request : CreateProxyBid(r) =>
                Cardinality(Uncounted') <= Cardinality(Uncounted) + 1
           /\ \A r \in Request : SetProxyPrice(r) =>
                Cardinality(Uncounted') <= Cardinality(Uncounted) - 1
           /\ (\A r \in Request : ~CreateProxyBid(r)) =>
                Cardinality(Uncounted') <= Cardinality(Uncounted)
<1>1. TypeOK /\ req \in [Request -> Call] /\ Idle.pc = "idle"
  BY IdleType DEF IInv, TypeOK
<1>2. ASSUME NEW S, IsFiniteSet(S), Uncounted' \subseteq S
      PROVE  /\ IsFiniteSet(Uncounted') /\ Cardinality(Uncounted') \in Nat
             /\ Cardinality(Uncounted') <= Cardinality(S)
  BY <1>2, FS_Subset, FS_CardinalityType
<1>3. Cardinality(Uncounted) \in Nat
  BY FS_CardinalityType
<1>4. ASSUME NEW r \in Request, CreateProxyBid(r)
      PROVE  /\ IsFiniteSet(Uncounted') /\ Cardinality(Uncounted') \in Nat
             /\ Cardinality(Uncounted') <= Cardinality(Uncounted) + 1
  <2>1. Uncounted' \subseteq Uncounted \cup {r}
    BY <1>1, <1>4 DEF CreateProxyBid, Uncounted
  <2>2. /\ IsFiniteSet(Uncounted \cup {r})
        /\ Cardinality(Uncounted \cup {r}) \in {Cardinality(Uncounted), Cardinality(Uncounted) + 1}
    BY FS_AddElement
  <2>3. QED
    BY <1>2, <1>3, <2>1, <2>2
<1>5. ASSUME NEW r \in Request, SetProxyPrice(r)
      PROVE  Cardinality(Uncounted') <= Cardinality(Uncounted) - 1
  <2>1. Uncounted' \subseteq Uncounted \ {r} /\ r \in Uncounted
    BY <1>1, <1>5 DEF SetProxyPrice, Uncounted
  <2>2. /\ IsFiniteSet(Uncounted \ {r})
        /\ Cardinality(Uncounted \ {r}) = Cardinality(Uncounted) - 1
    BY <2>1, FS_RemoveElement
  <2>3. QED
    BY <1>2, <2>1, <2>2
<1>6. ASSUME \A r \in Request : ~CreateProxyBid(r)
      PROVE  /\ IsFiniteSet(Uncounted') /\ Cardinality(Uncounted') \in Nat
             /\ Cardinality(Uncounted') <= Cardinality(Uncounted)
  <2>1. Uncounted' \subseteq Uncounted
    BY <1>1, <1>6, HowItGotThere DEF Uncounted
  <2>2. QED
    BY <1>2, <2>1
<1>7. QED
  BY <1>3, <1>4, <1>5, <1>6

\* No step of the bid service claims more than it puts on the book.
LEMMA CountStep ==
    ASSUME IInv, [Next]_vars, IsFiniteSet(Uncounted)
    PROVE  /\ IsFiniteSet(Uncounted')
           /\ Cardinality(Uncounted) \in Nat /\ Cardinality(Uncounted') \in Nat
           /\ Cardinality(Counted) \in Nat /\ Cardinality(Counted') \in Nat
           /\ auction'.bidCount + Cardinality(Uncounted') - Cardinality(Counted')
                <= auction.bidCount + Cardinality(Uncounted) - Cardinality(Counted)
<1> DEFINE w == Cardinality(Uncounted)
           v == Cardinality(Uncounted')
           c == Cardinality(Counted)
           d == Cardinality(Counted')
           n == auction.bidCount
           m == auction'.bidCount
<1>1. /\ TypeOK /\ TypeOK' /\ IInv' /\ auction \in Auction
      /\ IsFiniteSet(Uncounted') /\ w \in Nat /\ v \in Nat /\ c \in Nat /\ n \in Int /\ m \in Int
  BY NextIInv, WaitingAfter, CountedFinite, AuctionTypes DEF IInv, TypeOK, Auction
<1>2. d \in Nat
  <2>1. bids' \in Seq(Bid)
    BY <1>1 DEF TypeOK
  <2>2. Counted' \in SUBSET (1..Len(bids')) /\ IsFiniteSet(1..Len(bids'))
    BY <2>1, FS_Interval DEF Counted
  <2>3. QED
    BY <2>2, FS_Subset, FS_CardinalityType
<1>3. ASSUME NEW r \in Request, CommitBid(r) \/ CommitAnswer(r)
      PROVE  m = n + 1 /\ d = c + 1 /\ v <= w
  <2>1. m = n + 1
    BY <1>1, <1>3 DEF CommitBid, CommitAnswer, Auction
  <2>2. \A p \in Request : CreateProxyBid(p) => m = n
    BY DEF CreateProxyBid
  <2>3. QED
    BY <1>1, <1>3, <2>1, <2>2, InsertCounts, WaitingAfter
<1>4. ASSUME NEW r \in Request, CreateProxyBid(r)
      PROVE  m = n /\ d = c + 1 /\ v <= w + 1
  BY <1>1, <1>4, InsertCounts, WaitingAfter DEF CreateProxyBid
<1>5. ASSUME NEW r \in Request, SetProxyPrice(r)
      PROVE  m = n + 1 /\ d = c /\ v <= w - 1
  <2>1. m = n + 1 /\ d = c
    BY <1>1, <1>5 DEF SetProxyPrice, Auction, Counted
  <2>2. QED
    BY <1>5, <2>1, WaitingAfter
<1>6. ASSUME NEW r \in Request, CommitRetract(r), \A p \in Request : ~CreateProxyBid(p)
      PROVE  m = n - 1 /\ c - 1 <= d /\ v <= w
  <2>1. m = n - 1
    BY <1>1, <1>6 DEF CommitRetract, AuctionAfterRetract, Auction
  <2>2. QED
    BY <1>1, <1>6, <2>1, UpdateCounts, WaitingAfter
<1>7. ASSUME \A p \in Request : /\ ~CommitBid(p) /\ ~CommitAnswer(p) /\ ~CreateProxyBid(p)
                                /\ ~SetProxyPrice(p) /\ ~CommitRetract(p)
      PROVE  m = n /\ c <= d /\ v <= w
  <2>1. m = n
    <3>1. ASSUME NEW r \in Request, MarkReserveMet(r) PROVE m = n
      BY <1>1, <3>1 DEF MarkReserveMet, Auction
    <3>2. QED
      BY <1>7, <3>1, AuctionChange
  <2>2. c <= d
    <3>1. CASE bids' = bids
      BY <1>1, <3>1 DEF Counted
    <3>2. ASSUME NEW r \in Request, ReplaceExistingProxy(r) \/ ClearOutbid(r) \/ CancelProxy(r)
          PROVE  c <= d
      BY <1>1, <3>2, UpdateCounts
    <3>3. \A r \in Request : \A b : ~Inserts(r, b)
      BY <1>7 DEF Inserts
    <3>4. QED
      BY <1>7, <3>1, <3>2, <3>3, RowsChange
  <2>3. QED
    BY <1>7, <2>1, <2>2, WaitingAfter
<1> HIDE DEF w, v, c, d, n, m
<1>8. m + v - d <= n + w - c
  BY <1>1, <1>2, <1>3, <1>4, <1>5, <1>6, <1>7
<1>9. QED
  BY <1>1, <1>2, <1>8 DEF w, v, c, d, n, m

LEMMA InitCount == Init => CountSound
<1> SUFFICES ASSUME Init PROVE CountSound
  OBVIOUS
<1>1. Uncounted = {} /\ Counted = {} /\ auction.bidCount = 0
  BY IdleType DEF Init, Uncounted, Counted
<1>2. QED
  BY <1>1, FS_EmptySet DEF CountSound
---------------------------------------------------------------------------
(***************************************************************************)
(* One call at a time.  With a single slot in Request nothing that a call  *)
(* has read is stale, and the endpoints keep the row of the auction in     *)
(* step with the book.  OneCall is an assumption of each theorem.          *)
(***************************************************************************)
OneCall == \A p, r \in Request : p = r

\* The end date that placeBid read is still the end date.
EndKnown == \A r \in Request : req[r].pc \in {"validate", "commit"} => req[r].end = EffectiveEnd

LEMMA EndKnownStep ==
    ASSUME OneCall, IInv, EndKnown, [Next]_vars
    PROVE  EndKnown'
<1> SUFFICES ASSUME NEW p \in Request, req'[p].pc \in {"validate", "commit"}
             PROVE  req'[p].end = EffectiveEnd'
  BY DEF EndKnown
<1>1. TypeOK /\ req \in [Request -> Call] /\ Idle.pc = "idle"
  BY IdleType DEF IInv, TypeOK
<1>2. auction' = auction
  <2>1. ASSUME \/ CommitBid(p) \/ MarkReserveMet(p) \/ CommitAnswer(p)
               \/ SetProxyPrice(p) \/ CommitRetract(p)
        PROVE  FALSE
    BY <1>1, <2>1, PcAfter
  <2>2. QED
    BY <2>1, AuctionChange DEF OneCall
<1>3. EffectiveEnd' = EffectiveEnd
  BY <1>2 DEF EffectiveEnd
<1>4. QED
  BY <1>3, EndReadWhere DEF EndKnown

LEMMA EndMovesLater ==
    ASSUME OneCall, IInv, EndKnown, [Next]_vars, auction'.actualEnd # auction.actualEnd
    PROVE  auction'.actualEnd >= EffectiveEnd
<1>1. TypeOK /\ auction \in Auction /\ EndDate \in Nat /\ AntiSnipeExtension \in Nat
  BY BiddingAssumption DEF IInv, TypeOK
<1>2. ASSUME NEW r \in Request,
             \/ MarkReserveMet(r) \/ CommitAnswer(r) \/ SetProxyPrice(r) \/ CommitRetract(r)
      PROVE  FALSE
  BY <1>1, <1>2 DEF MarkReserveMet, CommitAnswer, SetProxyPrice, CommitRetract,
                    AuctionAfterRetract, Auction
<1>3. PICK r \in Request : CommitBid(r)
  BY <1>2, AuctionChange
<1>4. auction'.actualEnd = req[r].end + AntiSnipeExtension
  BY <1>1, <1>3 DEF CommitBid, ExtendedEnd, Auction
<1>5. req[r].end = EffectiveEnd
  BY <1>3 DEF CommitBid, EndKnown
<1>6. EffectiveEnd \in Nat
  BY <1>1 DEF EffectiveEnd, Auction
<1>7. QED
  BY <1>1, <1>4, <1>5, <1>6

(***************************************************************************)
(* The count.                                                              *)
(***************************************************************************)
\* The bid that a call is about to retract still stands.
StillStands(q) ==
    q.pc \in {"setRetract", "cancel", "retract", "retractCommit"} => ~bids[q.bid].retracted

Counting == IF \E r \in Request : req[r].pc = "setPrice" THEN 1 ELSE 0

CountKnown ==
    /\ \A i \in 1..Len(bids) : ~bids[i].retracted => bids[i].reason = "none"
    /\ \A r \in Request : StillStands(req[r])
    /\ auction.bidCount + Counting = Cardinality(Counted)

\* The steps that write a row that exists, and what they write to it.
Retracts(r, i, v) ==
    \/ CommitRetract(r) /\ i = req[r].bid /\ v = "user"
    \/ ReplaceExistingProxy(r) /\ i = req[r].bid /\ v = "replaced"
    \/ CancelProxy(r) /\ i = req[r].bid /\ v = "cancelled"

LEMMA RetractsRow ==
    ASSUME IInv, NEW r \in Request, NEW i, NEW v, Retracts(r, i, v)
    PROVE  /\ i \in 1..Len(bids) /\ Len(bids') = Len(bids)
           /\ bids'[i].retracted /\ bids'[i].reason = v
           /\ \A k \in 1..Len(bids) : k # i =>
                bids'[k].reason = bids[k].reason /\ bids'[k].retracted = bids[k].retracted
<1>1. /\ TypeOK /\ bids \in Seq(Bid) /\ DOMAIN bids = 1..Len(bids)
      /\ RefOK(req[r]) /\ \A k \in 1..Len(bids) : bids[k] \in Bid
  BY ActiveInDomain DEF IInv, TypeOK, RefsOK
<1>2. ASSUME NEW j \in 1..Len(bids), NEW w \in Reason,
             bids' = [bids EXCEPT ![j].retracted = TRUE, ![j].reason = w]
      PROVE  /\ Len(bids') = Len(bids) /\ bids'[j].retracted /\ bids'[j].reason = w
             /\ \A k \in 1..Len(bids) : k # j => bids'[k] = bids[k]
  BY <1>1, <1>2, RetractedRow DEF Bid
<1>3. CASE ReplaceExistingProxy(r) /\ i = req[r].bid /\ v = "replaced"
  BY <1>1, <1>2, <1>3 DEF ReplaceExistingProxy, RefOK, Reason
<1>4. CASE CancelProxy(r) /\ i = req[r].bid /\ v = "cancelled"
  BY <1>1, <1>2, <1>4 DEF CancelProxy, RefOK, Reason
<1>5. CASE CommitRetract(r) /\ i = req[r].bid /\ v = "user"
  <2>1. i \in 1..Len(bids) /\ bids' = RowsAfterRetract(i, req[r].next)
    BY <1>1, <1>5 DEF CommitRetract, RefOK
  <2>2. Len(bids') = Len(bids)
    BY <1>1, <2>1, RowsAfterRetractType
  <2>3. bids'[i].retracted /\ bids'[i].reason = v
    BY <1>1, <1>5, <2>1 DEF RowsAfterRetract, Bid
  <2>4. \A k \in 1..Len(bids) : k # i =>
          bids'[k].reason = bids[k].reason /\ bids'[k].retracted = bids[k].retracted
    BY <1>1, <2>1 DEF RowsAfterRetract, Bid
  <2>5. QED
    BY <2>1, <2>2, <2>3, <2>4
<1>6. QED
  BY <1>3, <1>4, <1>5 DEF Retracts

\* Without crashes and deadlocks a proxy that is on the book gets counted.
LEMMA LeavesSetPrice ==
    ASSUME IInv, ~Crashes, [Next]_vars, NEW p \in Request,
           req[p].pc = "setPrice", req'[p].pc # "setPrice"
    PROVE  SetProxyPrice(p)
<1>1. TypeOK /\ req \in [Request -> Call]
  BY DEF IInv, TypeOK
<1>2. Begin(p) \/ Continue(p) \/ TurnAway(p) \/ Crash(p)
  BY <1>1, OwnSlot DEF Next, Tick, vars
<1>3. ~(Begin(p) \/ TurnAway(p) \/ Crash(p))
  BY DEF Begin, BeginPlaceBid, BeginSetProxy, BeginCancelProxy, BeginRetract, TurnAway, Crash
<1>4. ~AbortDeadlock(p)
  BY DEF AbortDeadlock, Deadlocked, WaitsFor
<1>5. QED
  BY <1>2, <1>3, <1>4 DEF Continue, ValidateBid, CommitBid, MarkReserveMet, FindProxies,
     ClearForAnswer, CommitAnswer, FindExistingProxy, ReplaceExistingProxy,
     FindHighestForProxy, ClearOutbid, CreateProxyBid, CancelProxy, PickNewHighest,
     CommitRetract

\* What one step does to the number of the rows that count.
LEMMA ExactlyCounted ==
    ASSUME IInv, CountKnown, [Next]_vars, NEW r \in Request
    PROVE  /\ CommitBid(r) \/ CommitAnswer(r) \/ CreateProxyBid(r) =>
                Cardinality(Counted') = Cardinality(Counted) + 1
           /\ CommitRetract(r) => Cardinality(Counted') = Cardinality(Counted) - 1
           /\ ReplaceExistingProxy(r) \/ CancelProxy(r) \/ ClearOutbid(r) => Counted' = Counted
<1>1. /\ IInv' /\ TypeOK /\ TypeOK' /\ DOMAIN bids = 1..Len(bids) /\ DOMAIN bids' = 1..Len(bids')
      /\ Counted \subseteq 1..Len(bids) /\ IsFiniteSet(Counted)
  BY RowsAfter, CountedFinite DEF IInv, Counted
<1>2. ASSUME NEW i, NEW v, Retracts(r, i, v)
      PROVE  /\ i \in Counted
             /\ v = "user" => Counted' = Counted \ {i}
             /\ v # "user" => Counted' = Counted
  <2>1. i \in 1..Len(bids) /\ i = req[r].bid
    BY <1>2, RetractsRow DEF Retracts
  <2>2. bids[i].reason = "none"
    BY <1>2, <2>1 DEF CountKnown, StillStands, Retracts, CommitRetract,
       ReplaceExistingProxy, CancelProxy
  <2>3. /\ Len(bids') = Len(bids) /\ bids'[i].reason = v
        /\ \A k \in 1..Len(bids) : k # i => bids'[k].reason = bids[k].reason
    BY <1>2, RetractsRow
  <2>4. QED
    BY <1>1, <2>1, <2>2, <2>3 DEF Counted
<1>3. CommitRetract(r) => Cardinality(Counted') = Cardinality(Counted) - 1
  <2> SUFFICES ASSUME CommitRetract(r)
               PROVE  Cardinality(Counted') = Cardinality(Counted) - 1
    OBVIOUS
  <2>1. Retracts(r, req[r].bid, "user")
    BY DEF Retracts
  <2>2. QED
    BY <1>1, <1>2, <2>1, FS_RemoveElement
<1>4. ReplaceExistingProxy(r) \/ CancelProxy(r) => Counted' = Counted
  BY <1>2 DEF Retracts
<1>5. ClearOutbid(r) => Counted' = Counted
  <2> SUFFICES ASSUME ClearOutbid(r) PROVE Counted' = Counted
    OBVIOUS
  <2>1. bids' = ClearWinning(req[r].clear) /\ Len(bids') = Len(bids)
    BY <1>1, ClearWinningType DEF ClearOutbid
  <2>2. QED
    BY <1>1, <2>1, ClearedReasons DEF Counted
<1>6. QED
  BY <1>1, <1>3, <1>4, <1>5, InsertCounts

LEMMA CountingStep ==
    ASSUME OneCall, ~Crashes, IInv, [Next]_vars
    PROVE  /\ Counting \in {0, 1} /\ Counting' \in {0, 1}
           /\ \A r \in Request : CreateProxyBid(r) => Counting = 0 /\ Counting' = 1
           /\ \A r \in Request : SetProxyPrice(r) => Counting = 1 /\ Counting' = 0
           /\ (\A r \in Request : ~CreateProxyBid(r) /\ ~SetProxyPrice(r))
                => Counting' = Counting
<1>1. TypeOK /\ req \in [Request -> Call] /\ Idle.pc = "idle"
  BY IdleType DEF IInv, TypeOK
<1>2. Counting \in {0, 1} /\ Counting' \in {0, 1}
  BY DEF Counting
<1>3. ASSUME NEW r \in Request, CreateProxyBid(r)
      PROVE  Counting = 0 /\ Counting' = 1
  <2>1. req[r].pc = "setCreate" /\ req'[r].pc = "setPrice"
    BY <1>1, <1>3, IdleType DEF CreateProxyBid, Call
  <2>2. QED
    BY <2>1 DEF OneCall, Counting
<1>4. ASSUME NEW r \in Request, SetProxyPrice(r)
      PROVE  Counting = 1 /\ Counting' = 0
  <2>1. req[r].pc = "setPrice" /\ req'[r].pc = "idle"
    BY <1>1, <1>4 DEF SetProxyPrice
  <2>2. QED
    BY <2>1 DEF OneCall, Counting
<1>5. ASSUME \A r \in Request : ~CreateProxyBid(r) /\ ~SetProxyPrice(r)
      PROVE  Counting' = Counting
  <2>1. \A r \in Request : req'[r].pc = "setPrice" <=> req[r].pc = "setPrice"
    BY <1>1, <1>5, HowItGotThere, LeavesSetPrice
  <2>2. QED
    BY <2>1 DEF Counting
<1>6. QED
  BY <1>2, <1>3, <1>4, <1>5

LEMMA CountEquals ==
    ASSUME OneCall, ~Crashes, IInv, CountKnown, [Next]_vars
    PROVE  auction'.bidCount + Counting' = Cardinality(Counted')
<1> DEFINE n == auction.bidCount
           m == auction'.bidCount
           c == Cardinality(Counted)
           d == Cardinality(Counted')
<1>1. /\ TypeOK /\ auction \in Auction /\ n \in Int /\ m \in Int /\ c \in Nat
      /\ Counting \in {0, 1} /\ Counting' \in {0, 1} /\ n + Counting = c
  BY NextIInv, CountedFinite, CountingStep DEF IInv, TypeOK, Auction, CountKnown
<1>2. ASSUME NEW r \in Request, CreateProxyBid(r)
      PROVE  m + Counting' = d
  <2>1. m = n /\ d = c + 1 /\ Counting = 0 /\ Counting' = 1
    BY <1>2, ExactlyCounted, CountingStep DEF CreateProxyBid
  <2>2. QED
    BY <1>1, <2>1
<1>3. ASSUME NEW r \in Request, SetProxyPrice(r)
      PROVE  m + Counting' = d
  <2>1. m = n + 1 /\ d = c
    BY <1>1, <1>3 DEF SetProxyPrice, Auction, Counted
  <2>2. QED
    BY <1>1, <1>3, <2>1, CountingStep
<1>4. ASSUME \A r \in Request : ~CreateProxyBid(r) /\ ~SetProxyPrice(r)
      PROVE  m + Counting' = d
  <2>1. Counting' = Counting
    BY <1>4, CountingStep
  <2>2. ASSUME NEW r \in Request, CommitBid(r) \/ CommitAnswer(r)
        PROVE  m = n + 1 /\ d = c + 1
    BY <1>1, <2>2, ExactlyCounted DEF CommitBid, CommitAnswer, Auction
  <2>3. ASSUME NEW r \in Request, CommitRetract(r)
        PROVE  m = n - 1 /\ d = c - 1
    BY <1>1, <2>3, ExactlyCounted DEF CommitRetract, AuctionAfterRetract, Auction
  <2>4. ASSUME \A r \in Request : ~CommitBid(r) /\ ~CommitAnswer(r) /\ ~CommitRetract(r)
        PROVE  m = n /\ d = c
    <3>1. m = n
      <4>1. ASSUME NEW r \in Request, MarkReserveMet(r) PROVE m = n
        BY <1>1, <4>1 DEF MarkReserveMet, Auction
      <4>2. QED
        BY <1>4, <2>4, <4>1, AuctionChange
    <3>2. Counted' = Counted
      <4>1. CASE bids' = bids
        BY <4>1 DEF Counted
      <4>2. \A r \in Request : \A b : ~Inserts(r, b)
        BY <1>4, <2>4 DEF Inserts
      <4>3. QED
        BY <2>4, <4>1, <4>2, ExactlyCounted, RowsChange
    <3>3. QED
      BY <3>1, <3>2
  <2>5. QED
    <3> HIDE DEF n, m, c, d
    <3> QED
      BY <1>1, <2>1, <2>2, <2>3, <2>4
<1>5. QED
  BY <1>2, <1>3, <1>4

\* A row that stands has its reason still none, and a call stands by its row.
LEMMA StandingStep ==
    ASSUME OneCall, IInv, CountKnown, [Next]_vars
    PROVE  /\ \A i \in 1..Len(bids') : ~bids'[i].retracted => bids'[i].reason = "none"
           /\ \A r \in Request : StillStands(req[r])'
<1>1. /\ IInv' /\ TypeOK /\ TypeOK' /\ req \in [Request -> Call] /\ Idle.pc = "idle"
      /\ DOMAIN bids = 1..Len(bids) /\ DOMAIN bids' = 1..Len(bids')
      /\ Len(bids) \in Nat /\ Len(bids') \in Nat
      /\ \A i \in 1..Len(bids) : bids[i] \in Bid
  BY RowsAfter, IdleType DEF IInv, TypeOK
<1>2. ASSUME NEW i \in 1..Len(bids), ~bids'[i].retracted
      PROVE  ~bids[i].retracted /\ bids'[i].reason = bids[i].reason
  <2>1. ~bids[i].retracted
    <3>1. Kept(bids[i], bids'[i])
      BY RowsAfter DEF RowsKept
    <3>2. QED
      BY <1>2, <3>1 DEF Kept
  <2>2. CASE bids' = bids
    BY <2>1, <2>2
  <2>3. ASSUME NEW r \in Request, NEW j, NEW v, Retracts(r, j, v)
        PROVE  bids'[i].reason = bids[i].reason
    BY <1>2, <2>3, RetractsRow
  <2>4. ASSUME NEW S, NEW b, \/ bids' = ClearWinning(S)
                             \/ bids' = Append(ClearWinning(S), b)
                             \/ bids' = Append(bids, b)
        PROVE  bids'[i].reason = bids[i].reason
    <3>1. ClearWinning(S) \in Seq(Bid) /\ Len(ClearWinning(S)) = Len(bids) /\ bids \in Seq(Bid)
      BY <1>1, ClearWinningType DEF TypeOK
    <3>2. CASE bids' = ClearWinning(S)
      BY <1>1, <3>2, ClearedReasons
    <3>3. CASE bids' = Append(ClearWinning(S), b)
      <4>1. bids'[i] = ClearWinning(S)[i]
        BY <1>1, <3>1, <3>3
      <4>2. QED
        BY <1>1, <4>1, ClearedReasons
    <3>4. CASE bids' = Append(bids, b)
      BY <1>1, <3>1, <3>4
    <3>5. QED
      BY <2>4, <3>2, <3>3, <3>4
  <2>5. ASSUME NEW r \in Request, ReplaceExistingProxy(r) \/ CancelProxy(r) \/ CommitRetract(r)
        PROVE  bids'[i].reason = bids[i].reason
    BY <2>3, <2>5 DEF Retracts
  <2>6. ASSUME NEW r \in Request, ClearOutbid(r)
        PROVE  bids'[i].reason = bids[i].reason
    BY <2>4, <2>6 DEF ClearOutbid
  <2>7. ASSUME NEW r \in Request, NEW b, Inserts(r, b)
        PROVE  bids'[i].reason = bids[i].reason
    BY <2>4, <2>7 DEF Inserts, CommitBid, CommitAnswer, CreateProxyBid
  <2>8. QED
    BY <2>1, <2>2, <2>5, <2>6, <2>7, RowsChange
<1>3. ASSUME NEW i \in 1..Len(bids'), ~bids'[i].retracted
      PROVE  bids'[i].reason = "none"
  <2>1. CASE i <= Len(bids)
    BY <1>1, <1>2, <1>3, <2>1 DEF CountKnown
  <2>2. ASSUME NEW r \in Request, Inserts(r, bids'[i])
        PROVE  bids'[i].reason = "none"
    BY <2>2 DEF Inserts, NewBid
  <2>3. QED
    BY <2>1, <2>2, RowsAfter
<1>4. ASSUME NEW p \in Request, req'[p].pc \in {"setRetract", "cancel", "retract", "retractCommit"}
      PROVE  bids' = bids /\ ~bids[req'[p].bid].retracted
  <2>1. bids' = bids
    <3>1. \A r \in Request : \A b : ~Inserts(r, b)
      BY <1>1, <1>4, PcAfter DEF OneCall, Inserts
    <3>2. \A r \in Request : /\ ~ReplaceExistingProxy(r) /\ ~ClearOutbid(r)
                             /\ ~CancelProxy(r) /\ ~CommitRetract(r)
      BY <1>1, <1>4, PcAfter DEF OneCall
    <3>3. QED
      BY <3>1, <3>2, RowsChange
  <2>2. CASE req'[p] = req[p]
    BY <1>4, <2>1, <2>2 DEF CountKnown, StillStands
  <2>3. CASE req'[p] # req[p]
    <3>1. Begin(p) \/ FindExistingProxy(p) \/ PickNewHighest(p)
      <4>1. Begin(p) \/ Continue(p) \/ TurnAway(p) \/ Crash(p)
        BY <1>1, <2>3, OwnSlot DEF Next, Tick, vars
      <4>2. QED
        BY <1>1, <1>4, <4>1, PcAfter DEF Continue
    <3>2. ASSUME NEW u, NEW P, P = LatestProxy(u), NEW i \in P, req'[p].bid = i
          PROVE  ~bids[req'[p].bid].retracted
      BY <3>2 DEF LatestProxy, Active
    <3>3. ASSUME FindExistingProxy(p)
          PROVE  ~bids[req'[p].bid].retracted
      <4>1. \E i \in LatestProxy(req[p].user) : req'[p].bid = i
        BY <1>1, <1>4, <3>3 DEF FindExistingProxy, Call
      <4>2. QED
        BY <3>2, <4>1
    <3>4. ASSUME PickNewHighest(p)
          PROVE  ~bids[req'[p].bid].retracted
      BY <1>1, <3>4 DEF PickNewHighest, CountKnown, StillStands, Call
    <3>5. ASSUME NEW u, BeginCancelProxy(p, u)
          PROVE  ~bids[req'[p].bid].retracted
      <4>1. \E i \in LatestProxy(u) : req'[p].bid = i
        BY <1>1, <3>5, IdleType DEF BeginCancelProxy, Call
      <4>2. QED
        BY <3>2, <4>1
    <3>6. ASSUME NEW i, BeginRetract(p, i)
          PROVE  ~bids[req'[p].bid].retracted
      BY <1>1, <3>6, IdleType DEF BeginRetract, Call
    <3>7. ASSUME NEW u, NEW a, NEW t, NEW m, BeginPlaceBid(p, u, a, t, m)
          PROVE  req'[p].pc = "validate"
      BY <1>1, <3>7, IdleType DEF BeginPlaceBid, Call
    <3>8. ASSUME NEW u, NEW m, BeginSetProxy(p, u, m)
          PROVE  req'[p].pc = "setFind"
      BY <1>1, <3>8, IdleType DEF BeginSetProxy, Call
    <3>9. QED
      BY <1>4, <2>1, <3>1, <3>3, <3>4, <3>5, <3>6, <3>7, <3>8 DEF Begin
  <2>4. QED
    BY <2>1, <2>2, <2>3
<1>5. \A r \in Request : StillStands(req[r])'
  BY <1>4 DEF StillStands
<1>6. QED
  BY <1>3, <1>5

LEMMA CountKnownStep ==
    ASSUME OneCall, ~Crashes, IInv, CountKnown, [Next]_vars
    PROVE  CountKnown'
<1>1. (\A r \in Request : StillStands(req[r]))'
  BY StandingStep
<1>2. QED
  BY <1>1, StandingStep, CountEquals DEF CountKnown

(***************************************************************************)
(* The price.                                                              *)
(***************************************************************************)
\* No bid that stands is above x.
Covers(x) == \A i \in Active : bids[i].amount <= x

PriceKnown(q) ==
    /\ q.pc \in {"commit", "reserve", "respond", "answer", "answerCommit",
                 "setClear", "setCreate", "setPrice"} => Covers(q.amount)
    /\ q.pc \in {"setFind", "setRetract", "setHighest"} => Covers(q.max)
    /\ q.pc = "retractCommit" =>
         \A i \in Active \ {q.bid} : q.next # 0 /\ bids[i].amount <= bids[q.next].amount

SerialPrice ==
    /\ (\A r \in Request : req[r].pc # "setPrice") => Covers(auction.currentPrice)
    /\ \A r \in Request : PriceKnown(req[r])

LEMMA FirstCovers ==
    ASSUME TypeOK, NEW S \in SUBSET (1..Len(bids)), NEW h \in FirstByAmount(S)
    PROVE  \A i \in S : h # 0 /\ h \in S /\ bids[i].amount <= bids[h].amount
BY ActiveInDomain DEF FirstByAmount

\* What covered the book covers it still, unless more is bid.
LEMMA CoversStep ==
    ASSUME IInv, [Next]_vars, NEW x, Covers(x),
           \A r \in Request : \A b : Inserts(r, b) => req[r].amount <= x
    PROVE  \A i \in DOMAIN bids' : ~bids'[i].retracted => bids'[i].amount <= x
<1> SUFFICES ASSUME NEW i \in 1..Len(bids'), ~bids'[i].retracted
             PROVE  bids'[i].amount <= x
  BY RowsAfter
<1>1. CASE i <= Len(bids)
  <2>1. i \in 1..Len(bids) /\ DOMAIN bids = 1..Len(bids)
    BY <1>1, RowsAfter
  <2>2. Kept(bids[i], bids'[i])
    BY <2>1, RowsAfter DEF RowsKept
  <2>3. i \in Active /\ bids'[i].amount = bids[i].amount
    BY <2>1, <2>2 DEF Kept, Active
  <2>4. QED
    BY <2>3 DEF Covers
<1>2. ASSUME NEW r \in Request, Inserts(r, bids'[i])
      PROVE  bids'[i].amount <= x
  BY <1>2, Inserted
<1>3. QED
  BY <1>1, <1>2, RowsAfter

\* What covers the book when a call inserts is what it inserts.
LEMMA InsertCovers ==
    ASSUME OneCall, IInv, SerialPrice, [Next]_vars, NEW r \in Request,
           req[r].pc \in {"commit", "reserve", "respond", "answer", "answerCommit",
                          "setClear", "setCreate", "setPrice"}
    PROVE  \A i \in DOMAIN bids' : ~bids'[i].retracted => bids'[i].amount <= req[r].amount
<1>1. Covers(req[r].amount) /\ req[r].amount \in Nat
  BY CallTypes DEF SerialPrice, PriceKnown, IInv, TypeOK
<1>2. \A p \in Request : \A b : Inserts(p, b) => req[p].amount <= req[r].amount
  BY <1>1 DEF OneCall
<1>3. QED
  BY <1>1, <1>2, CoversStep

\* The calls that insert a row, and where it leaves them.
LEMMA InsertMoves ==
    ASSUME IInv, NEW r \in Request, NEW b, Inserts(r, b)
    PROVE  /\ req[r].pc \in {"commit", "answerCommit", "setCreate"}
           /\ req'[r].pc \in {"reserve", "respond", "idle", "setPrice"}
           /\ CreateProxyBid(r) => req'[r].pc = "setPrice"
<1>1. req \in [Request -> Call] /\ Idle.pc = "idle" /\ Idle \in Call
  BY IdleType DEF IInv, TypeOK
<1>2. CommitBid(r) => req'[r].pc \in {"reserve", "respond"}
  BY <1>1 DEF CommitBid, Call
<1>3. CommitAnswer(r) => req'[r].pc = "idle"
  BY <1>1 DEF CommitAnswer
<1>4. CreateProxyBid(r) => req'[r].pc = "setPrice"
  BY <1>1 DEF CreateProxyBid, Call
<1>5. QED
  BY <1>2, <1>3, <1>4 DEF Inserts, CommitBid, CommitAnswer, CreateProxyBid

LEMMA DisplayedPriceStep ==
    ASSUME OneCall, ~Crashes, IInv, SerialPrice, [Next]_vars,
           \A r \in Request : req'[r].pc # "setPrice"
    PROVE  \A i \in DOMAIN bids' : ~bids'[i].retracted => bids'[i].amount <= auction'.currentPrice
<1>1. TypeOK /\ auction \in Auction /\ req \in [Request -> Call]
  BY DEF IInv, TypeOK
<1>2. ASSUME NEW r \in Request, CommitBid(r) \/ CommitAnswer(r) \/ SetProxyPrice(r)
      PROVE  \A i \in DOMAIN bids' :
               ~bids'[i].retracted => bids'[i].amount <= auction'.currentPrice
  <2>1. /\ auction'.currentPrice = req[r].amount
        /\ req[r].pc \in {"commit", "answerCommit", "setPrice"}
    BY <1>1, <1>2 DEF CommitBid, CommitAnswer, SetProxyPrice, Auction
  <2>2. QED
    BY <2>1, InsertCovers
<1>3. ASSUME NEW r \in Request, CommitRetract(r)
      PROVE  \A i \in DOMAIN bids' :
               ~bids'[i].retracted => bids'[i].amount <= auction'.currentPrice
  <2> SUFFICES ASSUME NEW i \in 1..Len(bids'), ~bids'[i].retracted
               PROVE  bids'[i].amount <= auction'.currentPrice
    BY RowsAfter
  <2>1. Retracts(r, req[r].bid, "user")
    BY <1>3 DEF Retracts
  <2>2. i \in 1..Len(bids) /\ i # req[r].bid
    BY <2>1, RetractsRow
  <2>3. Kept(bids[i], bids'[i]) /\ DOMAIN bids = 1..Len(bids)
    BY <2>2, RowsAfter DEF RowsKept
  <2>4. i \in Active \ {req[r].bid} /\ bids'[i].amount = bids[i].amount
    BY <2>2, <2>3 DEF Kept, Active
  <2>5. req[r].next # 0 /\ bids[i].amount <= bids[req[r].next].amount
    BY <1>3, <2>4 DEF SerialPrice, PriceKnown, CommitRetract
  <2>6. auction'.currentPrice = bids[req[r].next].amount
    BY <1>1, <1>3, <2>5 DEF CommitRetract, AuctionAfterRetract, Auction
  <2>7. QED
    BY <2>4, <2>5, <2>6
<1>4. ASSUME \A r \in Request : ~CommitBid(r) /\ ~CommitAnswer(r) /\ ~SetProxyPrice(r)
                                /\ ~CommitRetract(r)
      PROVE  \A i \in DOMAIN bids' :
               ~bids'[i].retracted => bids'[i].amount <= auction'.currentPrice
  <2>1. auction'.currentPrice = auction.currentPrice
    <3>1. ASSUME NEW r \in Request, MarkReserveMet(r)
          PROVE  auction'.currentPrice = auction.currentPrice
      BY <1>1, <3>1 DEF MarkReserveMet, Auction
    <3>2. QED
      BY <1>4, <3>1, AuctionChange
  <2>2. \A r \in Request : req[r].pc # "setPrice"
    BY <1>4, LeavesSetPrice
  <2>3. Covers(auction.currentPrice)
    BY <2>2 DEF SerialPrice
  <2>4. \A r \in Request : \A b : ~Inserts(r, b)
    BY <1>4, InsertMoves DEF Inserts
  <2>5. QED
    BY <2>1, <2>3, <2>4, CoversStep
<1>5. QED
  BY <1>2, <1>3, <1>4

\* A call that has begun to set a proxy offers more than the price.
LEMMA BeginCovers ==
    ASSUME OneCall, IInv, SerialPrice, NEW p \in Request, Begin(p)
    PROVE  /\ req'[p].pc \in {"validate", "setFind", "cancel", "retract"}
           /\ req'[p].pc = "setFind" => Covers(req'[p].max)
<1>1. /\ TypeOK /\ req \in [Request -> Call] /\ Idle \in Call /\ auction.currentPrice \in Nat
      /\ \A i \in Active : bids[i].amount \in Nat
  BY IdleType, AuctionTypes, ActiveInDomain DEF IInv, TypeOK, Bid
<1>2. ASSUME NEW u, NEW m \in Offer, BeginSetProxy(p, u, m)
      PROVE  req'[p].pc = "setFind" /\ Covers(req'[p].max)
  <2>1. req'[p].pc = "setFind" /\ req'[p].max = m /\ m > auction.currentPrice
    BY <1>1, <1>2 DEF BeginSetProxy, Call
  <2>2. Covers(auction.currentPrice)
    BY <1>2 DEF SerialPrice, OneCall, BeginSetProxy
  <2>3. m \in Nat
    BY BiddingAssumption
  <2>4. QED
    BY <1>1, <2>1, <2>2, <2>3 DEF Covers
<1>3. ASSUME NEW u, NEW a, NEW t, NEW m, BeginPlaceBid(p, u, a, t, m)
      PROVE  req'[p].pc = "validate"
  BY <1>1, <1>3 DEF BeginPlaceBid, Call
<1>4. ASSUME NEW u, BeginCancelProxy(p, u) PROVE req'[p].pc = "cancel"
  BY <1>1, <1>4 DEF BeginCancelProxy, Call
<1>5. ASSUME NEW i, BeginRetract(p, i) PROVE req'[p].pc = "retract"
  BY <1>1, <1>5 DEF BeginRetract, Call
<1>6. QED
  BY <1>2, <1>3, <1>4, <1>5 DEF Begin

\* The amounts that a call computes cover the book it read.
LEMMA ValidateCovers ==
    ASSUME Ascending, IInv, NEW p \in Request, ValidateBid(p), req'[p].pc = "commit"
    PROVE  Covers(req'[p].amount)
<1> DEFINE q == req[p]
<1>1. /\ TypeOK /\ req \in [Request -> Call] /\ q \in Call /\ q.amount \in Nat
      /\ Idle.pc = "idle" /\ Active \subseteq 1..Len(bids)
      /\ \A i \in Active : bids[i].amount \in Nat
  BY IdleType, CallTypes, ActiveInDomain DEF IInv, TypeOK, Bid
<1>2. PICK h \in FirstByAmount(Active) :
        \E inc \in Increments(IF h = 0 THEN StartPrice ELSE bids[h].amount) :
          req' = [req EXCEPT ![p] =
                    IF Acceptable(q, h, inc)
                    THEN [q EXCEPT !.pc = "commit", !.seen = Len(bids),
                                  !.clear = IF h # 0 /\ bids[h].winning THEN {h} ELSE {}]
                   ELSE Refused(q)]
  BY DEF ValidateBid
<1>3. PICK inc \in Increments(IF h = 0 THEN StartPrice ELSE bids[h].amount) :
        Acceptable(q, h, inc) /\ req'[p].amount = q.amount
  BY <1>1, <1>2 DEF Refused, Call
<1>4. ASSUME NEW i \in Active
      PROVE  bids[i].amount <= q.amount
  <2>1. h # 0 /\ h \in Active /\ bids[i].amount <= bids[h].amount
    BY <1>1, FirstCovers
  <2>2. bids[h].amount \in Nat /\ inc \in Nat
    BY <1>1, <2>1, IncrementsPositive
  <2>3. q.amount >= bids[h].amount + inc
    BY <1>3, <2>1 DEF Acceptable
  <2>4. QED
    BY <1>1, <2>1, <2>2, <2>3
<1>5. QED
  BY <1>3, <1>4 DEF Covers

LEMMA AnswerCovers ==
    ASSUME IInv, SerialPrice, NEW p \in Request, FindProxies(p), req'[p].pc = "answer"
    PROVE  Covers(req'[p].amount)
<1> DEFINE q == req[p]
<1>1. /\ TypeOK /\ req \in [Request -> Call] /\ q \in Call /\ q.amount \in Nat
      /\ Idle.pc = "idle" /\ Idle \in Call /\ Active \subseteq 1..Len(bids)
      /\ \A i \in Active : bids[i] \in Bid
  BY IdleType, CallTypes, ActiveInDomain DEF IInv, TypeOK
<1>2. Covers(q.amount)
  BY DEF FindProxies, SerialPrice, PriceKnown
<1>3. PICK inc \in Increments(q.amount) :
         LET floor == q.amount + inc
             E == EligibleProxies(q.user, floor)
         IN  \/ E = {} /\ req' = [req EXCEPT ![p] = Idle]
             \/ \E i \in E : E = {i} /\ Answer(p, i, floor)
             \/ \E h \in E, s \in E : Answer(p, h, CompetingAmount(h, s, floor, inc))
  BY DEF FindProxies
<1>4. inc \in Nat \ {0} /\ q.amount + inc \in Nat
  BY <1>1, IncrementsPositive
<1>5. EligibleProxies(q.user, q.amount + inc) \subseteq Active
  BY DEF EligibleProxies
<1>6. ASSUME NEW a \in Nat, q.amount <= a, NEW i, Answer(p, i, a)
      PROVE  Covers(req'[p].amount)
  <2>1. req'[p].amount = a
    BY <1>1, <1>6 DEF Answer, Call
  <2>2. \A j \in Active : bids[j].amount \in Nat
    BY <1>1 DEF Bid
  <2>3. QED
    BY <1>1, <1>2, <1>6, <2>1, <2>2 DEF Covers
<1>7. ASSUME NEW h \in Active, NEW s \in Active
      PROVE  /\ CompetingAmount(h, s, q.amount + inc, inc) \in Nat
             /\ q.amount <= CompetingAmount(h, s, q.amount + inc, inc)
  <2>1. bids[h].max \in Nat /\ bids[s].max \in Nat
    BY <1>1 DEF Bid
  <2>2. Smaller(bids[s].max + inc, bids[h].max) \in Nat
    BY <1>4, <2>1 DEF Smaller
  <2>3. \A y, f \in Nat : Larger(y, f) \in Nat /\ f <= Larger(y, f)
    BY DEF Larger
  <2>4. \A f, y \in Nat : f <= y /\ q.amount <= f => q.amount <= y
    BY <1>1
  <2>5. q.amount <= q.amount + inc
    BY <1>1, <1>4
  <2>6. QED
    BY <1>4, <2>1, <2>2, <2>3, <2>4, <2>5 DEF CompetingAmount
<1>8. q.amount <= q.amount + inc
  BY <1>1, <1>4
<1>9. CASE req' = [req EXCEPT ![p] = Idle]
  BY <1>1, <1>9
<1>10. QED
  BY <1>3, <1>4, <1>5, <1>6, <1>7, <1>8, <1>9

LEMMA ProxyAmountCovers ==
    ASSUME IInv, SerialPrice, NEW p \in Request, FindHighestForProxy(p)
    PROVE  Covers(req'[p].amount)
<1> DEFINE q == req[p]
<1>1. /\ TypeOK /\ req \in [Request -> Call] /\ q \in Call /\ q.max \in Nat /\ q.price \in Nat
      /\ Active \subseteq 1..Len(bids) /\ \A i \in Active : bids[i].amount \in Nat
  BY CallTypes, ActiveInDomain DEF IInv, TypeOK, Bid
<1>2. Covers(q.max)
  BY DEF FindHighestForProxy, SerialPrice, PriceKnown
<1>3. PICK h \in FirstByAmount(Active), inc \in Increments(q.price) :
         req'[p].amount = InitialAmount(q, h, inc)
  BY <1>1 DEF FindHighestForProxy, Call
<1>4. inc \in Nat
  BY <1>1, IncrementsPositive
<1>5. ASSUME NEW i \in Active
      PROVE  bids[i].amount <= InitialAmount(q, h, inc)
  <2>1. h # 0 /\ h \in Active /\ bids[i].amount <= bids[h].amount
    BY <1>1, FirstCovers
  <2>2. bids[h].amount \in Nat /\ bids[i].amount \in Nat /\ bids[i].amount <= q.max
    BY <1>1, <1>2, <2>1 DEF Covers
  <2>3. QED
    BY <1>1, <1>4, <2>1, <2>2 DEF InitialAmount, Smaller
<1>6. QED
  BY <1>3, <1>5 DEF Covers

LEMMA PickCovers ==
    ASSUME IInv, NEW p \in Request, PickNewHighest(p)
    PROVE  /\ bids' = bids
           /\ \A i \in Active \ {req'[p].bid} :
                req'[p].next # 0 /\ bids[i].amount <= bids[req'[p].next].amount
<1>1. /\ TypeOK /\ req \in [Request -> Call] /\ req[p] \in Call
      /\ Active \ {req[p].bid} \in SUBSET (1..Len(bids))
  BY ActiveInDomain DEF IInv, TypeOK
<1>2. PICK h \in FirstByAmount(Active \ {req[p].bid}) :
        req' = [req EXCEPT ![p].pc = "retractCommit", ![p].next = h]
  BY DEF PickNewHighest
<1>3. req'[p].next = h /\ req'[p].bid = req[p].bid
  BY <1>1, <1>2 DEF Call
<1>4. \A i \in Active \ {req[p].bid} : h # 0 /\ bids[i].amount <= bids[h].amount
  BY <1>1, FirstCovers
<1>5. QED
  BY <1>3, <1>4 DEF PickNewHighest

LEMMA PriceKnownStep ==
    ASSUME OneCall, ~Crashes, Ascending, IInv, SerialPrice, [Next]_vars, NEW p \in Request
    PROVE  PriceKnown(req[p])'
<1> DEFINE Standing == {i \in DOMAIN bids' : ~bids'[i].retracted}
           q == req[p]
           s == req'[p]
           At == {"commit", "reserve", "respond", "answer", "answerCommit",
                  "setClear", "setCreate", "setPrice"}
           Setting == {"setFind", "setRetract", "setHighest"}
<1>1. TypeOK /\ req \in [Request -> Call] /\ q \in Call /\ Idle.pc = "idle" /\ Idle \in Call
  BY IdleType DEF IInv, TypeOK
<1> SUFFICES /\ s.pc \in At => \A i \in Standing : bids'[i].amount <= s.amount
             /\ s.pc \in Setting => \A i \in Standing : bids'[i].amount <= s.max
             /\ s.pc = "retractCommit" => \A i \in Standing \ {s.bid} :
                     s.next # 0 /\ bids'[i].amount <= bids'[s.next].amount
  BY DEF PriceKnown, Covers, Active
\* Where the book only grows by the call's own bid, the amount covers it still.
<1>2. ASSUME q.pc \in At, s.amount = q.amount
      PROVE  \A i \in Standing : bids'[i].amount <= s.amount
  BY <1>2, InsertCovers
<1>3. ASSUME NEW x, Covers(x), q.pc \notin {"commit", "answerCommit", "setCreate"}
      PROVE  \A i \in Standing : bids'[i].amount <= x
  <2>1. \A r \in Request : \A b : ~Inserts(r, b)
    BY <1>3, InsertMoves DEF OneCall
  <2>2. QED
    BY <1>3, <2>1, CoversStep
<1>4. CASE s = q
  <2>1. s.pc \in At => \A i \in Standing : bids'[i].amount <= s.amount
    BY <1>2, <1>4
  <2>2. s.pc \in Setting => \A i \in Standing : bids'[i].amount <= s.max
    BY <1>3, <1>4 DEF SerialPrice, PriceKnown
  <2>3. s.pc = "retractCommit" => bids' = bids
    <3> SUFFICES ASSUME s.pc = "retractCommit" PROVE bids' = bids
      OBVIOUS
    <3>1. \A r \in Request : \A b : ~Inserts(r, b)
      BY <1>4, InsertMoves DEF OneCall
    <3>2. \A r \in Request : ~ReplaceExistingProxy(r) /\ ~ClearOutbid(r) /\ ~CancelProxy(r)
      BY <1>4 DEF OneCall, ReplaceExistingProxy, ClearOutbid, CancelProxy
    <3>3. \A r \in Request : ~CommitRetract(r)
      BY <1>1, <1>4, PcAfter DEF OneCall
    <3>4. QED
      BY <3>1, <3>2, <3>3, RowsChange
  <2>4. s.pc = "retractCommit" => \A i \in Standing \ {s.bid} :
                     s.next # 0 /\ bids'[i].amount <= bids'[s.next].amount
    BY <1>4, <2>3 DEF SerialPrice, PriceKnown, Active
  <2>5. QED
    BY <2>1, <2>2, <2>4
<1>5. CASE s # q /\ s.pc = "idle"
  BY <1>5
<1>6. CASE s # q /\ s.pc # "idle"
  <2>0. Begin(p) \/ Continue(p)
    <3>1. Begin(p) \/ Continue(p) \/ TurnAway(p) \/ Crash(p)
      BY <1>1, <1>6, OwnSlot DEF Next, Tick, vars
    <3>2. QED
      BY <1>1, <1>6, <3>1, PcAfter
  <2>1. CASE Begin(p)
    <3>1. /\ s.pc \in {"validate", "setFind", "cancel", "retract"}
          /\ s.pc = "setFind" => Covers(s.max)
      BY <2>1, BeginCovers
    <3>2. q.pc = "idle"
      BY <2>1 DEF Begin, BeginPlaceBid, BeginSetProxy, BeginCancelProxy, BeginRetract
    <3>3. QED
      BY <1>3, <3>1, <3>2
  <2>2. CASE ValidateBid(p)
    <3>1. s.pc = "commit" /\ q.pc = "validate"
      BY <1>1, <1>6, <2>2, PcAfter DEF ValidateBid
    <3>2. Covers(s.amount)
      BY <2>2, <3>1, ValidateCovers
    <3>3. QED
      BY <1>3, <3>1, <3>2
  <2>3. CASE CommitBid(p) \/ CreateProxyBid(p)
    <3>1. s.pc \in {"reserve", "respond", "setPrice"} /\ q.pc \in {"commit", "setCreate"}
      BY <1>1, <1>6, <2>3, PcAfter DEF CommitBid, CreateProxyBid
    <3>2. s.amount = q.amount
      <4>1. CASE CommitBid(p)
        BY <4>1, IdleType, SMTT(60) DEF CommitBid, TypeOK, Call, IInv
      <4>2. CASE CreateProxyBid(p)
        BY <4>2, IdleType, SMTT(60) DEF CreateProxyBid, TypeOK, Call, IInv
      <4>3. QED
        BY <2>3, <4>1, <4>2
    <3>3. QED
      BY <1>2, <3>1, <3>2
  <2>4. CASE MarkReserveMet(p) \/ ClearForAnswer(p) \/ ClearOutbid(p)
    <3>1. s.pc \in {"respond", "answerCommit", "setCreate"}
          /\ q.pc \in {"reserve", "answer", "setClear"}
      BY <1>1, <1>6, <2>4, PcAfter DEF MarkReserveMet, ClearForAnswer, ClearOutbid
    <3>2. s.amount = q.amount
      BY <1>1, <2>4 DEF MarkReserveMet, ClearForAnswer, ClearOutbid, Call
    <3>3. QED
      BY <1>2, <3>1, <3>2
  <2>5. CASE FindProxies(p)
    <3>1. s.pc = "answer" /\ q.pc = "respond"
      BY <1>1, <1>6, <2>5, PcAfter DEF FindProxies
    <3>2. Covers(s.amount)
      BY <2>5, <3>1, AnswerCovers
    <3>3. QED
      BY <1>3, <3>1, <3>2
  <2>6. CASE FindExistingProxy(p) \/ ReplaceExistingProxy(p)
    <3>1. s.pc \in {"setHighest", "setRetract"} /\ q.pc \in {"setFind", "setRetract"}
      BY <1>1, <1>6, <2>6, PcAfter DEF FindExistingProxy, ReplaceExistingProxy
    <3>2. s.max = q.max
      BY <1>1, <2>6 DEF FindExistingProxy, ReplaceExistingProxy, Call
    <3>3. Covers(s.max)
      BY <3>1, <3>2 DEF SerialPrice, PriceKnown
    <3>4. QED
      BY <1>3, <3>1, <3>3
  <2>7. CASE FindHighestForProxy(p)
    <3>1. s.pc \in {"setCreate", "setClear"} /\ q.pc = "setHighest"
      BY <1>1, <1>6, <2>7, PcAfter DEF FindHighestForProxy
    <3>2. Covers(s.amount)
      BY <2>7, ProxyAmountCovers
    <3>3. QED
      BY <1>3, <3>1, <3>2
  <2>8. CASE PickNewHighest(p)
    <3>1. s.pc = "retractCommit"
      BY <1>1, <1>6, <2>8, PcAfter
    <3>2. \A i \in Standing \ {s.bid} : s.next # 0 /\ bids'[i].amount <= bids'[s.next].amount
      BY <2>8, PickCovers DEF Active
    <3>3. QED
      BY <3>1, <3>2
  <2>9. ~(CommitAnswer(p) \/ SetProxyPrice(p) \/ CancelProxy(p) \/ CommitRetract(p)
          \/ AbortDeadlock(p))
    BY <1>1, <1>6, PcAfter
  <2>10. QED
    BY <2>0, <2>1, <2>2, <2>3, <2>4, <2>5, <2>6, <2>7, <2>8, <2>9 DEF Continue
<1>7. QED
  BY <1>4, <1>5, <1>6

LEMMA SerialPriceStep ==
    ASSUME OneCall, ~Crashes, Ascending, IInv, SerialPrice, [Next]_vars
    PROVE  SerialPrice'
<1>1. (\A r \in Request : PriceKnown(req[r]))'
  BY PriceKnownStep
<1>2. ((\A r \in Request : req[r].pc # "setPrice") => Covers(auction.currentPrice))'
  BY DisplayedPriceStep DEF Covers, Active
<1>3. QED
  BY <1>1, <1>2 DEF SerialPrice

LEMMA InitSerial ==
    ASSUME Init
    PROVE  EndKnown /\ CountKnown /\ SerialPrice
<1>1. /\ bids = <<>> /\ Len(bids) = 0 /\ DOMAIN bids = {} /\ auction.bidCount = 0
      /\ \A r \in Request : req[r].pc = "idle"
  BY EmptySeq, IdleType DEF Init
<1>2. EndKnown
  BY <1>1 DEF EndKnown
<1>3. CountKnown
  <2>1. Counted = {} /\ Counting = 0
    BY <1>1 DEF Counted, Counting
  <2>2. QED
    BY <1>1, <2>1, FS_EmptySet DEF CountKnown, StillStands
<1>4. SerialPrice
  BY <1>1 DEF SerialPrice, PriceKnown, Covers, Active
<1>5. QED
  BY <1>2, <1>3, <1>4
---------------------------------------------------------------------------
(***************************************************************************)
(* One call at a time, the mark of the winning bid.  Without setProxyBid   *)
(* the standing bids of an ascending auction are a ladder: each is higher  *)
(* than those before it, and the mark is on the top rung.                  *)
(***************************************************************************)
Tops(x) == \A i \in Active : bids[i].amount < x

Marked == {i \in Active : bids[i].winning}

\* A bid that was compared with the book still outbids it.
Outbids(q) == Ascending /\ q.pc = "commit" => Tops(q.amount)

Ladder == \A i, j \in Active : i < j => bids[i].amount < bids[j].amount

MarkOnTop == \A i \in Marked : \A j \in Active : j <= i

Rung(q) ==
    /\ q.pc \in {"answer", "answerCommit"} => Tops(q.amount)
    /\ q.pc \in {"commit", "answerCommit"} => Marked \subseteq q.clear
    /\ q.pc \in {"reserve", "respond"} => Covers(q.amount)
    /\ q.pc = "retractCommit" => \A j \in Active \ {q.bid} : j <= q.next
    /\ q.pc \notin {"setFind", "setRetract", "setHighest", "setClear", "setCreate", "setPrice"}

LadderInv ==
    /\ Ladder /\ MarkOnTop
    /\ \A r \in Request : Outbids(req[r]) /\ Rung(req[r])

\* A call that rests leaves the book as it is: there is no other.
LEMMA RestingBook ==
    ASSUME OneCall, IInv, [Next]_vars, NEW p \in Request, req'[p] = req[p]
    PROVE  bids' = bids
<1>1. TypeOK
  BY DEF IInv
<1>2. \A r \in Request : r = p
  BY DEF OneCall
<1>3. ASSUME NEW b, Inserts(p, b) PROVE FALSE
  BY <1>3, InsertMoves
<1>4. ASSUME ReplaceExistingProxy(p) \/ ClearOutbid(p) \/ CancelProxy(p) \/ CommitRetract(p)
      PROVE  FALSE
  <2>1. req'[p].pc \in {"setRetract", "setClear", "cancel", "retractCommit"}
    BY <1>4 DEF ReplaceExistingProxy, ClearOutbid, CancelProxy, CommitRetract
  <2>2. ReplaceExistingProxy(p) => req[p].pc = "setRetract"
    BY DEF ReplaceExistingProxy
  <2>3. ClearOutbid(p) => req[p].pc = "setClear"
    BY DEF ClearOutbid
  <2>4. QED
    BY <1>1, <1>4, <2>1, <2>2, <2>3, PcAfter
<1>5. QED
  BY <1>2, <1>3, <1>4, RowsChange

\* validation outbids the book it read.
LEMMA ValidateAbove ==
    ASSUME Ascending, IInv, NEW p \in Request, ValidateBid(p), req'[p].pc = "commit"
    PROVE  /\ bids' = bids /\ Tops(req'[p].amount)
           /\ \E h \in FirstByAmount(Active) :
                req'[p].clear = IF h # 0 /\ bids[h].winning THEN {h} ELSE {}
<1> DEFINE q == req[p]
<1>1. /\ TypeOK /\ req \in [Request -> Call] /\ q \in Call /\ q.amount \in Nat
      /\ Idle.pc = "idle" /\ Active \in SUBSET (1..Len(bids))
      /\ \A i \in Active : bids[i].amount \in Nat
  BY IdleType, CallTypes, ActiveInDomain DEF IInv, TypeOK, Bid
<1>2. PICK h \in FirstByAmount(Active) :
        \E inc \in Increments(IF h = 0 THEN StartPrice ELSE bids[h].amount) :
          req' = [req EXCEPT ![p] =
                    IF Acceptable(q, h, inc)
                    THEN [q EXCEPT !.pc = "commit", !.seen = Len(bids),
                                  !.clear = IF h # 0 /\ bids[h].winning THEN {h} ELSE {}]
                   ELSE Refused(q)]
  BY DEF ValidateBid
<1>3. PICK inc \in Increments(IF h = 0 THEN StartPrice ELSE bids[h].amount) :
        /\ Acceptable(q, h, inc) /\ req'[p].amount = q.amount
        /\ req'[p].clear = IF h # 0 /\ bids[h].winning THEN {h} ELSE {}
  BY <1>1, <1>2 DEF Refused, Call
<1>4. ASSUME NEW i \in Active
      PROVE  bids[i].amount < q.amount
  <2>1. h # 0 /\ h \in Active /\ bids[i].amount <= bids[h].amount
    BY <1>1, FirstCovers
  <2>2. bids[h].amount \in Nat /\ inc \in Nat \ {0}
    BY <1>1, <2>1, <1>3, IncrementsPositive
  <2>3. q.amount >= bids[h].amount + inc
    BY <1>3, <2>1 DEF Acceptable
  <2>4. QED
    BY <1>1, <2>1, <2>2, <2>3
<1>5. QED
  BY <1>3, <1>4 DEF Tops, ValidateBid

LEMMA OutbidsStep ==
    ASSUME OneCall, IInv, \A r \in Request : Outbids(req[r]), [Next]_vars, NEW p \in Request
    PROVE  Outbids(req[p])'
<1> SUFFICES ASSUME Ascending, req'[p].pc = "commit"
             PROVE  bids' = bids /\ Tops(req'[p].amount)
  BY DEF Outbids, Tops, Active, Ascending
<1>1. CASE req'[p] = req[p]
  BY <1>1, RestingBook DEF Outbids
<1>2. CASE req'[p] # req[p]
  BY <1>2, HowItGotThere, ValidateAbove DEF IInv
<1>3. QED
  BY <1>1, <1>2

\* Rows that stand after a step stood before it, but for one that a call
\* inserted.
LEMMA StandingRows ==
    ASSUME IInv, [Next]_vars
    PROVE  /\ Active' \in SUBSET (1..Len(bids'))
           /\ \A i \in Active' \cap 1..Len(bids) :
                i \in Active /\ bids'[i].amount = bids[i].amount
           /\ \A i \in Active' : i \notin 1..Len(bids) =>
                /\ i = Len(bids) + 1
                /\ \E r \in Request : Inserts(r, bids'[i])
<1>1. \A i \in 1..Len(bids) : Kept(bids[i], bids'[i])
  BY RowsAfter DEF RowsKept
<1>2. Active' \in SUBSET (1..Len(bids')) /\ DOMAIN bids = 1..Len(bids)
  BY RowsAfter DEF Active
<1>3. ASSUME NEW i \in Active', i \in 1..Len(bids)
      PROVE  i \in Active /\ bids'[i].amount = bids[i].amount
  BY <1>1, <1>2, <1>3 DEF Active, Kept
<1>4. ASSUME NEW i \in Active', i \notin 1..Len(bids)
      PROVE  /\ i = Len(bids) + 1
             /\ \E r \in Request : Inserts(r, bids'[i])
  BY <1>2, <1>4, RowsAfter
<1>5. QED
  BY <1>2, <1>3, <1>4

\* What is inserted is above the ladder.
LEMMA LadderInserts ==
    ASSUME Ascending, LadderInv, NEW r \in Request, NEW b, Inserts(r, b)
    PROVE  /\ Tops(b.amount) /\ req[r].pc \in {"commit", "answerCommit"}
           /\ Marked \subseteq req[r].clear
           /\ bids' = Append(ClearWinning(req[r].clear), b)
<1>1. b.amount = req[r].amount /\ req[r].pc \in {"commit", "answerCommit"}
  BY Inserted DEF LadderInv, Rung
<1>2. Tops(b.amount) /\ Marked \subseteq req[r].clear
  BY <1>1 DEF LadderInv, Rung, Outbids
<1>3. ~CreateProxyBid(r)
  BY <1>1 DEF CreateProxyBid
<1>4. QED
  BY <1>1, <1>2, <1>3 DEF Inserts, CommitBid, CommitAnswer

LEMMA LadderStep ==
    ASSUME Ascending, IInv, LadderInv, [Next]_vars
    PROVE  Ladder'
<1> SUFFICES ASSUME NEW i \in Active', NEW j \in Active', i < j
             PROVE  bids'[i].amount < bids'[j].amount
  BY DEF Ladder
<1>1. /\ i \in 1..Len(bids') /\ j \in 1..Len(bids') /\ Len(bids) \in Nat /\ Len(bids') \in Nat
  BY StandingRows, RowsAfter
<1>2. CASE j \in 1..Len(bids)
  <2>1. i \in 1..Len(bids)
    BY <1>1, <1>2
  <2>2. i \in Active /\ j \in Active /\ bids'[i].amount = bids[i].amount
        /\ bids'[j].amount = bids[j].amount
    BY <1>2, <2>1, StandingRows
  <2>3. QED
    BY <2>2 DEF LadderInv, Ladder
<1>3. CASE j \notin 1..Len(bids)
  <2>1. PICK r \in Request : Inserts(r, bids'[j])
    BY <1>3, StandingRows
  <2>2. Tops(bids'[j].amount)
    BY <2>1, LadderInserts
  <2>3. j = Len(bids) + 1
    BY <1>3, StandingRows
  <2>4. i \in Active /\ bids'[i].amount = bids[i].amount
    BY <1>1, <2>3, StandingRows
  <2>5. QED
    BY <2>2, <2>4 DEF Tops
<1>4. QED
  BY <1>2, <1>3

\* The mark moves to the row that is inserted, or to the one retractBid read.
LEMMA MarkStep ==
    ASSUME Ascending, IInv, LadderInv, [Next]_vars
    PROVE  MarkOnTop'
<1> SUFFICES ASSUME NEW i \in Active', bids'[i].winning, NEW j \in Active'
             PROVE  j <= i
  BY DEF MarkOnTop, Marked
<1>0. /\ TypeOK /\ DOMAIN bids = 1..Len(bids) /\ Len(bids) \in Nat /\ Len(bids') \in Nat
      /\ i \in 1..Len(bids') /\ j \in 1..Len(bids')
      /\ \A k \in 1..Len(bids) : bids[k] \in Bid
  BY StandingRows, RowsAfter DEF IInv
<1>1. ASSUME NEW r \in Request, NEW b, Inserts(r, b)
      PROVE  j <= i
  <2>1. Marked \subseteq req[r].clear /\ bids' = Append(ClearWinning(req[r].clear), b)
    BY <1>1, LadderInserts
  <2>2. Len(bids') = Len(bids) + 1
    BY <1>1, InsertedRow
  <2>3. CASE i \in 1..Len(bids)
    <3>1. bids'[i] = ClearWinning(req[r].clear)[i]
      BY <1>0, <2>1, <2>3, ClearWinningType
    <3>2. i \in Active
      BY <2>3, StandingRows
    <3>3. i \in req[r].clear => ~ClearWinning(req[r].clear)[i].winning
      BY <1>0, <2>3 DEF ClearWinning, Bid
    <3>4. i \notin req[r].clear => ClearWinning(req[r].clear)[i] = bids[i]
      BY <1>0, <2>3 DEF ClearWinning
    <3>5. i \in Marked
      BY <3>1, <3>2, <3>3, <3>4 DEF Marked
    <3>6. QED
      BY <2>1, <3>1, <3>3, <3>5
  <2>4. CASE i \notin 1..Len(bids)
    BY <1>0, <2>2, <2>4
  <2>5. QED
    BY <2>3, <2>4
<1>2. ASSUME \A r \in Request : \A b : ~Inserts(r, b)
      PROVE  i \in 1..Len(bids) /\ i \in Active /\ j \in Active
  <2>1. i \in 1..Len(bids) /\ j \in 1..Len(bids)
    BY <1>2, StandingRows
  <2>2. QED
    BY <2>1, StandingRows
\* No mark is set: what is marked and stands was marked and stood.
<1>3. ASSUME \A r \in Request : \A b : ~Inserts(r, b), bids[i].winning
      PROVE  j <= i
  BY <1>2, <1>3 DEF LadderInv, MarkOnTop, Marked
<1>4. ASSUME \A r \in Request : \A b : ~Inserts(r, b), ~bids[i].winning
      PROVE  j <= i
  <2>1. i \in 1..Len(bids) /\ i \in Active /\ j \in Active
    BY <1>2, <1>4
  <2>2. PICK r \in Request : \/ ReplaceExistingProxy(r) \/ ClearOutbid(r)
                             \/ CancelProxy(r) \/ CommitRetract(r)
    BY <1>4, RowsChange
  <2>3. ~(ReplaceExistingProxy(r) \/ CancelProxy(r) \/ ClearOutbid(r))
    <3>1. ~ClearOutbid(r) /\ ~ReplaceExistingProxy(r)
      BY DEF ClearOutbid, ReplaceExistingProxy, LadderInv, Rung
    <3>2. ASSUME CancelProxy(r) PROVE bids'[i].winning = bids[i].winning
      <4>1. bids'[i] \in {bids[i], [bids[i] EXCEPT !.retracted = TRUE, !.reason = "cancelled"]}
        BY <1>0, <2>1, <3>2 DEF CancelProxy
      <4>2. QED
        BY <1>0, <2>1, <4>1 DEF Bid
    <3>3. QED
      BY <1>4, <3>1, <3>2
  <2>4. CommitRetract(r) /\ bids' = RowsAfterRetract(req[r].bid, req[r].next)
    BY <2>2, <2>3 DEF CommitRetract
  <2>5. i = req[r].next /\ i # req[r].bid
    BY <1>0, <1>4, <2>1, <2>4 DEF RowsAfterRetract, Bid
  <2>6. j # req[r].bid
    <3>1. j \in 1..Len(bids) /\ ~bids'[j].retracted
      BY <1>0, <2>1 DEF Active
    <3>2. j = req[r].bid => bids'[j].retracted
      BY <1>0, <2>4, <3>1 DEF RowsAfterRetract, Bid
    <3>3. QED
      BY <3>1, <3>2
  <2>7. QED
    BY <2>1, <2>4, <2>5, <2>6 DEF LadderInv, Rung, CommitRetract
<1>5. QED
  BY <1>1, <1>3, <1>4

\* The answer of a proxy is above the bid it answers.
LEMMA AnswerAbove ==
    ASSUME IInv, LadderInv, NEW p \in Request, FindProxies(p), req'[p].pc = "answer"
    PROVE  bids' = bids /\ Tops(req'[p].amount)
<1> DEFINE q == req[p]
<1>1. /\ TypeOK /\ req \in [Request -> Call] /\ q \in Call /\ q.amount \in Nat
      /\ Idle.pc = "idle" /\ Idle \in Call /\ Active \subseteq 1..Len(bids)
      /\ \A i \in Active : bids[i] \in Bid /\ bids[i].amount \in Nat /\ bids[i].max \in Nat
  BY IdleType, CallTypes, ActiveInDomain DEF IInv, TypeOK, Bid
<1>2. Covers(q.amount)
  BY DEF FindProxies, LadderInv, Rung
<1>3. PICK inc \in Increments(q.amount) :
         LET floor == q.amount + inc
             E == EligibleProxies(q.user, floor)
         IN  \/ E = {} /\ req' = [req EXCEPT ![p] = Idle]
             \/ \E i \in E : E = {i} /\ Answer(p, i, floor)
             \/ \E h \in E, s \in E : Answer(p, h, CompetingAmount(h, s, floor, inc))
  BY DEF FindProxies
<1>4. inc \in Nat \ {0} /\ q.amount + inc \in Nat
  BY <1>1, IncrementsPositive
<1> DEFINE floor == q.amount + inc
           E == EligibleProxies(q.user, floor)
<1>5. E \subseteq Active
  BY DEF EligibleProxies
<1>6. ASSUME NEW a \in Nat, floor <= a, NEW i, Answer(p, i, a)
      PROVE  Tops(req'[p].amount)
  <2>1. req'[p].amount = a
    BY <1>1, <1>6 DEF Answer, Call
  <2>2. \A j \in Active : bids[j].amount <= q.amount /\ bids[j].amount \in Nat
    BY <1>1, <1>2 DEF Covers
  <2>3. \A n \in Nat : n <= q.amount => n < a
    BY <1>1, <1>4, <1>6
  <2>4. QED
    BY <2>1, <2>2, <2>3 DEF Tops
<1>7. ASSUME NEW h \in Active, NEW s \in Active
      PROVE  /\ CompetingAmount(h, s, floor, inc) \in Nat
             /\ floor <= CompetingAmount(h, s, floor, inc)
  <2>1. bids[h].max \in Nat /\ bids[s].max \in Nat
    BY <1>1
  <2>2. Smaller(bids[s].max + inc, bids[h].max) \in Nat
    BY <1>4, <2>1 DEF Smaller
  <2>3. \A y, f \in Nat : Larger(y, f) \in Nat /\ f <= Larger(y, f)
    BY DEF Larger
  <2>4. QED
    BY <1>4, <2>1, <2>2, <2>3 DEF CompetingAmount
<1>8. req' # [req EXCEPT ![p] = Idle]
  BY <1>1
<1>9. \/ \E i \in E : Answer(p, i, floor)
      \/ \E h \in E, s \in E : Answer(p, h, CompetingAmount(h, s, floor, inc))
  BY <1>3, <1>8
<1>10. floor \in Nat /\ floor <= floor
  BY <1>4
<1>11. bids' = bids
  BY DEF FindProxies
<1> HIDE DEF floor, E
<1>12. QED
  BY <1>5, <1>6, <1>7, <1>9, <1>10, <1>11

LEMMA CommitCovers ==
    ASSUME Ascending, IInv, LadderInv, [Next]_vars, NEW p \in Request, CommitBid(p)
    PROVE  \A i \in Active' : bids'[i].amount <= req'[p].amount
<1>1. /\ req \in [Request -> Call] /\ Idle \in Call /\ req[p].pc = "commit"
      /\ req[p] \in Call /\ req[p].amount \in Nat
      /\ \A i \in Active : bids[i].amount \in Nat
  BY IdleType, CallTypes, ActiveInDomain DEF IInv, TypeOK, CommitBid, Bid
<1>2. req'[p].amount = req[p].amount
  BY <1>1, SMTT(60) DEF CommitBid, Call
<1>3. PICK b : Inserts(p, b) /\ b.amount = req[p].amount
  BY Inserted DEF Inserts
<1>4. Tops(req[p].amount)
  BY <1>3, LadderInserts
<1>5. Len(bids') = Len(bids) + 1 /\ bids'[Len(bids) + 1] = b
  BY <1>3, InsertedRow
<1>6. ASSUME NEW i \in Active'
      PROVE  bids'[i].amount <= req[p].amount
  <2>1. CASE i \in 1..Len(bids)
    BY <1>1, <1>4, <2>1, StandingRows DEF Tops
  <2>2. CASE i \notin 1..Len(bids)
    BY <1>1, <1>3, <1>5, <2>2, StandingRows
  <2>3. QED
    BY <2>1, <2>2
<1>7. QED
  BY <1>2, <1>6

\* The highest of a ladder is its last rung.
LEMMA HighestIsLast ==
    ASSUME TypeOK, Ladder, NEW S \in SUBSET Active, NEW h \in FirstByAmount(S), NEW j \in S
    PROVE  h \in S /\ j <= h
<1>1. /\ S \in SUBSET (1..Len(bids)) /\ Len(bids) \in Nat
      /\ \A i \in S : i \in Nat /\ bids[i].amount \in Nat
  BY ActiveInDomain DEF Bid
<1>2. h \in S /\ bids[j].amount <= bids[h].amount
  BY <1>1, FirstCovers
<1>3. h < j => bids[h].amount < bids[j].amount
  BY <1>2 DEF Ladder
<1>4. QED
  BY <1>1, <1>2, <1>3

LEMMA RungStep ==
    ASSUME OneCall, Ascending, "setProxyBid" \notin Calls, IInv, LadderInv, [Next]_vars,
           NEW p \in Request
    PROVE  Rung(req[p])'
<1> DEFINE q == req[p]
           s == req'[p]
<1>1. TypeOK /\ req \in [Request -> Call] /\ q \in Call /\ Idle.pc = "idle" /\ Rung(q)
      /\ \A i \in Active : i \in Nat
  BY IdleType, ActiveInDomain DEF IInv, TypeOK, LadderInv
<1> DEFINE Setting == {"setFind", "setRetract", "setHighest", "setClear", "setCreate", "setPrice"}
\* Where the book stays, it is enough that the call knows what it needs of it.
<1>2. ASSUME bids' = bids, Rung(s)
      PROVE  Rung(req[p])'
  BY <1>2 DEF Rung, Tops, Covers, Marked, Active
<1>3. CASE s = q
  BY <1>1, <1>2, <1>3, RestingBook
<1>4. CASE s # q /\ s.pc = "idle"
  BY <1>4 DEF Rung
<1>5. CASE s # q /\ s.pc # "idle"
  <2>0. Begin(p) \/ Continue(p)
    <3>1. Begin(p) \/ Continue(p) \/ TurnAway(p) \/ Crash(p)
      BY <1>1, <1>5, OwnSlot DEF Next, Tick, vars
    <3>2. QED
      BY <1>1, <1>5, <3>1, PcAfter
  <2>1. CASE Begin(p)
    <3>1. \A u, m : ~BeginSetProxy(p, u, m)
      BY DEF BeginSetProxy
    <3>2. ASSUME NEW u, NEW a, NEW t, NEW m, BeginPlaceBid(p, u, a, t, m)
          PROVE  s.pc = "validate"
      BY <1>1, <3>2, IdleType DEF BeginPlaceBid, Call
    <3>3. ASSUME NEW u, BeginCancelProxy(p, u) PROVE s.pc = "cancel"
      BY <1>1, <3>3, IdleType DEF BeginCancelProxy, Call
    <3>4. ASSUME NEW i, BeginRetract(p, i) PROVE s.pc = "retract"
      BY <1>1, <3>4, IdleType DEF BeginRetract, Call
    <3>5. s.pc \in {"validate", "cancel", "retract"}
      BY <2>1, <3>1, <3>2, <3>3, <3>4 DEF Begin
    <3>6. QED
      BY <3>5 DEF Rung
  <2>2. CASE ValidateBid(p)
    <3>1. s.pc = "commit"
      BY <1>1, <1>5, <2>2, PcAfter
    <3>2. bids' = bids /\ \E h \in FirstByAmount(Active) :
                s.clear = IF h # 0 /\ bids[h].winning THEN {h} ELSE {}
      BY <2>2, <3>1, ValidateAbove
    <3>3. PICK h \in FirstByAmount(Active) :
                s.clear = IF h # 0 /\ bids[h].winning THEN {h} ELSE {}
      BY <3>2
    <3>4. ASSUME NEW i \in Marked
          PROVE  i \in s.clear
      <4>1. i \in Active /\ bids[i].winning
        BY DEF Marked
      <4>2. h \in Active /\ i <= h
        BY <1>1, <4>1, HighestIsLast DEF LadderInv
      <4>3. h <= i
        BY <4>2 DEF LadderInv, MarkOnTop
      <4>4. h = i /\ h # 0
        BY <1>1, <4>1, <4>2, <4>3, ActiveInDomain
      <4>5. QED
        BY <3>3, <4>1, <4>4
    <3>5. Rung(s)
      BY <3>1, <3>4 DEF Rung
    <3>6. QED
      BY <1>2, <3>2, <3>5
  <2>3. CASE CommitBid(p)
    <3>1. s.pc \in {"reserve", "respond"}
      BY <1>1, <1>5, <2>3, PcAfter
    <3>2. \A i \in Active' : bids'[i].amount <= s.amount
      BY <2>3, CommitCovers
    <3>3. QED
      BY <3>1, <3>2 DEF Rung, Covers
  <2>4. CASE MarkReserveMet(p)
    <3>1. s.pc = "respond" /\ s.amount = q.amount /\ q.pc = "reserve" /\ bids' = bids
      BY <1>1, <2>4 DEF MarkReserveMet, Call
    <3>2. Rung(s)
      BY <1>1, <3>1 DEF Rung
    <3>3. QED
      BY <1>2, <3>1, <3>2
  <2>5. CASE FindProxies(p)
    <3>1. s.pc = "answer"
      BY <1>1, <1>5, <2>5, PcAfter
    <3>2. bids' = bids /\ Tops(s.amount)
      BY <2>5, <3>1, AnswerAbove
    <3>3. Rung(s)
      BY <3>1, <3>2 DEF Rung
    <3>4. QED
      BY <1>2, <3>2, <3>3
  <2>6. CASE ClearForAnswer(p)
    <3>1. s.pc = "answerCommit" /\ s.amount = q.amount /\ q.pc = "answer" /\ bids' = bids
          /\ s.clear = Marked
      BY <1>1, <2>6 DEF ClearForAnswer, Call, Marked
    <3>2. Rung(s)
      BY <1>1, <3>1 DEF Rung
    <3>3. QED
      BY <1>2, <3>1, <3>2
  <2>7. CASE PickNewHighest(p)
    <3>1. PICK h \in FirstByAmount(Active \ {q.bid}) :
            req' = [req EXCEPT ![p].pc = "retractCommit", ![p].next = h]
      BY <2>7 DEF PickNewHighest
    <3>2. s.pc = "retractCommit" /\ s.next = h /\ s.bid = q.bid /\ bids' = bids
      BY <1>1, <2>7, <3>1 DEF PickNewHighest, Call
    <3>3. \A j \in Active \ {q.bid} : j <= h
      BY <1>1, HighestIsLast DEF LadderInv
    <3>4. Rung(s)
      BY <3>2, <3>3 DEF Rung
    <3>5. QED
      BY <1>2, <3>2, <3>4
  <2>8. q.pc \notin Setting
    BY <1>1 DEF Rung
  <2>9. ~(FindExistingProxy(p) \/ ReplaceExistingProxy(p) \/ FindHighestForProxy(p)
          \/ ClearOutbid(p) \/ CreateProxyBid(p) \/ SetProxyPrice(p))
    BY <2>8 DEF FindExistingProxy, ReplaceExistingProxy, FindHighestForProxy, ClearOutbid,
       CreateProxyBid, SetProxyPrice
  <2>10. ~(CommitAnswer(p) \/ CancelProxy(p) \/ CommitRetract(p) \/ AbortDeadlock(p))
    BY <1>1, <1>5, PcAfter
  <2>11. QED
    BY <2>0, <2>1, <2>2, <2>3, <2>4, <2>5, <2>6, <2>7, <2>9, <2>10 DEF Continue
<1>6. QED
  BY <1>3, <1>4, <1>5

LEMMA LadderInvStep ==
    ASSUME OneCall, Ascending, "setProxyBid" \notin Calls, IInv, LadderInv, [Next]_vars
    PROVE  LadderInv'
<1>1. (\A r \in Request : Outbids(req[r]) /\ Rung(req[r]))'
  <2>1. \A r \in Request : Outbids(req[r])
    BY DEF LadderInv
  <2>2. QED
    BY <2>1, OutbidsStep, RungStep
<1>2. QED
  BY <1>1, LadderStep, MarkStep DEF LadderInv

LEMMA InitLadder == Init => LadderInv
BY EmptySeq, IdleType DEF Init, LadderInv, Ladder, MarkOnTop, Marked, Active, Outbids, Rung
---------------------------------------------------------------------------
\* What calls in progress know stays true of the book while others write it.
THEOREM SafetyHolds == Spec => []SInv
BY InitIInv, NextIInv, InitSInv, NextSInv, PTL DEF Spec

\* The service never bids for a user above a maximum that the user gave,
\* whatever calls interleave and however many answers are chained.
THEOREM ProxiesStayWithinMax == Spec => []ProxyWithinMax
<1>1. SInv => ProxyWithinMax
  BY DEF SInv
<1>2. QED
  BY <1>1, SafetyHolds, PTL

\* In an ascending auction a bid placed by a client is higher than every
\* standing bid that was there when its call looked.
THEOREM BidsBeatWhatTheySaw == Spec => []BeatsWhatItSaw
<1>1. SInv => BeatsWhatItSaw
  BY DEF SInv
<1>2. QED
  BY <1>1, SafetyHolds, PTL

\* reserveMet is never set on an auction where no client's bid reached the
\* reserve, although it is written outside the transaction of the bid.
THEOREM ReserveMetOnlyIfReached == Spec => []ReserveMetIsTrue
<1>1. SInv => ReserveMetIsTrue
  BY DEF SInv
<1>2. QED
  BY <1>1, SafetyHolds, PTL

\* The displayed price is the opening price, the start price or the amount of
\* a bid, whichever of the five places that write it wrote last.
THEOREM PriceIsAlwaysABid == Spec => []PriceIsABid
<1>1. SInv => PriceIsABid
  BY DEF SInv
<1>2. QED
  BY <1>1, SafetyHolds, PTL

\* However many bids extend the end date concurrently, it is the planned end
\* and a whole number of extensions, no more of them than bids.
THEOREM ExtensionsAlwaysPaidFor == Spec => []ExtensionsArePaidFor
<1>1. SInv => ExtensionsArePaidFor
  BY DEF SInv
<1>2. QED
  BY <1>1, SafetyHolds, PTL

\* bidCount, which four places of the code move one at a time, never claims
\* more bids than were not retracted by their owners, for any number of calls,
\* interleaved or broken off between the row and its count.
THEOREM BidCountNeverAboveBook == Spec => []BidCountNeverOverstates
<1>1. ASSUME IInv, CountSound, [Next]_vars PROVE CountSound'
  <2>1. auction.bidCount \in Int /\ auction'.bidCount \in Int
    BY <1>1, NextIInv DEF IInv, TypeOK, Auction
  <2>2. QED
    BY <1>1, <2>1, CountStep DEF CountSound
<1>2. IInv /\ CountSound => BidCountNeverOverstates
  <2> SUFFICES ASSUME IInv, CountSound PROVE BidCountNeverOverstates
    OBVIOUS
  <2>1. /\ auction.bidCount \in Int /\ Cardinality(Uncounted) \in Nat
        /\ Cardinality(Counted) \in Nat
    BY AuctionTypes, CountedFinite, FS_CardinalityType DEF IInv, CountSound
  <2>2. QED
    BY <2>1 DEF CountSound, BidCountNeverOverstates
<1>3. QED
  BY <1>1, <1>2, InitIInv, NextIInv, InitCount, PTL DEF Spec

\* With one call at a time the end date never moves back: what an extension is
\* added to is the end date as it is (bid.service.ts:213).
THEOREM EndMovesLaterWithOneCall ==
    ASSUME OneCall
    PROVE  Spec => EndOnlyMovesLater
<1>1. IInv /\ EndKnown /\ [Next]_vars => EndKnown'
  BY EndKnownStep
<1>2. IInv /\ EndKnown /\ [Next]_vars =>
        [auction'.actualEnd # auction.actualEnd => auction'.actualEnd >= EffectiveEnd]_vars
  BY EndMovesLater
<1>3. Init => EndKnown
  BY InitSerial
<1>4. QED
  BY <1>1, <1>2, <1>3, InitIInv, NextIInv, PTL DEF Spec, EndOnlyMovesLater

\* With one call at a time, and none that breaks off, bidCount is exactly the
\* bids that were not retracted by their owners.
THEOREM CountExactWithOneCall ==
    ASSUME OneCall, ~Crashes
    PROVE  Spec => []BidCountIsExact
<1>1. IInv /\ CountKnown /\ [Next]_vars => CountKnown'
  BY CountKnownStep
<1>2. IInv /\ CountKnown => BidCountIsExact
  <2> SUFFICES ASSUME IInv, CountKnown, Quiet
               PROVE  auction.bidCount = Cardinality(Counted)
    BY DEF BidCountIsExact
  <2>1. Counting = 0 /\ auction.bidCount \in Int
    BY AuctionTypes DEF Quiet, Counting, IInv
  <2>2. QED
    BY <2>1 DEF CountKnown
<1>3. Init => CountKnown
  BY InitSerial
<1>4. QED
  BY <1>1, <1>2, <1>3, InitIInv, NextIInv, PTL DEF Spec

\* With one call at a time, and none that breaks off, no bid that stands in an
\* ascending auction is above the price, whatever proxies were set, replaced,
\* cancelled or answered and whatever was retracted.
THEOREM PriceCoversWithOneCall ==
    ASSUME OneCall, ~Crashes
    PROVE  Spec => []PriceCoversBook
<1>1. CASE Ascending
  <2>1. IInv /\ SerialPrice /\ [Next]_vars => SerialPrice'
    BY <1>1, SerialPriceStep
  <2>2. SerialPrice => PriceCoversBook
    BY DEF SerialPrice, PriceCoversBook, Quiet, Covers
  <2>3. Init => SerialPrice
    BY InitSerial
  <2>4. QED
    BY <2>1, <2>2, <2>3, InitIInv, NextIInv, PTL DEF Spec
<1>2. CASE ~Ascending
  <2>1. TRUE => PriceCoversBook
    BY <1>2 DEF PriceCoversBook
  <2>2. QED
    BY <2>1, PTL
<1>3. QED
  BY <1>1, <1>2

\* With one call at a time, broken off or not, no bid is accepted that was outbid
\* during processing: what step 4 read is still the book when step 8 inserts
\* (bid.controller.ts:43).
THEOREM OutbidIsRefusedWithOneCall ==
    ASSUME OneCall
    PROVE  Spec => OutbidDuringProcessingIsRefused
<1> DEFINE O == \A r \in Request : Outbids(req[r])
           A == \A r \in Request :
                  Ascending /\ req[r].pc = "commit" /\ Len(bids') > Len(bids)
                            /\ req'[r].pc \in {"reserve", "respond"} =>
                    \A i \in Active : bids[i].amount < req[r].amount
<1>1. IInv /\ O /\ [Next]_vars => O'
  BY OutbidsStep
<1>2. O => A
  BY DEF Outbids, Tops
<1>3. Init => O
  BY InitLadder DEF LadderInv
<1>4. O /\ [Next]_vars => [A]_vars
  BY <1>2
<1>5. QED
  BY <1>1, <1>3, <1>4, InitIInv, NextIInv, PTL DEF Spec, OutbidDuringProcessingIsRefused

\* With one call at a time, broken off or not, and no setProxyBid, an ascending
\* auction has one winner whatever is bid, answered, cancelled and retracted: it
\* is setProxyBid, and nothing else, that leaves two bids marked.
THEOREM OneWinnerWithoutSetProxy ==
    ASSUME OneCall, Ascending, "setProxyBid" \notin Calls
    PROVE  Spec => []OneWinner
<1>1. IInv /\ LadderInv /\ [Next]_vars => LadderInv'
  BY LadderInvStep
<1>2. IInv /\ LadderInv => OneWinner
  <2> SUFFICES ASSUME IInv, LadderInv, NEW i \in Active, NEW j \in Active,
                      bids[i].winning, bids[j].winning
               PROVE  i = j
    BY DEF OneWinner
  <2>1. i <= j /\ j <= i
    BY DEF LadderInv, MarkOnTop, Marked
  <2>2. i \in Nat /\ j \in Nat
    BY ActiveInDomain DEF IInv
  <2>3. QED
    BY <2>1, <2>2
<1>3. QED
  BY <1>1, <1>2, InitLadder, InitIInv, NextIInv, PTL DEF Spec
=============================================================================

----------------------------- MODULE MCBidding -----------------------------
(***************************************************************************)
(* Small instances of Bidding for TLC.  Times are minutes and money is     *)
(* small units; see the README for why the bounds are enough.              *)
(***************************************************************************)
EXTENDS Bidding, TLC

CONSTANTS a, b, c,      \* two bidders and the creator of the auction
          r1, r2        \* two calls in progress

Users == {a, b, c}
OneTier == {[from |-> 2, to |-> 4, inc |-> 2]}   \* one unit, two from 2 to 3
Symmetry == Permutations({a, b}) \cup Permutations({r1, r2})
BidderSymmetry == Permutations({a, b})
=============================================================================

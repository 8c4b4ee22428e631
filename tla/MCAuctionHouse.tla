--------------------------- MODULE MCAuctionHouse ---------------------------
(***************************************************************************)
(* Small instances of AuctionHouse for TLC.                                *)
(***************************************************************************)
EXTENDS AuctionHouse, TLC

CONSTANTS a, b, c,      \* two bidders and the creator of the auction
          r1, r2,       \* two calls to the bid service in progress
          w1, w2        \* two operations of the auction service in progress

Users == {a, b, c}
HouseSymmetry == Permutations({a, b}) \cup Permutations({r1, r2}) \cup Permutations({w1, w2})
=============================================================================

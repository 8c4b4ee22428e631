----------------------------- MODULE MCLiveRoom -----------------------------
(***************************************************************************)
(* A small instance of LiveRoom for TLC.                                   *)
(***************************************************************************)
EXTENDS LiveRoom, TLC

CONSTANTS a, c,         \* a bidder, and the admin who made the auction
          r1,           \* a call of the bid service in progress
          d1, d2        \* two desks

Users == {a, c}
DeskSymmetry == Permutations({d1, d2})
=============================================================================

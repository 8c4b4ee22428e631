---------------------------- MODULE MCSettlement ----------------------------
(***************************************************************************)
(* Small instances of Settlement for TLC.                                  *)
(***************************************************************************)
EXTENDS Settlement, TLC

CONSTANTS r1, r2,      \* calls to the payment service in progress
          k1           \* a call to the shipping service in progress

\* Calls to the payment service are interchangeable.
Symmetry == Permutations(Request)
=============================================================================

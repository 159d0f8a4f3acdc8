----------------------------- MODULE MCCashDesk -----------------------------
(* Instances of CashDesk for TLC. *)
EXTENDS CashDesk, TLC

CONSTANTS s1, s2

SessionSymmetry == Permutations(Sessions)
=============================================================================

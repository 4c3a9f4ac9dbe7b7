----------------------------- MODULE MCAccounts -----------------------------
(* Model values and symmetry for Accounts.                                 *)
EXTENDS Accounts, TLC
SlotSymmetry == Permutations(Slots)
=============================================================================

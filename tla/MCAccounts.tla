----------------------------- MODULE MCAccounts -----------------------------
(* The instance for Accounts: the constants are model values, see the .cfg. *)
EXTENDS Accounts, TLC

\* The slots are alike, and so are the admins.
AccountSymmetry == Permutations(Slot) \cup Permutations(Admins)
=============================================================================

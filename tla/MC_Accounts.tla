----------------------------- MODULE MC_Accounts -----------------------------
(* A small instance of Accounts: a registration of a user and one of a super *)
(* administrator, with the same address.                                     *)
EXTENDS Accounts, TLC

CONSTANTS r1, r2, q1, q2, e1

SameEmail == [r \in Regs |-> e1]
Symmetry == Permutations(Requests)
=============================================================================

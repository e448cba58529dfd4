------------------------------ MODULE MC_Presale ------------------------------
(* A small instance of Presale: one sale whose tokens suffice and one whose  *)
(* rate is too low, two investors.                                           *)
EXTENDS Presale, TLC

CONSTANTS q1, q2, i1, i2

SmallTerms ==
  {[min |-> 4, max |-> 5, total |-> 9, cap |-> 10, rate |-> 4, unlock |-> 1],
   [min |-> 5, max |-> 5, total |-> 9, cap |-> 10, rate |-> 3, unlock |-> 0]}
Symmetry == Permutations(Requests) \union Permutations(Investors)
=============================================================================

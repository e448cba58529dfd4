----------------------------- MODULE MC_Access ------------------------------
(* A small instance of Access: two who register as super administrator, one *)
(* of them with two devices, and a user they may appoint.                   *)
EXTENDS Access, TLC

CONSTANTS u1, s1, s2, d1, d2

Owners == [d \in Devices |-> s1]
Symmetry == Permutations(Devices)
=============================================================================

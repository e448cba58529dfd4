----------------------------- MODULE MC_Payments -----------------------------
(* A small instance of Payments: one payment, a provider of three stages.    *)
EXTENDS Payments, TLC

CONSTANTS p1, w1, u1, h1, h2

ToWallet == (p1 :> w1)
OneUser == [p \in Payments |-> u1]
OneOwner == [w \in Wallets |-> u1]
=============================================================================

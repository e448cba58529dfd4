----------------------------- MODULE MC_Custody -----------------------------
(* A small instance of Custody: three requests on one wallet.              *)
EXTENDS Custody, TLC

CONSTANTS a1, o1, o2, o3

OneWallet == [r \in Ops |-> a1]
\* A transfer races a donation and a swap.
Mixed == (o1 :> "transfer" @@ o2 :> "donation" @@ o3 :> "Erc20ToEth")
One == [r \in Ops |-> 1]
Two == [a \in Accounts |-> 2]
=============================================================================

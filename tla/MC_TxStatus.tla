---------------------------- MODULE MC_TxStatus ----------------------------
(* Small instances of TxStatus: one transfer and one swap (or two), of one   *)
(* or two users, and hashes of the two networks.                             *)
EXTENDS TxStatus, TLC

CONSTANTS t1, s1, u1, u2, r1, r2, w1, w2, h1, h2, bad, mainnet, testnet

OneOwner == [t \in Rows |-> u1]
\* The transfer and the swap belong to different users.
TwoOwners == [t \in Rows |-> IF t \in Swaps THEN u2 ELSE u1]
\* h1 lives on mainnet, every other hash on the testnet.
TwoHomes == [h \in Hashes |-> IF h = h1 THEN mainnet ELSE testnet]
AllMainnet == [h \in Hashes |-> mainnet]
Symmetry == Permutations(Workers) \union Permutations(Requests) \union Permutations(Hashes)
=============================================================================

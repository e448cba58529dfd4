---------------------------- MODULE Wallet_proofs ---------------------------
(* Proofs for the two parts of the wallet service.  Custody: its safety        *)
(* properties, for any requests and wallets.  Book: wallets and contacts stay  *)
(* unless their own user asks, what a history shows is in its total, and pages *)
(* show every row once unless the list changes, for any users, addresses,      *)
(* requests, lists, numbers of rows and sizes of pages.                        *)
EXTENDS Book, Custody, Sums_proofs, SequenceTheorems

-----------------------------------------------------------------------------
(* Custody: what holds of handlers, node and rows                          *)

\* Transaction l of request r was handed to the node and not replaced.
Sent(r, l) == receipt[r][l] # "none" \/ \E tx \in pool : tx.op = r /\ tx.leg = l

\* A handler that has not sent its current transaction, and one that has not
\* sent any.
Before == {"idle", "estimate", "nonce", "allowance", "send"}
Fresh(r) == pc[r] \in {"idle", "allowance"} \/ (pc[r] = "nonce" /\ Kind[r] # "transfer")

\* The node holds at most one transaction of a wallet, the next one, and has no
\* receipt for it.
PoolInv ==
  /\ \A tx \in pool :
       /\ tx.nonce = count[Wallet[tx.op]]
       /\ leg[tx.op] = tx.leg => tx.nonce = nonce[tx.op]
       /\ receipt[tx.op][tx.leg] = "none"
  /\ \A tx, ty \in pool : Wallet[tx.op] = Wallet[ty.op] => tx = ty

\* No handler holds a nonce beyond the wallet's next one; once its transaction
\* is mined, its nonce is used.
NonceInv ==
  \A r \in Ops :
    /\ nonce[r] <= count[Wallet[r]]
    /\ receipt[r][leg[r]] # "none" => nonce[r] < count[Wallet[r]]

\* A transaction is sent once, and the payment after the approval.
SentInv ==
  \A r \in Ops :
    /\ pc[r] \in Before => ~Sent(r, leg[r])
    /\ Fresh(r) => ~Sent(r, "approve") /\ ~Sent(r, "pay")
    /\ leg[r] = "approve" => ~Sent(r, "pay")

\* Rows are of payments that succeeded.
RowInv ==
  \A r \in Ops :
    /\ pc[r] \in {"record", "attach"} => leg[r] = "pay" /\ receipt[r]["pay"] = "success"
    /\ pc[r] = "attach" => r \in recorded
    /\ r \in recorded => receipt[r]["pay"] = "success"
    /\ pc[r] = "done" =>
         \/ r \in attached
         \/ Kind[r] \in SwapKinds /\ leg[r] = "approve" /\ receipt[r]["approve"] = "success"

CustodyInv == TypeOK /\ PoolInv /\ NonceInv /\ SentInv /\ RowInv

-----------------------------------------------------------------------------
(* Steps of one handler that leave the chain alone                         *)

\* Where handler r may move to without disturbing the invariants.
LEMMA Quiet ==
  ASSUME CustodyInv, TypeOK', NEW r \in Ops,
         UNCHANGED <<pool, count, receipt>>,
         \A s \in Ops \ {r} : pc'[s] = pc[s] /\ leg'[s] = leg[s] /\ nonce'[s] = nonce[s],
         (leg'[r] = leg[r] /\ nonce'[r] = nonce[r]) \/ ~Sent(r, leg'[r]),
         nonce'[r] <= count[Wallet[r]],
         receipt[r][leg'[r]] # "none" => nonce'[r] < count[Wallet[r]],
         pc'[r] \in Before => ~Sent(r, leg'[r]),
         Fresh(r)' => ~Sent(r, "approve") /\ ~Sent(r, "pay"),
         leg'[r] = "approve" => ~Sent(r, "pay")
  PROVE  PoolInv' /\ NonceInv' /\ SentInv'
<1>0. \A s, l : Sent(s, l)' <=> Sent(s, l)
  BY DEF Sent
<1>1. PoolInv'
  <2>1. ASSUME NEW tx \in pool, leg'[tx.op] = tx.leg PROVE tx.nonce = nonce'[tx.op]
    <3>1. tx.op \in Ops /\ Sent(tx.op, tx.leg)
      BY DEF CustodyInv, TypeOK, Sent
    <3>2. CASE tx.op = r
      BY <2>1, <3>1, <3>2 DEF CustodyInv, PoolInv
    <3>3. CASE tx.op # r
      BY <2>1, <3>1, <3>3 DEF CustodyInv, PoolInv
    <3> QED
      BY <3>2, <3>3
  <2> QED
    BY <2>1 DEF CustodyInv, PoolInv
<1>2. NonceInv'
  <2> SUFFICES ASSUME NEW s \in Ops
               PROVE  /\ nonce'[s] <= count[Wallet[s]]
                      /\ receipt[s][leg'[s]] # "none" => nonce'[s] < count[Wallet[s]]
    BY DEF NonceInv
  <2> QED
    BY DEF CustodyInv, NonceInv
<1>3. SentInv'
  <2> SUFFICES ASSUME NEW s \in Ops
               PROVE  /\ pc'[s] \in Before => ~Sent(s, leg'[s])
                      /\ Fresh(s)' => ~Sent(s, "approve") /\ ~Sent(s, "pay")
                      /\ leg'[s] = "approve" => ~Sent(s, "pay")
    BY <1>0 DEF SentInv
  <2>1. s # r => (Fresh(s)' <=> Fresh(s))
    BY DEF Fresh
  <2> QED
    BY <2>1 DEF CustodyInv, SentInv
<1> QED
  BY <1>1, <1>2, <1>3

LEMMA StartStep == ASSUME CustodyInv, NEW r \in Ops, Start(r) PROVE CustodyInv'
<1> USE CustodyAssumption DEF Start, Goto, chainVars
<1>1. TypeOK'
  BY DEF CustodyInv, TypeOK, Spenders, Spender, SwapKinds, DonationKinds, Ended, Legs
<1>2. PoolInv' /\ NonceInv' /\ SentInv'
  <2>1. /\ (leg'[r] = leg[r] /\ nonce'[r] = nonce[r]) \/ ~Sent(r, leg'[r])
        /\ pc'[r] \in Before => ~Sent(r, leg'[r])
        /\ Fresh(r)' => ~Sent(r, "approve") /\ ~Sent(r, "pay")
        /\ leg'[r] = "approve" => ~Sent(r, "pay")
    BY DEF CustodyInv, SentInv, Fresh, Before, TypeOK, SwapKinds, DonationKinds, Legs, Ended
  <2>2. /\ nonce'[r] <= count[Wallet[r]]
        /\ receipt[r][leg'[r]] # "none" => nonce'[r] < count[Wallet[r]]
    BY <2>1 DEF CustodyInv, NonceInv, TypeOK, Sent
  <2>3. \A s \in Ops \ {r} : pc'[s] = pc[s] /\ leg'[s] = leg[s] /\ nonce'[s] = nonce[s]
    BY DEF CustodyInv, TypeOK
  <2> QED
    BY <1>1, <2>1, <2>2, <2>3, Quiet
<1>3. RowInv'
  BY DEF CustodyInv, RowInv, TypeOK, SwapKinds, DonationKinds, Ended, Legs
<1> QED
  BY <1>1, <1>2, <1>3 DEF CustodyInv

LEMMA AllowanceReadStep == ASSUME CustodyInv, NEW r \in Ops, getAllowanceAndBalance(r) PROVE CustodyInv'
<1> USE CustodyAssumption DEF getAllowanceAndBalance, Goto, chainVars
<1>1. TypeOK'
  BY DEF CustodyInv, TypeOK, Spenders, Spender, SwapKinds, DonationKinds, Ended, Legs
<1>2. PoolInv' /\ NonceInv' /\ SentInv'
  <2>1. /\ (leg'[r] = leg[r] /\ nonce'[r] = nonce[r]) \/ ~Sent(r, leg'[r])
        /\ pc'[r] \in Before => ~Sent(r, leg'[r])
        /\ Fresh(r)' => ~Sent(r, "approve") /\ ~Sent(r, "pay")
        /\ leg'[r] = "approve" => ~Sent(r, "pay")
    BY DEF CustodyInv, SentInv, Fresh, Before, TypeOK, SwapKinds, DonationKinds, Legs, Ended
  <2>2. /\ nonce'[r] <= count[Wallet[r]]
        /\ receipt[r][leg'[r]] # "none" => nonce'[r] < count[Wallet[r]]
    BY <2>1 DEF CustodyInv, NonceInv, TypeOK, Sent
  <2>3. \A s \in Ops \ {r} : pc'[s] = pc[s] /\ leg'[s] = leg[s] /\ nonce'[s] = nonce[s]
    BY DEF CustodyInv, TypeOK
  <2> QED
    BY <1>1, <2>1, <2>2, <2>3, Quiet
<1>3. RowInv'
  BY DEF CustodyInv, RowInv, TypeOK, SwapKinds, DonationKinds, Ended, Legs
<1> QED
  BY <1>1, <1>2, <1>3 DEF CustodyInv

LEMMA AllowanceCheckedStep == ASSUME CustodyInv, NEW r \in Ops, checkAllowance(r) PROVE CustodyInv'
<1> USE CustodyAssumption DEF checkAllowance, Goto, chainVars
<1>1. TypeOK'
  BY DEF CustodyInv, TypeOK, Spenders, Spender, SwapKinds, DonationKinds, Ended, Legs
<1>2. PoolInv' /\ NonceInv' /\ SentInv'
  <2>1. /\ (leg'[r] = leg[r] /\ nonce'[r] = nonce[r]) \/ ~Sent(r, leg'[r])
        /\ pc'[r] \in Before => ~Sent(r, leg'[r])
        /\ Fresh(r)' => ~Sent(r, "approve") /\ ~Sent(r, "pay")
        /\ leg'[r] = "approve" => ~Sent(r, "pay")
    BY DEF CustodyInv, SentInv, Fresh, Before, TypeOK, SwapKinds, DonationKinds, Legs, Ended
  <2>2. /\ nonce'[r] <= count[Wallet[r]]
        /\ receipt[r][leg'[r]] # "none" => nonce'[r] < count[Wallet[r]]
    BY <2>1 DEF CustodyInv, NonceInv, TypeOK, Sent
  <2>3. \A s \in Ops \ {r} : pc'[s] = pc[s] /\ leg'[s] = leg[s] /\ nonce'[s] = nonce[s]
    BY DEF CustodyInv, TypeOK
  <2> QED
    BY <1>1, <2>1, <2>2, <2>3, Quiet
<1>3. RowInv'
  BY DEF CustodyInv, RowInv, TypeOK, SwapKinds, DonationKinds, Ended, Legs
<1> QED
  BY <1>1, <1>2, <1>3 DEF CustodyInv

LEMMA NonceTakenStep == ASSUME CustodyInv, NEW r \in Ops, getTransactionCount(r) PROVE CustodyInv'
<1> USE CustodyAssumption DEF getTransactionCount, Goto, chainVars
<1>1. TypeOK'
  BY DEF CustodyInv, TypeOK, Spenders, Spender, SwapKinds, DonationKinds, Ended, Legs
<1>2. PoolInv' /\ NonceInv' /\ SentInv'
  <2>1. /\ (leg'[r] = leg[r] /\ nonce'[r] = nonce[r]) \/ ~Sent(r, leg'[r])
        /\ pc'[r] \in Before => ~Sent(r, leg'[r])
        /\ Fresh(r)' => ~Sent(r, "approve") /\ ~Sent(r, "pay")
        /\ leg'[r] = "approve" => ~Sent(r, "pay")
    BY DEF CustodyInv, SentInv, Fresh, Before, TypeOK, SwapKinds, DonationKinds, Legs, Ended
  <2>2. /\ nonce'[r] <= count[Wallet[r]]
        /\ receipt[r][leg'[r]] # "none" => nonce'[r] < count[Wallet[r]]
    <3>1. receipt[r][leg[r]] = "none"
      BY DEF CustodyInv, SentInv, Sent, Before
    <3>2. nonce'[r] = count[Wallet[r]] /\ leg'[r] = leg[r] /\ count[Wallet[r]] \in Nat
      BY DEF CustodyInv, TypeOK
    <3> QED
      BY <3>1, <3>2
  <2>3. \A s \in Ops \ {r} : pc'[s] = pc[s] /\ leg'[s] = leg[s] /\ nonce'[s] = nonce[s]
    BY DEF CustodyInv, TypeOK
  <2> QED
    BY <1>1, <2>1, <2>2, <2>3, Quiet
<1>3. RowInv'
  BY DEF CustodyInv, RowInv, TypeOK, SwapKinds, DonationKinds, Ended, Legs
<1> QED
  BY <1>1, <1>2, <1>3 DEF CustodyInv

LEMMA EstimatedStep == ASSUME CustodyInv, NEW r \in Ops, estimateGas(r) PROVE CustodyInv'
<1> USE CustodyAssumption DEF estimateGas, Goto, chainVars
<1>1. TypeOK'
  BY DEF CustodyInv, TypeOK, Spenders, Spender, SwapKinds, DonationKinds, Ended, Legs
<1>2. PoolInv' /\ NonceInv' /\ SentInv'
  <2>1. /\ (leg'[r] = leg[r] /\ nonce'[r] = nonce[r]) \/ ~Sent(r, leg'[r])
        /\ pc'[r] \in Before => ~Sent(r, leg'[r])
        /\ Fresh(r)' => ~Sent(r, "approve") /\ ~Sent(r, "pay")
        /\ leg'[r] = "approve" => ~Sent(r, "pay")
    BY DEF CustodyInv, SentInv, Fresh, Before, TypeOK, SwapKinds, DonationKinds, Legs, Ended
  <2>2. /\ nonce'[r] <= count[Wallet[r]]
        /\ receipt[r][leg'[r]] # "none" => nonce'[r] < count[Wallet[r]]
    BY <2>1 DEF CustodyInv, NonceInv, TypeOK, Sent
  <2>3. \A s \in Ops \ {r} : pc'[s] = pc[s] /\ leg'[s] = leg[s] /\ nonce'[s] = nonce[s]
    BY DEF CustodyInv, TypeOK
  <2> QED
    BY <1>1, <2>1, <2>2, <2>3, Quiet
<1>3. RowInv'
  BY DEF CustodyInv, RowInv, TypeOK, SwapKinds, DonationKinds, Ended, Legs
<1> QED
  BY <1>1, <1>2, <1>3 DEF CustodyInv

LEMMA ReceiptReceivedStep == ASSUME CustodyInv, NEW r \in Ops, receiveReceipt(r) PROVE CustodyInv'
<1> USE CustodyAssumption DEF receiveReceipt, afterReceipt, Goto, chainVars
<1>1. TypeOK'
  <2>0. receipt' = receipt /\ pool' = pool /\ count' = count /\ tokens' = tokens
        /\ allowed' = allowed /\ recorded' = recorded /\ attached' = attached
    OBVIOUS
  <2>1. CASE leg[r] = "pay"
    BY <2>0, <2>1 DEF CustodyInv, TypeOK, Ended
  <2>2. CASE leg[r] # "pay" /\ Kind[r] \in SwapKinds
    BY <2>0, <2>2 DEF CustodyInv, TypeOK, Ended
  <2>3. CASE leg[r] # "pay" /\ Kind[r] \notin SwapKinds
    <3>1. nonce' \in [Ops -> Nat]
      BY <2>3 DEF CustodyInv, TypeOK
    <3> QED
      BY <2>0, <2>3, <3>1 DEF CustodyInv, TypeOK, Legs, Ended
  <2> QED
    BY <2>1, <2>2, <2>3
<1>2. PoolInv' /\ NonceInv' /\ SentInv'
  <2>1. /\ (leg'[r] = leg[r] /\ nonce'[r] = nonce[r]) \/ ~Sent(r, leg'[r])
        /\ pc'[r] \in Before => ~Sent(r, leg'[r])
        /\ Fresh(r)' => ~Sent(r, "approve") /\ ~Sent(r, "pay")
        /\ leg'[r] = "approve" => ~Sent(r, "pay")
    BY DEF CustodyInv, SentInv, Fresh, Before, TypeOK, SwapKinds, DonationKinds, Legs, Ended
  <2>2. /\ nonce'[r] <= count[Wallet[r]]
        /\ receipt[r][leg'[r]] # "none" => nonce'[r] < count[Wallet[r]]
    BY <2>1 DEF CustodyInv, NonceInv, TypeOK, Sent
  <2>3. \A s \in Ops \ {r} : pc'[s] = pc[s] /\ leg'[s] = leg[s] /\ nonce'[s] = nonce[s]
    BY DEF CustodyInv, TypeOK
  <2> QED
    BY <1>1, <2>1, <2>2, <2>3, Quiet
<1>3. RowInv'
  BY DEF CustodyInv, RowInv, TypeOK, SwapKinds, DonationKinds, Ended, Legs
<1> QED
  BY <1>1, <1>2, <1>3 DEF CustodyInv

LEMMA RowCreatedStep == ASSUME CustodyInv, NEW r \in Ops, createRow(r) PROVE CustodyInv'
<1> USE CustodyAssumption DEF createRow, Goto, chainVars
<1>1. TypeOK'
  BY DEF CustodyInv, TypeOK, Spenders, Spender, SwapKinds, DonationKinds, Ended, Legs
<1>2. PoolInv' /\ NonceInv' /\ SentInv'
  <2>1. /\ (leg'[r] = leg[r] /\ nonce'[r] = nonce[r]) \/ ~Sent(r, leg'[r])
        /\ pc'[r] \in Before => ~Sent(r, leg'[r])
        /\ Fresh(r)' => ~Sent(r, "approve") /\ ~Sent(r, "pay")
        /\ leg'[r] = "approve" => ~Sent(r, "pay")
    BY DEF CustodyInv, SentInv, Fresh, Before, TypeOK, SwapKinds, DonationKinds, Legs, Ended
  <2>2. /\ nonce'[r] <= count[Wallet[r]]
        /\ receipt[r][leg'[r]] # "none" => nonce'[r] < count[Wallet[r]]
    BY <2>1 DEF CustodyInv, NonceInv, TypeOK, Sent
  <2>3. \A s \in Ops \ {r} : pc'[s] = pc[s] /\ leg'[s] = leg[s] /\ nonce'[s] = nonce[s]
    BY DEF CustodyInv, TypeOK
  <2> QED
    BY <1>1, <2>1, <2>2, <2>3, Quiet
<1>3. RowInv'
  BY DEF CustodyInv, RowInv, TypeOK, SwapKinds, DonationKinds, Ended, Legs
<1> QED
  BY <1>1, <1>2, <1>3 DEF CustodyInv

LEMMA RowAttachedStep == ASSUME CustodyInv, NEW r \in Ops, addToUser(r) PROVE CustodyInv'
<1> USE CustodyAssumption DEF addToUser, Goto, chainVars
<1>1. TypeOK'
  BY DEF CustodyInv, TypeOK, RowInv, Ended
<1>2. PoolInv' /\ NonceInv' /\ SentInv'
  <2>1. /\ (leg'[r] = leg[r] /\ nonce'[r] = nonce[r]) \/ ~Sent(r, leg'[r])
        /\ pc'[r] \in Before => ~Sent(r, leg'[r])
        /\ Fresh(r)' => ~Sent(r, "approve") /\ ~Sent(r, "pay")
        /\ leg'[r] = "approve" => ~Sent(r, "pay")
    BY DEF CustodyInv, SentInv, Fresh, Before, TypeOK, SwapKinds, DonationKinds, Legs, Ended
  <2>2. /\ nonce'[r] <= count[Wallet[r]]
        /\ receipt[r][leg'[r]] # "none" => nonce'[r] < count[Wallet[r]]
    BY <2>1 DEF CustodyInv, NonceInv, TypeOK, Sent
  <2>3. \A s \in Ops \ {r} : pc'[s] = pc[s] /\ leg'[s] = leg[s] /\ nonce'[s] = nonce[s]
    BY DEF CustodyInv, TypeOK
  <2> QED
    BY <1>1, <2>1, <2>2, <2>3, Quiet
<1>3. RowInv'
  BY DEF CustodyInv, RowInv, TypeOK, SwapKinds, DonationKinds, Ended, Legs
<1> QED
  BY <1>1, <1>2, <1>3 DEF CustodyInv

LEMMA FailedStep == ASSUME CustodyInv, NEW r \in Ops, fail(r) PROVE CustodyInv'
<1> USE CustodyAssumption DEF fail, Goto, chainVars
<1>1. TypeOK'
  BY DEF CustodyInv, TypeOK, Spenders, Spender, SwapKinds, DonationKinds, Ended, Legs
<1>2. PoolInv' /\ NonceInv' /\ SentInv'
  <2>1. /\ (leg'[r] = leg[r] /\ nonce'[r] = nonce[r]) \/ ~Sent(r, leg'[r])
        /\ pc'[r] \in Before => ~Sent(r, leg'[r])
        /\ Fresh(r)' => ~Sent(r, "approve") /\ ~Sent(r, "pay")
        /\ leg'[r] = "approve" => ~Sent(r, "pay")
    BY DEF CustodyInv, SentInv, Fresh, Before, TypeOK, SwapKinds, DonationKinds, Legs, Ended
  <2>2. /\ nonce'[r] <= count[Wallet[r]]
        /\ receipt[r][leg'[r]] # "none" => nonce'[r] < count[Wallet[r]]
    BY <2>1 DEF CustodyInv, NonceInv, TypeOK, Sent
  <2>3. \A s \in Ops \ {r} : pc'[s] = pc[s] /\ leg'[s] = leg[s] /\ nonce'[s] = nonce[s]
    BY DEF CustodyInv, TypeOK
  <2> QED
    BY <1>1, <2>1, <2>2, <2>3, Quiet
<1>3. RowInv'
  BY DEF CustodyInv, RowInv, TypeOK, SwapKinds, DonationKinds, Ended, Legs
<1> QED
  BY <1>1, <1>2, <1>3 DEF CustodyInv

LEMMA GivenUpStep == ASSUME CustodyInv, NEW r \in Ops, giveUp(r) PROVE CustodyInv'
<1> USE CustodyAssumption DEF giveUp, Goto, chainVars
<1>1. TypeOK'
  BY DEF CustodyInv, TypeOK, Spenders, Spender, SwapKinds, DonationKinds, Ended, Legs
<1>2. PoolInv' /\ NonceInv' /\ SentInv'
  <2>1. /\ (leg'[r] = leg[r] /\ nonce'[r] = nonce[r]) \/ ~Sent(r, leg'[r])
        /\ pc'[r] \in Before => ~Sent(r, leg'[r])
        /\ Fresh(r)' => ~Sent(r, "approve") /\ ~Sent(r, "pay")
        /\ leg'[r] = "approve" => ~Sent(r, "pay")
    BY DEF CustodyInv, SentInv, Fresh, Before, TypeOK, SwapKinds, DonationKinds, Legs, Ended
  <2>2. /\ nonce'[r] <= count[Wallet[r]]
        /\ receipt[r][leg'[r]] # "none" => nonce'[r] < count[Wallet[r]]
    BY <2>1 DEF CustodyInv, NonceInv, TypeOK, Sent
  <2>3. \A s \in Ops \ {r} : pc'[s] = pc[s] /\ leg'[s] = leg[s] /\ nonce'[s] = nonce[s]
    BY DEF CustodyInv, TypeOK
  <2> QED
    BY <1>1, <2>1, <2>2, <2>3, Quiet
<1>3. RowInv'
  BY DEF CustodyInv, RowInv, TypeOK, SwapKinds, DonationKinds, Ended, Legs
<1> QED
  BY <1>1, <1>2, <1>3 DEF CustodyInv
-----------------------------------------------------------------------------
(* Steps of the node, the chain and the process                            *)

LEMMA SendStep == ASSUME CustodyInv, NEW r \in Ops, sendSignedTransaction(r) PROVE CustodyInv'
<1> USE CustodyAssumption DEF sendSignedTransaction, Goto, Sender
<1> DEFINE held == {tx \in pool : Sender(tx) = Wallet[r] /\ tx.nonce = nonce[r]}
<1>1. nonce[r] = count[Wallet[r]]
  <2>1. nonce[r] \in Nat /\ count[Wallet[r]] \in Nat
    BY DEF CustodyInv, TypeOK
  <2>2. nonce[r] >= count[Wallet[r]]
    OBVIOUS
  <2>3. nonce[r] <= count[Wallet[r]]
    BY DEF CustodyInv, NonceInv
  <2> QED
    BY <2>1, <2>2, <2>3
<1>2. /\ Tx(r) \in [op : Ops, leg : Legs, nonce : Nat]
      /\ Tx(r).op = r /\ Tx(r).leg = leg[r] /\ Tx(r).nonce = nonce[r]
  BY DEF Tx, CustodyInv, TypeOK
<1>3. pool' = (pool \ held) \union {Tx(r)}
  OBVIOUS
<1>4. \A tx \in pool \ held : Wallet[tx.op] # Wallet[r]
  BY <1>1 DEF CustodyInv, PoolInv
<1>5. ~Sent(r, leg[r]) /\ (leg[r] = "approve" => ~Sent(r, "pay"))
  BY DEF CustodyInv, SentInv, Before
<1> HIDE DEF held
<1>6. TypeOK'
  BY <1>2, <1>3 DEF CustodyInv, TypeOK
<1>7. PoolInv'
  <2>1. ASSUME NEW tx \in pool'
        PROVE  /\ tx.nonce = count'[Wallet[tx.op]]
               /\ leg'[tx.op] = tx.leg => tx.nonce = nonce'[tx.op]
               /\ receipt'[tx.op][tx.leg] = "none"
    <3>1. CASE tx \in pool \ held
      BY <3>1 DEF CustodyInv, PoolInv
    <3>2. CASE tx = Tx(r)
      BY <3>2, <1>1, <1>2, <1>5 DEF Sent
    <3> QED
      BY <3>1, <3>2, <1>3
  <2>2. ASSUME NEW tx \in pool', NEW ty \in pool', Wallet[tx.op] = Wallet[ty.op]
        PROVE  tx = ty
    BY <2>2, <1>2, <1>3, <1>4 DEF CustodyInv, PoolInv
  <2> QED
    BY <2>1, <2>2 DEF PoolInv
<1>8. NonceInv'
  BY DEF CustodyInv, NonceInv
<1>9. SentInv'
  <2> SUFFICES ASSUME NEW s \in Ops
               PROVE  /\ pc'[s] \in Before => ~Sent(s, leg[s])'
                      /\ Fresh(s)' => ~Sent(s, "approve")' /\ ~Sent(s, "pay")'
                      /\ leg'[s] = "approve" => ~Sent(s, "pay")'
    BY DEF SentInv
  <2>1. CASE s # r
    <3>1. \A l \in Legs : Sent(s, l)' => Sent(s, l)
      BY <2>1, <1>2, <1>3 DEF Sent
    <3>4. Sent(s, leg[s])' => Sent(s, leg[s])
      BY <2>1, <1>2, <1>3 DEF Sent, CustodyInv, TypeOK
    <3>2. Fresh(s)' => Fresh(s)
      BY <2>1 DEF Fresh, CustodyInv, TypeOK
    <3>3. pc'[s] = pc[s] /\ leg'[s] = leg[s]
      BY <2>1 DEF CustodyInv, TypeOK
    <3> QED
      BY <3>1, <3>2, <3>3, <3>4 DEF CustodyInv, SentInv, Legs
  <2>2. CASE s = r
    <3>1. pc'[r] = "wait" /\ leg'[r] = leg[r]
      BY DEF CustodyInv, TypeOK
    <3>2. leg[r] = "approve" => ~Sent(r, "pay")'
      BY <1>2, <1>3, <1>5 DEF Sent
    <3> QED
      BY <2>2, <3>1, <3>2 DEF Before, Fresh
  <2> QED
    BY <2>1, <2>2
<1>10. RowInv'
  BY DEF CustodyInv, RowInv, TypeOK
<1> QED
  BY <1>6, <1>7, <1>8, <1>9, <1>10 DEF CustodyInv

LEMMA MineStep ==
  ASSUME CustodyInv, NEW tx \in pool, NEW o \in {"success", "failed"}, mine(tx, o)
  PROVE  CustodyInv'
<1> USE CustodyAssumption DEF mine, Sender
<1> DEFINE r == tx.op
           a == Wallet[tx.op]
<1>1. r \in Ops /\ a \in Accounts /\ tx.leg \in Legs /\ tx.nonce = count[a]
      /\ receipt[r][tx.leg] = "none"
  BY DEF CustodyInv, TypeOK, PoolInv
<1>2. /\ pool' = pool \ {tx}
      /\ count' = [count EXCEPT ![a] = @ + 1]
      /\ receipt' = [receipt EXCEPT ![r][tx.leg] = o]
      /\ UNCHANGED <<pc, leg, nonce, recorded, attached>>
  OBVIOUS
<1>3. tokens' \in [Accounts -> Nat]
  <2>1. tokens \in [Accounts -> Nat] /\ Amount[r] \in Nat
    BY <1>1 DEF CustodyInv, TypeOK
  <2>2. CASE tx.leg = "pay" /\ o = "success"
    <3>1. Amount[r] <= tokens[a] /\ tokens' = [tokens EXCEPT ![a] = @ - Amount[r]]
      BY <2>2 DEF Covered
    <3>2. tokens[a] - Amount[r] \in Nat
      BY <1>1, <2>1, <3>1
    <3> QED
      BY <2>1, <3>1, <3>2
  <2>3. CASE ~(tx.leg = "pay" /\ o = "success")
    BY <2>1, <2>3
  <2> QED
    BY <2>2, <2>3
<1>4. allowed' \in [Accounts -> SUBSET Spenders]
  BY <1>1 DEF CustodyInv, TypeOK, Spender, Spenders
<1>5. TypeOK'
  BY <1>1, <1>2, <1>3, <1>4 DEF CustodyInv, TypeOK
<1>6. /\ \A s \in Ops, l \in Legs :
           receipt'[s][l] = IF s = r /\ l = tx.leg THEN o ELSE receipt[s][l]
      /\ \A b \in Accounts : count'[b] = IF b = a THEN count[b] + 1 ELSE count[b]
  BY <1>1, <1>2 DEF CustodyInv, TypeOK
<1> HIDE DEF mine, r, a
<1>7. PoolInv'
  <2>1. ASSUME NEW ty \in pool'
        PROVE  /\ ty.nonce = count'[Wallet[ty.op]]
               /\ leg'[ty.op] = ty.leg => ty.nonce = nonce'[ty.op]
               /\ receipt'[ty.op][ty.leg] = "none"
    <3>1. ty \in pool /\ Wallet[ty.op] # a /\ ty.op \in Ops /\ ty.leg \in Legs
      BY <1>2 DEF CustodyInv, PoolInv, TypeOK, a
    <3>2. ty.op # r
      BY <3>1 DEF a, r
    <3> QED
      BY <3>1, <3>2, <1>2, <1>6 DEF CustodyInv, PoolInv
  <2> QED
    BY <2>1, <1>2 DEF CustodyInv, PoolInv
<1>8. NonceInv'
  <2> SUFFICES ASSUME NEW s \in Ops
               PROVE  /\ nonce[s] <= count'[Wallet[s]]
                      /\ receipt'[s][leg[s]] # "none" => nonce[s] < count'[Wallet[s]]
    BY <1>2 DEF NonceInv
  <2>0. /\ nonce[s] \in Nat /\ count[Wallet[s]] \in Nat /\ leg[s] \in Legs
        /\ Wallet[s] \in Accounts /\ nonce[s] <= count[Wallet[s]]
    BY DEF CustodyInv, TypeOK, NonceInv
  <2>1. nonce[s] <= count'[Wallet[s]]
    BY <2>0, <1>6
  <2>2. ASSUME receipt'[s][leg[s]] # "none" PROVE nonce[s] < count'[Wallet[s]]
    <3>1. CASE s = r /\ leg[s] = tx.leg
      BY <3>1, <2>0, <1>6 DEF a, r
    <3>2. CASE ~(s = r /\ leg[s] = tx.leg)
      BY <2>2, <3>2, <2>0, <1>6 DEF CustodyInv, NonceInv
    <3> QED
      BY <3>1, <3>2
  <2> QED
    BY <2>1, <2>2
<1>9. SentInv'
  <2>1. \A s \in Ops, l \in Legs : Sent(s, l)' => Sent(s, l)
    BY <1>2, <1>6 DEF Sent, r
  <2>2. \A s : Fresh(s)' <=> Fresh(s)
    BY <1>2 DEF Fresh
  <2> QED
    BY <1>2, <2>1, <2>2 DEF CustodyInv, SentInv, TypeOK, Legs
<1>10. RowInv'
  <2>1. \A s \in Ops, l \in Legs : receipt[s][l] = "success" => receipt'[s][l] = "success"
    BY <1>1, <1>6
  <2> QED
    BY <1>2, <2>1 DEF CustodyInv, RowInv, Legs
<1> QED
  BY <1>5, <1>7, <1>8, <1>9, <1>10 DEF CustodyInv

LEMMA DieStep == ASSUME CustodyInv, die PROVE CustodyInv'
<1> USE DEF die, chainVars, Ended
<1>1. TypeOK'
  BY DEF CustodyInv, TypeOK
<1>2. \A s, l : Sent(s, l)' <=> Sent(s, l)
  BY DEF Sent
<1>3. \A s \in Ops : pc'[s] = pc[s] \/ pc'[s] = "lost"
  OBVIOUS
<1>4. SentInv'
  <2> SUFFICES ASSUME NEW s \in Ops
               PROVE  /\ pc'[s] \in Before => ~Sent(s, leg[s])
                      /\ Fresh(s)' => ~Sent(s, "approve") /\ ~Sent(s, "pay")
                      /\ leg[s] = "approve" => ~Sent(s, "pay")
    BY <1>2 DEF SentInv
  <2>1. (pc'[s] \in Before => pc[s] \in Before) /\ (Fresh(s)' => Fresh(s))
    BY <1>3 DEF Before, Fresh
  <2> QED
    BY <2>1 DEF CustodyInv, SentInv
<1>5. PoolInv' /\ NonceInv'
  BY DEF CustodyInv, PoolInv, NonceInv
<1>6. RowInv'
  BY <1>3 DEF CustodyInv, RowInv
<1> QED
  BY <1>1, <1>4, <1>5, <1>6 DEF CustodyInv

-----------------------------------------------------------------------------
(* Balances                                                                *)

\* The requests of wallet a whose payment the chain executed.
Paid(a) == {r \in Ops : receipt[r]["pay"] = "success" /\ Wallet[r] = a}

\* A wallet holds what it held at first but for those payments.
BalanceInv ==
  \A a \in Accounts :
    IsFiniteSet(Paid(a)) /\ tokens[a] + SumOver(Amount, Paid(a)) = Funds[a]

\* At first nothing is paid.
LEMMA InitBalance == CustodyInit => BalanceInv
<1> SUFFICES ASSUME CustodyInit, NEW a \in Accounts
             PROVE  IsFiniteSet(Paid(a)) /\ tokens[a] + SumOver(Amount, Paid(a)) = Funds[a]
  BY DEF BalanceInv
<1>1. Paid(a) = {}
  BY DEF CustodyInit, Paid, Legs
<1>2. tokens[a] = Funds[a] /\ Funds[a] \in Nat
  BY CustodyAssumption DEF CustodyInit
<1>3. IsFiniteSet({}) /\ SumOver(Amount, {}) = 0
  BY FS_EmptySet, SumStep
<1>. QED
  BY <1>1, <1>2, <1>3

\* Only a payment that is mined changes balances and receipts of payments.
LEMMA MineBalance ==
  ASSUME CustodyInv, BalanceInv, NEW tx \in pool, NEW o \in {"success", "failed"}, mine(tx, o)
  PROVE  BalanceInv'
<1> DEFINE r == tx.op
           b == Wallet[tx.op]
<1>1. r \in Ops /\ b \in Accounts /\ tx.leg \in Legs /\ receipt[r][tx.leg] = "none"
  BY CustodyAssumption DEF CustodyInv, TypeOK, PoolInv
<1>2. \A s \in Ops : receipt'[s]["pay"] = IF s = r /\ tx.leg = "pay" THEN o ELSE receipt[s]["pay"]
  BY <1>1 DEF mine, CustodyInv, TypeOK, Legs
<1>3. \A a \in Accounts :
        tokens'[a] = IF a = b /\ tx.leg = "pay" /\ o = "success" THEN tokens[a] - Amount[r] ELSE tokens[a]
  BY <1>1 DEF mine, Sender, CustodyInv, TypeOK
<1> SUFFICES ASSUME NEW a \in Accounts
             PROVE  IsFiniteSet(Paid(a)') /\ tokens'[a] + SumOver(Amount, Paid(a)') = Funds[a]
  BY DEF BalanceInv
<1>4. IsFiniteSet(Paid(a)) /\ tokens[a] + SumOver(Amount, Paid(a)) = Funds[a]
  BY DEF BalanceInv
<1> HIDE DEF r, b
<1>5. CASE a = b /\ tx.leg = "pay" /\ o = "success"
  <2>1. r \notin Paid(a) /\ Paid(a)' = Paid(a) \union {r}
    BY <1>1, <1>2, <1>5 DEF Paid, b, r
  <2>2. Paid(a) \in SUBSET Ops /\ Amount \in [Ops -> Nat]
    BY CustodyAssumption DEF Paid
  <2>3. /\ IsFiniteSet(Paid(a)')
        /\ SumOver(Amount, Paid(a)') = Amount[r] + SumOver(Amount, Paid(a))
        /\ SumOver(Amount, Paid(a)) \in Nat
    BY <1>1, <1>4, <2>1, <2>2, SumAdd, SumIsNat, FS_AddElement
  <2>4. tokens[a] \in Nat /\ Amount[r] \in Nat /\ tokens'[a] = tokens[a] - Amount[r]
    BY <1>1, <1>3, <1>5, <2>2 DEF CustodyInv, TypeOK
  <2>. QED
    BY <1>4, <2>3, <2>4
<1>6. CASE ~(a = b /\ tx.leg = "pay" /\ o = "success")
  <2>1. Paid(a)' = Paid(a)
    BY <1>1, <1>2, <1>6 DEF Paid, b, r
  <2>. QED
    BY <1>3, <1>4, <1>6, <2>1
<1>. QED
  BY <1>5, <1>6

\* Every step keeps the balances explained.
LEMMA NextBalance == CustodyInv /\ BalanceInv /\ [CustodyNext]_custodyVars => BalanceInv'
<1> SUFFICES ASSUME CustodyInv, BalanceInv, [CustodyNext]_custodyVars PROVE BalanceInv'
  OBVIOUS
<1>1. CASE UNCHANGED <<tokens, receipt>>
  BY <1>1 DEF BalanceInv, Paid
<1>2. ASSUME NEW r \in Ops, Start(r) \/ Step(r) PROVE UNCHANGED <<tokens, receipt>>
  BY <1>2 DEF Step, Start, getAllowanceAndBalance, checkAllowance,
     getTransactionCount, estimateGas, sendSignedTransaction, receiveReceipt, afterReceipt,
     createRow, addToUser, fail, giveUp, chainVars
<1>3. die \/ UNCHANGED custodyVars => UNCHANGED <<tokens, receipt>>
  BY DEF die, chainVars, custodyVars
<1>. QED
  BY <1>1, <1>2, <1>3, MineBalance DEF CustodyNext, Mining

-----------------------------------------------------------------------------
(* The theorems                                                            *)

LEMMA CustodyInitInv == CustodyInit => CustodyInv
<1> SUFFICES ASSUME CustodyInit PROVE CustodyInv
  OBVIOUS
<1> USE CustodyAssumption DEF CustodyInit
<1>1. TypeOK
  BY DEF TypeOK, Legs
<1>2. \A s \in Ops, l \in Legs : ~Sent(s, l)
  BY DEF Sent
<1> QED
  BY <1>1, <1>2 DEF CustodyInv, PoolInv, NonceInv, SentInv, RowInv, Legs

LEMMA CustodyNextInv == CustodyInv /\ [CustodyNext]_custodyVars => CustodyInv'
<1> SUFFICES ASSUME CustodyInv, [CustodyNext]_custodyVars PROVE CustodyInv'
  OBVIOUS
<1>1. ASSUME NEW r \in Ops, Start(r) \/ Step(r) PROVE CustodyInv'
  BY <1>1, StartStep, AllowanceReadStep, AllowanceCheckedStep,
     NonceTakenStep, EstimatedStep, SendStep, ReceiptReceivedStep, RowCreatedStep,
     RowAttachedStep, FailedStep, GivenUpStep DEF Step
<1>2. CASE die
  BY <1>2, DieStep
<1>3. CASE Mining
  BY <1>3, MineStep DEF Mining
<1>4. CASE UNCHANGED custodyVars
  <2>1. \A s, l : Sent(s, l)' <=> Sent(s, l)
    BY <1>4 DEF Sent, custodyVars
  <2>2. \A s : Fresh(s)' <=> Fresh(s)
    BY <1>4 DEF Fresh, custodyVars
  <2> QED
    BY <1>4, <2>1, <2>2 DEF CustodyInv, TypeOK, PoolInv, NonceInv, SentInv, RowInv, custodyVars
<1> QED
  BY <1>1, <1>2, <1>3, <1>4 DEF CustodyNext

\* The inductive invariant: what the node holds of a wallet is its next
\* transaction, and no handler is ahead of the chain.
THEOREM CustodyInvariance == CustodySpec => []CustodyInv
<1> QED
  BY CustodyInitInv, CustodyNextInv, PTL DEF CustodySpec

\* Every variable stays in its range (TypeOK), for any requests and wallets.
THEOREM TypeCorrect == CustodySpec => []TypeOK
<1>1. CustodyInv => TypeOK
  BY DEF CustodyInv
<1> QED
  BY <1>1, CustodyInvariance, PTL

\* A transaction the node accepted has its wallet's next nonce (getTransactionCount).
THEOREM NoGap == CustodySpec => []AcceptedIsNext
<1>1. CustodyInv => AcceptedIsNext
  BY DEF CustodyInv, PoolInv, AcceptedIsNext, Sender
<1> QED
  BY <1>1, CustodyInvariance, PTL

\* Rows are of executed payments, and an answered request left its row (createRow).
THEOREM Recorded == CustodySpec => []AnsweredIsRecorded
<1>1. CustodyInv => AnsweredIsRecorded
  BY DEF CustodyInv, RowInv, AnsweredIsRecorded
<1> QED
  BY <1>1, CustodyInvariance, PTL

\* What a wallet lost is what its recorded payments moved, unless a request was cut off
\* between its payment and its row (createRow).
THEOREM HistoryComplete == CustodySpec => []HistoryExplainsBalance
<1>1. CustodySpec => []BalanceInv
  <2>1. CustodyInit => BalanceInv
    BY InitBalance
  <2>. QED
    BY <2>1, NextBalance, CustodyInvariance, PTL DEF CustodySpec
<1>2. CustodyInv /\ BalanceInv => HistoryExplainsBalance
  <2> SUFFICES ASSUME CustodyInv, BalanceInv, NEW a \in Accounts,
                      \A r \in Ops : receipt[r]["pay"] = "success" => pc[r] \in {"attach", "done"}
               PROVE  Funds[a] - tokens[a]
                        = SumOver(Amount, {r \in recorded : Wallet[r] = a})
    BY DEF HistoryExplainsBalance
  <2>1. ASSUME NEW r \in Ops PROVE r \in recorded <=> receipt[r]["pay"] = "success"
    <3>1. r \in recorded => receipt[r]["pay"] = "success"
      BY DEF CustodyInv, RowInv
    <3>2. receipt[r]["pay"] = "success" /\ leg[r] = "approve" => FALSE
      BY DEF CustodyInv, SentInv, Sent
    <3>3. receipt[r]["pay"] = "success" => r \in recorded
      BY <3>2 DEF CustodyInv, RowInv, TypeOK
    <3>. QED
      BY <3>1, <3>3
  <2>2. {r \in recorded : Wallet[r] = a} = Paid(a)
    BY <2>1 DEF Paid, CustodyInv, TypeOK
  <2>3. tokens[a] + SumOver(Amount, Paid(a)) = Funds[a] /\ IsFiniteSet(Paid(a))
    BY DEF BalanceInv
  <2>4. tokens[a] \in Nat /\ SumOver(Amount, Paid(a)) \in Nat
    <3>1. Paid(a) \in SUBSET Ops /\ Amount \in [Ops -> Nat]
      BY CustodyAssumption DEF Paid
    <3>. QED
      BY <2>3, <3>1, SumIsNat DEF CustodyInv, TypeOK
  <2>5. Funds[a] - tokens[a] = SumOver(Amount, Paid(a))
    BY <2>3, <2>4
  <2>. QED
    BY <2>2, <2>5 DEF SumOver
<1>. QED
  BY <1>1, <1>2, CustodyInvariance, PTL

\* The handlers implement the abstract ledger (ImplementsLedger): createRow opens
\* a row of an executed payment, mine executes, every other step stutters.
THEOREM Refinement == CustodySpec => ImplementsLedger
<1> USE DEF Ledger!ledgerVars, Ledger!Outcomes
<1>1. CustodyInit => Ledger!LedgerInit
  <2> SUFFICES ASSUME CustodyInit PROVE Ledger!LedgerInit
    OBVIOUS
  <2>1. \A h \in Ops \X Legs : receipt[h[1]][h[2]] = "none"
    BY DEF CustodyInit
  <2> QED
    BY <2>1 DEF CustodyInit, Ledger!LedgerInit
<1>2. CustodyInv /\ [CustodyNext]_custodyVars => [Ledger!LedgerNext]_(Ledger!ledgerVars)
  <2> SUFFICES ASSUME CustodyInv, [CustodyNext]_custodyVars, ~(UNCHANGED Ledger!ledgerVars)
               PROVE  Ledger!LedgerNext
    OBVIOUS
  <2>1. ASSUME NEW r \in Ops, createRow(r) PROVE Ledger!LedgerNext
    <3>1. r \notin recorded /\ recorded' = recorded \union {r} /\ receipt' = receipt
      BY <2>1 DEF createRow, chainVars
    <3>2. <<r, "pay">> \in Ops \X Legs /\ receipt[r]["pay"] = "success"
      BY <2>1 DEF createRow, CustodyInv, RowInv, Legs
    <3>3. Ledger!OpenSent(r, <<r, "pay">>)
      BY <3>1, <3>2 DEF Ledger!OpenSent
    <3> QED
      BY <3>2, <3>3 DEF Ledger!LedgerNext
  <2>2. ASSUME NEW tx \in pool, NEW o \in {"success", "failed"}, mine(tx, o)
        PROVE  Ledger!LedgerNext
    <3> DEFINE h == <<tx.op, tx.leg>>
               old == [g \in Ops \X Legs |-> receipt[g[1]][g[2]]]
    <3>1. /\ h \in Ops \X Legs /\ receipt[tx.op][tx.leg] = "none"
          /\ tx.op \in Ops /\ tx.leg \in Legs
      BY DEF CustodyInv, TypeOK, PoolInv
    <3>2. receipt' = [receipt EXCEPT ![tx.op][tx.leg] = o] /\ recorded' = recorded
      BY <2>2 DEF mine
    <3>3. \A g \in Ops \X Legs : receipt'[g[1]][g[2]] = IF g = h THEN o ELSE receipt[g[1]][g[2]]
      BY <3>1, <3>2 DEF CustodyInv, TypeOK
    <3>4. old' = [old EXCEPT ![h] = o]
      BY <3>3
    <3>5. Ledger!Execute(h, o)
      BY <3>1, <3>2, <3>4 DEF Ledger!Execute
    <3> QED
      BY <3>1, <3>5 DEF Ledger!LedgerNext
  <2>3. ASSUME UNCHANGED <<receipt, recorded>> PROVE FALSE
    BY <2>3
  <2>4. ASSUME NEW r \in Ops, Start(r) \/ Step(r) PROVE Ledger!LedgerNext
    BY <2>1, <2>3, <2>4 DEF Step, Start, getAllowanceAndBalance, checkAllowance,
       getTransactionCount, estimateGas, sendSignedTransaction, receiveReceipt, afterReceipt,
       addToUser, fail, giveUp, chainVars
  <2>5. CASE die
    BY <2>3, <2>5 DEF die, chainVars
  <2>6. CASE Mining
    BY <2>2, <2>6 DEF Mining
  <2>7. CASE UNCHANGED custodyVars
    BY <2>3, <2>7 DEF custodyVars
  <2> QED
    BY <2>4, <2>5, <2>6, <2>7 DEF CustodyNext
<1> QED
  BY <1>1, <1>2, CustodyInvariance, PTL DEF CustodySpec, ImplementsLedger, Ledger!LedgerSpec

-----------------------------------------------------------------------------
(* Book: what holds of its rows                                            *)

RowSet ==
  [list : Kinds, user : Users \union {None}, address : Addresses \union {None},
   wallet : Nat \union {None}, kind : Donated \union {"plain", "transfer"},
   status : {"initial", "pending", "settled"}, alive : BOOLEAN]

Attached == {"transfers", "payments", "notifications"}

Continuations ==
  {Idle}
  \union [op : {"attach"}, row : Nat, user : Users, wallet : Nat \union {None}]
  \union [op : {"deleteAdress", "update", "deleteContact"}, row : Nat]
  \union [op : {"total", "answer"}, token : Summed, user : Users, whose : Users,
          address : Addresses, rows : SUBSET Nat, total : SUBSET Nat]

\* Rows and requests are what they are made to be.
ShapeInv == rows \in Seq(RowSet) /\ users \subseteq Users /\ req \in [Requests -> Continuations]

\* A row that waits for its user has none yet, and one request is about it.
AttachInv ==
  \A q \in Requests : req[q].op = "attach" =>
    /\ req[q].row \in Rows
    /\ rows[req[q].row].list \in Attached /\ rows[req[q].row].user = None
    /\ \A p \in Requests \ {q} : req[p].op = "attach" => req[p].row # req[q].row

\* A row that was found is of its list, and its wallet was asked for by its user.
FoundInv ==
  \A q \in Requests :
    /\ req[q].op \in {"deleteAdress", "update", "deleteContact"} => req[q].row \in Rows
    /\ req[q].op = "deleteAdress" =>
         /\ rows[req[q].row].list = "wallets"
         /\ <<rows[req[q].row].user, rows[req[q].row].address>> \in asked
    /\ req[q].op = "deleteContact" => rows[req[q].row].list = "contacts"

\* Tokens a history has added up.
Done(k) == IF k.op = "answer" THEN Summed ELSE IF k.token = "CHAT" THEN {"MATIC"} ELSE {}

\* Of a history of the one who asks, the donations that were read are still there, and
\* those of the tokens added up so far were counted.
Reading(k) == k.op \in {"total", "answer"} /\ k.user \in users /\ k.whose = k.user
Counts(k) ==
  /\ k.rows \subseteq Donations(k.user, k.address)
  /\ \A i \in k.rows : rows[i].kind \in Done(k) => i \in k.total
ReadInv ==
  \A q \in Requests, k \in Continuations : req[q] = k /\ Reading(k) => Counts(k)

IInv ==
  /\ ShapeInv /\ AttachInv /\ FoundInv /\ ReadInv
  /\ WalletsLeaveByOwner

-----------------------------------------------------------------------------
LEMMA InitIInv == Init => IInv
BY DEF Init, IInv, ShapeInv, AttachInv, FoundInv, ReadInv, Reading, WalletsLeaveByOwner,
       Rows, Idle, Continuations

\* A row is added after those there are.
LEMMA Inserted ==
  ASSUME rows \in Seq(RowSet), NEW row \in RowSet, Insert(row)
  PROVE  /\ rows' \in Seq(RowSet)
         /\ Len(rows) + 1 \in Nat /\ Len(rows) + 1 \notin Rows
         /\ Rows' = Rows \union {Len(rows) + 1}
         /\ \A i \in Rows : rows'[i] = rows[i]
         /\ rows'[Len(rows) + 1] = row
<1>1. rows' = Append(rows, row)
  BY DEF Insert, Write
<1>. QED
  BY <1>1, AppendProperties DEF Rows

\* Rows that are changed are no more and no fewer.
LEMMA Changed ==
  ASSUME rows \in Seq(RowSet), NEW f \in [Rows -> RowSet]
  PROVE  f \in Seq(RowSet) /\ DOMAIN f = Rows
<1>1. Rows = 1..Len(rows) /\ Len(rows) \in Nat
  BY DEF Rows
<1>. QED
  BY <1>1, SeqDef

Link(row, u, w) == [row EXCEPT !.user = u, !.wallet = w]

\* A row with another user and another wallet is a row, and otherwise the same.
LEMMA Linked ==
  ASSUME NEW row \in RowSet, NEW u \in Users, NEW w \in Nat \union {None}
  PROVE  /\ Link(row, u, w) \in RowSet
         /\ Link(row, u, w).list = row.list /\ Link(row, u, w).address = row.address
         /\ Link(row, u, w).kind = row.kind /\ Link(row, u, w).alive = row.alive
BY DEF RowSet, Link

\* One row is replaced.
LEMMA Replaced ==
  ASSUME rows \in Seq(RowSet), NEW i \in Rows, NEW row \in RowSet, rows' = [rows EXCEPT ![i] = row]
  PROVE  /\ rows' \in [Rows -> RowSet] /\ rows'[i] = row
         /\ \A j \in Rows \ {i} : rows'[j] = rows[j]
<1>1. rows \in [Rows -> RowSet]
  BY DEF Rows
<1>. QED
  BY <1>1

\* What the continuations of a request hold.
LEMMA Conts ==
  /\ Idle \in Continuations /\ Idle.op = "idle"
  /\ \A k \in Continuations :
       /\ k.op = "attach" => k.row \in Nat /\ k.user \in Users /\ k.wallet \in Nat \union {None}
       /\ k.op \in {"deleteAdress", "update", "deleteContact"} => k.row \in Nat
       /\ k.op \in {"total", "answer"} =>
            k \in [op : {"total", "answer"}, token : Summed, user : Users, whose : Users,
                   address : Addresses, rows : SUBSET Nat, total : SUBSET Nat]
<1>1. Idle \in Continuations /\ Idle.op = "idle"
  BY DEF Continuations, Idle
<1>2. ASSUME NEW k \in Continuations, k.op = "attach"
      PROVE  k \in [op : {"attach"}, row : Nat, user : Users, wallet : Nat \union {None}]
  BY <1>2 DEF Continuations, Idle
<1>3. ASSUME NEW k \in Continuations, k.op \in {"deleteAdress", "update", "deleteContact"}
      PROVE  k \in [op : {"deleteAdress", "update", "deleteContact"}, row : Nat]
  BY <1>3 DEF Continuations, Idle
<1>4. ASSUME NEW k \in Continuations, k.op \in {"total", "answer"}
      PROVE  k \in [op : {"total", "answer"}, token : Summed, user : Users, whose : Users,
                    address : Addresses, rows : SUBSET Nat, total : SUBSET Nat]
  BY <1>4 DEF Continuations, Idle
<1>. QED
  BY <1>1, <1>2, <1>3, <1>4

\* A new row is one that is alive, of nobody or of a user who is there.
NewRow(row) == row \in RowSet /\ row.alive

LEMMA MadeRows ==
  ASSUME NEW u \in Users, NEW a \in Addresses
  PROVE  /\ UserWallet(u, a) \in RowSet /\ UserWallet(u, a).alive
         /\ UserWallet(u, a).list = "wallets"
         /\ Contact(u, a) \in RowSet /\ Contact(u, a).alive
         /\ Swap(u, a) \in RowSet /\ Swap(u, a).alive /\ Swap(u, a).list = "swaps"
BY DEF UserWallet, Contact, Swap, Row, RowSet, Kinds

LEMMA MadeLater ==
  ASSUME NEW a \in Addresses
  PROVE  /\ \A kind \in Donated \union {"transfer"} :
              LET t == Transfer(a, kind) IN
              t \in RowSet /\ t.alive /\ t.list = "transfers" /\ t.user = None
         /\ Payment(a) \in RowSet /\ Payment(a).alive
         /\ Payment(a).list = "payments" /\ Payment(a).user = None
BY DEF Transfer, Payment, Row, RowSet, Kinds

LEMMA MadeNotification ==
  /\ Notification \in RowSet /\ Notification.alive
  /\ Notification.list = "notifications" /\ Notification.user = None
BY DEF Notification, Row, RowSet, Kinds

\* Donations that stay, and stay what they are, stay counted.
LEMMA ReadingOn ==
  ASSUME NEW k \in Continuations, Reading(k)', Counts(k),
         \A u \in users', a \in Addresses :
           /\ Donations(u, a) \subseteq Donations(u, a)'
           /\ \A i \in Donations(u, a) : rows'[i].kind = rows[i].kind
  PROVE  Counts(k)'
<1>1. k.user \in users' /\ k.address \in Addresses
  BY Conts DEF Reading
<1>. QED
  BY <1>1 DEF Counts

\* Rows that are added leave the others as they are.
LEMMA InsertKeeps ==
  ASSUME IInv, NEW row, NewRow(row), Insert(row), UNCHANGED <<users, asked>>
  PROVE  /\ rows' \in Seq(RowSet)
         /\ Len(rows) + 1 \in Nat /\ Len(rows) + 1 \notin Rows
         /\ Rows' = Rows \union {Len(rows) + 1}
         /\ \A i \in Rows : rows'[i] = rows[i]
         /\ rows'[Len(rows) + 1] = row
         /\ WalletsLeaveByOwner'
         /\ \A k \in Continuations : Reading(k)' /\ Counts(k) => Counts(k)'
<1>1. /\ rows' \in Seq(RowSet)
      /\ Len(rows) + 1 \in Nat /\ Len(rows) + 1 \notin Rows
      /\ Rows' = Rows \union {Len(rows) + 1}
      /\ \A i \in Rows : rows'[i] = rows[i]
      /\ rows'[Len(rows) + 1] = row
  BY Inserted DEF IInv, ShapeInv, NewRow
<1>2. WalletsLeaveByOwner'
  BY <1>1 DEF IInv, WalletsLeaveByOwner, NewRow
<1>3. ASSUME NEW u \in Users, NEW a \in Addresses
      PROVE  /\ Donations(u, a) \subseteq Donations(u, a)'
             /\ \A i \in Donations(u, a) : rows'[i].kind = rows[i].kind
  BY <1>1 DEF Donations, Of, Rows
<1>4. ASSUME NEW k \in Continuations, Reading(k)', Counts(k) PROVE Counts(k)'
  BY <1>3, <1>4, ReadingOn DEF IInv, ShapeInv
<1>. QED
  BY <1>1, <1>2, <1>4

LEMMA PlainInsertStep ==
  ASSUME IInv, NEW row, NewRow(row), Insert(row), UNCHANGED <<users, req, asked>>
  PROVE  IInv'
<1>1. /\ rows' \in Seq(RowSet) /\ Rows \subseteq Rows' /\ \A i \in Rows : rows'[i] = rows[i]
      /\ WalletsLeaveByOwner'
      /\ \A k \in Continuations : Reading(k)' /\ Counts(k) => Counts(k)'
  BY InsertKeeps
<1>2. ShapeInv' /\ AttachInv'
  BY <1>1 DEF IInv, ShapeInv, AttachInv
<1>3. FoundInv'
  BY <1>1 DEF IInv, FoundInv
<1>4. ReadInv'
  BY <1>1 DEF IInv, ShapeInv, ReadInv, Reading
<1>. QED
  BY <1>1, <1>2, <1>3, <1>4 DEF IInv

LEMMA LaterInsertStep ==
  ASSUME IInv, NEW row, NewRow(row), Insert(row), UNCHANGED <<users, asked>>,
         row.list \in Attached, row.user = None,
         NEW q \in Requests, NEW u \in Users, NEW w \in Nat \union {None},
         Goon(q, [op |-> "attach", row |-> Len(rows) + 1, user |-> u, wallet |-> w])
  PROVE  IInv'
<1> DEFINE k == [op |-> "attach", row |-> Len(rows) + 1, user |-> u, wallet |-> w]
<1>1. /\ rows' \in Seq(RowSet) /\ Rows' = Rows \union {Len(rows) + 1}
      /\ \A i \in Rows : rows'[i] = rows[i]
      /\ Len(rows) + 1 \in Nat /\ Len(rows) + 1 \notin Rows /\ rows'[Len(rows) + 1] = row
      /\ WalletsLeaveByOwner'
      /\ \A c \in Continuations : Reading(c)' /\ Counts(c) => Counts(c)'
  BY InsertKeeps
<1>2. k \in Continuations
  BY <1>1 DEF Continuations
<1>3. req' = [req EXCEPT ![q] = k] /\ req' \in [Requests -> Continuations]
  BY <1>2 DEF Goon, IInv, ShapeInv
<1>4. req'[q] = k /\ \A p \in Requests \ {q} : req'[p] = req[p]
  BY <1>3 DEF IInv, ShapeInv
<1>5. k.op = "attach" /\ k.row = Len(rows) + 1
  OBVIOUS
<1> HIDE DEF k
<1>6. ShapeInv'
  BY <1>1, <1>3 DEF IInv, ShapeInv
<1>7. AttachInv'
  BY <1>1, <1>4, <1>5 DEF IInv, AttachInv
<1>8. FoundInv'
  <2> SUFFICES ASSUME NEW p \in Requests PROVE
        /\ req'[p].op \in {"deleteAdress", "update", "deleteContact"} => req'[p].row \in Rows'
        /\ req'[p].op = "deleteAdress" =>
             /\ rows'[req'[p].row].list = "wallets"
             /\ <<rows'[req'[p].row].user, rows'[req'[p].row].address>> \in asked'
        /\ req'[p].op = "deleteContact" => rows'[req'[p].row].list = "contacts"
    BY DEF FoundInv
  <2>1. CASE p = q
    BY <2>1, <1>4, <1>5
  <2>2. CASE p # q
    <3>1. req'[p] = req[p]
      BY <2>2, <1>4
    <3>2. req[p].op \in {"deleteAdress", "update", "deleteContact"} => req[p].row \in Rows
      BY DEF IInv, FoundInv
    <3>3. /\ req[p].op = "deleteAdress" =>
               /\ rows[req[p].row].list = "wallets"
               /\ <<rows[req[p].row].user, rows[req[p].row].address>> \in asked
          /\ req[p].op = "deleteContact" => rows[req[p].row].list = "contacts"
      BY DEF IInv, FoundInv
    <3>4. \A i \in Rows : rows'[i] = rows[i] /\ i \in Rows'
      BY <1>1
    <3>. QED
      BY <3>1, <3>2, <3>3, <3>4
  <2>. QED
    BY <2>1, <2>2
<1>9. ReadInv'
  BY <1>1, <1>4, <1>5 DEF IInv, ShapeInv, ReadInv, Reading
<1>. QED
  BY <1>1, <1>6, <1>7, <1>8, <1>9 DEF IInv

LEMMA MakingStep ==
  ASSUME IInv, NEW u \in Users, NEW a \in Addresses,
         addUserAddress(u, a) \/ addNewContact(u, a) \/ createSwap(u, a)
  PROVE  IInv'
<1>1. CASE addUserAddress(u, a)
  BY <1>1, MadeRows, PlainInsertStep DEF addUserAddress, NewRow
<1>2. CASE addNewContact(u, a)
  BY <1>2, MadeRows, PlainInsertStep DEF addNewContact, NewRow
<1>3. CASE createSwap(u, a)
  BY <1>3, MadeRows, PlainInsertStep DEF createSwap, NewRow
<1>. QED
  BY <1>1, <1>2, <1>3

LEMMA MakingLaterStep ==
  ASSUME IInv, NEW q \in Requests, NEW u \in Users, NEW a \in Addresses,
         \/ \E kind \in Donated \union {"transfer"} : createTransfer(q, u, a, kind)
         \/ createPayment(q, u, a)
  PROVE  IInv'
<1>1. ASSUME NEW kind \in Donated \union {"transfer"}, createTransfer(q, u, a, kind) PROVE IInv'
  <2> DEFINE t == Transfer(a, kind)
  <2>1. t \in RowSet /\ t.alive /\ t.list = "transfers" /\ t.user = None
    BY MadeLater
  <2>2. /\ Insert(t) /\ UNCHANGED <<users, asked>>
        /\ Goon(q, [op |-> "attach", row |-> Len(rows) + 1, user |-> u, wallet |-> None])
    BY <1>1 DEF createTransfer
  <2> HIDE DEF t
  <2>. QED
    BY <2>1, <2>2, LaterInsertStep DEF NewRow, Attached
<1>2. CASE createPayment(q, u, a)
  <2>1. /\ Payment(a) \in RowSet /\ Payment(a).alive
        /\ Payment(a).list = "payments" /\ Payment(a).user = None
    BY MadeLater
  <2>2. PICK w \in WalletRows(u, a) :
          Goon(q, [op |-> "attach", row |-> Len(rows) + 1, user |-> u, wallet |-> w])
    BY <1>2 DEF createPayment
  <2>3. w \in Nat \union {None}
    BY DEF WalletRows, Of, IInv, ShapeInv
  <2>4. Insert(Payment(a)) /\ UNCHANGED <<users, asked>>
    BY <1>2 DEF createPayment
  <2>. QED
    BY <2>1, <2>2, <2>3, <2>4, LaterInsertStep DEF NewRow, Attached
<1>. QED
  BY <1>1, <1>2

LEMMA SendingStep ==
  ASSUME IInv, NEW q \in Requests, NEW u \in Users, sendNotification(q, u)
  PROVE  IInv'
<1>1. /\ Notification \in RowSet /\ Notification.alive
      /\ Notification.list = "notifications" /\ Notification.user = None
  BY MadeNotification
<1>2. /\ Insert(Notification) /\ UNCHANGED <<users, asked>>
      /\ Goon(q, [op |-> "attach", row |-> Len(rows) + 1, user |-> u, wallet |-> None])
  BY DEF sendNotification
<1>. QED
  BY <1>1, <1>2, LaterInsertStep DEF NewRow, Attached

-----------------------------------------------------------------------------
(* Rows are changed                                                        *)

\* What every change of rows leaves as it is: wallets go only when asked for, or
\* with their user, and other rows only with their user.
Kept ==
  /\ rows' \in Seq(RowSet) /\ Rows' = Rows
  /\ \A i \in Rows :
       /\ rows'[i].list = rows[i].list /\ rows'[i].address = rows[i].address
       /\ rows'[i].kind = rows[i].kind
       /\ rows'[i].alive => rows[i].alive
       /\ rows[i].list \notin Attached => rows'[i].user = rows[i].user
       /\ rows[i].list = "wallets" /\ rows[i].alive =>
            \/ rows'[i].alive \/ rows[i].user \notin users'
            \/ <<rows[i].user, rows[i].address>> \in asked
       /\ rows[i].list # "wallets" /\ rows[i].user \in users' =>
            (rows[i].alive => rows'[i].alive) /\ rows'[i].user = rows[i].user

\* A change after which requests go on or end preserves the invariant, if a row that
\* still waits for its user has none.
LEMMA ChangeStep ==
  ASSUME IInv, Kept, users' \subseteq users, asked' = asked,
         req' \in [Requests -> Continuations],
         \A p \in Requests : req'[p] = req[p] \/ req'[p] = Idle,
         \A p \in Requests : req'[p].op = "attach" => rows'[req[p].row].user = None
  PROVE  IInv'
<1>1. ShapeInv'
  BY DEF IInv, ShapeInv, Kept
<1>2. AttachInv'
  <2>1. ASSUME NEW p \in Requests, req'[p].op = "attach"
        PROVE  req'[p] = req[p] /\ req[p].op = "attach" /\ rows'[req'[p].row].user = None
    <3>1. req'[p] = req[p]
      BY <2>1, Conts
    <3>. QED
      BY <2>1, <3>1
  <2>2. ASSUME NEW p \in Requests, req'[p].op = "attach"
        PROVE  req'[p].row \in Rows' /\ rows'[req'[p].row].list \in Attached
    <3>1. req'[p].row \in Rows /\ rows[req'[p].row].list \in Attached
      BY <2>1, <2>2 DEF IInv, AttachInv
    <3>. QED
      BY <3>1 DEF Kept
  <2>3. ASSUME NEW p \in Requests, req'[p].op = "attach",
               NEW r \in Requests \ {p}, req'[r].op = "attach"
        PROVE  req'[r].row # req'[p].row
    BY <2>1, <2>3 DEF IInv, AttachInv
  <2>. QED
    BY <2>1, <2>2, <2>3 DEF AttachInv
<1>3. FoundInv'
  <2> SUFFICES ASSUME NEW p \in Requests, req'[p].op \in {"deleteAdress", "update", "deleteContact"} PROVE
        /\ req'[p].row \in Rows'
        /\ req'[p].op = "deleteAdress" =>
             /\ rows'[req'[p].row].list = "wallets"
             /\ <<rows'[req'[p].row].user, rows'[req'[p].row].address>> \in asked'
        /\ req'[p].op = "deleteContact" => rows'[req'[p].row].list = "contacts"
    BY DEF FoundInv
  <2>1. req'[p] = req[p]
    BY Conts
  <2>2. req[p].row \in Rows
    BY <2>1 DEF IInv, FoundInv
  <2>3. /\ rows'[req[p].row].list = rows[req[p].row].list
        /\ rows'[req[p].row].address = rows[req[p].row].address
        /\ rows[req[p].row].list \notin Attached => rows'[req[p].row].user = rows[req[p].row].user
    BY <2>2 DEF Kept
  <2>4. /\ req[p].op = "deleteAdress" =>
             /\ rows[req[p].row].list = "wallets"
             /\ <<rows[req[p].row].user, rows[req[p].row].address>> \in asked
        /\ req[p].op = "deleteContact" => rows[req[p].row].list = "contacts"
    BY DEF IInv, FoundInv
  <2>5. "wallets" \notin Attached
    BY DEF Attached
  <2>6. Rows' = Rows
    BY DEF Kept
  <2>. QED
    BY <2>1, <2>2, <2>3, <2>4, <2>5, <2>6
<1>4. \A u \in users', a \in Addresses :
        /\ Donations(u, a) \subseteq Donations(u, a)'
        /\ \A i \in Donations(u, a) : rows'[i].kind = rows[i].kind
  BY DEF Donations, Of, Rows, Kept
<1>5. ReadInv'
  <2> SUFFICES ASSUME NEW p \in Requests, NEW k \in Continuations, req'[p] = k, Reading(k)'
               PROVE  Counts(k)'
    BY DEF ReadInv
  <2>1. req[p] = k
    BY Conts DEF Reading
  <2>2. Reading(k)
    BY DEF Reading
  <2>3. Counts(k)
    BY <2>1, <2>2 DEF IInv, ReadInv
  <2>. QED
    BY <1>4, <2>3, ReadingOn
<1>6. WalletsLeaveByOwner'
  BY DEF IInv, WalletsLeaveByOwner, Kept, Attached
<1>. QED
  BY <1>1, <1>2, <1>3, <1>5, <1>6 DEF IInv

LEMMA AttachStep == ASSUME IInv, NEW q \in Requests, attach(q) PROVE IInv'
<1> DEFINE k == req[q]
<1>1. /\ k.op = "attach" /\ k.row \in Rows /\ k.user \in Users /\ k.wallet \in Nat \union {None}
      /\ rows[k.row].list \in Attached /\ rows[k.row].user = None
  BY Conts DEF attach, IInv, ShapeInv, AttachInv
<1>2. \A i \in Rows : rows[i] \in RowSet
  BY DEF IInv, ShapeInv, Rows
<1>3. req' = [req EXCEPT ![q] = Idle] /\ UNCHANGED <<users, asked>>
  BY DEF attach, Goon
<1>4. Kept
  <2>1. CASE rows' = [rows EXCEPT ![k.row].user = k.user, ![k.row].wallet = k.wallet]
    <3> HIDE DEF k
    <3> DEFINE new == Link(rows[k.row], k.user, k.wallet)
    <3>3. /\ new \in RowSet
          /\ new.list = rows[k.row].list /\ new.address = rows[k.row].address
          /\ new.kind = rows[k.row].kind /\ new.alive = rows[k.row].alive
      BY <1>1, <1>2, Linked
    <3>4. rows' = [rows EXCEPT ![k.row] = new]
      BY <1>1, <2>1 DEF Rows, Link
    <3> HIDE DEF new
    <3>1. /\ rows' \in [Rows -> RowSet] /\ \A i \in Rows \ {k.row} : rows'[i] = rows[i]
          /\ rows'[k.row].list = rows[k.row].list /\ rows'[k.row].address = rows[k.row].address
          /\ rows'[k.row].kind = rows[k.row].kind /\ rows'[k.row].alive = rows[k.row].alive
      BY <1>1, <3>3, <3>4, Replaced DEF IInv, ShapeInv
    <3>2. rows' \in Seq(RowSet) /\ Rows' = Rows
      BY <3>1, Changed DEF IInv, ShapeInv, Rows
    <3>5. None \notin users'
      BY <1>3, BookAssumption DEF IInv, ShapeInv
    <3>. QED
      BY <1>1, <3>1, <3>2, <3>5 DEF Kept, Attached
  <2>2. CASE rows' = rows
    BY <2>2, <1>3 DEF Kept, IInv, ShapeInv, Rows
  <2>. QED
    BY <2>1, <2>2 DEF attach, Write
<1>5. \A p \in Requests \ {q} : req[p].op = "attach" => rows'[req[p].row].user = None
  <2>1. \A p \in Requests \ {q} : req[p].op = "attach" =>
          req[p].row \in Rows \ {k.row} /\ rows[req[p].row].user = None
    BY <1>1 DEF IInv, AttachInv
  <2>2. \A i \in Rows \ {k.row} : rows'[i] = rows[i]
    BY DEF attach, Write, IInv, ShapeInv, Rows
  <2>. QED
    BY <2>1, <2>2
<1>. QED
  BY <1>3, <1>4, <1>5, ChangeStep, Conts DEF IInv, ShapeInv

LEMMA UpdateStatusStep == ASSUME IInv, NEW i \in Rows, updateStatus(i) PROVE IInv'
<1>1. PICK s \in {"pending", "settled"} : rows' = [rows EXCEPT ![i].status = s]
  BY DEF updateStatus, Later, Write
<1>2. \A j \in Rows : rows[j] \in RowSet
  BY DEF IInv, ShapeInv, Rows
<1>3. /\ rows' \in [Rows -> RowSet] /\ \A j \in Rows \ {i} : rows'[j] = rows[j]
      /\ rows'[i].list = rows[i].list /\ rows'[i].address = rows[i].address
      /\ rows'[i].kind = rows[i].kind /\ rows'[i].alive = rows[i].alive
      /\ rows'[i].user = rows[i].user
  <2> DEFINE new == [rows[i] EXCEPT !.status = s]
  <2>1. /\ new \in RowSet
        /\ new.list = rows[i].list /\ new.address = rows[i].address
        /\ new.kind = rows[i].kind /\ new.alive = rows[i].alive /\ new.user = rows[i].user
    BY <1>1, <1>2 DEF RowSet
  <2>2. rows' = [rows EXCEPT ![i] = new]
    BY <1>1 DEF Rows
  <2> HIDE DEF new
  <2>. QED
    BY <2>1, <2>2, Replaced DEF IInv, ShapeInv
<1>4. rows' \in Seq(RowSet) /\ Rows' = Rows
  BY <1>3, Changed DEF IInv, ShapeInv, Rows
<1>5. UNCHANGED <<users, req, asked>>
  BY DEF updateStatus
<1>6. Kept
  BY <1>3, <1>4, <1>5 DEF Kept
<1>7. \A p \in Requests : req'[p].op = "attach" => rows'[req[p].row].user = None
  BY <1>3, <1>5 DEF IInv, AttachInv
<1>. QED
  BY <1>5, <1>6, <1>7, ChangeStep DEF IInv, ShapeInv

LEMMA UpdateStep == ASSUME IInv, NEW q \in Requests, update(q) PROVE IInv'
<1>1. req[q].op = "update"
  BY DEF update
<1>2. req' = [req EXCEPT ![q] = Idle] /\ UNCHANGED <<users, rows, asked>>
  BY DEF update, Goon
<1>3. Kept
  BY <1>2 DEF Kept, IInv, ShapeInv, Rows
<1>4. \A p \in Requests : req'[p].op = "attach" => rows'[req[p].row].user = None
  BY <1>1, <1>2, Conts DEF IInv, ShapeInv, AttachInv
<1>. QED
  BY <1>2, <1>3, <1>4, ChangeStep, Conts DEF IInv, ShapeInv

Left(row, a, w) == [row EXCEPT !.alive = a, !.wallet = w]

\* A row that goes, or whose wallet goes, is otherwise the same.
LEMMA Leaving ==
  ASSUME NEW row \in RowSet, NEW a \in BOOLEAN, NEW w \in Nat \union {None}
  PROVE  /\ Left(row, a, w) \in RowSet /\ Left(row, a, w).alive = a
         /\ Left(row, a, w).list = row.list /\ Left(row, a, w).address = row.address
         /\ Left(row, a, w).kind = row.kind /\ Left(row, a, w).user = row.user
BY DEF RowSet, Left

\* What Destroyed leaves of the rows.
LEMMA Gone ==
  ASSUME ShapeInv, NEW S \in SUBSET Rows
  PROVE  /\ Destroyed(S) \in [Rows -> RowSet]
         /\ \A i \in Rows :
              /\ Destroyed(S)[i].list = rows[i].list /\ Destroyed(S)[i].address = rows[i].address
              /\ Destroyed(S)[i].kind = rows[i].kind /\ Destroyed(S)[i].user = rows[i].user
              /\ Destroyed(S)[i].alive <=> rows[i].alive /\ i \notin S
<1>1. ASSUME NEW i \in Rows
      PROVE  /\ Destroyed(S)[i] \in RowSet
             /\ Destroyed(S)[i].list = rows[i].list /\ Destroyed(S)[i].address = rows[i].address
             /\ Destroyed(S)[i].kind = rows[i].kind /\ Destroyed(S)[i].user = rows[i].user
             /\ Destroyed(S)[i].alive <=> rows[i].alive /\ i \notin S
  <2> DEFINE a == rows[i].alive /\ i \notin S
             w == IF rows[i].wallet \in S THEN None ELSE rows[i].wallet
  <2>1. rows[i] \in RowSet
    BY DEF ShapeInv, Rows
  <2>2. w \in Nat \union {None}
    BY <2>1 DEF RowSet
  <2>3. a \in BOOLEAN
    OBVIOUS
  <2>4. Destroyed(S)[i] = Left(rows[i], a, w)
    BY DEF Destroyed, Left
  <2> HIDE DEF a, w
  <2>5. Destroyed(S)[i] \in RowSet /\ Destroyed(S)[i].alive = a
    BY <2>1, <2>2, <2>3, <2>4, Leaving
  <2>6. /\ Destroyed(S)[i].list = rows[i].list /\ Destroyed(S)[i].address = rows[i].address
        /\ Destroyed(S)[i].kind = rows[i].kind /\ Destroyed(S)[i].user = rows[i].user
    BY <2>1, <2>2, <2>3, <2>4, Leaving
  <2>. QED
    BY <2>5, <2>6 DEF a
<1>2. Destroyed(S) = [i \in Rows |-> Destroyed(S)[i]]
  BY DEF Destroyed
<1>. QED
  BY <1>1, <1>2

LEMMA DestroyStep ==
  ASSUME IInv, NEW q \in Requests, deleteAdress(q) \/ deleteContact(q)
  PROVE  IInv'
<1>1. PICK S \in SUBSET Rows :
        /\ rows' = Destroyed(S)
        /\ \A i \in S : rows[i].list = "wallets" /\ <<rows[i].user, rows[i].address>> \in asked
  <2>1. CASE deleteAdress(q)
    <3>1. req[q].op = "deleteAdress" /\ rows' = Destroyed({req[q].row})
      BY <2>1 DEF deleteAdress, Write
    <3>2. /\ req[q].row \in Rows /\ rows[req[q].row].list = "wallets"
          /\ <<rows[req[q].row].user, rows[req[q].row].address>> \in asked
      BY <3>1 DEF IInv, FoundInv
    <3>. QED
      BY <3>1, <3>2
  <2>2. CASE deleteContact(q)
    BY <2>2 DEF deleteContact, Write, IInv, FoundInv
  <2>. QED
    BY <2>1, <2>2
<1>2. req' = [req EXCEPT ![q] = Idle] /\ UNCHANGED <<users, asked>>
  BY DEF deleteAdress, deleteContact, Goon
<1>3. /\ rows' \in [Rows -> RowSet]
      /\ \A i \in Rows :
           /\ rows'[i].list = rows[i].list /\ rows'[i].address = rows[i].address
           /\ rows'[i].kind = rows[i].kind /\ rows'[i].user = rows[i].user
           /\ rows'[i].alive <=> rows[i].alive /\ i \notin S
  BY <1>1, Gone DEF IInv
<1>4. rows' \in Seq(RowSet) /\ Rows' = Rows
  BY <1>3, Changed DEF IInv, ShapeInv, Rows
<1>5. Kept
  BY <1>1, <1>2, <1>3, <1>4 DEF Kept
<1>6. \A p \in Requests : req'[p].op = "attach" => rows'[req[p].row].user = None
  BY <1>2, <1>3, Conts DEF IInv, ShapeInv, AttachInv
<1>. QED
  BY <1>2, <1>5, <1>6, ChangeStep, Conts DEF IInv, ShapeInv

LEMMA DeleteUserStep == ASSUME IInv, NEW u \in Users, deleteUser(u) PROVE IInv'
<1> DEFINE gone == {i \in Rows : rows[i].user = u /\ rows[i].list # "notifications"}
           f == [i \in Rows |->
                  IF rows[i].user = u /\ i \notin gone THEN [rows[i] EXCEPT !.user = None]
                  ELSE Destroyed(gone)[i]]
<1>1. rows' = f /\ users' = users \ {u} /\ UNCHANGED <<req, asked>>
  BY DEF deleteUser, Write
<1>2. \A i \in Rows : rows[i] \in RowSet
  BY DEF IInv, ShapeInv, Rows
<1>3. ASSUME NEW i \in Rows, rows[i].user = u, rows[i].list = "notifications"
      PROVE  f[i] = [rows[i] EXCEPT !.user = None]
  BY <1>3
<1>4. ASSUME NEW i \in Rows, ~(rows[i].user = u /\ rows[i].list = "notifications")
      PROVE  f[i] = Destroyed(gone)[i]
  BY <1>4
<1>5. f \in [Rows -> RowSet]
  <2>1. ASSUME NEW i \in Rows PROVE [rows[i] EXCEPT !.user = None] \in RowSet
    BY <1>2 DEF RowSet
  <2>2. Destroyed(gone) \in [Rows -> RowSet]
    BY Gone DEF IInv
  <2>. QED
    BY <2>1, <2>2
<1>6. rows' \in Seq(RowSet) /\ Rows' = Rows
  BY <1>1, <1>5, Changed DEF IInv, ShapeInv, Rows
<1>7. ASSUME NEW i \in Rows
      PROVE  /\ rows'[i].list = rows[i].list /\ rows'[i].address = rows[i].address
             /\ rows'[i].kind = rows[i].kind
             /\ rows'[i].alive => rows[i].alive
             /\ rows[i].list # "notifications" => rows'[i].user = rows[i].user
             /\ rows[i].user # u => (rows[i].alive => rows'[i].alive) /\ rows'[i].user = rows[i].user
  <2>1. CASE rows[i].user = u /\ rows[i].list = "notifications"
    BY <2>1, <1>1, <1>2, <1>3 DEF RowSet
  <2>2. CASE ~(rows[i].user = u /\ rows[i].list = "notifications")
    <3>1. /\ Destroyed(gone)[i].list = rows[i].list /\ Destroyed(gone)[i].address = rows[i].address
          /\ Destroyed(gone)[i].kind = rows[i].kind /\ Destroyed(gone)[i].user = rows[i].user
          /\ Destroyed(gone)[i].alive <=> rows[i].alive /\ i \notin gone
      BY Gone DEF IInv
    <3>. QED
      BY <2>2, <3>1, <1>1, <1>4
  <2>. QED
    BY <2>1, <2>2
<1> HIDE DEF gone, f
<1>8. Kept
  BY <1>1, <1>6, <1>7 DEF Kept, Attached
<1>9. \A p \in Requests : req'[p].op = "attach" => rows'[req[p].row].user = None
  <2>1. u # None
    BY BookAssumption
  <2>. QED
    BY <2>1, <1>1, <1>7 DEF IInv, AttachInv
<1>. QED
  BY <1>1, <1>8, <1>9, ChangeStep DEF IInv, ShapeInv

LEMMA CrashStep == ASSUME IInv, crash PROVE IInv'
<1>1. Kept
  BY DEF crash, Kept, IInv, ShapeInv, Rows
<1>2. req' \in [Requests -> Continuations] /\ \A p \in Requests : req'[p] = Idle
  BY Conts DEF crash
<1>. QED
  BY <1>1, <1>2, ChangeStep, Conts DEF crash

-----------------------------------------------------------------------------
(* Rows are looked up and read                                             *)

\* A request whose new continuation is as the invariant wants it.
LEMMA RequestStep ==
  ASSUME IInv, UNCHANGED <<users, rows>>, asked \subseteq asked',
         NEW q \in Requests, NEW k \in Continuations, Goon(q, k),
         k.op # "attach",
         k.op \in {"deleteAdress", "update", "deleteContact"} => k.row \in Rows,
         k.op = "deleteAdress" =>
           rows[k.row].list = "wallets" /\ <<rows[k.row].user, rows[k.row].address>> \in asked',
         k.op = "deleteContact" => rows[k.row].list = "contacts",
         Reading(k) => Counts(k)
  PROVE  IInv'
<1>1. req' \in [Requests -> Continuations] /\ req'[q] = k /\ \A p \in Requests \ {q} : req'[p] = req[p]
  BY DEF Goon, IInv, ShapeInv
<1>2. \A c : (Reading(c)' <=> Reading(c)) /\ (Counts(c) => Counts(c)')
  BY DEF Donations, Of, Reading, Counts
<1>3. ShapeInv' /\ AttachInv'
  BY <1>1 DEF IInv, ShapeInv, AttachInv, Rows
<1>4. FoundInv'
  BY <1>1 DEF IInv, FoundInv, Rows
<1>5. ReadInv'
  BY <1>1, <1>2 DEF IInv, ReadInv, Reading
<1>6. WalletsLeaveByOwner'
  BY DEF IInv, WalletsLeaveByOwner, Rows
<1>. QED
  BY <1>3, <1>4, <1>5, <1>6 DEF IInv

LEMMA Lookups ==
  ASSUME IInv, NEW i \in Rows, NEW op \in {"deleteAdress", "update", "deleteContact"}
  PROVE  [op |-> op, row |-> i] \in Continuations
<1>1. i \in Nat
  BY DEF IInv, ShapeInv, Rows
<1>. QED
  BY <1>1 DEF Continuations

LEMMA FindStep ==
  ASSUME IInv, NEW q \in Requests, NEW u \in Users, NEW i \in Rows,
         NEW op \in {"deleteAdress", "update", "deleteContact"}, Find(q, u, i, op),
         asked \subseteq asked',
         op = "deleteAdress" =>
           rows[i].list = "wallets" /\ <<rows[i].user, rows[i].address>> \in asked',
         op = "deleteContact" => rows[i].list = "contacts"
  PROVE  IInv'
<1> DEFINE k == [op |-> op, row |-> i]
<1>1. k \in Continuations /\ k.op = op /\ k.row = i
  BY Lookups
<1>2. Goon(q, k) /\ UNCHANGED <<users, rows>>
  BY DEF Find
<1>3. ~Reading(k) /\ k.op # "attach"
  BY <1>1 DEF Reading
<1> HIDE DEF k
<1>. QED
  BY <1>1, <1>2, <1>3, RequestStep

LEMMA WalletStep ==
  ASSUME IInv, NEW q \in Requests, NEW u \in Users, NEW a \in Addresses,
         deleteAdressFind(q, u, a) \/ updateLabelFind(q, u, a)
  PROVE  IInv'
<1>0. \A i \in WalletRows(u, a) :
        i \in Rows /\ rows[i].list = "wallets" /\ rows[i].user = u /\ rows[i].address = a
  BY DEF WalletRows, Of, Rows
<1>1. CASE deleteAdressFind(q, u, a)
  BY <1>0, <1>1, FindStep DEF deleteAdressFind
<1>2. CASE updateLabelFind(q, u, a)
  BY <1>0, <1>2, FindStep DEF updateLabelFind
<1>. QED
  BY <1>1, <1>2

LEMMA ContactStep ==
  ASSUME IInv, NEW q \in Requests, NEW u \in Users, NEW op \in {"update", "deleteContact"},
         contactFind(q, u, op)
  PROVE  IInv'
<1>1. \A i \in Of(rows, "contacts", u) : i \in Rows /\ rows[i].list = "contacts"
  BY DEF Of, Rows
<1>. QED
  BY <1>1, FindStep DEF contactFind

LEMMA DonationsAreRows == ASSUME IInv PROVE \A u, a : Donations(u, a) \in SUBSET Nat
BY DEF Donations, Of, IInv, ShapeInv

LEMMA HistoryStep ==
  ASSUME IInv, NEW q \in Requests, NEW u \in Users, NEW whose \in Users, NEW a \in Addresses,
         historyRows(q, u, whose, a)
  PROVE  IInv'
<1> DEFINE k == [op |-> "total", token |-> "MATIC", user |-> u, whose |-> whose,
                 address |-> a, rows |-> Donations(whose, a), total |-> {}]
<1>1. k \in Continuations
  BY DonationsAreRows DEF Continuations, Summed
<1>2. Goon(q, k) /\ UNCHANGED <<users, rows, asked>>
  BY DEF historyRows
<1>3. k.op = "total" /\ (Reading(k) => Counts(k))
  BY DEF Reading, Counts, Done
<1> HIDE DEF k
<1>. QED
  BY <1>1, <1>2, <1>3, RequestStep

LEMMA TotalStep == ASSUME IInv, NEW q \in Requests, historyTotal(q) PROVE IInv'
<1> DEFINE r == req[q]
           op == IF r.token = "MATIC" THEN "total" ELSE "answer"
           total == r.total \union Sum(r)
           k == [r EXCEPT !.op = op, !.token = "CHAT", !.total = total]
<1>1. /\ r.op = "total"
      /\ r \in [op : {"total", "answer"}, token : Summed, user : Users, whose : Users,
                address : Addresses, rows : SUBSET Nat, total : SUBSET Nat]
  BY Conts DEF historyTotal, IInv, ShapeInv
<1>2. Goon(q, k) /\ UNCHANGED <<users, rows, asked>>
  BY <1>1 DEF historyTotal
<1>3. op \in {"total", "answer"} /\ total \in SUBSET Nat /\ "CHAT" \in Summed
  BY <1>1, DonationsAreRows DEF Sum, Summed
<1> HIDE DEF op, total, r
<1>4. /\ k \in [op : {"total", "answer"}, token : Summed, user : Users, whose : Users,
                address : Addresses, rows : SUBSET Nat, total : SUBSET Nat]
      /\ k.op = op /\ k.token = "CHAT" /\ k.user = r.user /\ k.whose = r.whose
      /\ k.address = r.address /\ k.rows = r.rows /\ k.total = total
  BY <1>1, <1>3
<1> HIDE DEF k
<1>5. k \in Continuations
  BY <1>4 DEF Continuations
<1>6. ASSUME Reading(k) PROVE Counts(k)
  <2>1. Counts(r)
    <3>1. Reading(r)
      BY <1>1, <1>4, <1>6 DEF Reading
    <3>2. req[q] = r /\ r \in Continuations
      BY <1>1 DEF r, Continuations
    <3>. QED
      BY <3>1, <3>2 DEF IInv, ReadInv
  <2>2. ASSUME NEW i \in k.rows, rows[i].kind \in Done(k) PROVE i \in k.total
    <3>1. i \in Donations(r.user, r.address) /\ (rows[i].kind \in Done(r) => i \in r.total)
      BY <1>4, <2>1, <2>2 DEF Counts
    <3>2. r.token \in {"MATIC", "CHAT"} /\ rows[i].kind \in Done(r) \union {r.token}
      BY <1>1, <1>4, <2>2 DEF Done, Summed, op
    <3>. QED
      BY <1>4, <3>1, <3>2 DEF total, Sum
  <2>. QED
    BY <1>4, <2>1, <2>2 DEF Counts
<1>7. k.op \notin {"attach", "deleteAdress", "update", "deleteContact"}
  BY <1>3, <1>4
<1>. QED
  BY <1>2, <1>5, <1>6, <1>7, RequestStep

LEMMA AnswerStep == ASSUME IInv, NEW q \in Requests, answer(q) PROVE IInv'
BY Conts, RequestStep DEF answer, Reading

LEMMA NextIInv == IInv /\ [Next]_vars => IInv'
<1> SUFFICES ASSUME IInv, [Next]_vars PROVE IInv'
  OBVIOUS
<1>1. CASE UNCHANGED <<users, rows, req, asked>>
  BY <1>1 DEF IInv, ShapeInv, AttachInv, FoundInv, ReadInv, Reading, Counts, WalletsLeaveByOwner,
              Rows, Donations, Of
<1>2. (\E f \in Queries : startWalk(f)) \/ nextPage \/ UNCHANGED vars => UNCHANGED <<users, rows, req, asked>>
  BY DEF startWalk, nextPage, vars
<1>3. CASE \E u \in Users, a \in Addresses :
        \/ addUserAddress(u, a) \/ addNewContact(u, a) \/ createSwap(u, a)
        \/ \E q \in Requests :
             \/ \E kind \in Donated \union {"transfer"} : createTransfer(q, u, a, kind)
             \/ createPayment(q, u, a)
             \/ deleteAdressFind(q, u, a) \/ updateLabelFind(q, u, a)
             \/ \E whose \in Users : historyRows(q, u, whose, a)
  BY <1>3, MakingStep, MakingLaterStep, WalletStep, HistoryStep
<1>4. CASE \E q \in Requests : \E u \in Users :
        sendNotification(q, u) \/ contactFind(q, u, "update") \/ contactFind(q, u, "deleteContact")
  BY <1>4, SendingStep, ContactStep
<1>5. CASE \E q \in Requests :
        \/ attach(q) \/ deleteAdress(q) \/ update(q) \/ deleteContact(q)
        \/ historyTotal(q) \/ answer(q)
  BY <1>5, AttachStep, DestroyStep, UpdateStep, TotalStep, AnswerStep
<1>. QED
  BY <1>1, <1>2, <1>3, <1>4, <1>5, UpdateStatusStep, DeleteUserStep, CrashStep DEF Next

LEMMA Invariance == Spec => []IInv
BY InitIInv, NextIInv, PTL DEF Spec

-----------------------------------------------------------------------------
(* Pages                                                                   *)

\* How many rows of a list come before row i on its pages.
Newer(S, i) == Cardinality({j \in S : j > i})

\* Of two rows of a list, fewer come before the newer one; and the fewer rows a list
\* has, the fewer come before any.
LEMMA NewerCounts ==
  ASSUME NEW S \in SUBSET Nat, IsFiniteSet(S), NEW i \in Nat
  PROVE  /\ IsFiniteSet({j \in S : j > i})
         /\ Newer(S, i) \in Nat
         /\ \A j \in S : j > i => Newer(S, j) < Newer(S, i)
         /\ \A T \in SUBSET S : Newer(T, i) <= Newer(S, i)
<1> DEFINE After(T, k) == {j \in T : j > k}
<1>1. IsFiniteSet(After(S, i)) /\ Newer(S, i) \in Nat
  <2>1. After(S, i) \in SUBSET S
    OBVIOUS
  <2>. QED
    BY <2>1, FS_Subset, FS_CardinalityType DEF Newer
<1>2. ASSUME NEW j \in S, j > i PROVE Newer(S, j) < Newer(S, i)
  <2>1. After(S, j) \in SUBSET After(S, i) /\ j \in After(S, i) /\ j \notin After(S, j)
    <3>1. S \subseteq Int /\ i \in Int /\ j \in Int /\ j > i
      BY <1>2
    <3>2. \A k \in S : k > j => k > i
      BY <3>1
    <3>3. After(S, j) \subseteq After(S, i)
      BY <3>2
    <3>4. ~(j > j)
      BY <3>1
    <3>. QED
      BY <3>1, <3>3, <3>4
  <2>2. After(S, j) # After(S, i)
    BY <2>1
  <2> HIDE DEF After
  <2>3. /\ Cardinality(After(S, j)) <= Cardinality(After(S, i))
        /\ Cardinality(After(S, i)) # Cardinality(After(S, j))
        /\ IsFiniteSet(After(S, j))
    BY <1>1, <2>1, <2>2, FS_Subset
  <2>4. Cardinality(After(S, j)) \in Nat /\ Cardinality(After(S, i)) \in Nat
    BY <1>1, <2>3, FS_CardinalityType
  <2>. QED
    BY <2>3, <2>4 DEF Newer, After
<1>3. ASSUME NEW T \in SUBSET S PROVE Newer(T, i) <= Newer(S, i)
  <2>1. After(T, i) \in SUBSET After(S, i)
    OBVIOUS
  <2> HIDE DEF After
  <2>2. Cardinality(After(T, i)) <= Cardinality(After(S, i))
    BY <1>1, <2>1, FS_Subset
  <2>. QED
    BY <2>2 DEF Newer, After
<1>. QED
  BY <1>1, <1>2, <1>3

\* Every number below the number of rows before i is the number before one of them.
LEMMA EveryPlaceIsTaken ==
  ASSUME NEW S \in SUBSET Nat, IsFiniteSet(S), NEW i \in Nat,
         NEW n \in Nat, n < Newer(S, i)
  PROVE  \E j \in S : j > i /\ Newer(S, j) = n
<1> DEFINE D == {j \in S : j > i}
           c == Newer(S, i)
           f == [j \in D |-> Newer(S, j)]
<1>1. IsFiniteSet(D) /\ c \in Nat /\ Cardinality(D) = c
  BY NewerCounts DEF Newer
<1>2. f \in [D -> 0..(c - 1)]
  <2> SUFFICES ASSUME NEW j \in D PROVE Newer(S, j) \in 0..(c - 1)
    OBVIOUS
  <2>1. Newer(S, j) \in Nat /\ Newer(S, j) < c
    BY NewerCounts
  <2>. QED
    BY <1>1, <2>1
<1>3. ASSUME NEW j \in D, NEW k \in D, j # k PROVE f[j] # f[k]
  <2>1. Newer(S, j) \in Nat /\ Newer(S, k) \in Nat
    BY NewerCounts
  <2>2. j > k => Newer(S, j) < Newer(S, k)
    BY NewerCounts
  <2>3. k > j => Newer(S, k) < Newer(S, j)
    BY NewerCounts
  <2>. QED
    BY <1>3, <2>1, <2>2, <2>3
<1> HIDE DEF f
<1>4. f \in Injection(D, 0..(c - 1))
  BY <1>2, <1>3 DEF Injection, IsInjective
<1>5. IsFiniteSet(0..(c - 1)) /\ Cardinality(0..(c - 1)) = c
  <2>1. 0 \in Int /\ c - 1 \in Int /\ (0 > c - 1 <=> c = 0) /\ c - 1 - 0 + 1 = c
    BY <1>1
  <2>. QED
    BY <2>1, FS_Interval
<1>6. f \in Surjection(D, 0..(c - 1))
  BY <1>1, <1>4, <1>5, FS_Injection
<1>7. PICK j \in D : f[j] = n
  BY <1>1, <1>6 DEF Surjection
<1>. QED
  BY <1>7 DEF f

LEMMA Quotients ==
  ASSUME NEW a \in Nat, NEW b \in Nat \ {0}, NEW c \in Nat
  PROVE  /\ a \div b = c => c * b <= a /\ a < (c + 1) * b
         /\ c * b <= a /\ a < (c + 1) * b => a \div b = c
  OBVIOUS

\* A page that rows come after is full.
LEMMA FullPage ==
  ASSUME NEW S \in SUBSET Nat, IsFiniteSet(S), NEW i \in Nat,
         NEW p \in Nat \ {0}, Newer(S, i) >= p * Limit
  PROVE  Cardinality(Page(S, p)) >= Limit
<1> DEFINE low == (p - 1) * Limit
           T == low..(low + Limit - 1)
           g == [j \in Page(S, p) |-> Newer(S, j)]
<1>1. Limit \in Nat \ {0} /\ low \in Nat /\ low + Limit = p * Limit
  BY BookAssumption
<1>2. IsFiniteSet(Page(S, p)) /\ Page(S, p) \in SUBSET S
  BY FS_Subset DEF Page
<1>3. \A j \in S : j \in Page(S, p) <=> Newer(S, j) \in T
  <2> SUFFICES ASSUME NEW j \in S PROVE Newer(S, j) \div Limit = p - 1 <=> Newer(S, j) \in T
    BY DEF Page, Newer
  <2>1. Newer(S, j) \in Nat
    BY NewerCounts
  <2>. QED
    <3>1. p - 1 \in Nat /\ (p - 1 + 1) * Limit = low + Limit /\ low = (p - 1) * Limit
      BY <1>1
    <3> HIDE DEF low
    <3>2. Newer(S, j) \div Limit = p - 1 <=> low <= Newer(S, j) /\ Newer(S, j) < low + Limit
      <4> DEFINE n == Newer(S, j)
                 c == p - 1
      <4>1. /\ n \div Limit = c => c * Limit <= n /\ n < (c + 1) * Limit
            /\ c * Limit <= n /\ n < (c + 1) * Limit => n \div Limit = c
        <5> HIDE DEF n, c
        <5>. QED
          BY <1>1, <2>1, <3>1, Quotients DEF n, c
      <4>. QED
        BY <4>1, <3>1
    <3>. QED
      BY <1>1, <2>1, <3>2
<1>4. \A n \in T : \E j \in Page(S, p) : Newer(S, j) = n
  <2> SUFFICES ASSUME NEW n \in T PROVE \E j \in Page(S, p) : Newer(S, j) = n
    OBVIOUS
  <2>1. n \in Nat /\ n < Newer(S, i)
    <3>1. Newer(S, i) \in Nat /\ low + Limit <= Newer(S, i)
      BY <1>1, NewerCounts
    <3> HIDE DEF low
    <3>. QED
      BY <1>1, <3>1
  <2>. QED
    BY <1>3, <2>1, EveryPlaceIsTaken
<1>5. g \in Surjection(Page(S, p), T)
  BY <1>2, <1>3, <1>4 DEF Surjection
<1>6. Cardinality(T) <= Cardinality(Page(S, p))
  BY <1>2, <1>5, FS_Surjection
<1>7. Cardinality(T) = Limit
  BY <1>1, FS_Interval
<1>. QED
  BY <1>1, <1>2, <1>6, <1>7, FS_CardinalityType

Walks ==
  [on : {TRUE}, query : Queries, wallet : Nat \union {None}, page : Nat \ {0},
   done : BOOLEAN, seen : SUBSET Nat, twice : SUBSET Nat, left : BOOLEAN,
   joined : BOOLEAN, stay : SUBSET Nat]

WalkShape == walk = NoWalk \/ walk \in Walks

\* The list the client reads, as it is now.
Current == Listed(rows, walk.query, walk.wallet)

\* Rows that stayed and were not shown yet are still to come, unless a row left.
StayersCome ==
  /\ walk.stay \subseteq Current
  /\ \/ walk.left
     \/ \A i \in walk.stay : \/ i \in walk.seen
                             \/ ~walk.done /\ Newer(Current, i) >= (walk.page - 1) * Limit

\* Rows that were shown are on the pages that were read, unless a row joined.
ShownIsBehind ==
  \/ walk.joined
  \/ /\ walk.twice = {}
     /\ \A i \in walk.seen \intersect Current : Newer(Current, i) < (walk.page - 1) * Limit

PageInv == WalkShape /\ (walk.on => StayersCome /\ ShownIsBehind)

\* The rows of a list are rows there are.
LEMMA ListedAreRows ==
  ASSUME NEW rs \in Seq(RowSet), NEW f, NEW w
  PROVE  Listed(rs, f, w) \in SUBSET Nat /\ IsFiniteSet(Listed(rs, f, w))
<1>1. DOMAIN rs = 1..Len(rs) /\ Len(rs) \in Nat
  OBVIOUS
<1>2. IsFiniteSet(DOMAIN rs) /\ DOMAIN rs \in SUBSET Nat
  BY <1>1, FS_Interval
<1>3. Listed(rs, f, w) \in SUBSET DOMAIN rs
  BY DEF Listed, getAllUserTransfersWithFilter, getAllUserPaymentsWithFilter,
         getAllUserNotificationsWithFilter, getAllContacts, Of
<1>. QED
  BY <1>2, <1>3, FS_Subset

LEMMA OnIsWalk ==
  ASSUME WalkShape, walk.on
  PROVE  walk \in Walks
BY DEF WalkShape, NoWalk

\* The client looks on while rows change.
LEMMA WatchStep ==
  ASSUME rows \in Seq(RowSet), rows' \in Seq(RowSet), PageInv, walk' = Watched(rows')
  PROVE  PageInv'
<1>1. CASE ~walk.on
  <2>1. walk' = walk
    BY <1>1 DEF Watched
  <2>. QED
    BY <1>1, <2>1 DEF PageInv, WalkShape
<1>2. CASE walk.on
  <2> DEFINE before == Current
             after == Listed(rows', walk.query, walk.wallet)
  <2>1. walk \in Walks /\ StayersCome /\ ShownIsBehind
    BY <1>2, OnIsWalk DEF PageInv
  <2>2. walk' = [walk EXCEPT !.left = @ \/ before \ after # {},
                             !.joined = @ \/ after \ before # {},
                             !.stay = @ \intersect after]
    BY <1>2 DEF Watched, Current
  <2>3. /\ before \in SUBSET Nat /\ IsFiniteSet(before)
        /\ after \in SUBSET Nat /\ IsFiniteSet(after)
    BY ListedAreRows DEF Current
  <2> HIDE DEF before, after
  <2>4. /\ walk'.on /\ walk'.query = walk.query /\ walk'.wallet = walk.wallet
        /\ walk'.page = walk.page /\ walk'.done = walk.done /\ walk'.seen = walk.seen
        /\ walk'.twice = walk.twice /\ walk'.stay = walk.stay \intersect after
    BY <2>1, <2>2 DEF Walks
  <2>5. walk'.left <=> walk.left \/ before \ after # {}
    BY <2>1, <2>2 DEF Walks
  <2>6. walk'.joined <=> walk.joined \/ after \ before # {}
    BY <2>1, <2>2 DEF Walks
  <2>7. walk' \in Walks
    BY <2>1, <2>2, <2>3 DEF Walks
  <2>8. Current' = after
    BY <2>4 DEF Current, after
  <2>9. walk.page \in Nat \ {0} /\ (walk.page - 1) * Limit \in Nat
    BY <2>1, BookAssumption DEF Walks
  <2>10. StayersCome'
    <3>1. CASE walk'.left
      BY <3>1, <2>4, <2>8 DEF StayersCome
    <3>2. CASE ~walk'.left
      <4>1. ~walk.left /\ before \subseteq after
        BY <3>2, <2>5
      <4>2. ASSUME NEW i \in walk.stay \intersect after, i \notin walk.seen
            PROVE  ~walk.done /\ Newer(after, i) >= (walk.page - 1) * Limit
        <5>1. ~walk.done /\ Newer(before, i) >= (walk.page - 1) * Limit
          BY <4>1, <4>2, <2>1 DEF StayersCome, before
        <5>2. /\ Newer(before, i) \in Nat /\ Newer(after, i) \in Nat
              /\ Newer(before, i) <= Newer(after, i)
          BY <4>1, <2>3, NewerCounts
        <5>. QED
          BY <5>1, <5>2, <2>9
      <4>. QED
        BY <4>2, <2>4, <2>8 DEF StayersCome
    <3>. QED
      BY <3>1, <3>2
  <2>11. ShownIsBehind'
    <3>1. CASE ~walk'.joined
      <4>1. ~walk.joined /\ after \subseteq before
        BY <3>1, <2>6
      <4>2. ASSUME NEW i \in walk.seen \intersect after
            PROVE  Newer(after, i) < (walk.page - 1) * Limit
        <5>1. Newer(before, i) < (walk.page - 1) * Limit
          BY <4>1, <2>1 DEF ShownIsBehind, before
        <5>2. /\ Newer(before, i) \in Nat /\ Newer(after, i) \in Nat
              /\ Newer(after, i) <= Newer(before, i)
          BY <4>1, <2>3, NewerCounts
        <5>. QED
          BY <5>1, <5>2, <2>9
      <4>3. walk.twice = {}
        BY <4>1, <2>1 DEF ShownIsBehind
      <4>. QED
        BY <4>2, <4>3, <2>4, <2>8 DEF ShownIsBehind
    <3>. QED
      BY <3>1 DEF ShownIsBehind
  <2>. QED
    BY <2>7, <2>10, <2>11 DEF PageInv, WalkShape
<1>. QED
  BY <1>1, <1>2

\* A page is read.
LEMMA NextPageStep ==
  ASSUME rows \in Seq(RowSet), PageInv, nextPage
  PROVE  PageInv'
<1> DEFINE S == Current
           got == Page(S, walk.page)
           p == walk.page
<1>1. walk \in Walks /\ StayersCome /\ ShownIsBehind /\ ~walk.done
  BY OnIsWalk DEF PageInv, nextPage
<1>2. /\ walk' = [walk EXCEPT !.page = @ + 1, !.seen = @ \union got,
                             !.twice = @ \union (walk.seen \intersect got),
                             !.done = Cardinality(got) < Limit]
      /\ rows' = rows
  BY DEF nextPage, Current
<1>3. S \in SUBSET Nat /\ IsFiniteSet(S)
  BY ListedAreRows DEF Current
<1>4. got \in SUBSET S
  BY DEF Page
<1>5. p \in Nat \ {0} /\ Limit \in Nat \ {0} /\ walk.seen \in SUBSET Nat /\ walk.twice \in SUBSET Nat
  BY <1>1, BookAssumption DEF Walks
<1>6. (p - 1) * Limit \in Nat /\ p * Limit = (p - 1) * Limit + Limit /\ p + 1 - 1 = p
  BY <1>5
<1>7. \A i \in S : i \in got <=> (p - 1) * Limit <= Newer(S, i) /\ Newer(S, i) < p * Limit
  <2> SUFFICES ASSUME NEW i \in S
               PROVE  Newer(S, i) \div Limit = p - 1 <=>
                        (p - 1) * Limit <= Newer(S, i) /\ Newer(S, i) < p * Limit
    BY DEF Page, Newer
  <2>1. Newer(S, i) \in Nat /\ p - 1 \in Nat /\ p - 1 + 1 = p
    <3>1. Newer(S, i) \in Nat
      BY <1>3, NewerCounts
    <3> HIDE DEF p, S
    <3>. QED
      BY <1>5, <3>1
  <2> DEFINE n == Newer(S, i)
             c == p - 1
  <2>2. /\ n \div Limit = c => c * Limit <= n /\ n < (c + 1) * Limit
        /\ c * Limit <= n /\ n < (c + 1) * Limit => n \div Limit = c
    <3> HIDE DEF n, c
    <3>. QED
      BY <1>5, <2>1, Quotients DEF n, c
  <2>. QED
    BY <2>1, <2>2
<1> HIDE DEF S, got, p
<1>8. /\ walk'.on /\ walk'.query = walk.query /\ walk'.wallet = walk.wallet
      /\ walk'.page = p + 1 /\ walk'.seen = walk.seen \union got
      /\ walk'.twice = walk.twice \union (walk.seen \intersect got)
      /\ walk'.stay = walk.stay
  BY <1>1, <1>2 DEF Walks, p
<1>9. /\ walk'.left <=> walk.left
      /\ walk'.joined <=> walk.joined
      /\ walk'.done <=> Cardinality(got) < Limit
  BY <1>1, <1>2 DEF Walks
<1>10. walk' \in Walks
  <2>1. p + 1 \in Nat \ {0} /\ got \in SUBSET Nat /\ (Cardinality(got) < Limit) \in BOOLEAN
    BY <1>3, <1>4, <1>5
  <2>. QED
    BY <1>1, <1>2, <2>1 DEF Walks, p
<1>11. Current' = S
  BY <1>2, <1>8 DEF S, Current
<1>12. walk'.page - 1 = p
  BY <1>5, <1>8
<1>13. StayersCome'
  <2>1. CASE walk.left
    BY <2>1, <1>1, <1>8, <1>9, <1>11 DEF StayersCome, S
  <2>2. CASE ~walk.left
    <3>1. ASSUME NEW i \in walk.stay, i \notin walk.seen, i \notin got
          PROVE  ~(Cardinality(got) < Limit) /\ Newer(S, i) >= p * Limit
      <4>1. i \in S /\ i \in Nat /\ Newer(S, i) >= (p - 1) * Limit
        BY <3>1, <2>2, <1>1, <1>3 DEF StayersCome, S, p
      <4>2. Newer(S, i) \in Nat
        BY <4>1, <1>3, NewerCounts
      <4>3. Newer(S, i) >= p * Limit
        BY <3>1, <4>1, <4>2, <1>5, <1>6, <1>7
      <4>4. Cardinality(got) >= Limit
        BY <4>1, <4>3, <1>3, <1>5, FullPage DEF got, p
      <4>5. Cardinality(got) \in Nat
        BY <1>3, <1>4, FS_Subset, FS_CardinalityType
      <4>. QED
        BY <4>3, <4>4, <4>5, <1>5
    <3>2. walk.stay \subseteq S
      BY <1>1 DEF StayersCome, S
    <3>. QED
      BY <3>1, <3>2, <1>8, <1>9, <1>11, <1>12 DEF StayersCome
  <2>. QED
    BY <2>1, <2>2
<1>14. ShownIsBehind'
  <2>1. CASE ~walk.joined
    <3>1. walk.twice = {} /\ \A i \in walk.seen \intersect S : Newer(S, i) < (p - 1) * Limit
      BY <2>1, <1>1 DEF ShownIsBehind, S, p
    <3>2. \A i \in S : Newer(S, i) \in Nat
      BY <1>3, NewerCounts
    <3>3. walk.seen \intersect got = {}
      BY <3>1, <3>2, <1>4, <1>6, <1>7
    <3>4. \A i \in (walk.seen \union got) \intersect S : Newer(S, i) < p * Limit
      BY <3>1, <3>2, <1>5, <1>6, <1>7
    <3>. QED
      BY <3>1, <3>3, <3>4, <1>8, <1>11, <1>12 DEF ShownIsBehind
  <2>. QED
    BY <2>1, <1>9 DEF ShownIsBehind
<1>. QED
  BY <1>10, <1>13, <1>14 DEF PageInv, WalkShape

\* A client begins.
LEMMA StartWalkStep ==
  ASSUME rows \in Seq(RowSet), PageInv, NEW f \in Queries, startWalk(f)
  PROVE  PageInv'
<1>1. PICK w \in (IF f.list = "payments" THEN WalletRows(f.user, f.address) ELSE {None}) :
        walk' = [on |-> TRUE, query |-> f, wallet |-> w, page |-> 1, done |-> FALSE,
                 seen |-> {}, twice |-> {}, left |-> FALSE, joined |-> FALSE,
                 stay |-> Listed(rows, f, w)]
  BY DEF startWalk
<1>2. rows' = rows
  BY DEF startWalk
<1> DEFINE S == Listed(rows, f, w)
<1>3. S \in SUBSET Nat /\ IsFiniteSet(S)
  BY ListedAreRows
<1>4. w \in Nat \union {None}
  BY DEF WalletRows, Of
<1>5. Current' = S
  BY <1>1, <1>2 DEF Current
<1> HIDE DEF S
<1>6. walk' \in Walks
  BY <1>1, <1>3, <1>4 DEF Walks, S
<1>7. /\ walk'.page = 1 /\ walk'.seen = {} /\ walk'.twice = {} /\ walk'.stay = S /\ ~walk'.done
  BY <1>1 DEF S
<1>8. ASSUME NEW i \in S PROVE Newer(S, i) >= (1 - 1) * Limit
  <2>1. Newer(S, i) \in Nat
    BY <1>3, NewerCounts
  <2>2. Limit \in Nat /\ (1 - 1) * Limit = 0
    BY BookAssumption
  <2>. QED
    BY <2>1, <2>2
<1>9. StayersCome' /\ ShownIsBehind'
  BY <1>5, <1>7, <1>8 DEF StayersCome, ShownIsBehind
<1>. QED
  BY <1>6, <1>9 DEF PageInv, WalkShape

\* What a step does to the client: a page, or what changes meanwhile.
LEMMA WalkSteps ==
  ASSUME [Next]_vars
  PROVE  \/ walk' = Watched(rows')
         \/ nextPage \/ (\E f \in Queries : startWalk(f))
         \/ UNCHANGED <<rows, walk>>
<1>1. ASSUME NEW u \in Users, NEW a \in Addresses,
             addUserAddress(u, a) \/ addNewContact(u, a) \/ createSwap(u, a)
      PROVE  walk' = Watched(rows')
  BY <1>1 DEF addUserAddress, addNewContact, createSwap, Insert, Write
<1>2. ASSUME NEW u \in Users, NEW a \in Addresses, NEW q \in Requests,
             \/ \E kind \in Donated \union {"transfer"} : createTransfer(q, u, a, kind)
             \/ createPayment(q, u, a)
      PROVE  walk' = Watched(rows')
  BY <1>2 DEF createTransfer, createPayment, sendNotification, Insert, Write
<1>3. ASSUME NEW u \in Users, NEW q \in Requests, sendNotification(q, u)
      PROVE  walk' = Watched(rows')
  BY <1>3 DEF sendNotification, Insert, Write
<1>4. ASSUME NEW u \in Users, NEW a \in Addresses, NEW q \in Requests,
             \/ deleteAdressFind(q, u, a) \/ updateLabelFind(q, u, a)
             \/ \E whose \in Users : historyRows(q, u, whose, a)
      PROVE  UNCHANGED <<rows, walk>>
  BY <1>4 DEF deleteAdressFind, updateLabelFind, historyRows, Find
<1>5. ASSUME NEW u \in Users, NEW q \in Requests,
             contactFind(q, u, "update") \/ contactFind(q, u, "deleteContact")
      PROVE  UNCHANGED <<rows, walk>>
  BY <1>5 DEF contactFind, Find
<1>6. ASSUME NEW q \in Requests, attach(q)
      PROVE  walk' = Watched(rows') \/ UNCHANGED <<rows, walk>>
  BY <1>6 DEF attach, Write
<1>7. ASSUME NEW q \in Requests, deleteAdress(q) \/ deleteContact(q)
      PROVE  walk' = Watched(rows')
  BY <1>7 DEF deleteAdress, deleteContact, Write
<1>8. ASSUME NEW q \in Requests, update(q) \/ historyTotal(q) \/ answer(q)
      PROVE  UNCHANGED <<rows, walk>>
  BY <1>8 DEF update, historyTotal, answer
<1>9. ASSUME NEW i \in Rows, updateStatus(i) PROVE walk' = Watched(rows')
  BY <1>9 DEF updateStatus, Write
<1>10. ASSUME NEW u \in Users, deleteUser(u) PROVE walk' = Watched(rows')
  BY <1>10 DEF deleteUser, Write
<1>11. crash \/ UNCHANGED vars => UNCHANGED <<rows, walk>>
  BY DEF crash, vars
<1>. QED
  BY <1>1, <1>2, <1>3, <1>4, <1>5, <1>6, <1>7, <1>8, <1>9, <1>10, <1>11 DEF Next

LEMMA NextPageInv ==
  ASSUME rows \in Seq(RowSet), rows' \in Seq(RowSet), PageInv, [Next]_vars
  PROVE  PageInv'
<1>1. CASE UNCHANGED <<rows, walk>>
  BY <1>1 DEF PageInv, WalkShape, StayersCome, ShownIsBehind, Current
<1>. QED
  BY <1>1, WalkSteps, WatchStep, NextPageStep, StartWalkStep

LEMMA PagesInvariance == Spec => []PageInv
<1>1. Init => PageInv
  BY DEF Init, PageInv, WalkShape, NoWalk
<1>2. IInv /\ IInv' /\ PageInv /\ [Next]_vars => PageInv'
  BY NextPageInv DEF IInv, ShapeInv
<1>. QED
  BY <1>1, <1>2, Invariance, PTL DEF Spec

-----------------------------------------------------------------------------
(* The theorems                                                            *)

\* The MATIC and CHAT donations a history shows of the user who asks are in its totals,
\* for any number of statements in between (getAllUserTransfersWithFilter).
THEOREM Counted == Spec => []ListedAreCounted
<1>1. ASSUME IInv PROVE ListedAreCounted
  <2> SUFFICES ASSUME NEW q \in Requests, NEW k \in Continuations, req[q] = k,
                      k.op = "answer", k.user \in users, k.whose = k.user
               PROVE  {i \in k.rows : rows[i].kind \in Summed} \subseteq k.total
    BY <1>1 DEF IInv, ShapeInv, ListedAreCounted
  <2>. QED
    BY <1>1 DEF IInv, ReadInv, Reading, Counts, Done
<1>. QED
  BY <1>1, Invariance, PTL

\* A wallet is gone only at the wish of its own user, or with him (deleteAdress,
\* deleteContact).
THEOREM WalletsLeave == Spec => []WalletsLeaveByOwner
<1>1. IInv => WalletsLeaveByOwner
  BY DEF IInv
<1>. QED
  BY <1>1, Invariance, PTL

\* Offset and limit: a row that was in the list all the time is missed only if another
\* left it meanwhile, and shown twice only if another joined it, for any size of page
\* and any number of rows and of writes between two pages.
THEOREM Pages == Spec => []PagesAreExact
<1>1. IInv /\ PageInv => PagesAreExact
  BY DEF PageInv, StayersCome, ShownIsBehind, PagesAreExact
<1>. QED
  BY <1>1, Invariance, PagesInvariance, PTL
=============================================================================

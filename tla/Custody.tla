------------------------------- MODULE Custody -------------------------------
(***************************************************************************)
(* Operations on custody wallets: the backend holds the key, builds, signs *)
(* and broadcasts the transaction itself, waits for its receipt and then   *)
(* records it (transferCust, donationCust, donationToAllCust, swapCust).   *)
(* Requests for one wallet run concurrently, each takes its nonce from the *)
(* number of transactions the chain has mined for the wallet; nothing else *)
(* co-ordinates them.  An operation is one HTTP request.                   *)
(***************************************************************************)
EXTENDS Integers, Sums

CONSTANTS
  Ops,            \* requests
  Accounts,       \* custody wallets
  Wallet,         \* Wallet[r]: the wallet request r is for
  Kind,           \* Kind[r]: what it asks for
  Amount,         \* Amount[r]: tokens it moves
  Funds           \* Funds[a]: tokens wallet a holds at first

SwapKinds == {"EthToErc20", "Erc20ToEth", "Erc20ToErc20"}
DonationKinds == {"donation", "donationToAll"}
Legs == {"approve", "pay"}

ASSUME CustodyAssumption ==
  /\ Wallet \in [Ops -> Accounts]
  /\ Kind \in [Ops -> {"transfer"} \union DonationKinds \union SwapKinds]
  /\ Amount \in [Ops -> Nat]
  /\ Funds \in [Accounts -> Nat]

VARIABLES
  pc,        \* where each handler is
  leg,       \* the transaction it is about to send or is waiting for
  nonce,     \* the nonce it will sign that transaction with
  pool,      \* transactions the node has accepted and not mined
  count,     \* getTransactionCount: transactions mined per wallet
  tokens,    \* balanceOf
  allowed,   \* contracts with enough allowance from the wallet
  receipt,   \* receipts of the transactions, by request and leg
  recorded,  \* requests with a row in users_transfers or users_swaps
  attached   \* those rows that carry a userId

custodyVars == <<pc, leg, nonce, pool, count, tokens, allowed, receipt, recorded, attached>>
chainVars == <<pool, count, tokens, allowed, receipt>>

Ended == {"done", "error", "lost"}
Spenders == {"organization", "factory", "router"}
Spender(r) == IF Kind[r] = "donation" THEN "organization"
              ELSE IF Kind[r] = "donationToAll" THEN "factory" ELSE "router"
Tx(r) == [op |-> r, leg |-> leg[r], nonce |-> nonce[r]]
Sender(tx) == Wallet[tx.op]

Goto(r, l) == pc' = [pc EXCEPT ![r] = l]

-----------------------------------------------------------------------------
(* The handlers                                                            *)

\* transferCust estimates first and takes its nonce last; donationCust takes
\* its nonce first; swapCust looks at the balances first.
Start(r) ==
  /\ pc[r] = "idle"
  /\ Goto(r, IF Kind[r] = "transfer" THEN "estimate"
             ELSE IF Kind[r] \in DonationKinds THEN "nonce" ELSE "allowance")
  /\ UNCHANGED <<leg, nonce, chainVars, recorded, attached>>

\* getAllowanceAndBalance refuses an amount that is not below the balance, and
\* asks for an approval where the allowance is not enough; a swap of the native
\* coin needs neither.
getAllowanceAndBalance(r) ==
  LET native == Kind[r] = "EthToErc20" IN
  /\ Kind[r] \in SwapKinds
  /\ pc[r] = "allowance"
  /\ leg' = [leg EXCEPT
       ![r] = IF native \/ Spender(r) \in allowed[Wallet[r]] THEN "pay" ELSE "approve"]
  /\ Goto(r, IF native \/ Amount[r] < tokens[Wallet[r]] THEN "nonce" ELSE "error")
  /\ UNCHANGED <<nonce, chainVars, recorded, attached>>

\* Fault: the nonce is incremented whether or not an approval was sent.
checkAllowance_AlwaysIncrements(r) ==
  /\ Kind[r] \in DonationKinds
  /\ pc[r] = "allowance"
  /\ IF Spender(r) \in allowed[Wallet[r]]
     THEN Goto(r, "estimate") /\ nonce' = [nonce EXCEPT ![r] = @ + 1] /\ UNCHANGED leg
     ELSE Goto(r, "send") /\ leg' = [leg EXCEPT ![r] = "approve"] /\ UNCHANGED nonce
  /\ UNCHANGED <<chainVars, recorded, attached>>

\* The donation handlers approve first where the allowance is not enough.
checkAllowance(r) ==
  /\ Kind[r] \in DonationKinds
  /\ pc[r] = "allowance"
  /\ IF Spender(r) \in allowed[Wallet[r]]
     THEN Goto(r, "estimate") /\ UNCHANGED leg
     ELSE Goto(r, "send") /\ leg' = [leg EXCEPT ![r] = "approve"]
  /\ UNCHANGED <<nonce, chainVars, recorded, attached>>

\* web3's default block is 'latest': mined transactions only.
getTransactionCount(r) ==
  /\ pc[r] = "nonce"
  /\ nonce' = [nonce EXCEPT ![r] = count[Wallet[r]]]
  /\ Goto(r, IF Kind[r] = "transfer" THEN "send"
             ELSE IF Kind[r] \in DonationKinds THEN "allowance" ELSE "estimate")
  /\ UNCHANGED <<leg, chainVars, recorded, attached>>

\* The contract call the payment consists of succeeds as the chain stands.
Covered(r) ==
  /\ Amount[r] <= tokens[Wallet[r]]
  /\ Kind[r] # "transfer" => Spender(r) \in allowed[Wallet[r]]

\* estimateGas simulates the call.  swapCust gives it no value, so the router
\* sees no input for a swap of the native coin; and for two ERC-20 tokens with
\* an allowance `data` is still null and the call itself throws.
estimateGas(r) ==
  /\ pc[r] = "estimate"
  /\ \/ leg[r] = "approve"
     \/ Kind[r] \notin {"EthToErc20", "Erc20ToErc20"} /\ Covered(r)
  /\ Goto(r, IF Kind[r] = "transfer" THEN "nonce" ELSE "send")
  /\ UNCHANGED <<leg, nonce, chainVars, recorded, attached>>

\* sendSignedTransaction, the node's part: a used nonce is refused; one that
\* another pending transaction holds is refused or replaces it.
sendSignedTransaction(r) ==
  /\ pc[r] = "send"
  /\ nonce[r] >= count[Wallet[r]]
  /\ LET held == {tx \in pool : Sender(tx) = Wallet[r] /\ tx.nonce = nonce[r]} IN
       pool' = (pool \ held) \union {Tx(r)}
  /\ Goto(r, "wait")
  /\ UNCHANGED <<leg, nonce, count, tokens, allowed, receipt, recorded, attached>>

\* What follows a receipt: the payment gets recorded; the approval of a donation
\* is followed by the donation with the next nonce; swapCust answers an
\* approval with no row.
afterReceipt(r) ==
  /\ IF leg[r] = "pay" THEN Goto(r, "record") /\ UNCHANGED <<leg, nonce>>
     ELSE IF Kind[r] \in SwapKinds THEN Goto(r, "done") /\ UNCHANGED <<leg, nonce>>
     ELSE /\ Goto(r, "estimate")
          /\ leg' = [leg EXCEPT ![r] = "pay"]
          /\ nonce' = [nonce EXCEPT ![r] = @ + 1]
  /\ UNCHANGED <<chainVars, recorded, attached>>

\* Fault: the handler goes on as soon as the node has accepted the transaction.
receiveReceipt_OnHash(r) == pc[r] = "wait" /\ afterReceipt(r)

\* Fault: a reverted transaction passes for a successful one.
receiveReceipt_Reverted(r) == pc[r] = "wait" /\ receipt[r][leg[r]] # "none" /\ afterReceipt(r)

\* The promise of web3 resolves only for a transaction that did not revert.
receiveReceipt(r) ==
  /\ pc[r] = "wait"
  /\ receipt[r][leg[r]] = "success"
  /\ afterReceipt(r)

\* transfersRepo.create, and user.$create for a swap, which sets userId too.
createRow(r) ==
  /\ pc[r] = "record"
  /\ recorded' = recorded \union {r}
  /\ IF Kind[r] \in SwapKinds THEN attached' = attached \union {r} /\ Goto(r, "done")
                              ELSE Goto(r, "attach") /\ UNCHANGED attached
  /\ UNCHANGED <<leg, nonce, chainVars>>

addToUser(r) ==
  /\ pc[r] = "attach"
  /\ attached' = attached \union {r}
  /\ Goto(r, "done")
  /\ UNCHANGED <<leg, nonce, chainVars, recorded>>

\* An await rejects (node, database, a check of the handler): status 500.
fail(r) ==
  /\ pc[r] \notin Ended \union {"idle", "wait"}
  /\ Goto(r, "error")
  /\ UNCHANGED <<leg, nonce, chainVars, recorded, attached>>

\* web3 rejects for a reverted transaction, and when it has polled for the
\* receipt for long enough; the transaction may still be mined later.
giveUp(r) ==
  /\ pc[r] = "wait"
  /\ Goto(r, "error")
  /\ UNCHANGED <<leg, nonce, chainVars, recorded, attached>>

\* The backend process dies: handlers in flight are never resumed.
die ==
  /\ \E r \in Ops : pc[r] \notin Ended \union {"idle"}
  /\ pc' = [r \in Ops |-> IF pc[r] \in Ended \union {"idle"} THEN pc[r] ELSE "lost"]
  /\ UNCHANGED <<leg, nonce, chainVars, recorded, attached>>

-----------------------------------------------------------------------------
(* The chain                                                               *)

\* The transaction with the wallet's next nonce is executed.  A payment that
\* is covered may still revert (the organization, the price, the deadline).
mine(tx, o) ==
  LET r == tx.op
      a == Sender(tx) IN
  /\ tx \in pool /\ tx.nonce = count[a]
  /\ tx.leg = "pay" /\ o = "success" => Covered(r)
  /\ pool' = pool \ {tx}
  /\ count' = [count EXCEPT ![a] = @ + 1]
  /\ receipt' = [receipt EXCEPT ![r][tx.leg] = o]
  /\ tokens' = IF tx.leg = "pay" /\ o = "success"
               THEN [tokens EXCEPT ![a] = @ - Amount[r]] ELSE tokens
  /\ allowed' = IF tx.leg = "approve" /\ o = "success"
                THEN [allowed EXCEPT ![a] = @ \union {Spender(r)}] ELSE allowed
  /\ UNCHANGED <<pc, leg, nonce, recorded, attached>>

-----------------------------------------------------------------------------
CustodyInit ==
  /\ pc = [r \in Ops |-> "idle"]
  /\ leg = [r \in Ops |-> "pay"]
  /\ nonce = [r \in Ops |-> 0]
  /\ pool = {}
  /\ count = [a \in Accounts |-> 0]
  /\ tokens = Funds
  /\ allowed \in [Accounts -> SUBSET Spenders]
  /\ receipt = [r \in Ops |-> [l \in Legs |-> "none"]]
  /\ recorded = {}
  /\ attached = {}

Step(r) ==
  \/ getAllowanceAndBalance(r) \/ checkAllowance(r)
  \/ getTransactionCount(r) \/ estimateGas(r) \/ sendSignedTransaction(r)
  \/ receiveReceipt(r) \/ createRow(r) \/ addToUser(r)
  \/ fail(r) \/ giveUp(r)

Mining == \E tx \in pool, o \in {"success", "failed"} : mine(tx, o)

CustodyNext ==
  \/ \E r \in Ops : Start(r) \/ Step(r)
  \/ die
  \/ Mining

CustodySpec == CustodyInit /\ [][CustodyNext]_custodyVars

\* A handler that has started goes on or fails, and the chain executes a
\* transaction it can execute.
FairCustodySpec == CustodySpec /\ WF_custodyVars(Mining) /\ \A r \in Ops : WF_custodyVars(Step(r))

-----------------------------------------------------------------------------
(* Properties                                                              *)

TypeOK ==
  /\ pc \in [Ops -> {"idle", "estimate", "nonce", "allowance", "send", "wait",
                     "record", "attach"} \union Ended]
  /\ leg \in [Ops -> Legs]
  /\ nonce \in [Ops -> Nat]
  /\ pool \subseteq [op : Ops, leg : Legs, nonce : Nat]
  /\ count \in [Accounts -> Nat]
  /\ tokens \in [Accounts -> Nat]
  /\ allowed \in [Accounts -> SUBSET Spenders]
  /\ receipt \in [Ops -> [Legs -> {"none", "success", "failed"}]]
  /\ recorded \subseteq Ops
  /\ attached \subseteq recorded

\* Whatever requests run at once for a wallet, a transaction the node accepted
\* carries the wallet's next nonce: none waits behind a gap that no handler
\* will ever fill, and none competes with another one of the wallet.
AcceptedIsNext == \A tx \in pool : tx.nonce = count[Sender(tx)]

\* A row is there only for a payment the chain executed, and a request that was
\* answered without error left its row attached to the user, unless it was a
\* swap that had to be approved first (createRow, addToUser).
AnsweredIsRecorded ==
  \A r \in Ops :
    /\ r \in recorded => receipt[r]["pay"] = "success"
    /\ pc[r] = "done" =>
         \/ r \in attached
         \/ Kind[r] \in SwapKinds /\ leg[r] = "approve" /\ receipt[r]["approve"] = "success"

\* The tokens a wallet lost are exactly those of its recorded payments, unless a
\* request that paid was cut off between its broadcast and its row.
HistoryExplainsBalance ==
  (\A r \in Ops : receipt[r]["pay"] = "success" => pc[r] \in {"attach", "done"}) =>
    \A a \in Accounts :
      Funds[a] - tokens[a] = SumOver(Amount, {r \in recorded : Wallet[r] = a})

\* The abstract promise (module TxLedger): a custody row appears with the
\* success of a transaction that was executed for it.
Ledger == INSTANCE TxLedger WITH
  Rows <- Ops,
  Hashes <- Ops \X Legs,
  Malformed <- {},
  status <- [r \in Ops |-> IF r \in recorded THEN "success" ELSE "none"],
  claims <- [r \in Ops |-> IF r \in recorded THEN {<<r, "pay">>} ELSE {}],
  receipt <- [h \in Ops \X Legs |-> receipt[h[1]][h[2]]]
ImplementsLedger == Ledger!LedgerSpec

\* Every transaction the node accepted is mined or replaced.
PoolDrains == []<>(pool = {})
=============================================================================

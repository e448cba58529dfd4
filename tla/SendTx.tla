-------------------------------- MODULE SendTx --------------------------------
(***************************************************************************)
(* sendTx of the presale service: how a request has the owner's custody    *)
(* account call a contract.  The nonce is the number of transactions mined *)
(* for the account, then the call is simulated, signed and sent, and the   *)
(* request waits until it is mined.  A request is a job, or a job after a  *)
(* job: the module that extends this one says which, and what a job does.  *)
(***************************************************************************)
EXTENDS Integers

CONSTANTS Requests,  \* requests in flight at once
          MaxTxs     \* bound: transactions of the account

VARIABLES req,    \* per request: its job, the next step of sendTx, its nonce
          count   \* transactions mined for the account

Idle == [step |-> "idle"]
At(q, s) == req[q].step = s
Job(q) == req[q].job
Goto(q, s) == req' = [req EXCEPT ![q].step = s]
End(q) == req' = [req EXCEPT ![q] = Idle]
Call(q, j) == req' = [req EXCEPT ![q] = [step |-> "nonce", job |-> j, nonce |-> 0]]

Ask(q, j) == At(q, "idle") /\ count < MaxTxs /\ Call(q, j) /\ UNCHANGED count

getTransactionCount(q) ==
  /\ At(q, "nonce")
  /\ req' = [req EXCEPT ![q].nonce = count, ![q].step = "estimate"]
  /\ UNCHANGED count

\* estimateGas throws for a call that would revert as the chain stands.
estimateGas(q, succeeds) ==
  /\ At(q, "estimate")
  /\ IF succeeds THEN Goto(q, "send") ELSE End(q)
  /\ UNCHANGED count

\* The node refuses a nonce that is used up.
refuse(q) == At(q, "send") /\ req[q].nonce < count /\ End(q) /\ UNCHANGED count

\* The transaction is executed, for better or worse, and its nonce is used up.
sendSignedTransaction(q) ==
  /\ At(q, "send") /\ req[q].nonce = count /\ count < MaxTxs
  /\ count' = count + 1

SendTxTypeOK ==
  /\ count \in 0..MaxTxs
  /\ \A q \in Requests : ~At(q, "idle") => req[q].nonce \in 0..MaxTxs
=============================================================================

----------------------------- MODULE SwapOffers -----------------------------
(***************************************************************************)
(* Swaps from a non-custody wallet (swapExt).  The user asks for a swap;   *)
(* the backend reads allowance and balances, and offers a transaction to   *)
(* sign: an approval of the router, or the swap itself, for which it opens *)
(* a row.  The user sends what he is offered and asks again until he has   *)
(* swapped.  Several requests may be open, requests fail, the account may  *)
(* be deleted, and the wallet is used outside the backend as well.         *)
(***************************************************************************)
EXTENDS FiniteSets, Integers

CONSTANTS
  Pairs,       \* the kinds of pair users swap
  Requests,    \* requests open at once
  MaxAmount,   \* bound: amounts and balances
  Gas,         \* what a transaction costs
  MaxMoves     \* bound: uses of the wallet elsewhere, changes of the token
               \* table, requests that fail

ASSUME SwapOffersAssumption ==
  /\ Pairs \subseteq {"EthToErc20", "Erc20ToEth", "Erc20ToErc20"}
  /\ {MaxAmount, Gas, MaxMoves} \subseteq Nat

Unlimited == 2 * MaxAmount + 1    \* 2^256 - 1

Roles == {"native", "erc20"}

VARIABLES
  listed,         \* roles whose token is in the app's table of tokens
  pair, amount,   \* what this user wants to swap
  tokens, native, \* his balances of token0 and of the native coin
  allowance,      \* of the router over token0
  account,        \* whether the user's account exists
  req,            \* per request: what the handler has read, then its answer
  swapRows,       \* rows of users_swaps, by the open request that inserted them
  swapped,        \* history: whether a swap was executed, and had a row
  moves           \* bounded counter

swapVars == <<listed, pair, amount, tokens, native, allowance, account, req, swapRows, swapped, moves>>
chainVars == <<tokens, native, allowance>>
userVars == <<listed, pair, amount, account, swapped, moves>>

NoRequest == [at |-> "idle"]
Answers == {"approve", "swap", "Not enough balance", "error"}
Answer(r, a) == req' = [req EXCEPT ![r] = [at |-> a]]

\* The request is over: its row, if it has one, is no longer waited for.
Close(r) == req' = [req EXCEPT ![r] = NoRequest] /\ swapRows' = swapRows \ {r}

\* What token0 and token1 are (tradeCase).
In == IF pair = "EthToErc20" THEN "native" ELSE "erc20"
Out == IF pair = "Erc20ToEth" THEN "native" ELSE "erc20"
Value == IF In = "native" THEN amount ELSE 0

-----------------------------------------------------------------------------
(* swapExt                                                                 *)

\* An unlisted token is refused; WMATIC is let through unlisted, but the route
\* is made of its contractAddress, and reading that throws.
swapExt_unlisted(r) ==
  /\ req[r] = NoRequest /\ account
  /\ ~({In, Out} \subseteq listed)
  /\ Answer(r, "error")
  /\ UNCHANGED <<chainVars, userVars, swapRows>>

\* getAllowanceAndBalance: the reads, before anything is decided on them.
getAllowanceAndBalance(r) ==
  /\ req[r] = NoRequest /\ account
  /\ {In, Out} \subseteq listed
  /\ req' = [req EXCEPT ![r] = [at |-> "read", allowance |-> allowance,
                                native |-> native, tokens |-> tokens]]
  /\ UNCHANGED <<chainVars, userVars, swapRows>>

\* What the wallet had of token0 when it was read.
Balance(q) == IF In = "native" THEN q.native ELSE q.tokens

\* enoughEth, enoughErc20, enoughAllowance: !amount.gte(...).
Enough(q) == amount < Balance(q)
EnoughAllowance(q) == amount < q.allowance

\* Fault: no approval is ever offered.
NeedsApproval_Never(q) == FALSE

\* A pair that sells a token needs the router's allowance first.
NeedsApproval(q) == In # "native" /\ ~EnoughAllowance(q)

CoversComission(q) == q.native >= Value + Gas

swapExt_refuse(r) ==
  /\ req[r].at = "read" /\ ~Enough(req[r])
  /\ Answer(r, "Not enough balance")
  /\ UNCHANGED <<chainVars, userVars, swapRows>>

swapExt_approve(r) ==
  /\ req[r].at = "read" /\ Enough(req[r]) /\ NeedsApproval(req[r])
  /\ Answer(r, IF CoversComission(req[r]) THEN "approve" ELSE "error")
  /\ UNCHANGED <<chainVars, userVars, swapRows>>

\* The router can take the amount as the chain stands now.
Executable ==
  IF In = "native" THEN native >= amount + Gas
  ELSE tokens >= amount /\ allowance >= amount /\ native >= Gas

\* The swap: estimateGas simulates it.  For two ERC-20 tokens the call was stored
\* in txData.data, `data` is still null, and data.estimateGas throws.
swapExt_swap(r) ==
  /\ req[r].at = "read" /\ Enough(req[r]) /\ ~NeedsApproval(req[r])
  /\ Answer(r, IF Executable /\ CoversComission(req[r]) /\ pair # "Erc20ToErc20"
               THEN "create" ELSE "error")
  /\ UNCHANGED <<chainVars, userVars, swapRows>>

\* Fault: the insert is not awaited, and may fail after the answer.
swapExt_create_Unawaited(r) ==
  /\ req[r].at = "create"
  /\ Answer(r, "offer")
  /\ UNCHANGED swapRows \/ (account /\ swapRows' = swapRows \union {r})
  /\ UNCHANGED <<chainVars, userVars>>

\* $create('user_swap'): the foreign key refuses a row of a deleted account.
swapExt_create(r) ==
  /\ req[r].at = "create"
  /\ IF account THEN Answer(r, "offer") /\ swapRows' = swapRows \union {r}
     ELSE Answer(r, "error") /\ UNCHANGED swapRows
  /\ UNCHANGED <<chainVars, userVars>>

\* The answer, with the transaction to sign and the id of the row.
swapExt_answer(r) ==
  /\ req[r].at = "offer"
  /\ Answer(r, "swap")
  /\ UNCHANGED <<chainVars, userVars, swapRows>>

\* A read, the simulation or the insert fails, or the answer is lost: status 500.
swapExt_fail(r) ==
  /\ req[r].at \in {"read", "create", "offer"} /\ moves < MaxMoves
  /\ moves' = moves + 1
  /\ Answer(r, "error")
  /\ UNCHANGED <<chainVars, listed, pair, amount, account, swapRows, swapped>>

-----------------------------------------------------------------------------
(* The user, his wallet and the chain                                      *)

sendApproval(r) ==
  /\ req[r].at = "approve" /\ native >= Gas
  /\ native' = native - Gas
  /\ allowance' = Unlimited
  /\ Close(r)
  /\ UNCHANGED <<tokens, userVars>>

sendSwap(r) ==
  /\ req[r].at = "swap" /\ Executable
  /\ swapped' = IF r \in swapRows THEN "recorded" ELSE "unrecorded"
  /\ native' = native - Gas - Value
  /\ tokens' = IF In = "native" THEN tokens ELSE tokens - amount
  /\ allowance' = IF In = "native" \/ allowance = Unlimited THEN allowance ELSE allowance - amount
  /\ Close(r)
  /\ UNCHANGED <<listed, pair, amount, account, moves>>

\* The user closes an answer that does not help him, or any other.
drop(r) ==
  /\ req[r].at \in Answers
  /\ Close(r)
  /\ UNCHANGED <<chainVars, userVars>>

\* UsersService.delete: the rows of his swaps go with the account; what he was
\* offered he can send still.
deleteAccount ==
  /\ account
  /\ account' = FALSE
  /\ swapRows' = {}
  /\ UNCHANGED <<listed, pair, amount, chainVars, req, swapped, moves>>

\* Funds come and go by other ways, the allowance is set to anything.
useElsewhere ==
  /\ moves < MaxMoves
  /\ moves' = moves + 1
  /\ tokens' \in 0..MaxAmount /\ native' \in 0..(MaxAmount + 2 * Gas)
  /\ allowance' \in {0, amount, Unlimited}
  /\ UNCHANGED <<listed, pair, amount, account, req, swapRows, swapped>>

\* addToken, deleteToken by an administrator.
editTokens ==
  /\ moves < MaxMoves
  /\ moves' = moves + 1
  /\ \E role \in Roles : listed' = IF role \in listed THEN listed \ {role} ELSE listed \union {role}
  /\ UNCHANGED <<pair, amount, chainVars, account, req, swapRows, swapped>>

-----------------------------------------------------------------------------
SwapInit ==
  /\ listed \in SUBSET Roles
  /\ pair \in Pairs
  /\ amount \in 1..MaxAmount
  /\ tokens \in 0..MaxAmount
  /\ native \in 0..(MaxAmount + 2 * Gas)
  /\ allowance \in {0, amount, Unlimited}
  /\ account = TRUE
  /\ req = [r \in Requests |-> NoRequest]
  /\ swapRows = {}
  /\ swapped = "no"
  /\ moves = 0

swapExt(r) ==
  \/ swapExt_unlisted(r) \/ getAllowanceAndBalance(r) \/ swapExt_refuse(r)
  \/ swapExt_approve(r) \/ swapExt_swap(r) \/ swapExt_create(r) \/ swapExt_answer(r)
send(r) == sendApproval(r) \/ sendSwap(r)

SwapNext ==
  \/ \E r \in Requests : swapExt(r) \/ swapExt_fail(r) \/ send(r) \/ drop(r)
  \/ useElsewhere \/ editTokens \/ deleteAccount

SwapSpec == SwapInit /\ [][SwapNext]_swapVars

\* A persistent user: he asks and gets his answer, sends what he is offered
\* sooner or later, and closes what he cannot use.
FairSwapSpec ==
  /\ SwapSpec
  /\ \A r \in Requests : WF_swapVars(swapExt(r)) /\ SF_swapVars(send(r)) /\ WF_swapVars(drop(r))

-----------------------------------------------------------------------------
(* Properties                                                              *)

Continuations ==
  {NoRequest} \union [at : Answers \union {"create", "offer"}]
  \union [at : {"read"}, allowance : Nat, native : Nat, tokens : Nat]

SwapTypeOK ==
  /\ listed \subseteq Roles
  /\ pair \in Pairs /\ amount \in 1..MaxAmount
  /\ tokens \in 0..MaxAmount /\ native \in 0..(MaxAmount + 2 * Gas)
  /\ allowance \in {0, amount, Unlimited}
  /\ account \in BOOLEAN
  /\ req \in [Requests -> Continuations]
  /\ swapRows \subseteq Requests
  /\ swapped \in {"no", "recorded", "unrecorded"}
  /\ moves \in 0..MaxMoves

\* Every swap the user executes from an offer has its row, which is what
\* updateStatus and the status processor work on, unless he deleted his account:
\* an offer never goes out before its insert has succeeded (swapExt).
ExecutedSwapsHaveRow == swapped = "unrecorded" => ~account

\* The wallet can pay for the swap, and for the approval it may need.
Ready ==
  /\ account /\ {In, Out} \subseteq listed
  /\ IF In = "native" THEN native > amount + Gas
     ELSE tokens > amount /\ native >= Gas

\* Who stays able to pay gets his swap, whatever his allowance was, after at
\* most an approval: the two kinds of transaction are not offered for ever in
\* turn.
SwapReached == <>[]Ready => <>(swapped # "no")
=============================================================================

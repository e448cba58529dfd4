-------------------------------- MODULE Locker --------------------------------
(***************************************************************************)
(* Deposits of tokens in the contract Locker (embedded in Locker.json), and *)
(* the requests of the presale service that lock, renew and withdraw them.  *)
(* The service signs with the account that owns the contract; whoever a     *)
(* deposit is for withdraws it with his own account, without the backend.   *)
(* A call of the contract is atomic: it does all it says, or it reverts.    *)
(***************************************************************************)
EXTENDS SendTx, Sums, SequencesExt

CONSTANTS
  Owner,        \* the account that owns the contract
  Others,       \* other accounts deposits are made for
  Batches,      \* what lockOne and lockMany are asked for: sequences of deposits
  Withdrawals,  \* amounts of withdrawSpecificDeposit
  Receivers,    \* accounts tokens are sent to by the owner's withdrawals
  FloatErrors,  \* errors of lockMany's sum of floating-point numbers
  Funds,        \* tokens of the owner
  MaxDeposits, LastTime \* bounds

Accounts == Others \union {Owner}
Ids == 1..MaxDeposits
Times == 0..LastTime

ASSUME LockerAssumption ==
  /\ Owner \notin Others /\ IsFiniteSet(Others)
  /\ \A b \in Batches : b \in Seq([who : Accounts, amount : Nat, unlock : Times])
  /\ Withdrawals \subseteq Nat /\ Receivers \subseteq Accounts /\ FloatErrors \subseteq Int
  /\ {Funds, MaxDeposits, LastTime} \subseteq Nat

VARIABLES
  deposits,     \* lockedToken, by id; allDepositIds is its domain
  byWithdrawal, \* depositsByWithdrawalAddress
  byToken,      \* depositsByTokenAddress
  balance,      \* walletTokenBalance
  held,         \* tokens of the contract
  owned,        \* tokens of the owner
  allowance,    \* what the contract may take from the owner
  timestamp,    \* block.timestamp
  taken,        \* history: tokens withdrawSpecificDeposit took
  short,        \* history: tokens withdrawals fell short of their deposits
  failed        \* history: a request that locks ended with an error

lockerVars == <<req, count, deposits, byWithdrawal, byToken, balance, held, owned,
                allowance, timestamp, taken, short, failed>>
bookVars == <<deposits, byWithdrawal, byToken, balance>>
historyVars == <<taken, short, failed>>

Live == {id \in DOMAIN deposits : ~deposits[id].withdrawn}
Amounts(b) == [i \in DOMAIN b |-> b[i].amount]
For(b, a) == {i \in DOMAIN b : b[i].who = a}
Total(b) == SumOver(Amounts(b), DOMAIN b)

\* The numbers of a finite set, from the least one on.
InOrder(S) ==
  [n \in 1..Cardinality(S) |-> CHOOSE i \in S : Cardinality({j \in S : j <= i}) = n]

-----------------------------------------------------------------------------
(* The contract: what each call requires, and what it does                 *)

\* onlyOwner functions are called by the service alone, which is the owner.
CanLock(b) ==
  /\ \A i \in DOMAIN b : b[i].amount > 0 /\ b[i].unlock > timestamp
  /\ Total(b) <= allowance /\ Total(b) <= owned

lockTokenMultiple(b) ==
  LET n == Len(deposits) IN
  /\ deposits' = deposits \o
       [i \in DOMAIN b |-> [who |-> b[i].who, amount |-> b[i].amount,
                            unlock |-> b[i].unlock, withdrawn |-> FALSE]]
  /\ byWithdrawal' = [a \in Accounts |->
                        byWithdrawal[a] \o InOrder({n + i : i \in For(b, a)})]
  /\ byToken' = byToken \o [i \in DOMAIN b |-> n + i]
  /\ balance' = [a \in Accounts |-> balance[a] + SumOver(Amounts(b), For(b, a))]
  /\ held' = held + Total(b)
  /\ owned' = owned - Total(b)
  /\ allowance' = allowance - Total(b)
  /\ UNCHANGED <<taken, short>>

\* Fault: the deposit stays in the list of its address.
close_OneList(id) ==
  /\ deposits' = [deposits EXCEPT ![id].withdrawn = TRUE]
  /\ byToken' = RemoveFirst(byToken, id)
  /\ UNCHANGED byWithdrawal

\* A deposit leaves the lists of its token and of its address, which the loops copy
\* up to its entry and from there on with the entry after.
close(id) ==
  LET w == deposits[id].who IN
  /\ deposits' = [deposits EXCEPT ![id].withdrawn = TRUE]
  /\ byWithdrawal' = [byWithdrawal EXCEPT ![w] = RemoveFirst(@, id)]
  /\ byToken' = RemoveFirst(byToken, id)

pay(receiver, amount) ==
  /\ held' = held - amount
  /\ owned' = IF receiver = Owner THEN owned + amount ELSE owned


CanWithdraw(a, id) ==
  /\ id \in Live /\ deposits[id].who = a
  /\ timestamp >= deposits[id].unlock
  /\ balance[a] >= deposits[id].amount   \* SafeMath.sub

withdrawDeposit(a, id) ==
  LET amount == deposits[id].amount
      paid == IF held < amount THEN held ELSE amount IN
  /\ close(id)
  /\ pay(a, paid)
  /\ short' = short + (amount - paid)
  /\ balance' = [balance EXCEPT ![a] = @ - amount]
  /\ UNCHANGED <<allowance, taken>>

\* The amount is taken off the caller's balance, whoever the deposit is for.
CanEmergency(id) ==
  /\ id \in Live
  /\ held >= deposits[id].amount
  /\ balance[Owner] >= deposits[id].amount

emergencyWithdrawTokens(id, receiver) ==
  LET amount == deposits[id].amount IN
  /\ close(id)
  /\ pay(receiver, amount)
  /\ balance' = [balance EXCEPT ![Owner] = @ - amount]
  /\ UNCHANGED <<allowance, taken, short>>

CanRenew(id, unlock) ==
  /\ id \in Live /\ deposits[id].who = Owner
  /\ timestamp >= deposits[id].unlock /\ unlock > timestamp

renewLock(id, unlock) ==
  /\ deposits' = [deposits EXCEPT ![id].unlock = unlock]
  /\ UNCHANGED <<byWithdrawal, byToken, balance, held, owned, allowance, taken, short>>

withdrawSpecificDeposit(receiver, amount) ==
  /\ pay(receiver, amount)
  /\ taken' = taken + amount
  /\ UNCHANGED <<bookVars, allowance, short>>

\* approve of the token: whatever was left is overwritten.
approve(amount) ==
  /\ allowance' = amount
  /\ UNCHANGED <<bookVars, held, owned, taken, short>>

-----------------------------------------------------------------------------
(* The requests                                                            *)

approveFor(q, b, n) == Ask(q, [op |-> "approve", batch |-> b, total |-> n])

\* Fault: the sum is rounded up, to be on the safe side.
lock_RoundedUp(q, b) ==
  /\ Len(deposits) + Len(b) <= MaxDeposits
  /\ \/ Len(b) = 1 /\ approveFor(q, b, Total(b))
     \/ \E e \in FloatErrors : approveFor(q, b, Total(b) + e + 1)

\* lockOne approves its amount; lockMany a sum of floating-point numbers, of one
\* amount as of several.
lock(q, b) ==
  /\ Len(deposits) + Len(b) <= MaxDeposits
  /\ \/ Len(b) = 1 /\ approveFor(q, b, Total(b))
     \/ \E e \in FloatErrors : approveFor(q, b, Total(b) + e)

renew(q, id, t) == Ask(q, [op |-> "renew", id |-> id, unlock |-> t])
regular(q, id) == Ask(q, [op |-> "regular", id |-> id])
emergency(q, id, a) == Ask(q, [op |-> "emergency", id |-> id, receiver |-> a])
specific(q, a, n) == Ask(q, [op |-> "specific", receiver |-> a, amount |-> n])

\* The call of a job as the chain stands: all its requirements hold.
Accepts(j) ==
  \/ j.op = "approve"
  \/ j.op = "lock" /\ Len(deposits) + Len(j.batch) <= MaxDeposits /\ CanLock(j.batch)
  \/ j.op = "renew" /\ CanRenew(j.id, j.unlock)
  \/ j.op = "regular" /\ CanWithdraw(Owner, j.id)
  \/ j.op = "emergency" /\ CanEmergency(j.id)
  \/ j.op = "specific" /\ held >= j.amount

perform(j) ==
  \/ j.op = "approve" /\ approve(j.total)
  \/ j.op = "lock" /\ lockTokenMultiple(j.batch)
  \/ j.op = "renew" /\ renewLock(j.id, j.unlock)
  \/ j.op = "regular" /\ withdrawDeposit(Owner, j.id)
  \/ j.op = "emergency" /\ emergencyWithdrawTokens(j.id, j.receiver)
  \/ j.op = "specific" /\ withdrawSpecificDeposit(j.receiver, j.amount)

Locks(j) == j.op \in {"approve", "lock"}
Fails(q) == failed' = (failed \/ Locks(Job(q)))
chainVars == <<bookVars, held, owned, allowance, timestamp, taken, short>>

simulate(q) ==
  /\ \/ getTransactionCount(q) /\ UNCHANGED failed
     \/ estimateGas(q, Accepts(Job(q))) /\ failed' = (failed \/ (Locks(Job(q)) /\ ~Accepts(Job(q))))
     \/ refuse(q) /\ Fails(q)
  /\ UNCHANGED chainVars

\* After the approval comes the lock it is for.
broadcast(q) ==
  /\ sendSignedTransaction(q)
  /\ \/ /\ Accepts(Job(q)) /\ perform(Job(q))
        /\ IF Job(q).op = "approve" THEN Call(q, [op |-> "lock", batch |-> Job(q).batch]) ELSE End(q)
        /\ UNCHANGED failed
     \/ /\ ~Accepts(Job(q)) /\ End(q) /\ Fails(q)
        /\ UNCHANGED <<bookVars, held, owned, allowance, taken, short>>
  /\ UNCHANGED timestamp

\* An await rejects, or the process dies.
reject(q) ==
  /\ ~At(q, "idle") /\ End(q) /\ Fails(q)
  /\ UNCHANGED <<count, chainVars>>

-----------------------------------------------------------------------------
(* The other accounts, and time                                            *)

withdraw(a, id) ==
  /\ CanWithdraw(a, id) /\ withdrawDeposit(a, id)
  /\ UNCHANGED <<req, count, timestamp, failed>>

nextBlock == timestamp < LastTime /\ timestamp' = timestamp + 1 /\
  UNCHANGED <<req, count, bookVars, held, owned, allowance, historyVars>>

-----------------------------------------------------------------------------
LockerInit ==
  /\ req = [q \in Requests |-> Idle] /\ count = 0
  /\ deposits = <<>> /\ byToken = <<>>
  /\ byWithdrawal = [a \in Accounts |-> <<>>]
  /\ balance = [a \in Accounts |-> 0]
  /\ held = 0 /\ owned = Funds /\ allowance = 0 /\ timestamp = 0
  /\ taken = 0 /\ short = 0 /\ failed = FALSE

\* A call for a deposit that is not there, or not any more, reverts and no more.
serve(q) ==
  /\ \/ \E b \in Batches : lock(q, b)
     \/ \E id \in Live, t \in Times : renew(q, id, t)
     \/ \E id \in Live : regular(q, id)
     \/ \E id \in Live, a \in Receivers : emergency(q, id, a)
     \/ \E a \in Receivers, n \in Withdrawals : specific(q, a, n)
  /\ UNCHANGED <<chainVars, failed>>

LockerNext ==
  \/ \E q \in Requests : serve(q) \/ simulate(q) \/ broadcast(q) \/ reject(q)
  \/ \E a \in Others, id \in Ids : withdraw(a, id)
  \/ nextBlock

LockerSpec == LockerInit /\ [][LockerNext]_lockerVars

\* Blocks are made, and who a deposit is for withdraws it when he can.
FairLockerSpec ==
  /\ LockerSpec /\ WF_lockerVars(nextBlock)
  /\ \A a \in Others, id \in Ids : WF_lockerVars(withdraw(a, id))

-----------------------------------------------------------------------------
(* Properties                                                              *)

SumOf(S) == SumOver(Amounts(deposits), S)

\* However locks, renewals, withdrawals and emergencies follow each other, the
\* lists the contract answers with name the deposits that are still in it, each
\* once and in the order they were made (getDepositsByTokenAddress,
\* getDepositsByWithdrawalAddress).
ListsNameLiveDeposits ==
  LET Names(list, S) ==
        /\ Range(list) = S
        /\ \A i, j \in DOMAIN list : i < j => list[i] < list[j] IN
  /\ Names(byToken, Live)
  /\ \A a \in Accounts : Names(byWithdrawal[a], Live \intersect For(deposits, a))

\* Every token the contract took in is held for a deposit, unless
\* withdrawSpecificDeposit took it; and only then is a deposit paid short.
TokensAreHeld ==
  /\ held + taken = SumOf(Live) + short
  /\ taken = 0 => short = 0

\* The balances the contract keeps per address add up to the deposits in it,
\* and nobody's but the owner's is below his own deposits, so that no
\* withdrawal of another account can fail on it.
BalancesCoverDeposits ==
  /\ SumOver(balance, Accounts) = SumOf(Live)
  /\ \A a \in Others : balance[a] >= SumOf(Live \intersect For(deposits, a))

\* Whatever sequence of locks, renewals, withdrawals and emergencies was made,
\* the three records of the contract (deposits, lists, balances) and the tokens
\* it holds tell the same story.
BooksAgree == ListsNameLiveDeposits /\ TokensAreHeld /\ BalancesCoverDeposits

\* Whatever requests overlap: once all of those that lock were answered without
\* an error, no more of an approval is left than the sum was off by.
ApprovalsAreUsed ==
  ~failed /\ (\A q \in Requests : At(q, "idle")) =>
    \E e \in FloatErrors \union {0} : allowance <= e

=============================================================================

------------------------------ MODULE Payments ------------------------------
(***************************************************************************)
(* Payments through the provider (Indacoin).  newTransaction has the       *)
(* provider open a transaction, inserts a row for it, links the row to the *)
(* wallet and to the user, and answers the address of the payment form.    *)
(* The provider reports the progress of its transaction by calls of        *)
(* callback, at its own pace: before, between and after those statements,  *)
(* and without waiting for an answer.  It repeats a call until it is       *)
(* answered.  Meanwhile wallets and users are deleted.                     *)
(***************************************************************************)
EXTENDS FiniteSets, Integers

CONSTANTS
  Payments,           \* requests of newTransaction, each with its transaction
  Wallets, Wallet,    \* Wallet[p]: the wallet request p names
  Users, User,        \* User[p]: who sends request p
  Owner,              \* Owner[w]: whose wallet w is
  Handlers,           \* calls of callback handled at once
  Last,               \* stages of a provider's transaction: 1..Last
  MaxFaults           \* bound: statements that fail, process deaths

ASSUME PaymentsAssumption ==
  /\ Wallet \in [Payments -> Wallets]
  /\ User \in [Payments -> Users]
  /\ Owner \in [Wallets -> Users]
  /\ Last \in Nat \ {0} /\ MaxFaults \in Nat

VARIABLES
  pc,              \* per request: the next statement of newTransaction
  rows,            \* rows of users_payments, by the request that made them
  status,          \* column status: 0 is 'initial', then what was reported
  hasWallet, hasUser, \* columns targetAddress and userId are set
  wallets, users,  \* rows of users_wallets and of users
  cb,              \* per handler: the callback whose row was found
  stage,           \* how far the provider's transaction is
  unanswered,      \* per transaction: stages reported and not answered yet
  undated,         \* per transaction: stages whose call lacks a date
  missed,          \* history: stages answered while there was no row
  late,            \* history: stages overtaken by the call of a later one
  faults           \* bounded counter

vars == <<pc, rows, status, hasWallet, hasUser, wallets, users, cb, stage,
          unanswered, undated, missed, late, faults>>
rowVars == <<rows, status, hasWallet, hasUser>>
ownerVars == <<wallets, users>>
callVars == <<stage, undated, late>>
providerVars == <<callVars, unanswered, missed>>

Ended == {"done", "error", "lost"}
Idle == [op |-> "idle"]
Goto(p, l) == pc' = [pc EXCEPT ![p] = l]

-----------------------------------------------------------------------------
(* newTransaction                                                          *)

\* The wallet must be one of the user's.
checkAddress(p) ==
  /\ pc[p] = "idle" /\ User[p] \in users
  /\ Goto(p, IF Wallet[p] \in wallets /\ Owner[Wallet[p]] = User[p] THEN "post" ELSE "error")
  /\ UNCHANGED <<rowVars, ownerVars, cb, providerVars, faults>>

\* The provider opens a transaction: stage 0 becomes known to it.
postTransaction(p) ==
  /\ pc[p] = "post"
  /\ stage' = [stage EXCEPT ![p] = 0]
  /\ Goto(p, "create")
  /\ UNCHANGED <<rowVars, ownerVars, cb, unanswered, undated, missed, late, faults>>

createRow(p) ==
  /\ pc[p] = "create"
  /\ rows' = rows \union {p}
  /\ Goto(p, "wallet")
  /\ UNCHANGED <<status, hasWallet, hasUser, ownerVars, cb, providerVars, faults>>

\* Fault: the save writes every column of the object, not just the changed one.
setWallet_AllColumns(p) ==
  /\ pc[p] = "wallet"
  /\ IF Wallet[p] \in wallets /\ p \in rows
     THEN /\ hasWallet' = hasWallet \union {p} /\ Goto(p, "user")
          /\ status' = [status EXCEPT ![p] = 0]
     ELSE Goto(p, "error") /\ UNCHANGED <<status, hasWallet>>
  /\ UNCHANGED <<rows, hasUser, ownerVars, cb, providerVars, faults>>

\* $set('user_wallet', id): an UPDATE of the one column that changed, which the
\* foreign key refuses when the wallet is gone; the save that follows is empty.
setWallet(p) ==
  /\ pc[p] = "wallet"
  /\ IF Wallet[p] \in wallets
     THEN hasWallet' = hasWallet \union {p} /\ Goto(p, "user")
     ELSE Goto(p, "error") /\ UNCHANGED hasWallet
  /\ UNCHANGED <<rows, status, hasUser, ownerVars, cb, providerVars, faults>>

\* Fault: the row is added to the user after the answer, if at all.
addToUser_Skipped(p) ==
  /\ pc[p] = "user"
  /\ Goto(p, "done")
  /\ UNCHANGED <<rowVars, ownerVars, cb, providerVars, faults>>

\* $add('user_payment', id), and the answer: the address of the payment form.
addToUser(p) ==
  /\ pc[p] = "user"
  /\ IF User[p] \in users
     THEN hasUser' = hasUser \union {p} /\ Goto(p, "done")
     ELSE Goto(p, "error") /\ UNCHANGED hasUser
  /\ UNCHANGED <<rows, status, hasWallet, ownerVars, cb, providerVars, faults>>

newTransaction(p) ==
  checkAddress(p) \/ postTransaction(p) \/ createRow(p) \/ setWallet(p) \/ addToUser(p)

-----------------------------------------------------------------------------
(* callback                                                                *)

InHand(p) == {h \in Handlers : cb[h] # Idle /\ cb[h].tx = p}

\* Fault: a callback for which there is no row throws instead.
receive_Throws(h, p, s) ==
  /\ cb[h] = Idle
  /\ s \in unanswered[p]
  /\ p \in rows
  /\ cb' = [cb EXCEPT ![h] = [op |-> "update", tx |-> p, stage |-> s]]
  /\ UNCHANGED <<pc, rowVars, ownerVars, providerVars, faults>>

\* findOne: a callback for which there is no row is answered and forgotten.
receive(h, p, s) ==
  /\ cb[h] = Idle
  /\ s \in unanswered[p]
  /\ IF p \in rows
     THEN /\ cb' = [cb EXCEPT ![h] = [op |-> "update", tx |-> p, stage |-> s]]
          /\ UNCHANGED <<unanswered, missed>>
     ELSE /\ unanswered' = [unanswered EXCEPT ![p] = @ \ {s}]
          /\ missed' = [missed EXCEPT ![p] = @ \union {s}]
          /\ UNCHANGED cb
  /\ UNCHANGED <<pc, rowVars, ownerVars, callVars, faults>>

\* new Date of a date the call does not carry is none to Postgres either.
Dated(h) == cb[h].stage \notin undated[cb[h].tx]

\* Fault: only a row that is still 'initial' is updated.
update_FirstOnly(h) ==
  /\ cb[h] # Idle /\ Dated(h)
  /\ status' = [status EXCEPT ![cb[h].tx] = IF @ = 0 /\ cb[h].tx \in rows THEN cb[h].stage ELSE @]
  /\ unanswered' = [unanswered EXCEPT ![cb[h].tx] = @ \ {cb[h].stage}]
  /\ cb' = [cb EXCEPT ![h] = Idle]
  /\ UNCHANGED <<pc, rows, hasWallet, hasUser, ownerVars, callVars, missed, faults>>

\* The row found is updated by its id, whatever it shows by now.
update(h) ==
  /\ cb[h] # Idle /\ Dated(h)
  /\ status' = IF cb[h].tx \in rows THEN [status EXCEPT ![cb[h].tx] = cb[h].stage] ELSE status
  /\ unanswered' = [unanswered EXCEPT ![cb[h].tx] = @ \ {cb[h].stage}]
  /\ cb' = [cb EXCEPT ![h] = Idle]
  /\ UNCHANGED <<pc, rows, hasWallet, hasUser, ownerVars, callVars, missed, faults>>

\* A call without one of its dates is rejected, however often it is repeated.
reject(h) ==
  /\ cb[h] # Idle /\ ~Dated(h)
  /\ cb' = [cb EXCEPT ![h] = Idle]
  /\ UNCHANGED <<pc, rowVars, ownerVars, providerVars, faults>>

-----------------------------------------------------------------------------
(* The provider, deletions, faults                                         *)

\* The transaction gets on, and the provider calls.  Calls about earlier stages
\* that are not answered, or handled still, are late from now on.
progress(p) ==
  /\ stage[p] \in 0..(Last - 1)
  /\ stage' = [stage EXCEPT ![p] = @ + 1]
  /\ unanswered' = [unanswered EXCEPT ![p] = @ \union {stage[p] + 1}]
  /\ undated' \in {undated, [undated EXCEPT ![p] = @ \union {stage[p] + 1}]}
  /\ late' = [late EXCEPT ![p] = @ \union unanswered[p] \union {cb[h].stage : h \in InHand(p)}]
  /\ UNCHANGED <<pc, rowVars, ownerVars, cb, missed, faults>>

\* deleteAdress: targetAddress of the wallet's payments becomes NULL.
deleteAdress(w) ==
  /\ w \in wallets
  /\ wallets' = wallets \ {w}
  /\ hasWallet' = {p \in hasWallet : Wallet[p] # w}
  /\ UNCHANGED <<pc, rows, status, hasUser, users, cb, providerVars, faults>>

\* UsersService.delete: wallets and payments of the user go with him.
deleteUser(u) ==
  LET own == {p \in hasUser : User[p] = u} IN
  /\ u \in users
  /\ users' = users \ {u}
  /\ wallets' = {w \in wallets : Owner[w] # u}
  /\ rows' = rows \ own
  /\ status' = [p \in Payments |-> IF p \in own THEN 0 ELSE status[p]]
  /\ hasUser' = hasUser \ own
  /\ hasWallet' = {p \in hasWallet \ own : Owner[Wallet[p]] # u}
  /\ UNCHANGED <<pc, cb, providerVars, faults>>

\* A call or a statement is rejected: status 500.
failRequest(p) ==
  /\ pc[p] \notin Ended \union {"idle"} /\ faults < MaxFaults
  /\ faults' = faults + 1
  /\ Goto(p, "error")
  /\ UNCHANGED <<rowVars, ownerVars, cb, providerVars>>

\* The update fails, or its answer is lost: the provider calls again.
failCallback(h) ==
  /\ cb[h] # Idle /\ Dated(h) /\ faults < MaxFaults
  /\ faults' = faults + 1
  /\ \/ UNCHANGED status
     \/ cb[h].tx \in rows /\ status' = [status EXCEPT ![cb[h].tx] = cb[h].stage]
  /\ cb' = [cb EXCEPT ![h] = Idle]
  /\ UNCHANGED <<pc, rows, hasWallet, hasUser, ownerVars, providerVars>>

crash ==
  /\ faults < MaxFaults
  /\ faults' = faults + 1
  /\ pc' = [p \in Payments |-> IF pc[p] \in Ended \union {"idle"} THEN pc[p] ELSE "lost"]
  /\ cb' = [h \in Handlers |-> Idle]
  /\ UNCHANGED <<rowVars, ownerVars, providerVars>>

-----------------------------------------------------------------------------
Init ==
  /\ pc = [p \in Payments |-> "idle"]
  /\ rows = {} /\ hasWallet = {} /\ hasUser = {}
  /\ status = [p \in Payments |-> 0]
  /\ wallets = Wallets /\ users = Users
  /\ cb = [h \in Handlers |-> Idle]
  /\ stage = [p \in Payments |-> -1]
  /\ unanswered = [p \in Payments |-> {}]
  /\ undated = [p \in Payments |-> {}]
  /\ missed = [p \in Payments |-> {}] /\ late = [p \in Payments |-> {}]
  /\ faults = 0

handle(h) == update(h) \/ reject(h)
callback(p, s) == \E h \in Handlers : receive(h, p, s)

Next ==
  \/ \E p \in Payments : newTransaction(p) \/ progress(p) \/ failRequest(p)
  \/ \E p \in Payments, s \in 1..Last : callback(p, s)
  \/ \E h \in Handlers : handle(h) \/ failCallback(h)
  \/ \E w \in Wallets : deleteAdress(w)
  \/ \E u \in Users : deleteUser(u)
  \/ crash

Spec == Init /\ [][Next]_vars

\* Each call that is repeated gets through in the end, whatever other calls keep the
\* handlers busy, and a handler that has started goes on.
FairSpec ==
  /\ Spec
  /\ \A p \in Payments, s \in 1..Last : SF_vars(callback(p, s))
  /\ \A h \in Handlers : WF_vars(handle(h))

-----------------------------------------------------------------------------
(* Properties                                                              *)

TypeOK ==
  /\ pc \in [Payments -> {"idle", "post", "create", "wallet", "user"} \union Ended]
  /\ rows \subseteq Payments
  /\ status \in [Payments -> 0..Last]
  /\ \A p \in Payments \ rows : status[p] = 0
  /\ hasWallet \subseteq rows /\ hasUser \subseteq rows
  /\ wallets \subseteq Wallets /\ users \subseteq Users
  /\ cb \in [Handlers -> {Idle} \union [op : {"update"}, tx : Payments, stage : 1..Last]]
  /\ stage \in [Payments -> -1..Last]
  /\ unanswered \in [Payments -> SUBSET (1..Last)]
  /\ {undated, missed, late} \subseteq [Payments -> SUBSET (1..Last)]
  /\ faults \in 0..MaxFaults

\* Who was sent to the payment form finds his payment: the list of his payments
\* asks for rows with his id and the id of the wallet (newTransaction).
RedirectedIsListed ==
  \A p \in Payments : pc[p] = "done" /\ User[p] \in users =>
    /\ p \in hasUser
    /\ Wallet[p] \in wallets => p \in hasWallet

\* A row falls back to an earlier stage only when a call about that stage is late:
\* when the provider reported a later one while it was not answered or handled
\* still.  The statements that link the row run at the same time and undo nothing
\* (newTransaction, callback).
StagesOnlyRise ==
  [][\A p \in rows \intersect rows' : status'[p] < status[p] => status'[p] \in late[p]]_vars

\* Once the call about the stage a transaction is in has been answered, the row shows
\* that stage, or one whose call is late, unless it was answered before there was a
\* row (callback).
AnsweredIsShown ==
  \A p \in rows :
    stage[p] > 0 /\ stage[p] \notin unanswered[p] \union missed[p]
      => status[p] \in {stage[p]} \union late[p]

\* Every call that carries its dates is answered in the end, for a payment whose row
\* was never inserted or was deleted, too, and among calls that never will be
\* (callback).
CallsAreAnswered == \A p \in Payments : []<>(unanswered[p] \subseteq undated[p])
=============================================================================

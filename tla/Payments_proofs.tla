-------------------------- MODULE Payments_proofs ---------------------------
(* Proofs of the safety properties of Payments, for any payments, wallets,   *)
(* users, handlers and stages; and of those of SwapOffers, the other trade   *)
(* that is settled outside the backend.                                      *)
EXTENDS Payments, SwapOffers, TLAPS

Before == {"idle", "post", "create"}

\* A request is at a statement only if those before it did what they do.
FlowInv ==
  \A p \in Payments :
    /\ pc[p] \in {"idle", "post"} => stage[p] = -1 /\ unanswered[p] = {}
    /\ pc[p] \in Before => p \notin rows /\ \A h \in Handlers : cb[h] # Idle => cb[h].tx # p
    /\ pc[p] \in {"wallet", "user"} => p \in rows
    /\ p \in hasUser => pc[p] = "done"

\* The wallet is the user's own, so that it goes with him, and the row refers to it
\* from the moment it is linked on.
OwnedInv ==
  \A p \in Payments :
    /\ pc[p] \in {"post", "create", "wallet", "user", "done"} => Owner[Wallet[p]] = User[p]
    /\ pc[p] = "user" /\ Wallet[p] \in wallets => p \in hasWallet

\* A call that is in the air is about the stage the transaction is in, or late; the row
\* shows no later stage.
CallInv ==
  \A p \in Payments :
    /\ unanswered[p] \subseteq {stage[p]} \union late[p]
    /\ \A h \in InHand(p) : cb[h].stage \in {stage[p]} \union late[p]
    /\ late[p] \subseteq 0..stage[p]
    /\ status[p] <= stage[p] \/ status[p] = 0

\* What was answered before there was a row was missed.
MissedInv ==
  \A p \in Payments :
    pc[p] \in Before /\ stage[p] > 0 => stage[p] \in unanswered[p] \union missed[p]

IInv ==
  /\ TypeOK /\ FlowInv /\ OwnedInv /\ RedirectedIsListed
  /\ CallInv /\ MissedInv /\ AnsweredIsShown

-----------------------------------------------------------------------------
\* A handler is idle, or has a row to update.
LEMMA Calls ==
  /\ Idle.op = "idle"
  /\ \A k \in {Idle} \union [op : {"update"}, tx : Payments, stage : 1..Last] :
       k # Idle => k.tx \in Payments /\ k.stage \in 1..Last
  /\ \A p \in Payments, s \in 1..Last :
       LET k == [op |-> "update", tx |-> p, stage |-> s] IN
       /\ k \in [op : {"update"}, tx : Payments, stage : 1..Last]
       /\ k # Idle /\ k.tx = p /\ k.stage = s
BY DEF Idle

LEMMA InitIInv == Init => IInv
<1> SUFFICES ASSUME Init PROVE IInv
  OBVIOUS
<1>1. TypeOK
  BY PaymentsAssumption DEF Init, TypeOK, Idle
<1>2. FlowInv /\ OwnedInv /\ RedirectedIsListed
  BY PaymentsAssumption DEF Init, FlowInv, OwnedInv, RedirectedIsListed, Idle, Before
<1>3. CallInv /\ MissedInv /\ AnsweredIsShown
  BY DEF Init, CallInv, MissedInv, AnsweredIsShown, InHand
<1>. QED
  BY <1>1, <1>2, <1>3 DEF IInv

-----------------------------------------------------------------------------
(* newTransaction                                                          *)

LEMMA CheckAddressStep == ASSUME IInv, NEW p \in Payments, checkAddress(p) PROVE IInv'
<1> USE DEF checkAddress, Goto, rowVars, ownerVars, providerVars, callVars
<1>1. TypeOK'
  BY DEF IInv, TypeOK, Ended
<1>2. FlowInv'
  BY DEF IInv, TypeOK, FlowInv, Before
<1>3. OwnedInv' /\ RedirectedIsListed'
  BY DEF IInv, TypeOK, OwnedInv, RedirectedIsListed
<1>4. CallInv' /\ AnsweredIsShown'
  BY DEF IInv, CallInv, AnsweredIsShown, InHand
<1>5. MissedInv'
  BY DEF IInv, TypeOK, MissedInv, Before
<1>. QED
  BY <1>1, <1>2, <1>3, <1>4, <1>5 DEF IInv

LEMMA PostTransactionStep == ASSUME IInv, NEW p \in Payments, postTransaction(p) PROVE IInv'
<1> USE DEF postTransaction, Goto, rowVars, ownerVars, callVars
<1>1. TypeOK'
  BY PaymentsAssumption DEF IInv, TypeOK
<1>2. FlowInv'
  BY DEF IInv, TypeOK, FlowInv, Before
<1>3. OwnedInv' /\ RedirectedIsListed'
  BY DEF IInv, TypeOK, OwnedInv, RedirectedIsListed
<1>4. CallInv'
  BY DEF IInv, TypeOK, FlowInv, CallInv, InHand, Before
<1>5. MissedInv' /\ AnsweredIsShown'
  BY DEF IInv, TypeOK, FlowInv, MissedInv, AnsweredIsShown, Before
<1>. QED
  BY <1>1, <1>2, <1>3, <1>4, <1>5 DEF IInv

LEMMA CreateRowStep == ASSUME IInv, NEW p \in Payments, createRow(p) PROVE IInv'
<1> USE DEF createRow, Goto, ownerVars, providerVars, callVars
<1>1. TypeOK'
  BY DEF IInv, TypeOK
<1>2. FlowInv'
  BY DEF IInv, TypeOK, FlowInv, Before
<1>3. OwnedInv' /\ RedirectedIsListed'
  BY DEF IInv, TypeOK, OwnedInv, RedirectedIsListed
<1>4. CallInv'
  BY DEF IInv, TypeOK, CallInv, InHand
<1>5. MissedInv' /\ AnsweredIsShown'
  BY DEF IInv, TypeOK, FlowInv, MissedInv, AnsweredIsShown, Before
<1>. QED
  BY <1>1, <1>2, <1>3, <1>4, <1>5 DEF IInv

LEMMA SetWalletStep == ASSUME IInv, NEW p \in Payments, setWallet(p) PROVE IInv'
<1> USE DEF setWallet, Goto, ownerVars, providerVars, callVars
<1>1. TypeOK'
  BY DEF IInv, TypeOK, FlowInv, Ended
<1>2. FlowInv'
  BY DEF IInv, TypeOK, FlowInv, Before
<1>3. OwnedInv' /\ RedirectedIsListed'
  BY DEF IInv, TypeOK, OwnedInv, RedirectedIsListed
<1>4. CallInv' /\ AnsweredIsShown'
  BY DEF IInv, CallInv, AnsweredIsShown, InHand
<1>5. MissedInv'
  BY DEF IInv, TypeOK, MissedInv, Before
<1>. QED
  BY <1>1, <1>2, <1>3, <1>4, <1>5 DEF IInv

LEMMA AddToUserStep == ASSUME IInv, NEW p \in Payments, addToUser(p) PROVE IInv'
<1> USE DEF addToUser, Goto, ownerVars, providerVars, callVars
<1>1. TypeOK'
  BY DEF IInv, TypeOK, FlowInv, Ended
<1>2. FlowInv'
  BY DEF IInv, TypeOK, FlowInv, Before
<1>3. OwnedInv' /\ RedirectedIsListed'
  BY DEF IInv, TypeOK, OwnedInv, RedirectedIsListed
<1>4. CallInv' /\ AnsweredIsShown'
  BY DEF IInv, CallInv, AnsweredIsShown, InHand
<1>5. MissedInv'
  BY DEF IInv, TypeOK, MissedInv, Before
<1>. QED
  BY <1>1, <1>2, <1>3, <1>4, <1>5 DEF IInv

-----------------------------------------------------------------------------
(* callback                                                                *)

LEMMA ReceiveStep ==
  ASSUME IInv, NEW h \in Handlers, NEW p \in Payments, NEW s \in 1..Last, receive(h, p, s)
  PROVE  IInv'
<1> USE DEF receive, rowVars, ownerVars, callVars
<1>1. TypeOK'
  BY Calls DEF IInv, TypeOK
<1>2. FlowInv'
  <2>1. /\ pc' = pc /\ rows' = rows /\ hasUser' = hasUser /\ stage' = stage
        /\ \A v \in Payments : unanswered'[v] \subseteq unanswered[v]
        /\ \A g \in Handlers : cb'[g] = cb[g] \/ (p \in rows /\ cb'[g].tx = p)
    BY Calls DEF IInv, TypeOK
  <2>2. FlowInv
    BY DEF IInv
  <2>. QED
    BY <2>1, <2>2 DEF FlowInv
<1>3. OwnedInv' /\ RedirectedIsListed'
  BY DEF IInv, OwnedInv, RedirectedIsListed
<1>4. CallInv'
  <2>1. CASE p \in rows
    BY <2>1, Calls DEF IInv, TypeOK, CallInv, InHand
  <2>2. CASE p \notin rows
    BY <2>2 DEF IInv, TypeOK, CallInv, InHand
  <2>. QED
    BY <2>1, <2>2
<1>5. MissedInv' /\ AnsweredIsShown'
  <2>1. CASE p \in rows
    BY <2>1 DEF IInv, TypeOK, MissedInv, AnsweredIsShown
  <2>2. CASE p \notin rows
    BY <2>2 DEF IInv, TypeOK, MissedInv, AnsweredIsShown
  <2>. QED
    BY <2>1, <2>2
<1>. QED
  BY <1>1, <1>2, <1>3, <1>4, <1>5 DEF IInv

LEMMA UpdateStep == ASSUME IInv, NEW h \in Handlers, update(h) PROVE IInv'
<1> USE DEF update, ownerVars, callVars
<1> DEFINE p == cb[h].tx
<1>0. p \in Payments /\ cb[h].stage \in 1..Last /\ h \in InHand(p)
  BY Calls DEF IInv, TypeOK, InHand
<1>1. TypeOK'
  BY <1>0 DEF IInv, TypeOK
<1>2. FlowInv'
  BY <1>0 DEF IInv, TypeOK, FlowInv, Before
<1>3. OwnedInv' /\ RedirectedIsListed'
  BY DEF IInv, OwnedInv, RedirectedIsListed
<1>4. CallInv'
  BY <1>0 DEF IInv, TypeOK, CallInv, InHand
<1>5. MissedInv'
  BY <1>0 DEF IInv, TypeOK, FlowInv, MissedInv
<1>6. AnsweredIsShown'
  BY <1>0 DEF IInv, TypeOK, CallInv, AnsweredIsShown
<1>. QED
  BY <1>1, <1>2, <1>3, <1>4, <1>5, <1>6 DEF IInv

LEMMA RejectStep == ASSUME IInv, NEW h \in Handlers, reject(h) PROVE IInv'
<1> USE DEF reject, rowVars, ownerVars, providerVars, callVars
<1>1. TypeOK' /\ FlowInv'
  BY DEF IInv, TypeOK, FlowInv
<1>2. OwnedInv' /\ RedirectedIsListed'
  BY DEF IInv, OwnedInv, RedirectedIsListed
<1>3. CallInv' /\ MissedInv' /\ AnsweredIsShown'
  BY DEF IInv, TypeOK, CallInv, MissedInv, AnsweredIsShown, InHand
<1>. QED
  BY <1>1, <1>2, <1>3 DEF IInv

-----------------------------------------------------------------------------
(* The provider, deletions, faults                                         *)

LEMMA ProgressStep == ASSUME IInv, NEW p \in Payments, progress(p) PROVE IInv'
<1> USE DEF progress, rowVars, ownerVars
<1>1. TypeOK'
  <2>1. \A h \in InHand(p) : cb[h].stage \in 1..Last
    BY Calls DEF IInv, TypeOK, InHand
  <2>2. late' \in [Payments -> SUBSET (1..Last)]
    BY <2>1 DEF IInv, TypeOK
  <2>3. undated' \in [Payments -> SUBSET (1..Last)] /\ missed' \in [Payments -> SUBSET (1..Last)]
    BY PaymentsAssumption DEF IInv, TypeOK
  <2>. QED
    BY <2>2, <2>3, PaymentsAssumption DEF IInv, TypeOK
<1>2. FlowInv'
  BY PaymentsAssumption DEF IInv, TypeOK, FlowInv
<1>3. OwnedInv' /\ RedirectedIsListed'
  BY DEF IInv, OwnedInv, RedirectedIsListed
<1>4. CallInv'
  BY PaymentsAssumption DEF IInv, TypeOK, CallInv, InHand
<1>5. MissedInv' /\ AnsweredIsShown'
  BY DEF IInv, TypeOK, MissedInv, AnsweredIsShown
<1>. QED
  BY <1>1, <1>2, <1>3, <1>4, <1>5 DEF IInv

LEMMA DeleteAdressStep == ASSUME IInv, NEW w \in Wallets, deleteAdress(w) PROVE IInv'
<1> USE DEF deleteAdress, providerVars, callVars
<1>1. TypeOK' /\ FlowInv'
  BY DEF IInv, TypeOK, FlowInv
<1>2. OwnedInv' /\ RedirectedIsListed'
  BY DEF IInv, TypeOK, OwnedInv, RedirectedIsListed
<1>3. CallInv' /\ MissedInv' /\ AnsweredIsShown'
  BY DEF IInv, CallInv, MissedInv, AnsweredIsShown, InHand
<1>. QED
  BY <1>1, <1>2, <1>3 DEF IInv

LEMMA DeleteUserStep == ASSUME IInv, NEW u \in Users, deleteUser(u) PROVE IInv'
<1> USE DEF deleteUser, providerVars, callVars
<1>1. TypeOK'
  <2> USE DEF IInv, TypeOK
  <2>1. status' \in [Payments -> 0..Last]
    BY PaymentsAssumption
  <2>2. \A p \in Payments \ rows' : status'[p] = 0
    OBVIOUS
  <2>3. hasWallet' \subseteq rows' /\ hasUser' \subseteq rows'
    OBVIOUS
  <2>. QED
    BY <2>1, <2>2, <2>3
<1>2. FlowInv'
  BY DEF IInv, TypeOK, FlowInv
<1>3. OwnedInv'
  BY DEF IInv, TypeOK, FlowInv, OwnedInv
<1>4. RedirectedIsListed'
  BY PaymentsAssumption DEF IInv, TypeOK, OwnedInv, RedirectedIsListed
<1>5. CallInv'
  BY DEF IInv, TypeOK, CallInv, InHand
<1>6. MissedInv' /\ AnsweredIsShown'
  BY DEF IInv, TypeOK, MissedInv, AnsweredIsShown
<1>. QED
  BY <1>1, <1>2, <1>3, <1>4, <1>5, <1>6 DEF IInv

LEMMA FailRequestStep == ASSUME IInv, NEW p \in Payments, failRequest(p) PROVE IInv'
<1> USE DEF failRequest, Goto, rowVars, ownerVars, providerVars, callVars
<1>1. TypeOK'
  BY PaymentsAssumption DEF IInv, TypeOK, Ended
<1>2. FlowInv'
  BY DEF IInv, TypeOK, FlowInv, Ended, Before
<1>3. OwnedInv' /\ RedirectedIsListed'
  BY DEF IInv, TypeOK, OwnedInv, RedirectedIsListed, Ended
<1>4. CallInv' /\ AnsweredIsShown'
  BY DEF IInv, CallInv, AnsweredIsShown, InHand
<1>5. MissedInv'
  BY DEF IInv, TypeOK, MissedInv, Before
<1>. QED
  BY <1>1, <1>2, <1>3, <1>4, <1>5 DEF IInv

LEMMA FailCallbackStep == ASSUME IInv, NEW h \in Handlers, failCallback(h) PROVE IInv'
<1> USE DEF failCallback, ownerVars, providerVars, callVars
<1> DEFINE p == cb[h].tx
<1>0. p \in Payments /\ cb[h].stage \in 1..Last /\ h \in InHand(p)
  BY Calls DEF IInv, TypeOK, InHand
<1>1. TypeOK'
  BY <1>0, PaymentsAssumption DEF IInv, TypeOK
<1>2. FlowInv'
  BY DEF IInv, TypeOK, FlowInv
<1>3. OwnedInv' /\ RedirectedIsListed'
  BY DEF IInv, OwnedInv, RedirectedIsListed
<1>4. CallInv'
  BY <1>0 DEF IInv, TypeOK, CallInv, InHand
<1>5. MissedInv'
  BY DEF IInv, MissedInv
<1>6. AnsweredIsShown'
  BY <1>0 DEF IInv, TypeOK, CallInv, AnsweredIsShown
<1>. QED
  BY <1>1, <1>2, <1>3, <1>4, <1>5, <1>6 DEF IInv

LEMMA CrashStep == ASSUME IInv, crash PROVE IInv'
<1> USE DEF crash, rowVars, ownerVars, providerVars, callVars
<1>1. TypeOK'
  BY PaymentsAssumption DEF IInv, TypeOK, Ended
<1>2. FlowInv'
  BY DEF IInv, TypeOK, FlowInv, Ended, Before
<1>3. OwnedInv' /\ RedirectedIsListed'
  BY DEF IInv, TypeOK, OwnedInv, RedirectedIsListed, Ended
<1>4. CallInv' /\ AnsweredIsShown'
  BY DEF IInv, CallInv, AnsweredIsShown, InHand
<1>5. MissedInv'
  BY DEF IInv, TypeOK, MissedInv, Before, Ended
<1>. QED
  BY <1>1, <1>2, <1>3, <1>4, <1>5 DEF IInv

-----------------------------------------------------------------------------
LEMMA NextIInv == IInv /\ [Next]_vars => IInv'
<1> SUFFICES ASSUME IInv, [Next]_vars PROVE IInv'
  OBVIOUS
<1>1. ASSUME NEW p \in Payments, newTransaction(p) PROVE IInv'
  BY <1>1, CheckAddressStep, PostTransactionStep, CreateRowStep, SetWalletStep, AddToUserStep
     DEF newTransaction
<1>2. ASSUME NEW p \in Payments, progress(p) \/ failRequest(p) PROVE IInv'
  BY <1>2, ProgressStep, FailRequestStep
<1>3. ASSUME NEW h \in Handlers, handle(h) \/ failCallback(h) PROVE IInv'
  BY <1>3, UpdateStep, RejectStep, FailCallbackStep DEF handle
<1>5. ASSUME NEW p \in Payments, NEW s \in 1..Last, callback(p, s) PROVE IInv'
  BY <1>5, ReceiveStep DEF callback
<1>4. CASE UNCHANGED vars
  BY <1>4 DEF vars, providerVars, callVars, IInv, TypeOK, FlowInv, OwnedInv, RedirectedIsListed, CallInv, MissedInv,
              AnsweredIsShown, InHand
<1>. QED
  BY <1>1, <1>2, <1>3, <1>4, <1>5, DeleteAdressStep, DeleteUserStep, CrashStep DEF Next

LEMMA Invariance == Spec => []IInv
BY InitIInv, NextIInv, PTL DEF Spec

\* Every variable stays in its range (the whole of newTransaction and callback).
THEOREM TypeCorrect == Spec => []TypeOK
<1>1. IInv => TypeOK
  BY DEF IInv
<1>. QED
  BY <1>1, Invariance, PTL

\* Who was sent to the payment form finds his payment in his list, whichever wallets
\* and users were deleted meanwhile (newTransaction, deleteAdress, delete).
THEOREM Redirected == Spec => []RedirectedIsListed
<1>1. IInv => RedirectedIsListed
  BY DEF IInv
<1>. QED
  BY <1>1, Invariance, PTL

\* The row shows the stage that was answered last, or one whose call is late
\* (callback).
THEOREM Answered == Spec => []AnsweredIsShown
<1>1. IInv => AnsweredIsShown
  BY DEF IInv
<1>. QED
  BY <1>1, Invariance, PTL

\* The row falls back to a late stage only, though calls are repeated and run among
\* the statements of newTransaction (callback).
THEOREM Rise == Spec => StagesOnlyRise
<1>1. ASSUME IInv, [Next]_vars
      PROVE  [\A p \in rows \intersect rows' : status'[p] < status[p] => status'[p] \in late[p]]_vars
  <2>1. TypeOK /\ CallInv
    BY <1>1 DEF IInv
  <2>2. \A p \in Payments : status[p] \in Int /\ stage[p] \in Int
    BY <2>1, PaymentsAssumption DEF TypeOK
  <2>3. rows \subseteq Payments
    BY <2>1 DEF TypeOK
  <2>4. ASSUME NEW h \in Handlers, update(h) \/ failCallback(h), NEW p \in rows \intersect rows',
               status'[p] < status[p]
        PROVE  status'[p] \in late[p]
    <3>1. p = cb[h].tx /\ status'[p] = cb[h].stage /\ h \in InHand(p) /\ cb[h].stage \in 1..Last
      BY <2>1, <2>2, <2>3, <2>4, Calls DEF update, failCallback, TypeOK, InHand
    <3>. QED
      BY <2>1, <2>2, <2>3, <2>4, <3>1 DEF CallInv
  <2>5. ASSUME NEW u \in Users, deleteUser(u), NEW p \in rows'
        PROVE  status'[p] = status[p]
    BY <2>3, <2>5 DEF deleteUser
  <2>6. ASSUME NEW p \in Payments, newTransaction(p) \/ progress(p) \/ failRequest(p)
        PROVE  status' = status
    BY <2>6 DEF newTransaction, checkAddress, postTransaction, createRow, setWallet, addToUser,
                progress, failRequest, rowVars
  <2>7. ASSUME NEW h \in Handlers, NEW p \in Payments, NEW s \in 1..Last, receive(h, p, s)
        PROVE  status' = status
    BY <2>7 DEF receive, rowVars
  <2>8. ASSUME NEW w \in Wallets, deleteAdress(w) PROVE status' = status
    BY <2>8 DEF deleteAdress
  <2>9. crash \/ UNCHANGED vars \/ (\E h \in Handlers : reject(h)) => status' = status
    BY DEF crash, reject, rowVars, vars
  <2>. QED
    BY <1>1, <2>2, <2>3, <2>4, <2>5, <2>6, <2>7, <2>8, <2>9 DEF Next, handle, callback
<1>. QED
  BY <1>1, Invariance, PTL DEF Spec, StagesOnlyRise

-----------------------------------------------------------------------------
(* Swap offers, for any pairs, amounts, price of a transaction and number of *)
(* open requests.                                                            *)

\* A swap that is offered, or about to be, has its row while the account exists.
OfferInv == \A r \in Requests : account /\ req[r].at \in {"offer", "swap"} => r \in swapRows

SwapInv == SwapTypeOK /\ OfferInv /\ ExecutedSwapsHaveRow

-----------------------------------------------------------------------------
\* The continuations a handler may leave.
LEMMA SwapShapes ==
  /\ NoRequest \in Continuations /\ NoRequest.at = "idle"
  /\ \A a \in Answers \union {"create", "offer"} : [at |-> a] \in Continuations /\ [at |-> a].at = a
<1>1. NoRequest \in Continuations /\ NoRequest.at = "idle"
  BY DEF NoRequest, Continuations
<1>2. \A a \in Answers \union {"create", "offer"} : [at |-> a] \in Continuations /\ [at |-> a].at = a
  BY DEF Continuations
<1>. QED
  BY <1>1, <1>2

\* What a transaction takes is there, as Executable says.
LEMMA SwapPaid ==
  ASSUME SwapTypeOK, Executable
  PROVE  /\ native - Gas - Value \in 0..(MaxAmount + 2 * Gas)
         /\ In # "native" => tokens - amount \in 0..MaxAmount /\ allowance \in {amount, Unlimited}
<1>1. amount \in Nat \ {0} /\ native \in Nat /\ tokens \in Nat /\ Gas \in Nat /\ MaxAmount \in Nat
  BY SwapOffersAssumption DEF SwapTypeOK
<1>2. native <= MaxAmount + 2 * Gas /\ tokens <= MaxAmount
  BY <1>1 DEF SwapTypeOK
<1>3. allowance \in {0, amount, Unlimited}
  BY DEF SwapTypeOK
<1>. QED
  BY <1>1, <1>2, <1>3 DEF Executable, Value

LEMMA InitSwapInv == SwapInit => SwapInv
<1> SUFFICES ASSUME SwapInit PROVE SwapInv
  OBVIOUS
<1>1. req \in [Requests -> Continuations] /\ OfferInv
  BY SwapShapes DEF SwapInit, OfferInv
<1>2. SwapTypeOK
  BY <1>1, SwapOffersAssumption DEF SwapInit, SwapTypeOK
<1>. QED
  BY <1>1, <1>2 DEF SwapInit, SwapInv, ExecutedSwapsHaveRow

-----------------------------------------------------------------------------
\* swapExt only writes its own continuation and its own row, which is there before
\* the offer is.
LEMMA HandlerStep ==
  ASSUME SwapInv, NEW r \in Requests, swapExt(r) \/ swapExt_fail(r) PROVE SwapInv'
<1>1. /\ req' = [req EXCEPT ![r] = req'[r]] /\ req'[r] \in Continuations
      /\ swapRows' \in {swapRows, swapRows \union {r}}
      /\ account /\ req'[r].at \in {"offer", "swap"} => r \in swapRows'
  <2> USE DEF SwapInv, SwapTypeOK, Answer, Answers
  <2>1. CASE swapExt_unlisted(r)
    BY <2>1, SwapShapes DEF swapExt_unlisted
  <2>2. CASE getAllowanceAndBalance(r)
    <3>1. native \in Nat /\ tokens \in Nat /\ allowance \in Nat
      BY SwapOffersAssumption DEF Unlimited
    <3>. QED
      BY <2>2, <3>1 DEF getAllowanceAndBalance, Continuations
  <2>3. CASE swapExt_refuse(r)
    BY <2>3, SwapShapes DEF swapExt_refuse
  <2>4. CASE swapExt_approve(r)
    BY <2>4, SwapShapes DEF swapExt_approve
  <2>5. CASE swapExt_swap(r)
    BY <2>5, SwapShapes DEF swapExt_swap
  <2>6. CASE swapExt_create(r)
    <3>1. \/ Answer(r, "offer") /\ swapRows' = swapRows \union {r}
          \/ Answer(r, "error") /\ swapRows' = swapRows
      BY <2>6 DEF swapExt_create
    <3>2. ASSUME NEW a \in {"offer", "error"}, Answer(r, a)
          PROVE  /\ req' = [req EXCEPT ![r] = req'[r]] /\ req'[r] \in Continuations
                 /\ req'[r].at = a
      BY <3>2, SwapShapes
    <3>. HIDE DEF Answer
    <3>. QED
      BY <3>1, <3>2
  <2>7. CASE swapExt_answer(r)
    BY <2>7, SwapShapes DEF swapExt_answer, OfferInv
  <2>8. CASE swapExt_fail(r)
    BY <2>8, SwapShapes DEF swapExt_fail
  <2>. QED
    BY <2>1, <2>2, <2>3, <2>4, <2>5, <2>6, <2>7, <2>8 DEF swapExt
<1>2. /\ UNCHANGED <<chainVars, listed, pair, amount, account, swapped>>
      /\ moves' \in 0..MaxMoves
  <2>1. CASE swapExt(r)
    BY <2>1 DEF SwapInv, SwapTypeOK, swapExt, swapExt_unlisted, getAllowanceAndBalance,
                swapExt_refuse, swapExt_approve, swapExt_swap, swapExt_create, swapExt_answer,
                userVars
  <2>2. CASE swapExt_fail(r)
    BY <2>2, SwapOffersAssumption DEF SwapInv, SwapTypeOK, swapExt_fail
  <2>. QED
    BY <2>1, <2>2
<1>3. OfferInv'
  BY <1>1, <1>2 DEF SwapInv, SwapTypeOK, OfferInv
<1>. QED
  BY <1>1, <1>2, <1>3 DEF SwapInv, SwapTypeOK, ExecutedSwapsHaveRow, chainVars, Unlimited

\* To close a request disturbs no other's row.
LEMMA CloseStep ==
  ASSUME SwapInv, NEW r \in Requests, Close(r), UNCHANGED account
  PROVE  OfferInv' /\ req' \in [Requests -> Continuations] /\ swapRows' \subseteq Requests
BY SwapShapes DEF SwapInv, SwapTypeOK, OfferInv, Close

LEMMA SendApprovalStep == ASSUME SwapInv, NEW r \in Requests, sendApproval(r) PROVE SwapInv'
<1>1. OfferInv' /\ req' \in [Requests -> Continuations] /\ swapRows' \subseteq Requests
  BY CloseStep DEF sendApproval, userVars
<1>. QED
  BY <1>1, SwapOffersAssumption
     DEF SwapInv, SwapTypeOK, ExecutedSwapsHaveRow, sendApproval, userVars, Unlimited

LEMMA SendSwapStep == ASSUME SwapInv, NEW r \in Requests, sendSwap(r) PROVE SwapInv'
<1> USE DEF sendSwap
<1>1. account => swapped' = "recorded"
  BY DEF SwapInv, OfferInv
<1>2. native' \in 0..(MaxAmount + 2 * Gas) /\ tokens' \in 0..MaxAmount
  BY SwapPaid DEF SwapInv, SwapTypeOK
<1>3. allowance' \in {0, amount', Unlimited}
  BY SwapPaid, SwapOffersAssumption DEF SwapInv, SwapTypeOK, Unlimited
<1>4. OfferInv' /\ req' \in [Requests -> Continuations] /\ swapRows' \subseteq Requests
  BY CloseStep
<1>. QED
  BY <1>1, <1>2, <1>3, <1>4 DEF SwapInv, SwapTypeOK, ExecutedSwapsHaveRow

LEMMA DropStep == ASSUME SwapInv, NEW r \in Requests, drop(r) PROVE SwapInv'
<1>1. OfferInv' /\ req' \in [Requests -> Continuations] /\ swapRows' \subseteq Requests
  BY CloseStep DEF drop, userVars
<1>. QED
  BY <1>1 DEF SwapInv, SwapTypeOK, ExecutedSwapsHaveRow, drop, chainVars, userVars, Unlimited

LEMMA ElsewhereStep == ASSUME SwapInv, useElsewhere \/ editTokens \/ deleteAccount PROVE SwapInv'
<1>1. CASE useElsewhere
  BY <1>1, SwapOffersAssumption DEF SwapInv, SwapTypeOK, OfferInv, ExecutedSwapsHaveRow, useElsewhere,
                                    Unlimited
<1>2. CASE editTokens
  BY <1>2, SwapOffersAssumption DEF SwapInv, SwapTypeOK, OfferInv, ExecutedSwapsHaveRow, editTokens,
                                    chainVars, Unlimited
<1>3. CASE deleteAccount
  BY <1>3 DEF SwapInv, SwapTypeOK, OfferInv, ExecutedSwapsHaveRow, deleteAccount, chainVars, Unlimited
<1>. QED
  BY <1>1, <1>2, <1>3

LEMMA NextSwapInv == SwapInv /\ [SwapNext]_swapVars => SwapInv'
<1> SUFFICES ASSUME SwapInv, [SwapNext]_swapVars PROVE SwapInv'
  OBVIOUS
<1>1. CASE UNCHANGED swapVars
  BY <1>1 DEF swapVars, SwapInv, SwapTypeOK, OfferInv, ExecutedSwapsHaveRow, Unlimited
<1>. QED
  BY <1>1, HandlerStep, SendApprovalStep, SendSwapStep, DropStep, ElsewhereStep DEF SwapNext, send

LEMMA SwapInvariance == SwapSpec => []SwapInv
BY InitSwapInv, NextSwapInv, PTL DEF SwapSpec

\* Every variable stays in its range: no transaction the user is offered takes what
\* his wallet does not have, whatever was read before (swapExt).
THEOREM SwapTypeCorrect == SwapSpec => []SwapTypeOK
<1>1. SwapInv => SwapTypeOK
  BY DEF SwapInv
<1>. QED
  BY <1>1, SwapInvariance, PTL

\* Every swap executed from an offer has its row, unless the account was deleted
\* (swapExt).
THEOREM SwapRecorded == SwapSpec => []ExecutedSwapsHaveRow
<1>1. SwapInv => ExecutedSwapsHaveRow
  BY DEF SwapInv
<1>. QED
  BY <1>1, SwapInvariance, PTL
=============================================================================

---------------------------- MODULE Presale_proofs ----------------------------
(* Proofs for the two halves of the presale service.  Presale: its safety      *)
(* properties, for any investors, terms, supply and number of requests.        *)
(* Locker: its records agree and its approvals are used, for any accounts,     *)
(* batches of deposits, errors of the sums and number of requests.             *)
EXTENDS Presale, Locker, Sums_proofs, SequenceTheorems

-----------------------------------------------------------------------------
(* Arithmetic                                                              *)

LEMMA ProductInNat == \A a, b \in Nat : a * b \in Nat
  OBVIOUS

LEMMA ProductMonotone ==
  ASSUME NEW r \in Nat, NEW x \in Nat, NEW y \in Nat, x <= y
  PROVE  r * x <= r * y
  OBVIOUS

LEMMA QuotientBounds ==
  ASSUME NEW a \in Nat, NEW b \in Nat, b > 0
  PROVE  /\ a \div b \in Nat
         /\ b * (a \div b) <= a
         /\ a < b * (a \div b) + b
  OBVIOUS

LEMMA QuotientExact ==
  ASSUME NEW r \in Nat, NEW x \in Nat, x > 0
  PROVE  (r * x) \div x = r
  OBVIOUS

-----------------------------------------------------------------------------
(* The shares of endPresale                                                *)

Types ==
  /\ terms \in [min : Nat, max : Nat, total : Nat, cap : Nat, rate : Nat, unlock : Nat]
  /\ devEth \in Nat /\ liquidityEth \in Nat /\ liquidityTokens \in Nat
  /\ eth \in Nat /\ tokens \in Nat /\ invested \in [Investors -> Nat]
  /\ poolEth \in Nat /\ lp \in {"nobody", "contract", "owner"}
  /\ rounds \in Nat /\ raised \in Nat /\ toDev \in Nat
  /\ unlock \in Nat /\ now \in Nat
  /\ active \in BOOLEAN /\ ended \in BOOLEAN /\ pool \in BOOLEAN
  /\ active => terms \in Terms

LEMMA SharesAreNumbers ==
  ASSUME Types
  PROVE  /\ DevShare \in Nat /\ DevShare <= eth
         /\ PoolRate \in Nat /\ (terms.rate > 0 => PoolRate > 0)
         /\ eth - DevShare \in Nat /\ Wanted \in Nat /\ PoolTokens \in Nat
<1>1. DevShare \in Nat /\ DevShare <= eth /\ eth - DevShare \in Nat
  BY DEF Types, DevShare
<1>2. terms.rate \in Nat
  BY DEF Types
<1>3. PoolRate \in Nat /\ (terms.rate > 0 => PoolRate > 0)
  BY <1>2 DEF PoolRate
<1>4. Wanted \in Nat
  BY <1>1, <1>3, ProductInNat DEF Wanted
<1> QED
  BY <1>1, <1>3, <1>4 DEF Types, PoolTokens

\* A sale whose tokens do not suffice for the pool can never be ended, although
\* endPresale has a branch for it that clips the pool to the tokens left: the
\* coins of the pool come out multiplied by Scale, and their rate is not PoolRate.
THEOREM ClippedNeverEnds ==
  ASSUME Types, Clipped PROVE ~CanEnd
<1> SUFFICES ASSUME CanEnd PROVE FALSE
  OBVIOUS
<1> DEFINE r == PoolRate
           e == (tokens * Scale) \div r
<1>1. tokens \in Nat /\ Scale \in Nat /\ Scale > 1 /\ terms.rate \in Nat /\ terms.rate > 0
  BY PresaleAssumption DEF Types, CanEnd
<1>2. r \in Nat /\ r > 0
  BY <1>1, SharesAreNumbers
<1>3. tokens * Scale \in Nat
  BY <1>1, ProductInNat
<1>4. e > 0 /\ tokens \div e = r
  BY DEF CanEnd, PoolEth, PoolTokens
<1> HIDE DEF r
<1>5. e \in Nat /\ tokens * Scale < r * e + r
  BY <1>2, <1>3, QuotientBounds
<1> HIDE DEF e
<1>6. e * r <= tokens
  BY <1>1, <1>4, <1>5, QuotientBounds
<1>7. 2 * tokens <= tokens * Scale
  BY <1>1
<1>8. 2 * (e * r) < e * r + r
  <2>1. e * r \in Nat /\ r * e = e * r
    BY <1>2, <1>5, ProductInNat
  <2> QED
    BY <2>1, <1>1, <1>2, <1>3, <1>5, <1>6, <1>7
<1>9. r <= e * r
  BY <1>2, <1>4, <1>5
<1> QED
  BY <1>2, <1>5, <1>8, <1>9, ProductInNat

\* What endPresale sets aside for the pool is there, and is all but a fifth.
LEMMA SharesAreCovered ==
  ASSUME Types, CanEnd
  PROVE  /\ PoolEth = eth - DevShare
         /\ 0 < PoolEth /\ PoolEth <= eth /\ PoolEth \in Nat
         /\ 0 < PoolTokens /\ PoolTokens <= tokens /\ PoolTokens \in Nat
<1>1. ~Clipped
  BY ClippedNeverEnds
<1>2. PoolEth = eth - DevShare /\ PoolTokens = Wanted /\ Wanted <= tokens
  BY <1>1, SharesAreNumbers DEF PoolEth, PoolTokens, Clipped, Types
<1>3. PoolEth \in Nat /\ PoolEth > 0 /\ PoolEth <= eth
  BY <1>2, SharesAreNumbers DEF CanEnd, Types
<1>4. PoolRate \in Nat /\ PoolRate > 0
  BY SharesAreNumbers DEF CanEnd, Types
<1>5. Wanted > 0
  BY <1>2, <1>3, <1>4 DEF Wanted
<1> QED
  BY <1>2, <1>3, <1>5, SharesAreNumbers

-----------------------------------------------------------------------------
(* The steps                                                               *)

\* A call is executed, and does not revert.
Executed ==
  \/ \E t \in Terms : ~active /\ startPresale(t)
  \/ \E i \in Investors, v \in Nat : CanReceive(i, v) /\ receive(i, v)
  \/ CanEnd /\ endPresale
  \/ CanAddLiquidity /\ addLiquidityToPool
  \/ CanWithdrawDev /\ withdrawDevEth
  \/ unlock < now /\ withdrawTokens
  \/ withdrawLiquidity

\* Steps as the contract sees them.
ContractStep ==
  \/ Executed /\ now' = now
  \/ UNCHANGED contractVars /\ now' \in {now, now + 1}

ReqInv ==
  /\ req \in [Requests -> {Idle} \union
       [step : {"nonce", "estimate", "send", "list"}, job : Jobs, nonce : 0..MaxTxs]]
  /\ count \in 0..MaxTxs

LEMMA JobOfRequest ==
  ASSUME ReqInv, NEW q \in Requests, ~At(q, "idle")
  PROVE  Job(q) \in Jobs
BY DEF ReqInv, At, Job, Idle

LEMMA StepIsCall ==
  ASSUME ReqInv, Types, [Next]_vars PROVE ContractStep
<1>1. ASSUME NEW q \in Requests, send(q) PROVE ContractStep
  <2>1. Job(q) \in Jobs /\ now' = now
    BY <1>1, JobOfRequest DEF send, sendSignedTransaction, At
  <2>2. ASSUME NEW j \in Jobs, Succeeds(j), execute(j)
        PROVE  Executed \/ UNCHANGED contractVars
    BY <2>2 DEF Succeeds, execute, Jobs, Ops, Executed
  <2> QED
    BY <1>1, <2>1, <2>2 DEF send, ContractStep
<1>2. ASSUME NEW i \in Investors, invest(i) PROVE ContractStep
  <2>1. PICK v \in terms.min .. terms.max : CanReceive(i, v) /\ receive(i, v)
    BY <1>2 DEF invest
  <2>2. v \in Nat
    BY DEF Types
  <2> QED
    BY <1>2, <2>1, <2>2 DEF invest, ContractStep, Executed
<1>3. ASSUME tick PROVE ContractStep
  BY <1>3 DEF tick, ContractStep
<1>4. ASSUME NEW q \in Requests, Begin(q) \/ prepare(q) \/ addToken(q) \/ fail(q)
      PROVE  ContractStep
  BY <1>4 DEF Begin, prepare, addToken, fail, ContractStep
<1>5. CASE UNCHANGED vars
  BY <1>5 DEF vars, ContractStep, contractVars, stateVars, shareVars, poolVars, moneyVars
<1> QED
  BY <1>1, <1>2, <1>3, <1>4, <1>5 DEF Next

LEMMA TypesKept ==
  ASSUME Types, ContractStep PROVE Types'
<1> USE DEF Types, stateVars, shareVars, poolVars, moneyVars
<1>1. ASSUME NEW t \in Terms, startPresale(t), now' = now PROVE Types'
  BY <1>1, PresaleAssumption DEF startPresale
<1>2. ASSUME NEW i \in Investors, NEW v \in Nat, CanReceive(i, v), receive(i, v), now' = now
      PROVE  Types'
  <2>1. terms.rate * v \in Nat /\ terms.rate * v <= tokens
    BY <1>2, ProductInNat DEF CanReceive
  <2> QED
    BY <1>2, <2>1 DEF receive
<1>3. ASSUME CanEnd, endPresale, now' = now PROVE Types'
  BY <1>3, SharesAreNumbers, SharesAreCovered DEF endPresale
<1>4. ASSUME CanAddLiquidity, addLiquidityToPool, now' = now PROVE Types'
  BY <1>4 DEF CanAddLiquidity, addLiquidityToPool
<1>5. ASSUME withdrawDevEth, now' = now PROVE Types'
  BY <1>5 DEF withdrawDevEth
<1>6. ASSUME withdrawTokens, now' = now PROVE Types'
  BY <1>6 DEF withdrawTokens
<1>7. ASSUME withdrawLiquidity, now' = now PROVE Types'
  BY <1>7 DEF withdrawLiquidity
<1>8. ASSUME UNCHANGED contractVars, now' \in {now, now + 1} PROVE Types'
  BY <1>8 DEF contractVars
<1> QED
  BY <1>1, <1>2, <1>3, <1>4, <1>5, <1>6, <1>7, <1>8 DEF ContractStep, Executed

LEMMA ReqInvKept ==
  ASSUME ReqInv, [Next]_vars PROVE ReqInv'
<1> USE PresaleAssumption DEF ReqInv, Idle, At, Goto, End, Job
<1>1. ASSUME NEW q \in Requests, Begin(q) PROVE ReqInv'
  BY <1>1 DEF Begin, Ask, Call
<1>2. ASSUME NEW q \in Requests, prepare(q) PROVE ReqInv'
  <2>1. CASE getTransactionCount(q)
    BY <2>1 DEF getTransactionCount
  <2>2. CASE estimateGas(q, Succeeds(Job(q)))
    BY <2>2 DEF estimateGas
  <2>3. CASE refuse(q)
    BY <2>3 DEF refuse
  <2> QED
    BY <1>2, <2>1, <2>2, <2>3 DEF prepare
<1>3. ASSUME NEW q \in Requests, send(q) PROVE ReqInv'
  <2>1. count' \in 0..MaxTxs
    BY <1>3 DEF send, sendSignedTransaction
  <2>2. Goto(q, "list") \/ End(q)
    BY <1>3 DEF send
  <2>3. At(q, "send")
    BY <1>3 DEF send, sendSignedTransaction
  <2> QED
    BY <2>1, <2>2, <2>3
<1>4. ASSUME NEW q \in Requests, addToken(q) \/ fail(q) PROVE ReqInv'
  BY <1>4 DEF addToken, fail
<1>5. ASSUME NEW i \in Investors, invest(i) PROVE ReqInv'
  BY <1>5 DEF invest
<1>6. CASE tick
  BY <1>6 DEF tick
<1>7. CASE UNCHANGED vars
  BY <1>7 DEF vars
<1> QED
  BY <1>1, <1>2, <1>3, <1>4, <1>5, <1>6, <1>7 DEF Next

Base == Types /\ ReqInv

LEMMA BaseInvariant == Spec => []Base
<1>1. Init => Base
  <2> SUFFICES ASSUME Init PROVE Base
    OBVIOUS
  <2>1. Types
    BY PresaleAssumption DEF Init, Types
  <2>2. ReqInv
    BY PresaleAssumption DEF Init, ReqInv
  <2> QED
    BY <2>1, <2>2 DEF Base
<1>2. Base /\ [Next]_vars => Base'
  BY StepIsCall, TypesKept, ReqInvKept DEF Base
<1> QED
  BY <1>1, <1>2, PTL DEF Spec

-----------------------------------------------------------------------------
(* The theorems                                                            *)

ListInv ==
  /\ listed \in {0, 1}
  /\ listed = 1 => pool
  /\ \A q \in Requests : At(q, "list") => pool /\ listed = 0
  /\ \A p, q \in Requests : At(p, "list") /\ At(q, "list") => p = q
  /\ pool /\ ~lost => listed = 1 \/ \E q \in Requests : At(q, "list")
  /\ lost \in BOOLEAN

\* Once a pool is made, no other request gets to make one: so there is at most
\* one that is about to list the pair, and none any more once it is listed.
LEMMA ListKept ==
  ASSUME Base, ListInv, [Next]_vars PROVE ListInv'
<1> USE DEF ListInv, Base, ReqInv, At, Goto, End, Job, Idle
<1>1. ASSUME NEW q \in Requests, Begin(q) PROVE ListInv'
  BY <1>1 DEF Begin, Ask, Call, contractVars, stateVars
<1>2. ASSUME NEW q \in Requests, prepare(q) PROVE ListInv'
  <2>1. CASE getTransactionCount(q)
    BY <1>2, <2>1 DEF prepare, getTransactionCount, contractVars, stateVars
  <2>2. CASE estimateGas(q, Succeeds(Job(q)))
    BY <1>2, <2>2 DEF prepare, estimateGas, contractVars, stateVars
  <2>3. CASE refuse(q)
    BY <1>2, <2>3 DEF prepare, refuse, contractVars, stateVars
  <2> QED
    BY <1>2, <2>1, <2>2, <2>3 DEF prepare
<1>3. ASSUME NEW q \in Requests, send(q) PROVE ListInv'
  <2>0. /\ At(q, "send") /\ listed' = listed /\ lost' = lost
        /\ \A p \in Requests \ {q} : At(p, "list")' <=> At(p, "list")
    BY <1>3 DEF send, sendSignedTransaction
  <2>1. CASE Succeeds(Job(q)) /\ execute(Job(q)) /\ Job(q).op = "liquidity"
    <3>1. ~pool /\ pool'
      BY <2>1 DEF Succeeds, execute, CanAddLiquidity, addLiquidityToPool
    <3>2. At(q, "list")'
      BY <1>3, <2>1, <3>1 DEF send, stateVars, contractVars
    <3> QED
      BY <2>0, <3>1, <3>2
  <2>2. CASE Succeeds(Job(q)) /\ execute(Job(q)) /\ Job(q).op # "liquidity" /\ End(q)
    <3>1. pool' = pool
      BY <2>2 DEF execute, startPresale, endPresale, withdrawDevEth, withdrawTokens,
         withdrawLiquidity, contractVars, stateVars
    <3> QED
      BY <2>0, <2>2, <3>1
  <2>3. CASE End(q) /\ UNCHANGED contractVars
    BY <2>0, <2>3 DEF contractVars, stateVars
  <2> QED
    BY <1>3, <2>1, <2>2, <2>3 DEF send
<1>4. ASSUME NEW q \in Requests, addToken(q) PROVE ListInv'
  BY <1>4 DEF addToken, contractVars, stateVars
<1>5. ASSUME NEW q \in Requests, fail(q) PROVE ListInv'
  BY <1>5 DEF fail, contractVars, stateVars
<1>6. ASSUME NEW i \in Investors, invest(i) PROVE ListInv'
  BY <1>6 DEF invest, receive, stateVars
<1>7. CASE tick
  BY <1>7 DEF tick, contractVars, stateVars
<1>8. CASE UNCHANGED vars
  BY <1>8 DEF vars
<1> QED
  BY <1>1, <1>2, <1>3, <1>4, <1>5, <1>6, <1>7, <1>8 DEF Next

LEMMA ListInvariant == Spec => []ListInv
<1>1. Init => ListInv
  <2> SUFFICES ASSUME Init PROVE ListInv
    OBVIOUS
  <2>1. \A q \in Requests : ~At(q, "list")
    BY DEF Init, At, Idle
  <2>2. ~pool /\ lost \in BOOLEAN
    BY DEF Init
  <2>3. listed \in {0, 1} /\ listed # 1
    BY DEF Init
  <2> QED
    BY <2>1, <2>2, <2>3 DEF ListInv
<1> QED
  BY <1>1, ListKept, BaseInvariant, PTL DEF Spec

\* The type invariant (TypeOK): no balance of the contract ever goes below zero.
THEOREM TypeCorrect == Spec => []TypeOK
<1>1. Base /\ ListInv => TypeOK
  BY DEF Base, Types, ReqInv, ListInv, TypeOK, SendTxTypeOK, At, Job, Idle
<1> QED
  BY <1>1, BaseInvariant, ListInvariant, PTL

\* However many requests for the pool overlap (liquidity, sendTx), its pair is
\* listed once, unless the request ended in between (PoolIsListed).
THEOREM ListedOnce == Spec => []PoolIsListed
<1>1. ListInv => PoolIsListed
  BY DEF ListInv, PoolIsListed
<1> QED
  BY <1>1, ListInvariant, PTL

\* What endPresale set aside can be made a pool until the tokens are unlocked,
\* whatever calls come in between (PoolCanBeMade).
THEOREM Payable == Spec => []PoolCanBeMade
<1>1. Init => PoolCanBeMade
  BY DEF Init, PoolCanBeMade
<1>2. ASSUME Base, PoolCanBeMade, ContractStep PROVE PoolCanBeMade'
  <2> USE DEF PoolCanBeMade, CanAddLiquidity, stateVars, shareVars, poolVars, moneyVars
  <2>1. ASSUME NEW t \in Terms, startPresale(t) PROVE PoolCanBeMade'
    BY <2>1 DEF startPresale
  <2>2. ASSUME NEW i \in Investors, NEW v \in Nat, CanReceive(i, v), receive(i, v)
        PROVE  PoolCanBeMade'
    BY <2>2 DEF receive, CanReceive
  <2>3. ASSUME CanEnd, endPresale PROVE PoolCanBeMade'
    BY <1>2, <2>3, SharesAreCovered DEF endPresale, Base
  <2>4. ASSUME addLiquidityToPool PROVE PoolCanBeMade'
    BY <2>4 DEF addLiquidityToPool
  <2>5. ASSUME CanWithdrawDev, withdrawDevEth PROVE PoolCanBeMade'
    BY <2>5 DEF CanWithdrawDev, withdrawDevEth
  <2>6. ASSUME unlock < now, withdrawTokens, now' = now PROVE PoolCanBeMade'
    BY <1>2, <2>6 DEF withdrawTokens, Base, Types
  <2>7. ASSUME withdrawLiquidity, now' = now PROVE PoolCanBeMade'
    BY <1>2, <2>7 DEF withdrawLiquidity
  <2>8. ASSUME UNCHANGED contractVars, now' \in {now, now + 1} PROVE PoolCanBeMade'
    BY <1>2, <2>8 DEF contractVars, Base, Types
  <2> QED
    BY <1>2, <2>1, <2>2, <2>3, <2>4, <2>5, <2>6, <2>7, <2>8 DEF ContractStep, Executed
<1> QED
  BY <1>1, <1>2, StepIsCall, BaseInvariant, PTL DEF Spec, Base

\* Until the contract sold a second time, what it raised is accounted for by the
\* stage it is in: kept, set aside for the pool and the developer, or paid out.
FirstSale ==
  /\ rounds = 0 =>
       /\ ~active /\ ~ended /\ ~pool /\ eth = 0 /\ raised = 0 /\ toDev = 0 /\ poolEth = 0
       /\ tokens = Supply \/ tokens = 0
  /\ rounds = 1 /\ ~pool => toDev = 0 /\ poolEth = 0 /\ raised = eth
  /\ rounds = 1 /\ ~pool /\ ended => ~active /\ liquidityEth = eth - eth \div 5
  /\ rounds = 1 /\ pool => ~active /\ toDev + eth = raised \div 5 /\ poolEth = raised - raised \div 5
  /\ rounds = 1 /\ active /\ now <= unlock =>
       /\ eth <= terms.cap
       /\ tokens + terms.rate * eth = Supply \/ (tokens = 0 /\ eth = 0)

LEMMA FirstSaleKept ==
  ASSUME Types, FirstSale, ContractStep PROVE FirstSale'
<1> USE DEF Types, FirstSale, stateVars, shareVars, poolVars, moneyVars
<1>1. ASSUME NEW t \in Terms, ~active, startPresale(t), now' = now PROVE FirstSale'
  <2>1. t.cap \in Nat /\ t.rate \in Nat /\ t.rate * 0 = 0
    BY PresaleAssumption
  <2>2. CASE rounds = 0
    BY <1>1, <2>1, <2>2, PresaleAssumption DEF startPresale
  <2>3. CASE rounds # 0
    BY <1>1, <2>3 DEF startPresale
  <2> QED
    BY <2>2, <2>3
<1>2. ASSUME NEW i \in Investors, NEW v \in Nat, CanReceive(i, v), receive(i, v), now' = now
      PROVE  FirstSale'
  <2>1. /\ terms.rate \in Nat /\ terms.rate > 0 /\ v > 0
        /\ terms.rate * v \in Nat /\ terms.rate * v > 0 /\ terms.rate * v <= tokens
        /\ terms.rate * (eth + v) = terms.rate * eth + terms.rate * v
        /\ terms.rate * eth \in Nat
    BY <1>2, PresaleAssumption, ProductInNat DEF CanReceive
  <2>2. rounds # 0 /\ active /\ eth + v <= terms.cap
    BY <1>2 DEF CanReceive
  <2>3. CASE rounds = 1
    <3>1. ~pool /\ ~ended
      BY <2>2, <2>3
    <3>2. now <= unlock => tokens' + terms'.rate * eth' = Supply
      BY <1>2, <2>1, <2>2, <2>3 DEF receive
    <3> QED
      BY <1>2, <2>2, <2>3, <3>1, <3>2 DEF receive
  <2>4. CASE rounds # 1
    BY <1>2, <2>2, <2>4 DEF receive
  <2> QED
    BY <2>3, <2>4
<1>3. ASSUME CanEnd, endPresale, now' = now PROVE FirstSale'
  <2>1. active /\ PoolEth = eth - eth \div 5
    BY <1>3, SharesAreCovered DEF CanEnd, DevShare
  <2> QED
    BY <1>3, <2>1 DEF endPresale
<1>4. ASSUME CanAddLiquidity, addLiquidityToPool, now' = now PROVE FirstSale'
  BY <1>4 DEF CanAddLiquidity, addLiquidityToPool
<1>5. ASSUME CanWithdrawDev, withdrawDevEth, now' = now PROVE FirstSale'
  BY <1>5 DEF CanWithdrawDev, withdrawDevEth
<1>6. ASSUME unlock < now, withdrawTokens, now' = now PROVE FirstSale'
  BY <1>6 DEF withdrawTokens
<1>7. ASSUME withdrawLiquidity, now' = now PROVE FirstSale'
  BY <1>7 DEF withdrawLiquidity
<1>8. ASSUME UNCHANGED contractVars, now' \in {now, now + 1} PROVE FirstSale'
  BY <1>8 DEF contractVars
<1> QED
  BY <1>1, <1>2, <1>3, <1>4, <1>5, <1>6, <1>7, <1>8 DEF ContractStep, Executed

LEMMA FirstSaleInvariant == Spec => []FirstSale
<1>1. Init => FirstSale
  BY DEF Init, FirstSale
<1> QED
  BY <1>1, FirstSaleKept, StepIsCall, BaseInvariant, PTL DEF Spec, Base

\* 'WITHDRAW 20% MATIC AMOUNT TO DEV ACCOUNT': the developer of a contract that
\* sold once gets no more than a fifth of what was raised, and the pool the rest
\* (DevGetsAFifth).
THEOREM DevShareBounded == Spec => []DevGetsAFifth
<1>1. Base /\ FirstSale => DevGetsAFifth
  <2> SUFFICES ASSUME Base, FirstSale, rounds = 1
               PROVE  toDev <= raised \div 5 /\ (pool => poolEth = raised - raised \div 5)
    BY DEF DevGetsAFifth
  <2>1. toDev \in Nat /\ eth \in Nat /\ raised \in Nat
    BY DEF Base, Types
  <2>2. CASE pool
    BY <2>1, <2>2 DEF FirstSale
  <2>3. CASE ~pool
    BY <2>1, <2>3 DEF FirstSale
  <2> QED
    BY <2>2, <2>3
<1> QED
  BY <1>1, BaseInvariant, FirstSaleInvariant, PTL

\* A first sale with tokens for its cap and four of them per coin can be ended
\* as soon as somebody invested: the quotient endPresale asks for comes out
\* exactly, whatever was raised (EndIsPossible).
THEOREM Endable == Spec => []EndIsPossible
<1>1. Base /\ FirstSale => EndIsPossible
  <2> SUFFICES ASSUME Base, FirstSale, active, rounds = 1, now <= unlock, TokensSuffice,
                      terms.rate >= 4, eth > 0
               PROVE  CanEnd
    BY DEF EndIsPossible
  <2> DEFINE x == eth - eth \div 5
             y == terms.cap - terms.cap \div 5
  <2>1. /\ Types /\ terms.rate \in Nat /\ terms.cap \in Nat /\ eth \in Nat
        /\ tokens \in Nat /\ Supply \in Nat
    BY PresaleAssumption DEF Base, Types
  <2>2. eth <= terms.cap /\ tokens + terms.rate * eth = Supply
    BY <2>1 DEF FirstSale
  <2>3. x \in Nat /\ y \in Nat /\ x <= y /\ x > 0
    BY <2>1, <2>2
  <2>4. PoolRate \in Nat /\ PoolRate < terms.rate
    BY <2>1 DEF PoolRate
  <2>5. /\ terms.rate * eth <= terms.rate * terms.cap
        /\ PoolRate * x <= PoolRate * y
    BY <2>1, <2>2, <2>3, <2>4, ProductMonotone
  <2>6. /\ terms.rate * eth \in Nat /\ terms.rate * terms.cap \in Nat
        /\ PoolRate * x \in Nat /\ PoolRate * y \in Nat
    BY <2>1, <2>3, <2>4, ProductInNat
  <2>7. terms.rate * terms.cap + PoolRate * y <= Supply
    BY DEF TokensSuffice
  <2> HIDE DEF x, y
  <2>8. PoolRate * x <= tokens
    BY <2>1, <2>2, <2>5, <2>6, <2>7
  <2>9. PoolEth = x /\ PoolTokens = PoolRate * x
    <3>1. Wanted = PoolRate * x
      BY DEF Wanted, DevShare, x
    <3>2. ~Clipped
      BY <2>1, <2>6, <2>8, <3>1 DEF Clipped
    <3> QED
      BY <3>1, <3>2 DEF PoolEth, PoolTokens, DevShare, x
  <2> QED
    BY <2>3, <2>4, <2>9, QuotientExact DEF CanEnd
<1> QED
  BY <1>1, BaseInvariant, FirstSaleInvariant, PTL

-----------------------------------------------------------------------------
(* Lists of ids                                                            *)

\* The list names the elements of S, from the least one on.
Names(list, S) ==
  /\ Range(list) = S
  /\ \A i, j \in DOMAIN list : i < j => list[i] < list[j]

\* A list that goes on with greater numbers.
LEMMA NamesAppended ==
  ASSUME NEW l \in Seq(Nat), NEW m \in Seq(Nat), NEW S, NEW T, Names(l, S), Names(m, T),
         \A s \in S : \A t \in T : s < t
  PROVE  l \o m \in Seq(Nat) /\ Names(l \o m, S \union T)
<1> DEFINE k == l \o m
<1>1. /\ k \in Seq(Nat) /\ Len(k) = Len(l) + Len(m)
      /\ \A i \in 1..Len(k) : k[i] = IF i <= Len(l) THEN l[i] ELSE m[i - Len(l)]
  OBVIOUS
<1>2. /\ Len(l) \in Nat /\ Len(m) \in Nat /\ Len(k) \in Nat
      /\ DOMAIN l = 1..Len(l) /\ DOMAIN m = 1..Len(m) /\ DOMAIN k = 1..Len(k)
      /\ \A i \in 1..Len(l) : l[i] \in Nat
      /\ \A i \in 1..Len(m) : m[i] \in Nat
  BY <1>1
<1>3. /\ \A i \in 1..Len(l) : l[i] \in S
      /\ \A i \in 1..Len(m) : m[i] \in T
      /\ \A s \in S : \E i \in 1..Len(l) : s = l[i]
      /\ \A t \in T : \E i \in 1..Len(m) : t = m[i]
  BY <1>2 DEF Names, Range
<1> HIDE DEF k
<1>4. \A i \in 1..Len(k) : i <= Len(l) => i \in 1..Len(l)
  BY <1>2
<1>5. \A i \in 1..Len(k) : ~(i <= Len(l)) => i - Len(l) \in 1..Len(m)
  BY <1>1, <1>2
<1>6. Range(k) = S \union T
  <2>1. ASSUME NEW i \in 1..Len(k) PROVE k[i] \in S \union T
    BY <1>1, <1>3, <1>4, <1>5
  <2>2. ASSUME NEW s \in S PROVE \E i \in 1..Len(k) : s = k[i]
    <3>1. PICK i \in 1..Len(l) : s = l[i]
      BY <1>3
    <3>2. i \in 1..Len(k) /\ i <= Len(l)
      BY <1>1, <1>2
    <3>. QED
      BY <1>1, <3>1, <3>2
  <2>3. ASSUME NEW t \in T PROVE \E i \in 1..Len(k) : t = k[i]
    <3>1. PICK i \in 1..Len(m) : t = m[i]
      BY <1>3
    <3>2. i + Len(l) \in 1..Len(k) /\ ~(i + Len(l) <= Len(l)) /\ (i + Len(l)) - Len(l) = i
      BY <1>1, <1>2
    <3>. QED
      BY <1>1, <3>1, <3>2
  <2>. QED
    BY <1>2, <2>1, <2>2, <2>3 DEF Range
<1>7. ASSUME NEW i \in 1..Len(k), NEW j \in 1..Len(k), i < j PROVE k[i] < k[j]
  <2>1. CASE j <= Len(l)
    <3>1. i <= Len(l)
      BY <1>2, <1>7, <2>1
    <3>. QED
      BY <1>1, <1>2, <1>4, <1>7, <2>1, <3>1 DEF Names
  <2>2. CASE i <= Len(l) /\ ~(j <= Len(l))
    BY <1>1, <1>3, <1>4, <1>5, <2>2
  <2>3. CASE ~(i <= Len(l)) /\ ~(j <= Len(l))
    <3>1. i - Len(l) < j - Len(l)
      BY <1>2, <1>7
    <3>. QED
      BY <1>1, <1>2, <1>5, <2>3, <3>1 DEF Names
  <2>. QED
    BY <1>2, <1>7, <2>1, <2>2, <2>3
<1>. QED
  BY <1>1, <1>2, <1>6, <1>7 DEF Names, k

\* r is x and then y.
Joins(r, x, y) ==
  /\ r \in Seq(Nat) /\ Len(r) = Len(x) + Len(y)
  /\ \A i \in 1..Len(r) : r[i] = IF i <= Len(x) THEN x[i] ELSE y[i - Len(x)]

LEMMA Joined ==
  ASSUME NEW x \in Seq(Nat), NEW y \in Seq(Nat)
  PROVE  Joins(x \o y, x, y)
  BY DEF Joins

LEMMA EntryNumbers ==
  ASSUME NEW l, NEW x, NEW y, NEW n \in Nat, NEW k \in 1..n,
         \A i \in 1..(k - 1) : x[i] = l[i], \A i \in 1..(n - k) : y[i] = l[i + k],
         NEW i \in 1..(n - 1)
  PROVE  (IF i <= k - 1 THEN x[i] ELSE y[i - (k - 1)]) = IF i < k THEN l[i] ELSE l[i + 1]
<1>1. CASE i < k
  BY <1>1
<1>2. CASE ~(i < k)
  <2> DEFINE m == i - (k - 1)
  <2>1. ~(i <= k - 1) /\ m \in 1..(n - k) /\ m + k = i + 1
    BY <1>2
  <2>2. y[m] = l[m + k]
    <3> HIDE DEF m
    <3>. QED
      BY <2>1
  <2>. QED
    BY <1>2, <2>1, <2>2
<1>. QED
  BY <1>1, <1>2

\* What is left of a list without its entry k.
LEMMA BeforeEntry ==
  ASSUME NEW l \in Seq(Nat), NEW k \in 1..Len(l), NEW x, x = SubSeq(l, 1, k - 1)
  PROVE  x \in Seq(Nat) /\ Len(x) = k - 1 /\ \A i \in 1..(k - 1) : x[i] = l[i]
  OBVIOUS

LEMMA AfterEntry ==
  ASSUME NEW l \in Seq(Nat), NEW k \in 1..Len(l), NEW x, x = SubSeq(l, k + 1, Len(l))
  PROVE  x \in Seq(Nat) /\ Len(x) = Len(l) - k /\ \A i \in 1..(Len(l) - k) : x[i] = l[i + k]
  OBVIOUS

\* x is what l has before entry k, and y what it has after it.
Parts(l, k, x, y) ==
  /\ l \in Seq(Nat) /\ k \in 1..Len(l) /\ x \in Seq(Nat) /\ y \in Seq(Nat)
  /\ Len(x) = k - 1 /\ \A i \in 1..(k - 1) : x[i] = l[i]
  /\ Len(y) = Len(l) - k /\ \A i \in 1..(Len(l) - k) : y[i] = l[i + k]

\* r is l without entry k.
Without(l, k, r) ==
  /\ r \in Seq(Nat) /\ Len(r) = Len(l) - 1
  /\ \A i \in 1..Len(r) : r[i] = IF i < k THEN l[i] ELSE l[i + 1]

LEMMA PartsJoined ==
  ASSUME NEW l, NEW k, NEW x, NEW y, NEW r, Parts(l, k, x, y), Joins(r, x, y)
  PROVE  Without(l, k, r)
<1>1. /\ Len(l) \in Nat /\ k \in 1..Len(l) /\ Len(x) = k - 1 /\ Len(y) = Len(l) - k
      /\ x \in Seq(Nat) /\ y \in Seq(Nat)
  BY DEF Parts
<1>2. /\ \A i \in 1..(k - 1) : x[i] = l[i]
      /\ \A i \in 1..(Len(l) - k) : y[i] = l[i + k]
  BY DEF Parts
<1>3. /\ r \in Seq(Nat) /\ Len(r) = Len(x) + Len(y)
      /\ \A i \in 1..Len(r) : r[i] = IF i <= Len(x) THEN x[i] ELSE y[i - Len(x)]
  BY DEF Joins
<1>4. Len(r) = Len(l) - 1
  BY <1>1, <1>3
<1>5. ASSUME NEW i \in 1..Len(r) PROVE r[i] = IF i < k THEN l[i] ELSE l[i + 1]
  <2>1. r[i] = IF i <= k - 1 THEN x[i] ELSE y[i - (k - 1)]
    BY <1>1, <1>3
  <2>2. i \in 1..(Len(l) - 1)
    BY <1>4
  <2>3. (IF i <= k - 1 THEN x[i] ELSE y[i - (k - 1)]) = IF i < k THEN l[i] ELSE l[i + 1]
    <3>1. Len(l) \in Nat /\ k \in 1..Len(l)
      BY <1>1
    <3>. QED
      BY <1>2, <2>2, <3>1, EntryNumbers
  <2>. QED
    BY <2>1, <2>3
<1>. QED
  BY <1>3, <1>4, <1>5 DEF Without

LEMMA EntryLeft ==
  ASSUME NEW l \in Seq(Nat), NEW k \in 1..Len(l)
  PROVE  Without(l, k, SubSeq(l, 1, k - 1) \o SubSeq(l, k + 1, Len(l)))
<1>1. PICK x : x = SubSeq(l, 1, k - 1)
  OBVIOUS
<1>2. PICK y : y = SubSeq(l, k + 1, Len(l))
  OBVIOUS
<1>3. x \in Seq(Nat) /\ Len(x) = k - 1 /\ \A i \in 1..(k - 1) : x[i] = l[i]
  BY <1>1, BeforeEntry
<1>4. y \in Seq(Nat) /\ Len(y) = Len(l) - k /\ \A i \in 1..(Len(l) - k) : y[i] = l[i + k]
  BY <1>2, AfterEntry
<1>5. Joins(x \o y, x, y)
  BY <1>3, <1>4, Joined
<1>6. Parts(l, k, x, y)
  BY <1>3, <1>4 DEF Parts
<1>7. Without(l, k, x \o y)
  BY <1>5, <1>6, PartsJoined
<1>. QED
  BY <1>1, <1>2, <1>7

\* A list without an entry.
LEMMA NamesRemoved ==
  ASSUME NEW l \in Seq(Nat), NEW S, Names(l, S), NEW id \in S
  PROVE  RemoveFirst(l, id) \in Seq(Nat) /\ Names(RemoveFirst(l, id), S \ {id})
<1>1. /\ Len(l) \in Nat /\ DOMAIN l = 1..Len(l) /\ \A i \in 1..Len(l) : l[i] \in Nat
      /\ \A i, j \in 1..Len(l) : i < j => l[i] < l[j]
  BY DEF Names
<1>2. S = {l[i] : i \in 1..Len(l)}
  BY <1>1 DEF Names, Range
<1>3. PICK k \in 1..Len(l) : l[k] = id
  BY <1>2
<1>4. \A i \in 1..Len(l) : l[i] = id => i = k
  BY <1>1, <1>3
<1> DEFINE I == {i \in 1..Len(l) : l[i] = id}
           r == RemoveFirst(l, id)
<1>5. SelectInSeq(l, LAMBDA v : v = id) = k
  <2>1. I = {k} /\ k \in Nat
    BY <1>3, <1>4
  <2>2. Min(I) = k
    BY <2>1 DEF Min
  <2>3. SelectInSeq(l, LAMBDA v : v = id) = IF I # {} THEN Min(I) ELSE 0
    BY DEF SelectInSeq
  <2>. QED
    BY <2>1, <2>2, <2>3
<1>6. r = SubSeq(l, 1, k - 1) \o SubSeq(l, k + 1, Len(l))
  BY <1>3, <1>5 DEF RemoveFirst, RemoveAt
<1>7. /\ r \in Seq(Nat) /\ Len(r) = Len(l) - 1
      /\ \A i \in 1..Len(r) : r[i] = IF i < k THEN l[i] ELSE l[i + 1]
  BY <1>6, EntryLeft DEF Without
<1> HIDE DEF r, I
<1>8. /\ DOMAIN r = 1..Len(r) /\ Len(r) \in Nat /\ k \in Nat
      /\ \A i \in 1..Len(r) : i < k => r[i] = l[i]
      /\ \A i \in 1..Len(r) : ~(i < k) => r[i] = l[i + 1] /\ i + 1 # k
  BY <1>7
<1>9. \A i \in 1..Len(r) : i \in 1..Len(l) /\ i + 1 \in 1..Len(l)
  BY <1>1, <1>7, <1>8
<1>10. Range(r) = S \ {id}
  <2>1. ASSUME NEW i \in 1..Len(r) PROVE r[i] \in S \ {id}
    <3>1. CASE i < k
      <4>1. r[i] = l[i] /\ i # k /\ i \in 1..Len(l)
        BY <1>8, <1>9, <3>1
      <4>. QED
        BY <1>2, <1>4, <4>1
    <3>2. CASE ~(i < k)
      <4>1. r[i] = l[i + 1] /\ i + 1 # k /\ i + 1 \in 1..Len(l)
        BY <1>8, <1>9, <3>2
      <4>. QED
        BY <1>2, <1>4, <4>1
    <3>. QED
      BY <3>1, <3>2
  <2>2. ASSUME NEW s \in S \ {id} PROVE \E i \in 1..Len(r) : s = r[i]
    <3>1. PICK i \in 1..Len(l) : s = l[i]
      BY <1>2
    <3>2. i # k
      BY <1>3, <3>1
    <3>3. CASE i < k
      <4>1. i \in 1..Len(r)
        BY <1>1, <1>7, <1>8, <3>3
      <4>. QED
        BY <1>7, <3>1, <3>3, <4>1
    <3>4. CASE ~(i < k)
      <4>1. i - 1 \in 1..Len(r) /\ ~(i - 1 < k) /\ (i - 1) + 1 = i
        BY <1>1, <1>7, <1>8, <3>2, <3>4
      <4>. QED
        BY <1>7, <3>1, <4>1
    <3>. QED
      BY <3>3, <3>4
  <2>. QED
    BY <1>8, <2>1, <2>2 DEF Range
<1>11. ASSUME NEW i \in 1..Len(r), NEW j \in 1..Len(r), i < j PROVE r[i] < r[j]
  <2>1. CASE j < k
    BY <1>1, <1>7, <1>8, <1>9, <1>11, <2>1
  <2>2. CASE i < k /\ ~(j < k)
    <3>1. r[i] = l[i] /\ r[j] = l[j + 1]
      BY <1>8, <2>2
    <3>2. i < j + 1
      BY <1>8, <1>11
    <3>. QED
      BY <1>1, <1>9, <3>1, <3>2
  <2>3. CASE ~(i < k) /\ ~(j < k)
    <3>1. i + 1 < j + 1
      BY <1>8, <1>11
    <3>2. r[i] = l[i + 1] /\ r[j] = l[j + 1]
      BY <1>8, <2>3
    <3>. QED
      BY <1>1, <1>9, <3>1, <3>2
  <2>. QED
    BY <1>8, <1>11, <2>1, <2>2, <2>3
<1>. QED
  BY <1>7, <1>8, <1>10, <1>11 DEF Names, r

\* The list of a set.
LEMMA NamesInOrder ==
  ASSUME NEW S \in SUBSET Nat, IsFiniteSet(S)
  PROVE  InOrder(S) \in Seq(Nat) /\ Names(InOrder(S), S)
<1> DEFINE c == Cardinality(S)
           Upto(i) == {j \in S : j <= i}
           r == [i \in S |-> Cardinality(Upto(i))]
           l == InOrder(S)
<1>1. c \in Nat
  BY FS_CardinalityType
<1>2. \A i \in S : IsFiniteSet(Upto(i)) /\ r[i] \in Nat /\ r[i] <= c
  BY FS_Subset, FS_CardinalityType
<1>3. \A i \in S : r[i] # 0
  <2> SUFFICES ASSUME NEW i \in S PROVE r[i] # 0
    OBVIOUS
  <2>1. i \in Upto(i)
    OBVIOUS
  <2>2. IsFiniteSet(Upto(i)) /\ Upto(i) # {}
    BY <1>2, <2>1
  <2> HIDE DEF Upto
  <2>. QED
    BY <2>2, FS_EmptySet
<1>4. ASSUME NEW i \in S, NEW k \in S, i < k PROVE r[i] < r[k]
  <2>1. Upto(i) \subseteq Upto(k) /\ Upto(i) # Upto(k)
    <3>1. k \in Upto(k) /\ k \notin Upto(i)
      BY <1>4
    <3>2. Upto(i) \subseteq Upto(k)
      <4> SUFFICES ASSUME NEW j \in S, j <= i PROVE j <= k
        OBVIOUS
      <4>1. i \in Nat /\ j \in Nat /\ k \in Nat
        OBVIOUS
      <4>. QED
        BY <1>4, <4>1
    <3>. QED
      BY <3>1, <3>2
  <2>2. IsFiniteSet(Upto(i)) /\ IsFiniteSet(Upto(k)) /\ r[i] \in Nat /\ r[k] \in Nat
    BY <1>2
  <2>3. r[i] = Cardinality(Upto(i)) /\ r[k] = Cardinality(Upto(k))
    OBVIOUS
  <2> HIDE DEF Upto, r
  <2>4. r[i] <= r[k] /\ r[i] # r[k]
    BY <2>1, <2>2, <2>3, FS_Subset
  <2>. QED
    BY <2>2, <2>4
<1>5. r \in [S -> 1..c]
  BY <1>1, <1>2, <1>3
<1> HIDE DEF r
<1>6. \A i, k \in S : r[i] = r[k] => i = k
  BY <1>4, <1>5
<1>7. \A n \in 1..c : \E i \in S : r[i] = n
  <2>1. r \in Injection(S, 1..c)
    BY <1>5, <1>6 DEF Injection, IsInjective
  <2>2. IsFiniteSet(1..c) /\ Cardinality(1..c) = c
    BY <1>1, FS_Interval
  <2>3. r \in Surjection(S, 1..c)
    BY <2>1, <2>2, FS_Injection
  <2>. QED
    BY <2>3 DEF Surjection
<1>8. \A i \in S : r[i] = Cardinality({j \in S : j <= i})
  BY DEF r
<1>9. \A n \in 1..c : l[n] \in S /\ r[l[n]] = n
  <2> SUFFICES ASSUME NEW n \in 1..c PROVE l[n] \in S /\ r[l[n]] = n
    OBVIOUS
  <2>1. l[n] = CHOOSE i \in S : Cardinality({j \in S : j <= i}) = n
    BY DEF InOrder
  <2>2. \E i \in S : Cardinality({j \in S : j <= i}) = n
    BY <1>7, <1>8
  <2>3. l[n] \in S /\ Cardinality({j \in S : j <= l[n]}) = n
    BY <2>1, <2>2
  <2>. QED
    BY <1>8, <2>3
<1>10. l \in Seq(Nat) /\ DOMAIN l = 1..c
  <2>1. l = [n \in 1..c |-> l[n]]
    <3> DEFINE F(n) == CHOOSE i \in S : Cardinality({j \in S : j <= i}) = n
    <3>1. l = [n \in 1..c |-> F(n)]
      BY DEF InOrder
    <3> HIDE DEF l, c, F
    <3>. QED
      BY <3>1
  <2> HIDE DEF l, c
  <2>. QED
    BY <1>1, <1>9, <2>1
<1> HIDE DEF l, c
<1>11. Range(l) = S
  <2>1. \A i \in S : r[i] \in 1..c /\ l[r[i]] = i
    BY <1>5, <1>6, <1>9
  <2>. QED
    BY <1>9, <1>10, <2>1 DEF Range
<1>12. ASSUME NEW m \in 1..c, NEW n \in 1..c, m < n PROVE l[m] < l[n]
  <2>1. l[m] \in S /\ l[n] \in S /\ r[l[m]] = m /\ r[l[n]] = n
    BY <1>9
  <2>2. l[m] # l[n] /\ ~(l[n] < l[m])
    <3>1. l[n] < l[m] => n < m
      BY <1>4, <2>1
    <3>. QED
      BY <1>12, <2>1, <3>1
  <2>3. l[m] \in Nat /\ l[n] \in Nat
    BY <2>1
  <2>. QED
    BY <2>2, <2>3
<1>. QED
  BY <1>10, <1>11, <1>12 DEF Names, l

-----------------------------------------------------------------------------
(* The records of the contract                                             *)

Deposits == [who : Accounts, amount : Nat, unlock : Times, withdrawn : BOOLEAN]
Own(a) == Live \intersect For(deposits, a)

BookTypes ==
  /\ deposits \in Seq(Deposits)
  /\ byToken \in Seq(Nat) /\ byWithdrawal \in [Accounts -> Seq(Nat)]

MoneyTypes ==
  /\ balance \in [Accounts -> Nat]
  /\ held \in Nat /\ taken \in Nat /\ short \in Nat

ListsInv ==
  /\ Names(byToken, Live)
  /\ \A a \in Accounts : Names(byWithdrawal[a], Own(a))

MoneyInv ==
  /\ held + taken = SumOf(Live) + short
  /\ taken = 0 => short = 0
  /\ SumOver(balance, Accounts) = SumOf(Live)
  /\ \A a \in Others : balance[a] >= SumOf(Own(a))

ContractInv == BookTypes /\ MoneyTypes /\ ListsInv /\ MoneyInv

\* The amounts of a sequence of records are numbers.
LEMMA AmountsAreNumbers ==
  ASSUME NEW R, \A r \in R : r.amount \in Nat, NEW b \in Seq(R)
  PROVE  /\ Amounts(b) \in [DOMAIN b -> Nat] /\ IsFiniteSet(DOMAIN b)
         /\ \A S \in SUBSET DOMAIN b : IsFiniteSet(S) /\ SumOver(Amounts(b), S) \in Nat
<1>1. DOMAIN b = 1..Len(b) /\ Len(b) \in Nat
  OBVIOUS
<1>2. IsFiniteSet(DOMAIN b)
  BY <1>1, FS_Interval
<1>3. \A i \in DOMAIN b : b[i] \in R
  OBVIOUS
<1>4. Amounts(b) \in [DOMAIN b -> Nat]
  BY <1>3 DEF Amounts
<1>5. ASSUME NEW S \in SUBSET DOMAIN b PROVE IsFiniteSet(S) /\ SumOver(Amounts(b), S) \in Nat
  BY <1>2, <1>4, FS_Subset, SumIsNat
<1>. QED
  BY <1>2, <1>4, <1>5

\* The sums of the contract.
LEMMA SumsAreNumbers ==
  ASSUME BookTypes
  PROVE  /\ Amounts(deposits) \in [DOMAIN deposits -> Nat]
         /\ \A S \in SUBSET DOMAIN deposits : IsFiniteSet(S) /\ SumOf(S) \in Nat
         /\ Live \subseteq DOMAIN deposits /\ \A a : Own(a) \subseteq Live
         /\ DOMAIN deposits = 1..Len(deposits) /\ Len(deposits) \in Nat
         /\ \A i \in DOMAIN deposits : deposits[i] \in Deposits
<1>1. deposits \in Seq(Deposits) /\ \A r \in Deposits : r.amount \in Nat
  BY DEF BookTypes, Deposits
<1>2. /\ Amounts(deposits) \in [DOMAIN deposits -> Nat]
      /\ \A S \in SUBSET DOMAIN deposits : IsFiniteSet(S) /\ SumOver(Amounts(deposits), S) \in Nat
  BY <1>1, AmountsAreNumbers
<1>. QED
  BY <1>1, <1>2 DEF SumOf, Live, Own

\* A deposit that is closed leaves the lists and the sums it was in.
LEMMA Closed ==
  ASSUME BookTypes, ListsInv, NEW id \in Live, close(id)
  PROVE  /\ BookTypes' /\ ListsInv'
         /\ deposits[id].amount \in Nat /\ deposits[id].who \in Accounts
         /\ SumOf(Live) = deposits[id].amount + SumOf(Live)' /\ SumOf(Live)' \in Nat
         /\ \A a : SumOf(Own(a))' \in Nat /\ SumOf(Own(a)) =
              (IF a = deposits[id].who THEN deposits[id].amount ELSE 0) + SumOf(Own(a))'
<1> DEFINE w == deposits[id].who
<1>1. /\ id \in DOMAIN deposits /\ deposits[id] \in Deposits /\ w \in Accounts
      /\ DOMAIN deposits = 1..Len(deposits) /\ Len(deposits) \in Nat
      /\ \A i \in DOMAIN deposits : deposits[i] \in Deposits
  BY SumsAreNumbers DEF Live, Deposits
<1>2. deposits[id].amount \in Nat
  BY <1>1 DEF Deposits
<1>3. /\ deposits' \in Seq(Deposits) /\ DOMAIN deposits' = DOMAIN deposits
      /\ \A i \in DOMAIN deposits :
           /\ deposits'[i].who = deposits[i].who /\ deposits'[i].amount = deposits[i].amount
           /\ deposits'[i].withdrawn = (i = id \/ deposits[i].withdrawn)
  <2>1. deposits' = [deposits EXCEPT ![id].withdrawn = TRUE]
    BY DEF close
  <2>2. deposits \in Seq(Deposits)
    BY DEF BookTypes
  <2>3. \A i \in DOMAIN deposits :
          deposits'[i] = IF i = id THEN [deposits[i] EXCEPT !.withdrawn = TRUE] ELSE deposits[i]
    BY <1>1, <2>1, <2>2
  <2>4. ASSUME NEW i \in DOMAIN deposits
        PROVE  /\ deposits'[i] \in Deposits
               /\ deposits'[i].who = deposits[i].who /\ deposits'[i].amount = deposits[i].amount
               /\ deposits'[i].withdrawn = (i = id \/ deposits[i].withdrawn)
    BY <1>1, <2>3 DEF Deposits
  <2>5. deposits' \in [1..Len(deposits) -> Deposits]
    <3>1. deposits' = [i \in DOMAIN deposits |-> deposits'[i]]
      BY <2>1
    <3>. QED
      BY <1>1, <2>4, <3>1
  <2>. QED
    BY <1>1, <2>4, <2>5
<1>4. /\ Live' = Live \ {id}
      /\ \A a : For(deposits, a)' = For(deposits, a)
      /\ Amounts(deposits)' = Amounts(deposits)
  BY <1>3 DEF Live, For, Amounts
<1>5. \A a : Own(a)' = IF a = w THEN Own(a) \ {id} ELSE Own(a)
  BY <1>4 DEF Own, For
<1>6. id \in Own(w)
  BY <1>1 DEF Own, For
<1>7. byToken' \in Seq(Nat) /\ Names(byToken', Live \ {id})
  BY NamesRemoved DEF close, BookTypes, ListsInv
<1>8. byWithdrawal' \in [Accounts -> Seq(Nat)] /\ \A a \in Accounts : Names(byWithdrawal'[a], Own(a)')
  <2>1. byWithdrawal' = [byWithdrawal EXCEPT ![w] = RemoveFirst(byWithdrawal[w], id)]
    BY DEF close
  <2>2. byWithdrawal[w] \in Seq(Nat) /\ Names(byWithdrawal[w], Own(w))
    BY <1>1 DEF BookTypes, ListsInv
  <2>3. RemoveFirst(byWithdrawal[w], id) \in Seq(Nat)
        /\ Names(RemoveFirst(byWithdrawal[w], id), Own(w) \ {id})
    BY <1>6, <2>2, NamesRemoved
  <2> HIDE DEF w
  <2>4. byWithdrawal' \in [Accounts -> Seq(Nat)]
    BY <1>1, <2>1, <2>3 DEF BookTypes
  <2>5. ASSUME NEW a \in Accounts PROVE Names(byWithdrawal'[a], Own(a)')
    <3>1. CASE a = w
      BY <1>1, <1>5, <2>1, <2>3, <3>1 DEF BookTypes
    <3>2. CASE a # w
      <4>1. byWithdrawal'[a] = byWithdrawal[a] /\ Own(a)' = Own(a)
        BY <1>5, <2>1, <3>2 DEF BookTypes
      <4>. QED
        BY <4>1 DEF ListsInv
    <3>. QED
      BY <3>1, <3>2
  <2>. QED
    BY <2>4, <2>5
<1>9. ASSUME NEW S \in SUBSET DOMAIN deposits
      PROVE  /\ SumOver(Amounts(deposits), S) \in Nat
             /\ id \in S => SumOver(Amounts(deposits), S)
                              = deposits[id].amount + SumOver(Amounts(deposits), S \ {id})
  <2>1. Amounts(deposits) \in [DOMAIN deposits -> Nat] /\ IsFiniteSet(S)
    BY SumsAreNumbers
  <2>2. Amounts(deposits)[id] = deposits[id].amount
    BY <1>1 DEF Amounts
  <2>. QED
    BY <2>1, <2>2, SumIsNat, SumAny
<1>10. SumOf(Live) = deposits[id].amount + SumOf(Live)' /\ SumOf(Live)' \in Nat
  <2>1. Live \in SUBSET DOMAIN deposits /\ Live \ {id} \in SUBSET DOMAIN deposits
    BY DEF Live
  <2>2. SumOf(Live)' = SumOver(Amounts(deposits), Live \ {id})
    BY <1>4 DEF SumOf
  <2>. QED
    BY <1>9, <2>1, <2>2 DEF SumOf
<1>11. ASSUME NEW a
       PROVE  SumOf(Own(a))' \in Nat /\ SumOf(Own(a)) =
                (IF a = deposits[id].who THEN deposits[id].amount ELSE 0) + SumOf(Own(a))'
  <2>1. Own(a) \in SUBSET DOMAIN deposits /\ Own(a) \ {id} \in SUBSET DOMAIN deposits
    BY DEF Own, Live
  <2>2. SumOf(Own(a))' = SumOver(Amounts(deposits), Own(a)')
    BY <1>4 DEF SumOf
  <2>3. CASE a = w
    BY <1>5, <1>6, <1>9, <2>1, <2>2, <2>3 DEF SumOf
  <2>4. CASE a # w
    <3>1. SumOf(Own(a))' = SumOf(Own(a)) /\ SumOf(Own(a)) \in Nat
      BY <1>5, <1>9, <2>1, <2>2, <2>4 DEF SumOf
    <3>. QED
      BY <2>4, <3>1
  <2>. QED
    BY <2>3, <2>4
<1>. QED
  BY <1>1, <1>2, <1>3, <1>4, <1>7, <1>8, <1>10, <1>11 DEF BookTypes, ListsInv

\* A balance from which an amount is taken.
LEMMA BalanceTaken ==
  ASSUME MoneyTypes, NEW a \in Accounts, NEW amount \in Nat, balance[a] >= amount,
         balance' = [balance EXCEPT ![a] = @ - amount]
  PROVE  /\ balance' \in [Accounts -> Nat]
         /\ SumOver(balance, Accounts) = SumOver(balance', Accounts) + amount
         /\ SumOver(balance', Accounts) \in Nat
         /\ balance'[a] = balance[a] - amount /\ balance[a] \in Nat
         /\ \A x \in Accounts \ {a} : balance'[x] = balance[x]
<1>1. balance \in [Accounts -> Nat] /\ balance[a] \in Nat
  BY DEF MoneyTypes
<1>2. balance[a] - amount \in Nat
  BY <1>1
<1>3. /\ balance' \in [Accounts -> Nat] /\ balance'[a] = balance[a] - amount
      /\ \A x \in Accounts \ {a} : balance'[x] = balance[x]
  BY <1>1, <1>2
<1>4. IsFiniteSet(Accounts)
  BY LockerAssumption, FS_AddElement DEF Accounts
<1>5. SumOver(balance', Accounts) + balance[a] = SumOver(balance, Accounts) + balance'[a]
  <2>1. Accounts \in SUBSET Accounts
    OBVIOUS
  <2>2. PICK g : g = balance'
    OBVIOUS
  <2>3. g \in [Accounts -> Nat] /\ \A x \in Accounts \ {a} : g[x] = balance[x]
    BY <1>3, <2>2
  <2>4. SumOver(g, Accounts) + balance[a] = SumOver(balance, Accounts) + g[a]
    BY <1>1, <1>4, <2>1, <2>3, SumChanged
  <2>. QED
    BY <2>2, <2>4
<1>6. SumOver(balance', Accounts) \in Nat /\ SumOver(balance, Accounts) \in Nat
  BY <1>1, <1>3, <1>4, SumIsNat
<1>. QED
  BY <1>1, <1>3, <1>5, <1>6

\* withdrawDeposit: the caller's own deposit, for which he is paid what there is.
LEMMA WithdrawCall ==
  ASSUME ContractInv, NEW a \in Accounts, NEW id, CanWithdraw(a, id), withdrawDeposit(a, id)
  PROVE  ContractInv'
<1> DEFINE amount == deposits[id].amount
           paid == IF held < amount THEN held ELSE amount
<1>1. id \in Live /\ deposits[id].who = a /\ balance[a] >= amount
  BY DEF CanWithdraw
<1>2. /\ BookTypes' /\ ListsInv' /\ amount \in Nat
      /\ SumOf(Live) = amount + SumOf(Live)' /\ SumOf(Live)' \in Nat
      /\ \A x : SumOf(Own(x))' \in Nat /\ SumOf(Own(x)) =
           (IF x = a THEN amount ELSE 0) + SumOf(Own(x))'
  BY <1>1, Closed DEF ContractInv, withdrawDeposit
<1>3. /\ held' = held - paid /\ short' = short + (amount - paid) /\ taken' = taken
      /\ balance' = [balance EXCEPT ![a] = @ - amount]
  BY DEF withdrawDeposit, pay
<1> HIDE DEF amount
<1>4. /\ balance' \in [Accounts -> Nat]
      /\ SumOver(balance, Accounts) = SumOver(balance', Accounts) + amount
      /\ SumOver(balance', Accounts) \in Nat
      /\ balance'[a] = balance[a] - amount /\ balance[a] \in Nat
      /\ \A x \in Accounts \ {a} : balance'[x] = balance[x]
  BY <1>1, <1>2, <1>3, BalanceTaken DEF ContractInv
<1>5. /\ held \in Nat /\ taken \in Nat /\ short \in Nat
      /\ held + taken = SumOf(Live) + short /\ (taken = 0 => short = 0)
      /\ SumOver(balance, Accounts) = SumOf(Live)
      /\ \A x \in Others : balance[x] >= SumOf(Own(x))
  BY DEF ContractInv, MoneyTypes, MoneyInv
<1>6. held' \in Nat /\ short' \in Nat /\ MoneyTypes'
  BY <1>2, <1>3, <1>4, <1>5 DEF MoneyTypes
<1>7. held' + taken' = SumOf(Live)' + short' /\ (taken' = 0 => short' = 0)
  BY <1>2, <1>3, <1>5
<1>8. SumOver(balance', Accounts) = SumOf(Live)'
  BY <1>2, <1>4, <1>5
<1>9. ASSUME NEW x \in Others PROVE balance'[x] >= SumOf(Own(x))'
  <2>0. x \in Accounts /\ balance[x] >= SumOf(Own(x))
    BY <1>5 DEF Accounts
  <2>1. CASE x = a
    <3>1. SumOf(Own(x)) = amount + SumOf(Own(x))' /\ SumOf(Own(x))' \in Nat
      BY <1>2, <2>1
    <3>. QED
      BY <1>2, <1>4, <2>0, <2>1, <3>1
  <2>2. CASE x # a
    <3>1. SumOf(Own(x)) = 0 + SumOf(Own(x))' /\ SumOf(Own(x))' \in Nat
      BY <1>2, <2>2
    <3>2. balance'[x] = balance[x]
      BY <1>4, <2>0, <2>2
    <3>. QED
      BY <2>0, <3>1, <3>2
  <2>. QED
    BY <2>1, <2>2
<1>. QED
  BY <1>2, <1>6, <1>7, <1>8, <1>9 DEF ContractInv, MoneyInv

\* emergencyWithdrawTokens: anybody's deposit, off the balance of the owner.
LEMMA EmergencyCall ==
  ASSUME ContractInv, NEW id, NEW receiver, CanEmergency(id), emergencyWithdrawTokens(id, receiver)
  PROVE  ContractInv'
<1> DEFINE amount == deposits[id].amount
<1>1. id \in Live /\ held >= amount /\ balance[Owner] >= amount /\ Owner \in Accounts
  BY DEF CanEmergency, Accounts
<1>2. /\ BookTypes' /\ ListsInv' /\ amount \in Nat
      /\ SumOf(Live) = amount + SumOf(Live)' /\ SumOf(Live)' \in Nat
      /\ \A x : SumOf(Own(x))' \in Nat /\ SumOf(Own(x)) =
           (IF x = deposits[id].who THEN amount ELSE 0) + SumOf(Own(x))'
  BY <1>1, Closed DEF ContractInv, emergencyWithdrawTokens
<1>3. /\ held' = held - amount /\ short' = short /\ taken' = taken
      /\ balance' = [balance EXCEPT ![Owner] = @ - amount]
  BY DEF emergencyWithdrawTokens, pay
<1> HIDE DEF amount
<1>4. /\ balance' \in [Accounts -> Nat]
      /\ SumOver(balance, Accounts) = SumOver(balance', Accounts) + amount
      /\ SumOver(balance', Accounts) \in Nat
      /\ \A x \in Accounts \ {Owner} : balance'[x] = balance[x]
  BY <1>1, <1>2, <1>3, BalanceTaken DEF ContractInv
<1>5. /\ held \in Nat /\ taken \in Nat /\ short \in Nat
      /\ held + taken = SumOf(Live) + short /\ (taken = 0 => short = 0)
      /\ SumOver(balance, Accounts) = SumOf(Live) /\ balance \in [Accounts -> Nat]
      /\ \A x \in Others : balance[x] >= SumOf(Own(x))
  BY DEF ContractInv, MoneyTypes, MoneyInv
<1>6. held' \in Nat /\ MoneyTypes'
  BY <1>1, <1>2, <1>3, <1>4, <1>5 DEF MoneyTypes
<1>7. held' + taken' = SumOf(Live)' + short' /\ (taken' = 0 => short' = 0)
  BY <1>2, <1>3, <1>5
<1>8. SumOver(balance', Accounts) = SumOf(Live)'
  BY <1>2, <1>4, <1>5
<1>9. ASSUME NEW x \in Others PROVE balance'[x] >= SumOf(Own(x))'
  <2>1. x \in Accounts \ {Owner} /\ balance[x] >= SumOf(Own(x)) /\ balance[x] \in Nat
    BY <1>5, LockerAssumption DEF Accounts
  <2>2. SumOf(Own(x)) >= SumOf(Own(x))' /\ SumOf(Own(x)) \in Nat /\ SumOf(Own(x))' \in Nat
    <3>1. CASE x = deposits[id].who
      <4>1. SumOf(Own(x)) = amount + SumOf(Own(x))' /\ SumOf(Own(x))' \in Nat
        BY <1>2, <3>1
      <4>. QED
        BY <1>2, <4>1
    <3>2. CASE x # deposits[id].who
      <4>1. SumOf(Own(x)) = 0 + SumOf(Own(x))' /\ SumOf(Own(x))' \in Nat
        BY <1>2, <3>2
      <4>. QED
        BY <4>1
    <3>. QED
      BY <3>1, <3>2
  <2>3. balance'[x] = balance[x]
    BY <1>4, <2>1
  <2>. QED
    BY <2>1, <2>2, <2>3
<1>. QED
  BY <1>2, <1>6, <1>7, <1>8, <1>9 DEF ContractInv, MoneyInv

\* renewLock: another time, and nothing else.
LEMMA RenewCall ==
  ASSUME ContractInv, NEW id, NEW t \in Times, CanRenew(id, t), renewLock(id, t)
  PROVE  ContractInv'
<1>1. /\ id \in DOMAIN deposits
      /\ DOMAIN deposits = 1..Len(deposits) /\ Len(deposits) \in Nat
      /\ \A i \in DOMAIN deposits : deposits[i] \in Deposits
  BY SumsAreNumbers DEF CanRenew, Live, ContractInv
<1>2. deposits' = [deposits EXCEPT ![id].unlock = t] /\ deposits \in Seq(Deposits)
  BY DEF renewLock, ContractInv, BookTypes
<1>3. \A i \in DOMAIN deposits :
        deposits'[i] = IF i = id THEN [deposits[i] EXCEPT !.unlock = t] ELSE deposits[i]
  BY <1>1, <1>2
<1>4. ASSUME NEW i \in DOMAIN deposits
      PROVE  /\ deposits'[i] \in Deposits
             /\ deposits'[i].who = deposits[i].who /\ deposits'[i].amount = deposits[i].amount
             /\ deposits'[i].withdrawn = deposits[i].withdrawn
  BY <1>1, <1>3 DEF Deposits
<1>5. DOMAIN deposits' = DOMAIN deposits /\ deposits' \in Seq(Deposits)
  <2>1. deposits' = [i \in DOMAIN deposits |-> deposits'[i]]
    BY <1>2
  <2>2. deposits' \in [1..Len(deposits) -> Deposits]
    BY <1>1, <1>4, <2>1
  <2>. QED
    BY <1>1, <2>1, <2>2
<1>6. /\ Live' = Live /\ \A a : For(deposits, a)' = For(deposits, a)
      /\ Amounts(deposits)' = Amounts(deposits)
  BY <1>4, <1>5 DEF Live, For, Amounts
<1>7. SumOf(Live)' = SumOf(Live) /\ \A a : Own(a)' = Own(a) /\ SumOf(Own(a))' = SumOf(Own(a))
  BY <1>6 DEF SumOf, Own
<1>8. UNCHANGED <<byWithdrawal, byToken, balance, held, taken, short>>
  BY DEF renewLock
<1>9. BookTypes' /\ ListsInv'
  BY <1>5, <1>6, <1>7, <1>8 DEF ContractInv, BookTypes, ListsInv
<1>10. MoneyTypes' /\ MoneyInv'
  BY <1>6, <1>7, <1>8 DEF ContractInv, MoneyTypes, MoneyInv
<1>. QED
  BY <1>9, <1>10 DEF ContractInv

\* Calls, and steps of the requests, that leave the records alone.
LEMMA RecordsAlone ==
  ASSUME ContractInv, UNCHANGED <<bookVars, held, taken, short>>
  PROVE  ContractInv'
<1>1. /\ Live' = Live /\ \A a : Own(a)' = Own(a)
      /\ SumOf(Live)' = SumOf(Live) /\ \A a : SumOf(Own(a))' = SumOf(Own(a))
  BY DEF bookVars, Live, Own, For, SumOf, Amounts
<1>2. BookTypes' /\ ListsInv'
  BY <1>1 DEF ContractInv, BookTypes, ListsInv, bookVars
<1>3. MoneyTypes' /\ MoneyInv'
  BY <1>1 DEF ContractInv, MoneyTypes, MoneyInv, bookVars
<1>. QED
  BY <1>2, <1>3 DEF ContractInv

\* withdrawSpecificDeposit: tokens, and no deposit.
LEMMA SpecificCall ==
  ASSUME ContractInv, NEW receiver, NEW amount \in Nat, held >= amount,
         withdrawSpecificDeposit(receiver, amount)
  PROVE  ContractInv'
<1>1. UNCHANGED bookVars /\ held' = held - amount /\ taken' = taken + amount /\ short' = short
  BY DEF withdrawSpecificDeposit, pay
<1>2. /\ Live' = Live /\ \A a : Own(a)' = Own(a)
      /\ SumOf(Live)' = SumOf(Live) /\ \A a : SumOf(Own(a))' = SumOf(Own(a))
  BY <1>1 DEF bookVars, Live, Own, For, SumOf, Amounts
<1>3. BookTypes' /\ ListsInv'
  BY <1>1, <1>2 DEF ContractInv, BookTypes, ListsInv, bookVars
<1>4. held \in Nat /\ taken \in Nat /\ short \in Nat /\ MoneyTypes'
  BY <1>1 DEF ContractInv, MoneyTypes, bookVars
<1>5. SumOf(Live) \in Nat
  BY SumsAreNumbers DEF ContractInv
<1>6. held' + taken' = SumOf(Live)' + short' /\ (taken' = 0 => short' = 0)
  BY <1>1, <1>2, <1>4, <1>5 DEF ContractInv, MoneyInv
<1>7. MoneyInv'
  BY <1>1, <1>2, <1>6 DEF ContractInv, MoneyInv, bookVars
<1>. QED
  BY <1>3, <1>4, <1>7 DEF ContractInv

\* The numbers after n of the elements of S.
After(n, S) == {n + i : i \in S}
Items(b) == [i \in DOMAIN b |-> [who |-> b[i].who, amount |-> b[i].amount,
                                 unlock |-> b[i].unlock, withdrawn |-> FALSE]]

\* A batch is a sequence of deposits to be.
LEMMA BatchFacts ==
  ASSUME NEW b \in Batches
  PROVE  /\ DOMAIN b = 1..Len(b) /\ Len(b) \in Nat
         /\ \A i \in DOMAIN b : b[i].who \in Accounts /\ b[i].amount \in Nat /\ b[i].unlock \in Times
         /\ Amounts(b) \in [DOMAIN b -> Nat] /\ IsFiniteSet(DOMAIN b)
         /\ \A S \in SUBSET DOMAIN b : IsFiniteSet(S) /\ SumOver(Amounts(b), S) \in Nat
         /\ Total(b) \in Nat
<1> DEFINE R == [who : Accounts, amount : Nat, unlock : Times]
<1>1. b \in Seq(R)
  BY LockerAssumption
<1>2. \A r \in R : r.who \in Accounts /\ r.amount \in Nat /\ r.unlock \in Times
  OBVIOUS
<1> HIDE DEF R
<1>3. DOMAIN b = 1..Len(b) /\ Len(b) \in Nat /\ \A i \in DOMAIN b : b[i] \in R
  BY <1>1
<1>4. /\ Amounts(b) \in [DOMAIN b -> Nat] /\ IsFiniteSet(DOMAIN b)
      /\ \A S \in SUBSET DOMAIN b : IsFiniteSet(S) /\ SumOver(Amounts(b), S) \in Nat
  BY <1>1, <1>2, AmountsAreNumbers
<1>. QED
  BY <1>2, <1>3, <1>4 DEF Total

\* The deposits are those there were and then those of batch b.
Grows(b) ==
  /\ deposits' \in Seq(Deposits)
  /\ DOMAIN deposits' = 1..(Len(deposits) + Len(b))
  /\ \A i \in DOMAIN deposits' : deposits'[i] \in Deposits
  /\ \A i \in DOMAIN deposits : i \in DOMAIN deposits' /\ deposits'[i] = deposits[i]
  /\ \A i \in DOMAIN b :
       Len(deposits) + i \in DOMAIN deposits' /\ deposits'[Len(deposits) + i] = Items(b)[i]

\* The deposits a batch makes come after those there were.
Lengthens(e, d, m) ==
  /\ e \in Seq(Deposits) /\ DOMAIN e = 1..(Len(d) + Len(m))
  /\ \A i \in DOMAIN e : e[i] \in Deposits
  /\ \A i \in DOMAIN d : i \in DOMAIN e /\ e[i] = d[i]
  /\ \A i \in DOMAIN m : Len(d) + i \in DOMAIN e /\ e[Len(d) + i] = m[i]

LEMMA Lengthened ==
  ASSUME NEW d \in Seq(Deposits), NEW m \in Seq(Deposits)
  PROVE  Lengthens(d \o m, d, m)
  BY DEF Lengthens

LEMMA ItemsAreDeposits ==
  ASSUME NEW b \in Batches
  PROVE  Items(b) \in Seq(Deposits) /\ Len(Items(b)) = Len(b) /\ DOMAIN Items(b) = DOMAIN b
<1>1. \A i \in DOMAIN b : Items(b)[i] \in Deposits
  BY BatchFacts DEF Items, Deposits
<1>2. Items(b) = [i \in 1..Len(b) |-> Items(b)[i]] /\ Len(b) \in Nat
  BY BatchFacts DEF Items
<1>3. Items(b) \in [1..Len(b) -> Deposits]
  BY <1>1, <1>2, BatchFacts
<1>. QED
  BY <1>2, <1>3, BatchFacts

LEMMA BatchGrows ==
  ASSUME BookTypes, NEW b \in Batches, deposits' = deposits \o Items(b)
  PROVE  Grows(b)
<1>1. deposits \in Seq(Deposits)
  BY DEF BookTypes
<1>2. PICK m : m = Items(b)
  OBVIOUS
<1>3. m \in Seq(Deposits) /\ Len(m) = Len(b) /\ DOMAIN m = DOMAIN b
  BY <1>2, ItemsAreDeposits
<1>4. Lengthens(deposits \o m, deposits, m)
  BY <1>1, <1>3, Lengthened
<1>5. Lengthens(deposits', deposits, m)
  BY <1>2, <1>4
<1>. QED
  BY <1>2, <1>3, <1>5 DEF Grows, Lengthens

\* They are live, for whom the batch says.
LEMMA LockedSets ==
  ASSUME BookTypes, NEW b \in Batches, Grows(b)
  PROVE  /\ Live' = Live \union After(Len(deposits), DOMAIN b)
         /\ \A a : Own(a)' = Own(a) \union After(Len(deposits), For(b, a))
<1> DEFINE n == Len(deposits)
<1>1. /\ DOMAIN deposits' = 1..(n + Len(b))
      /\ \A i \in DOMAIN deposits : i \in DOMAIN deposits' /\ deposits'[i] = deposits[i]
      /\ \A i \in DOMAIN b : n + i \in DOMAIN deposits' /\ deposits'[n + i] = Items(b)[i]
  BY DEF Grows
<1>2. DOMAIN deposits = 1..n /\ n \in Nat /\ DOMAIN b = 1..Len(b) /\ Len(b) \in Nat
  BY BatchFacts, SumsAreNumbers
<1>3. ASSUME NEW k \in DOMAIN deposits'
      PROVE  k \in DOMAIN deposits \/ \E i \in DOMAIN b : k = n + i
  <2>1. CASE k <= n
    BY <1>1, <1>2, <2>1
  <2>2. CASE ~(k <= n)
    <3>1. k - n \in DOMAIN b /\ k = n + (k - n)
      BY <1>1, <1>2, <2>2
    <3>. QED
      BY <3>1
  <2>. QED
    BY <2>1, <2>2
<1>4. \A i \in DOMAIN b : Items(b)[i].who = b[i].who /\ Items(b)[i].withdrawn = FALSE
  BY DEF Items
<1> HIDE DEF n
<1>5. Live' = Live \union After(n, DOMAIN b)
  BY <1>1, <1>3, <1>4 DEF Live, After
<1>6. ASSUME NEW a PROVE For(deposits, a)' = For(deposits, a) \union After(n, For(b, a))
  BY <1>1, <1>3, <1>4 DEF For, After
<1>7. ASSUME NEW a PROVE Own(a)' = Own(a) \union After(n, For(b, a))
  <2>1. For(deposits, a) \intersect After(n, DOMAIN b) = {}
    BY <1>2 DEF For, After, n
  <2>2. Live \intersect After(n, For(b, a)) = {}
    BY <1>2 DEF For, After, Live
  <2>3. After(n, For(b, a)) \subseteq After(n, DOMAIN b)
    BY DEF For, After
  <2>. QED
    BY <1>5, <1>6, <2>1, <2>2, <2>3 DEF Own
<1>. QED
  BY <1>5, <1>7 DEF n

\* The amounts of both add up.
LEMMA LockedSums ==
  ASSUME BookTypes, NEW b \in Batches, Grows(b),
         NEW S \in SUBSET DOMAIN deposits, NEW T \in SUBSET DOMAIN b
  PROVE  SumOver(Amounts(deposits)', S \union After(Len(deposits), T))
           = SumOver(Amounts(deposits), S) + SumOver(Amounts(b), T)
<1>1. PICK n : n = Len(deposits)
  OBVIOUS
<1>2. PICK D : D = DOMAIN deposits'
  OBVIOUS
<1>3. PICK g : g = Amounts(deposits)'
  OBVIOUS
<1>4. PICK f : f = Amounts(deposits)
  OBVIOUS
<1>5. PICK U : U = After(n, T)
  OBVIOUS
<1>6. PICK E : E = DOMAIN deposits
  OBVIOUS
<1>7. /\ D = 1..(n + Len(b)) /\ \A i \in D : deposits'[i] \in Deposits
      /\ \A i \in E : i \in D /\ deposits'[i] = deposits[i]
      /\ \A i \in DOMAIN b : n + i \in D /\ deposits'[n + i] = Items(b)[i]
  BY <1>1, <1>2, <1>6 DEF Grows
<1>8. E = 1..n /\ n \in Nat /\ DOMAIN b = 1..Len(b) /\ Len(b) \in Nat /\ f \in [E -> Nat]
  BY <1>1, <1>4, <1>6, BatchFacts, SumsAreNumbers
<1>9. Amounts(b) \in [DOMAIN b -> Nat] /\ IsFiniteSet(T) /\ IsFiniteSet(S)
  BY BatchFacts, SumsAreNumbers
<1>10. g \in [D -> Nat] /\ \A i \in D : g[i] = deposits'[i].amount
  <2>1. g = [i \in D |-> deposits'[i].amount]
    BY <1>2, <1>3 DEF Amounts
  <2>. QED
    BY <1>7, <2>1 DEF Deposits
<1>11. \A i \in S : g[i] = f[i]
  BY <1>4, <1>6, <1>7, <1>10 DEF Amounts
<1>12. \A i \in T : g[n + i] = Amounts(b)[i]
  <2> SUFFICES ASSUME NEW i \in T PROVE g[n + i] = Amounts(b)[i]
    OBVIOUS
  <2>1. n + i \in D /\ deposits'[n + i] = Items(b)[i]
    BY <1>7
  <2>2. g[n + i] = deposits'[n + i].amount
    BY <1>10, <2>1
  <2>. QED
    BY <2>1, <2>2 DEF Amounts, Items
<1>13. SumOver(f, S) = SumOver(g, S)
  <2>1. S \subseteq D /\ S \subseteq E
    BY <1>6, <1>7
  <2>2. Agree(f, g, S)
    BY <1>11 DEF Agree
  <2>3. f \in [E -> Nat] /\ g \in [D -> Nat] /\ IsFiniteSet(S)
    BY <1>8, <1>9, <1>10
  <2>. QED
    BY <2>1, <2>2, <2>3, SumAgree
<1>14. IsFiniteSet(U) /\ SumOver(g, U) = SumOver(Amounts(b), T)
  <2>1. PICK h : h = [i \in T |-> n + i]
    OBVIOUS
  <2>2. h \in [T -> D] /\ \A i \in T : h[i] = n + i
    BY <1>7, <2>1
  <2>3. \A x, y \in T : h[x] = h[y] => x = y
    BY <1>8, <2>2
  <2>4. \A i \in T : g[h[i]] = Amounts(b)[i]
    BY <1>12, <2>2
  <2>5. U = {h[i] : i \in T}
    BY <1>5, <2>2 DEF After
  <2>6. Renames(h, Amounts(b), T, g, D)
    BY <2>2, <2>3, <2>4 DEF Renames
  <2>7. IsFiniteSet({h[i] : i \in T}) /\ SumOver(g, {h[i] : i \in T}) = SumOver(Amounts(b), T)
    BY <1>9, <1>10, <2>6, SumRenamed
  <2>. QED
    BY <2>5, <2>7
<1>15. S \in SUBSET D /\ U \in SUBSET D /\ S \intersect U = {}
  BY <1>5, <1>6, <1>7, <1>8 DEF After
<1>16. SumOver(g, S \union U) = SumOver(g, S) + SumOver(g, U)
  BY <1>9, <1>10, <1>14, <1>15, SumUnion
<1>. QED
  BY <1>1, <1>3, <1>4, <1>5, <1>13, <1>14, <1>16

\* The lists grow by the deposits of the batch.
LEMMA LockedLists ==
  ASSUME ContractInv, NEW b \in Batches, lockTokenMultiple(b)
  PROVE  BookTypes' /\ ListsInv'
<1>1. PICK n : n = Len(deposits)
  OBVIOUS
<1>2. /\ deposits' = deposits \o Items(b)
      /\ byWithdrawal' = [a \in Accounts |-> byWithdrawal[a] \o InOrder(After(n, For(b, a)))]
      /\ byToken' = byToken \o [i \in DOMAIN b |-> n + i]
  BY <1>1 DEF lockTokenMultiple, Items, After
<1>3. /\ BookTypes /\ ListsInv
      /\ byToken \in Seq(Nat) /\ Names(byToken, Live)
      /\ byWithdrawal \in [Accounts -> Seq(Nat)]
      /\ \A a \in Accounts : Names(byWithdrawal[a], Own(a))
  BY DEF ContractInv, BookTypes, ListsInv
<1>4. Grows(b)
  BY <1>2, <1>3, BatchGrows
<1>5. deposits' \in Seq(Deposits)
  BY <1>4 DEF Grows
<1>6. /\ Live' = Live \union After(n, DOMAIN b)
      /\ \A a : Own(a)' = Own(a) \union After(n, For(b, a))
  BY <1>1, <1>3, <1>4, LockedSets
<1>7. /\ n \in Nat /\ DOMAIN b = 1..Len(b) /\ Len(b) \in Nat /\ Live \subseteq 1..n
      /\ \A a : Own(a) \subseteq Live /\ For(b, a) \subseteq DOMAIN b
  BY <1>1, <1>3, BatchFacts, SumsAreNumbers DEF For
<1> HIDE DEF ContractInv
<1>8. PICK m : m = [i \in DOMAIN b |-> n + i]
  OBVIOUS
<1>9. m \in Seq(Nat) /\ Names(m, After(n, DOMAIN b))
  <2>1. m \in [1..Len(b) -> Nat] /\ \A i \in 1..Len(b) : m[i] = n + i
    BY <1>7, <1>8
  <2>2. m \in Seq(Nat)
    BY <1>7, <2>1
  <2>3. Range(m) = After(n, DOMAIN b)
    BY <1>7, <2>1 DEF Range, After
  <2>4. \A i, j \in DOMAIN m : i < j => m[i] < m[j]
    BY <1>7, <2>1
  <2>. QED
    BY <2>2, <2>3, <2>4 DEF Names
<1>10. \A s \in Live : \A t \in After(n, DOMAIN b) : s < t
  <2> SUFFICES ASSUME NEW s \in 1..n, NEW i \in 1..Len(b) PROVE s < n + i
    BY <1>7 DEF After
  <2>. QED
    BY <1>7
<1>11. byToken' \in Seq(Nat) /\ Names(byToken', Live')
  <2>1. byToken \o m \in Seq(Nat) /\ Names(byToken \o m, Live \union After(n, DOMAIN b))
    BY <1>3, <1>9, <1>10, NamesAppended
  <2>. QED
    BY <1>2, <1>6, <1>8, <2>1
<1>12. ASSUME NEW a \in Accounts
       PROVE  byWithdrawal'[a] \in Seq(Nat) /\ Names(byWithdrawal'[a], Own(a)')
  <2>1. PICK A : A = After(n, For(b, a))
    OBVIOUS
  <2>2. A \in SUBSET Nat /\ A \subseteq After(n, DOMAIN b)
    BY <1>7, <2>1 DEF After
  <2>3. IsFiniteSet(A)
    <3>1. A \subseteq 1..(n + Len(b))
      <4> SUFFICES ASSUME NEW i \in 1..Len(b) PROVE n + i \in 1..(n + Len(b))
        BY <1>7, <2>1 DEF After
      <4>. QED
        BY <1>7
    <3>2. IsFiniteSet(1..(n + Len(b)))
      BY <1>7, FS_Interval
    <3>. QED
      BY <3>1, <3>2, FS_Subset
  <2>4. InOrder(A) \in Seq(Nat) /\ Names(InOrder(A), A)
    BY <2>2, <2>3, NamesInOrder
  <2>5. PICK l : l = byWithdrawal[a]
    OBVIOUS
  <2>6. l \in Seq(Nat) /\ Names(l, Own(a))
    BY <1>3, <2>5
  <2>7. \A s \in Own(a) : \A t \in A : s < t
    BY <1>7, <1>10, <2>2
  <2>8. PICK k : k = InOrder(A)
    OBVIOUS
  <2>9. l \o k \in Seq(Nat) /\ Names(l \o k, Own(a) \union A)
    BY <2>4, <2>6, <2>7, <2>8, NamesAppended
  <2>10. byWithdrawal'[a] = l \o k /\ Own(a)' = Own(a) \union A
    BY <1>2, <1>6, <2>1, <2>5, <2>8
  <2>. QED
    BY <2>9, <2>10
<1>13. byWithdrawal' \in [Accounts -> Seq(Nat)]
  BY <1>2, <1>12
<1>. QED
  BY <1>5, <1>11, <1>12, <1>13 DEF BookTypes, ListsInv

\* The balances grow by what the batch holds for each account.
LEMMA LockedBalances ==
  ASSUME MoneyTypes, NEW b \in Batches,
         balance' = [a \in Accounts |-> balance[a] + SumOver(Amounts(b), For(b, a))]
  PROVE  /\ balance' \in [Accounts -> Nat]
         /\ SumOver(balance', Accounts) = SumOver(balance, Accounts) + Total(b)
<1>1. PICK t : t = [a \in Accounts |-> SumOver(Amounts(b), For(b, a))]
  OBVIOUS
<1>2. PICK g : g = balance'
  OBVIOUS
<1>3. PICK S : S = DOMAIN b
  OBVIOUS
<1>4. PICK f : f = Amounts(b)
  OBVIOUS
<1>5. IsFiniteSet(Accounts)
  BY LockerAssumption, FS_AddElement DEF Accounts
<1>6. f \in [S -> Nat] /\ IsFiniteSet(S) /\ \A i \in S : b[i].who \in Accounts
  BY <1>3, <1>4, BatchFacts
<1>7. \A a \in Accounts : t[a] = SumOver(f, For(b, a)) /\ t[a] \in Nat
  <2> SUFFICES ASSUME NEW a \in Accounts PROVE t[a] = SumOver(f, For(b, a)) /\ t[a] \in Nat
    OBVIOUS
  <2>1. For(b, a) \in SUBSET DOMAIN b
    BY DEF For
  <2>. QED
    BY <1>1, <1>4, <2>1, BatchFacts
<1>8. t \in [Accounts -> Nat]
  BY <1>1, <1>7
<1>9. SumOver(t, Accounts) = SumOver(f, S)
  <2>1. PICK c : c = [i \in S |-> b[i].who]
    OBVIOUS
  <2>2. c \in [S -> Accounts]
    BY <1>6, <2>1
  <2>3. \A a \in Accounts : t[a] = SumOver(f, {i \in S : c[i] = a})
    <3> SUFFICES ASSUME NEW a \in Accounts PROVE t[a] = SumOver(f, {i \in S : c[i] = a})
      OBVIOUS
    <3>1. For(b, a) = {i \in S : c[i] = a}
      BY <1>3, <2>1 DEF For
    <3>. QED
      BY <1>7, <3>1
  <2>4. Classes(f, S, c, t, Accounts)
    BY <2>2, <2>3 DEF Classes
  <2>. QED
    BY <1>5, <1>6, <1>8, <2>4, SumByClass
<1>10. balance \in [Accounts -> Nat]
  BY DEF MoneyTypes
<1>11. g \in [Accounts -> Nat] /\ \A a \in Accounts : g[a] = balance[a] + t[a]
  <2>1. g = [a \in Accounts |-> balance[a] + t[a]]
    BY <1>1, <1>2
  <2>. QED
    BY <1>8, <1>10, <2>1
<1>12. SumOver(g, Accounts) = SumOver(balance, Accounts) + SumOver(t, Accounts)
  <2>1. AddsUp(g, balance, t, Accounts)
    BY <1>11 DEF AddsUp
  <2>2. g \in [Accounts -> Nat]
    BY <1>11
  <2>. QED
    BY <1>5, <1>8, <1>10, <2>1, <2>2, SumPlus
<1>. QED
  BY <1>2, <1>3, <1>4, <1>9, <1>11, <1>12 DEF Total

\* lockTokenMultiple: new deposits, which the owner pays for.
LEMMA LockCall ==
  ASSUME ContractInv, NEW b \in Batches, lockTokenMultiple(b)
  PROVE  ContractInv'
<1>1. BookTypes /\ MoneyTypes /\ ListsInv /\ MoneyInv
  BY DEF ContractInv
<1>2. Grows(b)
  BY <1>1, BatchGrows DEF lockTokenMultiple, Items
<1>3. /\ balance' = [a \in Accounts |-> balance[a] + SumOver(Amounts(b), For(b, a))]
      /\ held' = held + Total(b) /\ UNCHANGED <<taken, short>>
  BY DEF lockTokenMultiple
<1>4. BookTypes' /\ ListsInv'
  BY LockedLists
<1>5. PICK n : n = Len(deposits)
  OBVIOUS
<1>6. /\ Live' = Live \union After(n, DOMAIN b)
      /\ \A a : Own(a)' = Own(a) \union After(n, For(b, a))
  BY <1>1, <1>2, <1>5, LockedSets
<1>7. Total(b) \in Nat /\ \A a : For(b, a) \in SUBSET DOMAIN b /\ SumOver(Amounts(b), For(b, a)) \in Nat
  <2>1. \A a : For(b, a) \in SUBSET DOMAIN b
    BY DEF For
  <2>. QED
    BY <2>1, BatchFacts
<1>8. /\ Live \in SUBSET DOMAIN deposits /\ SumOf(Live) \in Nat
      /\ \A a : Own(a) \in SUBSET DOMAIN deposits /\ SumOf(Own(a)) \in Nat
  BY <1>1, SumsAreNumbers
<1>9. SumOf(Live)' = SumOf(Live) + Total(b)
  <2>1. DOMAIN b \in SUBSET DOMAIN b
    OBVIOUS
  <2>2. SumOver(Amounts(deposits)', Live \union After(n, DOMAIN b))
          = SumOver(Amounts(deposits), Live) + SumOver(Amounts(b), DOMAIN b)
    BY <1>1, <1>2, <1>5, <1>8, <2>1, LockedSums
  <2>. QED
    BY <1>6, <2>2 DEF SumOf, Total
<1>10. ASSUME NEW a PROVE SumOf(Own(a))' = SumOf(Own(a)) + SumOver(Amounts(b), For(b, a))
  <2>1. SumOver(Amounts(deposits)', Own(a) \union After(n, For(b, a)))
          = SumOver(Amounts(deposits), Own(a)) + SumOver(Amounts(b), For(b, a))
    BY <1>1, <1>2, <1>5, <1>7, <1>8, LockedSums
  <2>. QED
    BY <1>6, <2>1 DEF SumOf
<1>11. /\ balance' \in [Accounts -> Nat]
       /\ SumOver(balance', Accounts) = SumOver(balance, Accounts) + Total(b)
  BY <1>1, <1>3, LockedBalances
<1>12. /\ held \in Nat /\ taken \in Nat /\ short \in Nat /\ balance \in [Accounts -> Nat]
       /\ held + taken = SumOf(Live) + short /\ (taken = 0 => short = 0)
       /\ SumOver(balance, Accounts) = SumOf(Live)
       /\ \A x \in Others : balance[x] >= SumOf(Own(x))
  BY <1>1 DEF MoneyTypes, MoneyInv
<1>13. MoneyTypes'
  BY <1>3, <1>7, <1>11, <1>12 DEF MoneyTypes
<1>14. held' + taken' = SumOf(Live)' + short' /\ (taken' = 0 => short' = 0)
  BY <1>3, <1>7, <1>8, <1>9, <1>12
<1>15. SumOver(balance', Accounts) = SumOf(Live)'
  BY <1>9, <1>11, <1>12
<1>16. ASSUME NEW x \in Others PROVE balance'[x] >= SumOf(Own(x))'
  <2>1. x \in Accounts /\ balance[x] >= SumOf(Own(x)) /\ balance[x] \in Nat
    BY <1>12 DEF Accounts
  <2>2. balance'[x] = balance[x] + SumOver(Amounts(b), For(b, x))
    BY <1>3, <2>1
  <2>. QED
    BY <1>7, <1>8, <1>10, <2>1, <2>2
<1>. QED
  BY <1>4, <1>13, <1>14, <1>15, <1>16 DEF ContractInv, MoneyInv

-----------------------------------------------------------------------------
(* The requests                                                            *)

Approvals ==
  {[op |-> "approve", batch |-> b, total |-> Total(b) + e] : b \in Batches, e \in FloatErrors \union {0}}
LockerJobs ==
  Approvals \union [op : {"lock"}, batch : Batches]
            \union [op : {"renew"}, id : Nat, unlock : Times]
            \union [op : {"regular"}, id : Nat]
            \union [op : {"emergency"}, id : Nat, receiver : Accounts]
            \union [op : {"specific"}, receiver : Accounts, amount : Nat]
Busy == [step : {"nonce", "estimate", "send"}, job : LockerJobs, nonce : Int]

RequestInv == count \in Int /\ req \in [Requests -> {Idle} \union Busy]

\* q has an approval, or an emptied one, to lock with.
Locking(q) == ~At(q, "idle") /\ Job(q).op = "lock"

\* The allowance is what the sum was off by, or is about to be used up but for that.
ApprovalInv ==
  allowance \in Int /\ failed \in BOOLEAN /\
  (~failed => \E e \in FloatErrors \union {0} :
                \/ allowance <= e
                \/ \E q \in Requests : Locking(q) /\ allowance <= Total(Job(q).batch) + e)

LockerInv == RequestInv /\ ApprovalInv /\ ContractInv

\* What the jobs ask for.
LEMMA JobFacts ==
  ASSUME NEW j \in LockerJobs
  PROVE  /\ j.op = "approve" => j \in Approvals
         /\ j.op \in {"approve", "lock"} => j.batch \in Batches
         /\ j.op = "approve" =>
              \E e \in FloatErrors \union {0} : j.total = Total(j.batch) + e /\ j.total \in Int
         /\ j.op = "renew" => j.unlock \in Times
         /\ j.op = "specific" => j.amount \in Nat
<1>1. CASE j \in Approvals
  <2>1. PICK b \in Batches, e \in FloatErrors \union {0} :
          j = [op |-> "approve", batch |-> b, total |-> Total(b) + e]
    BY <1>1 DEF Approvals
  <2>2. j.op = "approve" /\ j.batch = b /\ j.total = Total(b) + e
    BY <2>1
  <2>3. Total(b) + e \in Int
    <3>1. FloatErrors \subseteq Int
      BY LockerAssumption
    <3>2. Total(b) \in Nat
      BY BatchFacts
    <3>. QED
      BY <3>1, <3>2
  <2>. QED
    BY <1>1, <2>2, <2>3
<1>2. CASE j \notin Approvals
  BY <1>2 DEF LockerJobs
<1>. QED
  BY <1>1, <1>2

LEMMA ApprovalsAreJobs ==
  ASSUME NEW b \in Batches, NEW e \in FloatErrors \union {0}
  PROVE  [op |-> "approve", batch |-> b, total |-> Total(b) + e] \in LockerJobs
  BY DEF Approvals, LockerJobs

\* A busy request has a job.
LEMMA BusyFacts ==
  ASSUME RequestInv, NEW q \in Requests
  PROVE  /\ At(q, "idle") <=> req[q] = Idle
         /\ ~At(q, "idle") => req[q] \in Busy /\ Job(q) \in LockerJobs
<1>1. req[q] \in {Idle} \union Busy
  BY DEF RequestInv
<1>2. Idle.step = "idle" /\ \A r \in Busy : r.step # "idle" /\ r.job \in LockerJobs
  BY DEF Idle, Busy
<1>. QED
  BY <1>1, <1>2 DEF At, Job

\* A request moves on, and the others stay where they are.
LEMMA Moved ==
  ASSUME RequestInv, NEW q \in Requests, NEW r \in {Idle} \union Busy,
         req' = [req EXCEPT ![q] = r], count' \in Int
  PROVE  /\ RequestInv' /\ req'[q] = r
         /\ \A p \in Requests \ {q} : req'[p] = req[p]
  BY DEF RequestInv

\* What a request becomes.
LEMMA Becomes ==
  ASSUME RequestInv, NEW q \in Requests
  PROVE  /\ \A j \in LockerJobs : Call(q, j) =>
              \E r \in Busy : req' = [req EXCEPT ![q] = r] /\ r.job = j
         /\ End(q) => req' = [req EXCEPT ![q] = Idle]
         /\ ~At(q, "idle") => \A s \in {"estimate", "send"} : Goto(q, s) =>
              \E r \in Busy : req' = [req EXCEPT ![q] = r] /\ r.job = Job(q)
         /\ ~At(q, "idle") /\ getTransactionCount(q) =>
              \E r \in Busy : req' = [req EXCEPT ![q] = r] /\ r.job = Job(q)
<1>1. ASSUME NEW j \in LockerJobs, Call(q, j)
      PROVE  \E r \in Busy : req' = [req EXCEPT ![q] = r] /\ r.job = j
  <2>1. [step |-> "nonce", job |-> j, nonce |-> 0] \in Busy
    BY DEF Busy
  <2>. QED
    BY <1>1, <2>1 DEF Call
<1>2. End(q) => req' = [req EXCEPT ![q] = Idle]
  BY DEF End
<1>3. ASSUME ~At(q, "idle"), NEW s \in {"estimate", "send"}, Goto(q, s)
      PROVE  \E r \in Busy : req' = [req EXCEPT ![q] = r] /\ r.job = Job(q)
  <2>1. req[q] \in Busy
    BY <1>3, BusyFacts
  <2>2. [req[q] EXCEPT !.step = s] \in Busy /\ [req[q] EXCEPT !.step = s].job = req[q].job
    BY <2>1 DEF Busy
  <2>3. req' = [req EXCEPT ![q] = [req[q] EXCEPT !.step = s]]
    BY <1>3 DEF Goto
  <2>. QED
    BY <2>2, <2>3 DEF Job
<1>4. ASSUME ~At(q, "idle"), getTransactionCount(q)
      PROVE  \E r \in Busy : req' = [req EXCEPT ![q] = r] /\ r.job = Job(q)
  <2>1. req[q] \in Busy /\ count \in Int
    BY <1>4, BusyFacts DEF RequestInv
  <2>2. PICK y : y = [req[q] EXCEPT !.nonce = count]
    OBVIOUS
  <2>3. y \in Busy /\ y.job = req[q].job
    BY <2>1, <2>2 DEF Busy
  <2>7. PICK r : r = [y EXCEPT !.step = "estimate"]
    OBVIOUS
  <2>8. r \in Busy /\ r.job = y.job
    BY <2>3, <2>7 DEF Busy
  <2>4. req' = [req EXCEPT ![q].nonce = count, ![q].step = "estimate"]
    BY <1>4 DEF getTransactionCount
  <2>5. req' = [req EXCEPT ![q] = [[req[q] EXCEPT !.nonce = count] EXCEPT !.step = "estimate"]]
    BY <2>4 DEF RequestInv
  <2>6. req' = [req EXCEPT ![q] = r]
    BY <2>2, <2>5, <2>7
  <2>. QED
    BY <2>3, <2>6, <2>8 DEF Job
<1>. QED
  BY <1>1, <1>2, <1>3, <1>4

-----------------------------------------------------------------------------
(* The allowance                                                           *)

\* Nothing disturbs what is locked.
LEMMA ApprovalKept ==
  ASSUME ApprovalInv, allowance' = allowance, failed' = failed,
         \A p \in Requests : Locking(p) => Locking(p)' /\ Job(p)' = Job(p)
  PROVE  ApprovalInv'
  BY DEF ApprovalInv

\* A request that fails is recorded, or was none that locks.
LEMMA ApprovalFailed ==
  ASSUME RequestInv, ApprovalInv, NEW q \in Requests, ~At(q, "idle"), allowance' = allowance,
         req' = [req EXCEPT ![q] = Idle], Fails(q)
  PROVE  ApprovalInv'
<1>1. allowance' \in Int /\ failed \in BOOLEAN /\ failed' = (failed \/ Locks(Job(q)))
  BY DEF ApprovalInv, Fails
<1>2. CASE failed \/ Job(q).op \in {"approve", "lock"}
  <2>1. failed' = TRUE
    BY <1>1, <1>2 DEF Locks
  <2>. QED
    BY <1>1, <2>1 DEF ApprovalInv
<1>3. CASE ~failed /\ Job(q).op \notin {"approve", "lock"}
  <2>1. failed' = failed
    BY <1>1, <1>3 DEF Locks
  <2>2. ASSUME NEW p \in Requests, Locking(p) PROVE Locking(p)' /\ Job(p)' = Job(p)
    <3>1. p # q
      BY <1>3, <2>2 DEF Locking
    <3>2. req'[p] = req[p]
      BY <3>1 DEF RequestInv
    <3>. QED
      BY <2>2, <3>2 DEF Locking, At, Job
  <2>. QED
    BY <2>1, <2>2, ApprovalKept
<1>. QED
  BY <1>2, <1>3

\* The request goes on with its job, or began one that is no lock yet.
LEMMA ApprovalMoved ==
  ASSUME RequestInv, ApprovalInv, NEW q \in Requests, NEW r \in {Idle} \union Busy,
         allowance' = allowance, failed' = failed, req' = [req EXCEPT ![q] = r],
         Locking(q) => r \in Busy /\ r.job = Job(q)
  PROVE  ApprovalInv'
<1>1. req'[q] = r /\ \A p \in Requests \ {q} : req'[p] = req[p]
  BY DEF RequestInv
<1>2. ASSUME NEW p \in Requests, Locking(p) PROVE Locking(p)' /\ Job(p)' = Job(p)
  <2>1. CASE p = q
    <3>1. r.step # "idle" /\ r.job = Job(p) /\ req'[p] = r
      BY <1>1, <1>2, <2>1 DEF Busy
    <3>. QED
      BY <1>2, <3>1 DEF Locking, At, Job
  <2>2. CASE p # q
    BY <1>1, <1>2, <2>2 DEF Locking, At, Job
  <2>. QED
    BY <2>1, <2>2
<1>. QED
  BY <1>2, ApprovalKept

\* An approval is for the sum of the batch that is locked next.
LEMMA ApprovalMade ==
  ASSUME ApprovalInv, failed' = failed,
         NEW q \in Requests, NEW b \in Batches, NEW e \in FloatErrors \union {0},
         allowance' = Total(b) + e, NEW r \in Busy, req'[q] = r, r.job = [op |-> "lock", batch |-> b]
  PROVE  ApprovalInv'
<1>1. Total(b) \in Int /\ e \in Int
  <2>1. FloatErrors \subseteq Int
    BY LockerAssumption
  <2>2. Total(b) \in Nat
    BY BatchFacts
  <2>. QED
    BY <2>1, <2>2
<1>2. Locking(q)' /\ Job(q)'.batch = b
  BY DEF Locking, At, Job, Busy
<1>3. allowance' <= Total(Job(q)'.batch) + e /\ allowance' \in Int
  BY <1>1, <1>2
<1>4. Total(Job(q).batch)' = Total(Job(q)'.batch)
  BY DEF Total, Amounts
<1>. QED
  BY <1>2, <1>3, <1>4 DEF ApprovalInv

\* A lock takes its total off the allowance.
LEMMA ApprovalUsed ==
  ASSUME RequestInv, ApprovalInv, NEW q \in Requests, Locking(q),
         allowance' = allowance - Total(Job(q).batch), failed' = failed,
         req' = [req EXCEPT ![q] = Idle]
  PROVE  ApprovalInv'
<1>1. Total(Job(q).batch) \in Nat
  BY BusyFacts, JobFacts, BatchFacts DEF Locking
<1>2. allowance \in Int /\ allowance' \in Int /\ allowance' <= allowance
  BY <1>1 DEF ApprovalInv
<1>3. \A e \in FloatErrors \union {0} : e \in Int
  BY LockerAssumption
<1>4. ASSUME ~failed
      PROVE  \E e \in FloatErrors \union {0} :
               \/ allowance' <= e
               \/ \E p \in Requests : Locking(p)' /\ allowance' <= Total(Job(p).batch)' + e
  <2>1. PICK e \in FloatErrors \union {0} :
          \/ allowance <= e
          \/ \E p \in Requests : Locking(p) /\ allowance <= Total(Job(p).batch) + e
    BY <1>4 DEF ApprovalInv
  <2>2. CASE allowance <= e
    BY <1>2, <1>3, <2>2
  <2>3. ASSUME NEW p \in Requests, Locking(p), allowance <= Total(Job(p).batch) + e
        PROVE  allowance' <= e \/ (Locking(p)' /\ allowance' <= Total(Job(p).batch)' + e)
    <3>1. CASE p = q
      BY <1>1, <1>2, <1>3, <2>3, <3>1
    <3>2. CASE p # q
      <4>1. req'[p] = req[p]
        BY <3>2 DEF RequestInv
      <4>2. Locking(p)' /\ Job(p)' = Job(p)
        BY <2>3, <4>1 DEF Locking, At, Job
      <4>3. Total(Job(p).batch)' = Total(Job(p).batch)
        BY <4>2 DEF Total, Amounts
      <4>4. Total(Job(p).batch) \in Nat
        BY <2>3, BusyFacts, JobFacts, BatchFacts DEF Locking
      <4>. QED
        BY <1>2, <1>3, <2>3, <4>2, <4>3, <4>4
    <3>. QED
      BY <3>1, <3>2
  <2>. QED
    BY <2>1, <2>2, <2>3
<1>. QED
  BY <1>2, <1>4 DEF ApprovalInv

-----------------------------------------------------------------------------
(* The requests' steps                                                     *)

\* No call changes another request, and the call of a job keeps the records.
LEMMA CallKeepsRecords ==
  ASSUME ContractInv, NEW j \in LockerJobs, Accepts(j), perform(j)
  PROVE  ContractInv'
<1>1. CASE j.op = "approve" /\ approve(j.total)
  BY <1>1, RecordsAlone DEF approve
<1>2. CASE j.op = "lock" /\ lockTokenMultiple(j.batch)
  BY <1>2, LockCall, JobFacts
<1>3. CASE j.op = "renew" /\ renewLock(j.id, j.unlock)
  BY <1>3, RenewCall, JobFacts DEF Accepts
<1>4. CASE j.op = "regular" /\ withdrawDeposit(Owner, j.id)
  BY <1>4, WithdrawCall DEF Accepts, Accounts
<1>5. CASE j.op = "emergency" /\ emergencyWithdrawTokens(j.id, j.receiver)
  BY <1>5, EmergencyCall DEF Accepts
<1>6. CASE j.op = "specific" /\ withdrawSpecificDeposit(j.receiver, j.amount)
  BY <1>6, SpecificCall, JobFacts DEF Accepts
<1>. QED
  BY <1>1, <1>2, <1>3, <1>4, <1>5, <1>6 DEF perform

\* A request begins.
LEMMA ServeStep ==
  ASSUME LockerInv, NEW q \in Requests, serve(q)
  PROVE  LockerInv'
<1>1. RequestInv /\ ApprovalInv /\ ContractInv
  BY DEF LockerInv
<1>2. ContractInv' /\ allowance' = allowance /\ failed' = failed
  BY <1>1, RecordsAlone DEF serve, chainVars
<1>3. \E j \in LockerJobs : Ask(q, j)
  <2>1. Live \subseteq Nat
    BY <1>1, SumsAreNumbers DEF ContractInv
  <2>2. ASSUME NEW b \in Batches, lock(q, b) PROVE \E j \in LockerJobs : Ask(q, j)
    <3>1. PICK e \in FloatErrors \union {0} :
            Ask(q, [op |-> "approve", batch |-> b, total |-> Total(b) + e])
      <4>1. Total(b) = Total(b) + 0
        BY BatchFacts
      <4>2. CASE Ask(q, [op |-> "approve", batch |-> b, total |-> Total(b)])
        BY <4>1, <4>2
      <4>3. CASE \E e \in FloatErrors : Ask(q, [op |-> "approve", batch |-> b, total |-> Total(b) + e])
        BY <4>3
      <4>. QED
        BY <2>2, <4>2, <4>3 DEF lock, approveFor
    <3>. QED
      BY <3>1, ApprovalsAreJobs
  <2>3. ASSUME NEW id \in Live, NEW t \in Times, renew(q, id, t) PROVE \E j \in LockerJobs : Ask(q, j)
    <3>1. [op |-> "renew", id |-> id, unlock |-> t] \in LockerJobs
      BY <2>1 DEF LockerJobs
    <3>. QED
      BY <2>3, <3>1 DEF renew
  <2>4. ASSUME NEW id \in Live, regular(q, id) PROVE \E j \in LockerJobs : Ask(q, j)
    <3>1. [op |-> "regular", id |-> id] \in LockerJobs
      BY <2>1 DEF LockerJobs
    <3>. QED
      BY <2>4, <3>1 DEF regular
  <2>5. ASSUME NEW id \in Live, NEW a \in Receivers, emergency(q, id, a)
        PROVE  \E j \in LockerJobs : Ask(q, j)
    <3>1. [op |-> "emergency", id |-> id, receiver |-> a] \in LockerJobs
      BY <2>1, LockerAssumption DEF LockerJobs
    <3>. QED
      BY <2>5, <3>1 DEF emergency
  <2>6. ASSUME NEW a \in Receivers, NEW n \in Withdrawals, specific(q, a, n)
        PROVE  \E j \in LockerJobs : Ask(q, j)
    <3>1. [op |-> "specific", receiver |-> a, amount |-> n] \in LockerJobs
      BY LockerAssumption DEF LockerJobs
    <3>. QED
      BY <2>6, <3>1 DEF specific
  <2>. QED
    BY <2>2, <2>3, <2>4, <2>5, <2>6 DEF serve
<1>4. PICK j \in LockerJobs : At(q, "idle") /\ Call(q, j) /\ count' = count
  BY <1>3 DEF Ask
<1>5. PICK r \in Busy : req' = [req EXCEPT ![q] = r]
  BY <1>1, <1>4, Becomes
<1>6. count' \in Int
  BY <1>1, <1>4 DEF RequestInv
<1>7. RequestInv'
  BY <1>1, <1>5, <1>6, Moved
<1>8. ~Locking(q)
  BY <1>4 DEF Locking
<1>9. ApprovalInv'
  BY <1>1, <1>2, <1>5, <1>8, ApprovalMoved
<1>. QED
  BY <1>2, <1>7, <1>9 DEF LockerInv

\* A request goes on with its job.
LEMMA GoesOn ==
  ASSUME RequestInv, ApprovalInv, NEW q \in Requests, ~At(q, "idle"), count' \in Int,
         allowance' = allowance, failed' = failed, getTransactionCount(q) \/ Goto(q, "send")
  PROVE  RequestInv' /\ ApprovalInv'
<1>1. PICK r \in Busy : req' = [req EXCEPT ![q] = r] /\ r.job = Job(q)
  <2>1. "send" \in {"estimate", "send"}
    OBVIOUS
  <2>. QED
    BY <2>1, Becomes
<1>2. RequestInv'
  BY <1>1, Moved
<1>3. ApprovalInv'
  BY <1>1, ApprovalMoved
<1>. QED
  BY <1>2, <1>3

\* A request ends with an error.
LEMMA GivesUp ==
  ASSUME RequestInv, ApprovalInv, NEW q \in Requests, ~At(q, "idle"), count' \in Int,
         allowance' = allowance, End(q), Fails(q)
  PROVE  RequestInv' /\ ApprovalInv'
<1>1. req' = [req EXCEPT ![q] = Idle]
  BY Becomes
<1>2. RequestInv'
  BY <1>1, Moved
<1>3. ApprovalInv'
  BY <1>1, ApprovalFailed
<1>. QED
  BY <1>2, <1>3

\* A call is prepared and simulated, or refused.
LEMMA SimulateStep ==
  ASSUME LockerInv, NEW q \in Requests, simulate(q)
  PROVE  LockerInv'
<1>1. RequestInv /\ ApprovalInv /\ ContractInv
  BY DEF LockerInv
<1>2. ContractInv' /\ allowance' = allowance
  BY <1>1, RecordsAlone DEF simulate, chainVars
<1>3. count' \in Int /\ ~At(q, "idle")
  BY <1>1 DEF simulate, getTransactionCount, estimateGas, refuse, At, RequestInv
<1>4. failed \in BOOLEAN
  BY <1>1 DEF ApprovalInv
<1>5. getTransactionCount(q) /\ failed' = failed => RequestInv' /\ ApprovalInv'
  BY <1>1, <1>2, <1>3, GoesOn
<1>6. Goto(q, "send") /\ failed' = failed => RequestInv' /\ ApprovalInv'
  BY <1>1, <1>2, <1>3, GoesOn
<1>7. End(q) /\ Fails(q) => RequestInv' /\ ApprovalInv'
  BY <1>1, <1>2, <1>3, GivesUp
<1>8. ASSUME estimateGas(q, Accepts(Job(q))),
             failed' = (failed \/ (Locks(Job(q)) /\ ~Accepts(Job(q))))
      PROVE  RequestInv' /\ ApprovalInv'
  <2>1. CASE Accepts(Job(q))
    <3>1. Goto(q, "send") /\ failed' = failed
      BY <1>4, <1>8, <2>1 DEF estimateGas
    <3>. QED
      BY <1>6, <3>1
  <2>2. CASE ~Accepts(Job(q))
    <3>1. End(q) /\ Fails(q)
      BY <1>8, <2>2 DEF estimateGas, Fails
    <3>. QED
      BY <1>7, <3>1
  <2>. QED
    BY <2>1, <2>2
<1>9. RequestInv' /\ ApprovalInv'
  BY <1>5, <1>7, <1>8 DEF simulate, refuse
<1>. QED
  BY <1>2, <1>9 DEF LockerInv

\* A transaction is executed: its call keeps the records, or it reverts.
LEMMA BroadcastStep ==
  ASSUME LockerInv, NEW q \in Requests, broadcast(q)
  PROVE  LockerInv'
<1>1. RequestInv /\ ApprovalInv /\ ContractInv
  BY DEF LockerInv
<1>2. count' \in Int /\ ~At(q, "idle")
  BY <1>1 DEF broadcast, sendSignedTransaction, At, RequestInv
<1>3. Job(q) \in LockerJobs
  BY <1>1, <1>2, BusyFacts
<1>4. CASE /\ Accepts(Job(q)) /\ perform(Job(q))
           /\ IF Job(q).op = "approve" THEN Call(q, [op |-> "lock", batch |-> Job(q).batch])
              ELSE End(q)
           /\ UNCHANGED failed
  <2>1. ContractInv'
    BY <1>1, <1>3, <1>4, CallKeepsRecords
  <2>2. CASE Job(q).op = "approve"
    <3>1. PICK e \in FloatErrors \union {0} : Job(q).total = Total(Job(q).batch) + e
      BY <1>3, <2>2, JobFacts
    <3>2. PICK b \in Batches : b = Job(q).batch
      BY <1>3, <2>2, JobFacts
    <3>3. allowance' = Total(b) + e
      BY <1>4, <2>2, <3>1, <3>2 DEF perform, approve
    <3>4. [op |-> "lock", batch |-> b] \in LockerJobs
      BY DEF LockerJobs
    <3>5. Call(q, [op |-> "lock", batch |-> b])
      BY <1>4, <2>2, <3>2
    <3>6. PICK r \in Busy : req' = [req EXCEPT ![q] = r] /\ r.job = [op |-> "lock", batch |-> b]
      BY <1>1, <3>4, <3>5, Becomes
    <3>7. RequestInv' /\ req'[q] = r
      BY <1>1, <1>2, <3>6, Moved
    <3>8. ApprovalInv'
      BY <1>1, <1>4, <3>3, <3>6, <3>7, ApprovalMade
    <3>. QED
      BY <2>1, <3>7, <3>8 DEF LockerInv
  <2>3. CASE Job(q).op # "approve"
    <3>1. req' = [req EXCEPT ![q] = Idle]
      BY <1>1, <1>4, <2>3, Becomes
    <3>2. RequestInv'
      BY <1>1, <1>2, <3>1, Moved
    <3>3. CASE Job(q).op = "lock"
      <4>1. allowance' = allowance - Total(Job(q).batch)
        BY <1>4, <3>3 DEF perform, lockTokenMultiple
      <4>2. Locking(q)
        BY <1>2, <3>3 DEF Locking
      <4>. QED
        BY <1>1, <1>4, <2>1, <3>1, <3>2, <4>1, <4>2, ApprovalUsed DEF LockerInv
    <3>4. CASE Job(q).op # "lock"
      <4>1. allowance' = allowance
        BY <1>4, <2>3, <3>4 DEF perform, renewLock, withdrawDeposit, emergencyWithdrawTokens,
           withdrawSpecificDeposit
      <4>2. ~Locking(q)
        BY <3>4 DEF Locking
      <4>3. ApprovalInv'
        BY <1>1, <1>4, <3>1, <4>1, <4>2, ApprovalMoved
      <4>. QED
        BY <2>1, <3>2, <4>3 DEF LockerInv
    <3>. QED
      BY <3>3, <3>4
  <2>. QED
    BY <2>2, <2>3
<1>5. CASE /\ ~Accepts(Job(q)) /\ End(q) /\ Fails(q)
           /\ UNCHANGED <<bookVars, held, owned, allowance, taken, short>>
  <2>1. req' = [req EXCEPT ![q] = Idle]
    BY <1>1, <1>5, Becomes
  <2>2. RequestInv'
    BY <1>1, <1>2, <2>1, Moved
  <2>3. ApprovalInv'
    BY <1>1, <1>2, <1>5, <2>1, ApprovalFailed
  <2>4. ContractInv'
    BY <1>1, <1>5, RecordsAlone
  <2>. QED
    BY <2>2, <2>3, <2>4 DEF LockerInv
<1>. QED
  BY <1>4, <1>5 DEF broadcast

\* A request is cut off.
LEMMA RejectStep ==
  ASSUME LockerInv, NEW q \in Requests, reject(q)
  PROVE  LockerInv'
<1>1. RequestInv /\ ApprovalInv /\ ContractInv
  BY DEF LockerInv
<1>2. /\ ~At(q, "idle") /\ End(q) /\ Fails(q) /\ count' = count
      /\ UNCHANGED <<bookVars, held, taken, short>> /\ allowance' = allowance
  BY DEF reject, chainVars
<1>3. req' = [req EXCEPT ![q] = Idle] /\ count' \in Int
  BY <1>1, <1>2, Becomes DEF RequestInv
<1>4. RequestInv'
  BY <1>1, <1>3, Moved
<1>5. ApprovalInv'
  BY <1>1, <1>2, <1>3, ApprovalFailed
<1>6. ContractInv'
  BY <1>1, <1>2, RecordsAlone
<1>. QED
  BY <1>4, <1>5, <1>6 DEF LockerInv

\* The requests stay where they are.
LEMMA OthersStep ==
  ASSUME LockerInv, UNCHANGED <<req, count, allowance, failed>>
  PROVE  RequestInv' /\ ApprovalInv'
<1>1. RequestInv'
  BY DEF LockerInv, RequestInv
<1>2. \A p \in Requests : Locking(p) => Locking(p)' /\ Job(p)' = Job(p)
  BY DEF Locking, At, Job
<1>3. ApprovalInv'
  BY <1>2, ApprovalKept DEF LockerInv
<1>. QED
  BY <1>1, <1>3

LEMMA LockerInitInv == LockerInit => LockerInv
<1> SUFFICES ASSUME LockerInit PROVE LockerInv
  OBVIOUS
<1>1. RequestInv
  BY DEF LockerInit, RequestInv
<1>2. ApprovalInv
  <2>1. allowance = 0 /\ failed = FALSE
    BY DEF LockerInit
  <2>2. allowance \in Int /\ allowance <= 0
    BY <2>1
  <2>3. 0 \in FloatErrors \union {0} /\ failed \in BOOLEAN
    BY <2>1
  <2>. QED
    BY <2>2, <2>3 DEF ApprovalInv
<1>3. BookTypes /\ MoneyTypes
  BY DEF LockerInit, BookTypes, MoneyTypes
<1>4. Live = {} /\ \A a : Own(a) = {}
  BY DEF LockerInit, Live, Own
<1>5. ListsInv
  BY <1>4 DEF LockerInit, ListsInv, Names, Range
<1>6. SumOf({}) = 0
  BY SumNone DEF SumOf
<1>7. SumOver(balance, Accounts) = 0
  <2>1. balance \in [Accounts -> Nat] /\ \A a \in Accounts : balance[a] = 0
    BY DEF LockerInit
  <2>2. IsFiniteSet(Accounts) /\ Accounts \in SUBSET Accounts
    BY LockerAssumption, FS_AddElement DEF Accounts
  <2>. QED
    BY <2>1, <2>2, SumZero
<1>8. ASSUME NEW a \in Others PROVE balance[a] >= SumOf(Own(a))
  <2>1. balance[a] = 0
    BY DEF LockerInit, Accounts
  <2>2. SumOf(Own(a)) = 0
    BY <1>4, <1>6
  <2>. QED
    BY <2>1, <2>2
<1>9. MoneyInv
  BY <1>4, <1>6, <1>7, <1>8 DEF LockerInit, MoneyInv
<1>. QED
  BY <1>1, <1>2, <1>3, <1>5, <1>9 DEF LockerInv, ContractInv

LEMMA LockerNextInv == LockerInv /\ [LockerNext]_lockerVars => LockerInv'
<1> SUFFICES ASSUME LockerInv, [LockerNext]_lockerVars PROVE LockerInv'
  OBVIOUS
<1>1. ASSUME NEW q \in Requests, serve(q) \/ simulate(q) \/ broadcast(q) \/ reject(q)
      PROVE  LockerInv'
  BY <1>1, ServeStep, SimulateStep, BroadcastStep, RejectStep
<1>2. ASSUME NEW a \in Others, NEW id \in Ids, withdraw(a, id) PROVE LockerInv'
  <2>1. ContractInv'
    <3>1. a \in Accounts /\ CanWithdraw(a, id) /\ withdrawDeposit(a, id)
      BY <1>2 DEF withdraw, Accounts
    <3>. QED
      BY <3>1, WithdrawCall DEF LockerInv
  <2>2. UNCHANGED <<req, count, allowance, failed>>
    BY <1>2 DEF withdraw, withdrawDeposit
  <2>. QED
    BY <2>1, <2>2, OthersStep DEF LockerInv
<1>3. CASE nextBlock \/ UNCHANGED lockerVars
  <2>1. /\ UNCHANGED <<req, count, allowance, failed>>
        /\ UNCHANGED <<bookVars, held, taken, short>>
    BY <1>3 DEF nextBlock, lockerVars, historyVars, bookVars
  <2>2. ContractInv'
    BY <2>1, RecordsAlone DEF LockerInv
  <2>. QED
    BY <2>1, <2>2, OthersStep DEF LockerInv
<1>. QED
  BY <1>1, <1>2, <1>3 DEF LockerNext

\* The inductive invariant: the records of the contract agree, and an allowance
\* is left only to a request that is about to use it up.
THEOREM LockerInvariance == LockerSpec => []LockerInv
<1> QED
  BY LockerInitInv, LockerNextInv, PTL DEF LockerSpec

\* BooksAgree, for any accounts, batches and number of requests: lists, balances
\* and tokens of the contract agree with its deposits (lockTokenMultiple,
\* withdrawDeposit, emergencyWithdrawTokens, renewLock, withdrawSpecificDeposit).
THEOREM RecordsAgree == LockerSpec => []BooksAgree
<1>1. LockerInv => BooksAgree
  <2> SUFFICES ASSUME LockerInv PROVE BooksAgree
    OBVIOUS
  <2>1. ListsNameLiveDeposits
    BY DEF LockerInv, ContractInv, ListsInv, ListsNameLiveDeposits, Names, Own
  <2>2. TokensAreHeld /\ BalancesCoverDeposits
    BY DEF LockerInv, ContractInv, MoneyInv, TokensAreHeld, BalancesCoverDeposits, Own
  <2>. QED
    BY <2>1, <2>2 DEF BooksAgree
<1>. QED
  BY <1>1, LockerInvariance, PTL

\* ApprovalsAreUsed, for any batches, errors of the sum and overlapping requests.
THEOREM ApprovalsUsed == LockerSpec => []ApprovalsAreUsed
<1>1. LockerInv => ApprovalsAreUsed
  BY DEF LockerInv, ApprovalInv, Locking, ApprovalsAreUsed
<1>. QED
  BY <1>1, LockerInvariance, PTL
=============================================================================

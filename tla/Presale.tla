------------------------------- MODULE Presale -------------------------------
(***************************************************************************)
(* The sale of tokens by the contract Presale (embedded in Presale.json),  *)
(* and the requests of the presale service that start and end it, put what *)
(* was raised into a pool, and withdraw.  The service signs with the       *)
(* account that owns the contract; investors pay the contract themselves.  *)
(* A call of the contract is atomic: it does all it says, or it reverts.   *)
(***************************************************************************)
EXTENDS SendTx

CONSTANTS
  Investors,
  Terms,     \* arguments of start that the contract accepts
  Supply,    \* tokens made with the contract
  Scale,     \* 10**18, by which endPresale multiplies the tokens
  MaxTime    \* bound: weeks

ASSUME PresaleAssumption ==
  /\ Terms \subseteq [min : Nat \ {0}, max : Nat \ {0}, total : Nat \ {0},
                      cap : Nat \ {0}, rate : Nat \ {0}, unlock : Nat]
  /\ \A t \in Terms : t.min <= t.max /\ t.max <= t.total
  /\ Supply \in Nat /\ Scale \in Nat /\ Scale > 1
  /\ MaxTime \in Nat /\ MaxTxs \in Nat

VARIABLES
  active, ended, pool, \* _isActive, _isEnded, _isPool
  terms,         \* those of the last start
  unlock,        \* unlockLiquidity
  devEth, liquidityEth, liquidityTokens, \* set by endPresale
  eth, tokens,   \* what the contract has
  invested,      \* investors
  poolEth,       \* what the pool got
  lp,            \* who has the tokens of the pool
  listed,        \* rows of tokens_ext with the pair of the pool
  now,           \* block.timestamp, in weeks
  rounds, raised, toDev, \* history: starts, and what was moved
  lost           \* history: a request ended between the pool and its row

vars == <<req, count, active, ended, pool, terms, unlock, devEth, liquidityEth,
          liquidityTokens, eth, tokens, invested, poolEth, lp,
          listed, now, rounds, raised, toDev, lost>>
stateVars == <<active, ended, pool, terms, unlock>>
shareVars == <<devEth, liquidityEth, liquidityTokens>>
poolVars == <<poolEth, lp>>
moneyVars == <<eth, tokens, invested, raised, toDev>>
contractVars == <<stateVars, shareVars, poolVars, moneyVars, rounds>>

-----------------------------------------------------------------------------
(* The contract: what each call requires, and what it does                 *)

startPresale(t) ==
  /\ terms' = t /\ active' = TRUE
  /\ unlock' = now + t.unlock
  /\ rounds' = rounds + 1
  /\ UNCHANGED <<ended, pool, shareVars, poolVars, moneyVars>>

\* Fault: the cap is compared with the balance before the payment.
CanReceive_Before(i, v) ==
  /\ active /\ eth <= terms.cap
  /\ terms.min <= v /\ v <= terms.max
  /\ invested[i] + v <= terms.total
  /\ terms.rate * v <= tokens

\* address(this).balance counts the payment already.
CanReceive(i, v) ==
  /\ active /\ eth + v <= terms.cap
  /\ terms.min <= v /\ v <= terms.max
  /\ invested[i] + v <= terms.total
  /\ terms.rate * v <= tokens

receive(i, v) ==
  /\ eth' = eth + v /\ raised' = raised + v
  /\ tokens' = tokens - terms.rate * v
  /\ invested' = [invested EXCEPT ![i] = @ + v]
  /\ UNCHANGED <<stateVars, shareVars, poolVars, toDev, rounds>>

\* 80% liquidity, 20% for the developer; the price of the pool is a quarter of
\* the tokens per coin higher.
DevShare == eth \div 5
PoolRate == terms.rate - terms.rate \div 4
Wanted == PoolRate * (eth - DevShare)
Clipped == Wanted > tokens
PoolTokens == IF Clipped THEN tokens ELSE Wanted
PoolEth == IF Clipped THEN (tokens * Scale) \div PoolRate ELSE eth - DevShare

CanEnd ==
  /\ active
  /\ PoolRate < terms.rate
  /\ PoolEth > 0 /\ PoolTokens \div PoolEth = PoolRate

\* Fault: the share of the developer is not taken off.
endPresale_AllToPool ==
  /\ devEth' = DevShare /\ liquidityEth' = eth /\ liquidityTokens' = PoolRate * eth
  /\ active' = FALSE /\ ended' = TRUE
  /\ UNCHANGED <<pool, terms, unlock, poolVars, moneyVars, rounds>>

endPresale ==
  /\ devEth' = DevShare /\ liquidityEth' = PoolEth /\ liquidityTokens' = PoolTokens
  /\ active' = FALSE /\ ended' = TRUE
  /\ UNCHANGED <<pool, terms, unlock, poolVars, moneyVars, rounds>>

\* Fault: a second call is let through.
CanAddLiquidity_Again ==
  /\ ended
  /\ 0 < liquidityEth /\ liquidityEth <= eth
  /\ 0 < liquidityTokens /\ liquidityTokens <= tokens

\* The router takes what it is given for a new pair.
CanAddLiquidity ==
  /\ ended /\ ~pool
  /\ 0 < liquidityEth /\ liquidityEth <= eth
  /\ 0 < liquidityTokens /\ liquidityTokens <= tokens

addLiquidityToPool ==
  /\ pool' = TRUE /\ lp' = "contract"
  /\ eth' = eth - liquidityEth /\ poolEth' = poolEth + liquidityEth
  /\ tokens' = tokens - liquidityTokens
  /\ UNCHANGED <<active, ended, terms, unlock, shareVars, invested, raised, toDev, rounds>>

\* Fault: the developer need not wait for the pool.
CanWithdrawDev_BeforePool == eth > 0 /\ ended

CanWithdrawDev == pool /\ eth > 0

withdrawDevEth ==
  /\ eth' = 0 /\ toDev' = toDev + eth
  /\ UNCHANGED <<stateVars, shareVars, poolVars, tokens, invested, raised, rounds>>

withdrawLiquidity ==
  /\ lp' = "owner"
  /\ UNCHANGED <<stateVars, shareVars, poolEth, moneyVars, rounds>>

withdrawTokens ==
  /\ tokens' = 0
  /\ UNCHANGED <<stateVars, shareVars, poolVars, eth, invested, raised, toDev, rounds>>

-----------------------------------------------------------------------------
(* The requests                                                            *)

Ops == {"end", "liquidity", "fees", "withdrawDev", "withdrawTokens", "withdrawLiquidity"}
Jobs == [op : {"start"}, terms : Terms] \union [op : Ops]

\* Fees are the token's: setFees asks for the pool and changes nothing here.
Succeeds(j) ==
  \/ j.op = "start" /\ ~active
  \/ j.op = "end" /\ CanEnd
  \/ j.op = "liquidity" /\ CanAddLiquidity
  \/ j.op = "fees" /\ pool
  \/ j.op = "withdrawDev" /\ CanWithdrawDev
  \/ j.op = "withdrawTokens" /\ unlock < now /\ tokens > 0
  \/ j.op = "withdrawLiquidity" /\ unlock < now /\ lp = "contract"

execute(j) ==
  \/ j.op = "start" /\ startPresale(j.terms)
  \/ j.op = "end" /\ endPresale
  \/ j.op = "liquidity" /\ addLiquidityToPool
  \/ j.op = "fees" /\ UNCHANGED contractVars
  \/ j.op = "withdrawDev" /\ withdrawDevEth
  \/ j.op = "withdrawTokens" /\ withdrawTokens
  \/ j.op = "withdrawLiquidity" /\ withdrawLiquidity

prepare(q) ==
  /\ getTransactionCount(q) \/ estimateGas(q, Succeeds(Job(q))) \/ refuse(q)
  /\ UNCHANGED <<contractVars, listed, now, lost>>

\* liquidity has the pair listed once its transaction is mined.
send(q) ==
  /\ sendSignedTransaction(q)
  /\ \/ /\ Succeeds(Job(q)) /\ execute(Job(q))
        /\ IF Job(q).op = "liquidity" THEN Goto(q, "list") ELSE End(q)
     \/ ~Succeeds(Job(q)) /\ End(q) /\ UNCHANGED contractVars
  /\ UNCHANGED <<listed, now, lost>>

addToken(q) ==
  /\ At(q, "list")
  /\ listed' = listed + 1
  /\ End(q)
  /\ UNCHANGED <<count, contractVars, now, lost>>

\* An await rejects, or the process dies.
fail(q) ==
  /\ ~At(q, "idle") /\ End(q)
  /\ lost' = (lost \/ At(q, "list"))
  /\ UNCHANGED <<count, contractVars, listed, now>>

-----------------------------------------------------------------------------
Init ==
  /\ req = [q \in Requests |-> Idle] /\ count = 0
  /\ active = FALSE /\ ended = FALSE /\ pool = FALSE
  /\ terms = [min |-> 0, max |-> 0, total |-> 0, cap |-> 0, rate |-> 0, unlock |-> 0]
  /\ unlock = 0 /\ now = 1
  /\ devEth = 0 /\ liquidityEth = 0 /\ liquidityTokens = 0
  /\ eth = 0 /\ tokens = Supply
  /\ invested = [i \in Investors |-> 0]
  /\ poolEth = 0 /\ lp = "nobody"
  /\ listed = 0 /\ rounds = 0
  /\ raised = 0 /\ toDev = 0 /\ lost = FALSE

Begin(q) ==
  /\ \E j \in Jobs : Ask(q, j)
  /\ UNCHANGED <<contractVars, listed, now, lost>>

invest(i) ==
  /\ \E v \in terms.min .. terms.max : CanReceive(i, v) /\ receive(i, v)
  /\ UNCHANGED <<req, count, listed, now, lost>>

tick ==
  /\ now < MaxTime /\ now' = now + 1
  /\ UNCHANGED <<req, count, contractVars, listed, lost>>

Next ==
  \/ \E q \in Requests : Begin(q) \/ prepare(q) \/ send(q) \/ addToken(q) \/ fail(q)
  \/ \E i \in Investors : invest(i)
  \/ tick

Spec == Init /\ [][Next]_vars

-----------------------------------------------------------------------------
(* Properties                                                              *)

TypeOK ==
  /\ SendTxTypeOK
  /\ \A q \in Requests : ~At(q, "idle") => Job(q) \in Jobs
  /\ {active, ended, pool, lost} \subseteq BOOLEAN
  /\ terms \in [min : Nat, max : Nat, total : Nat, cap : Nat, rate : Nat, unlock : Nat]
  /\ {devEth, liquidityEth, liquidityTokens, eth, tokens, poolEth,
      listed, rounds, raised, toDev, unlock, now} \subseteq Nat
  /\ invested \in [Investors -> Nat]
  /\ lp \in {"nobody", "contract", "owner"}

\* A sale that has ended can always be turned into a pool until the tokens are
\* unlocked, although it may have been started and ended again in between.
PoolCanBeMade ==
  ended /\ ~pool /\ ~active /\ now <= unlock => CanAddLiquidity

\* A first sale whose tokens suffice for its cap can be ended whatever was
\* invested: the shares come out at the rate endPresale asks for.  Less than
\* four tokens per coin, too few tokens, or no investment, and it never can.
TokensSuffice ==
  terms.rate * terms.cap + PoolRate * (terms.cap - terms.cap \div 5) <= Supply

EndIsPossible ==
  active /\ rounds = 1 /\ now <= unlock /\ TokensSuffice /\ terms.rate >= 4 /\ eth > 0
    => CanEnd

\* 'WITHDRAW 20% MATIC AMOUNT TO DEV ACCOUNT', for a contract that sold once:
\* the developer gets a fifth of what was raised, and the pool the rest.
DevGetsAFifth ==
  rounds = 1 =>
    /\ toDev <= raised \div 5
    /\ pool => poolEth = raised - raised \div 5

\* However many requests for the pool overlap, its pair is listed once, and it
\* is listed unless the request ended in between (liquidity).
PoolIsListed ==
  /\ listed <= 1
  /\ pool /\ ~lost => listed = 1 \/ \E q \in Requests : At(q, "list")
=============================================================================

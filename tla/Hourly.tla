------------------------------- MODULE Hourly -------------------------------
(***************************************************************************)
(* Hourly: the jobs that quote prices and record reflections every hour,   *)
(* the list of tokens they go through, and the deployment of a presale,    *)
(* which adds to it.  The named processors of the queue share its slots,   *)
(* so that runs overlap; and Bull takes a job whose lock was lost for      *)
(* stalled and runs it again from its start, while the first run goes on.  *)
(***************************************************************************)
EXTENDS Integers, FiniteSets, Sequences

CONSTANTS
  Users, Wallets, OwnerOf,  \* OwnerOf[w]: the user whose wallet w is
  Early,                    \* Early[w]: what w held before it was added
  InitMode,                 \* the network the configuration names at first
  InitTokens,               \* rows of tokens_ext: [net, symbol, of, rewards]
  MaxWork,                  \* bound: runs of jobs and deployments
  MaxTokens,                \* bound: rows of tokens_ext ever made
  InitLedger,               \* what moved before, of each wallet
  MaxEdits,                 \* bound: requests of administrators and users, movements
  Edited,                   \* bound: the rows of tokens_ext they name
  Moving,                   \* bound: the wallets something moves to or from
  None

Nets == {"main", "test"}

\* No run priced the tokens yet; a wallet that never held anything got no share, and
\* fees were paid for what was sent.
ASSUME HourlyAssumption ==
  /\ InitMode \in Nets
  /\ InitTokens \in Seq([net : Nets, symbol : STRING, of : {0}, rewards : BOOLEAN,
                         quote : {None}, alive : BOOLEAN])
  /\ InitLedger \in [Wallets -> [in : Nat, out : Nat, fees : Nat, reflected : Nat]]
  /\ \A w \in Wallets :
       /\ Early[w] = 0 /\ InitLedger[w].in = 0 => InitLedger[w].reflected = 0
       /\ InitLedger[w].out = 0 => InitLedger[w].fees = 0
  /\ OwnerOf \in [Wallets -> Users] /\ Edited \subseteq Nat /\ Moving \subseteq Wallets
  /\ Early \in [Wallets -> Nat]
  /\ None \notin Users \union Wallets \union Nat
  /\ {MaxWork, MaxTokens, MaxEdits} \subseteq Nat

VARIABLES
  tokens,   \* rows of tokens_ext; of: the deployment that made the contract, 0: the
            \* contract the ledger is about; quote: the run that priced it last
  config,   \* the row of app_config
  users, wallets,
  ledger,   \* per wallet: what the token contract and the explorer know of it
  rewards,  \* rows of users_rewards
  work,     \* the runs and deployments, each the continuation of its handler
  edits     \* requests and movements so far

vars == <<tokens, config, users, wallets, ledger, rewards, work, edits>>
rest == <<users, wallets, ledger, edits>>

Work == DOMAIN work
Listed == {i \in DOMAIN tokens : tokens[i].alive}
Priced == {"WMATIC", "USDC"}

Is(k, kind, op) == work[k].kind = kind /\ work[k].op = op
Goon(k, op) == work' = [work EXCEPT ![k].op = op]
\* A handler that ends keeps no variables.
End(k, op) == work' = [work EXCEPT ![k] = [@ EXCEPT !.op = op, !.local = None]]
Fail(k) == End(k, "failed")
Ended(k) == work[k].op \in {"done", "failed"}
Edit == edits < MaxEdits /\ edits' = edits + 1
Begin(w) == Len(work) < MaxWork /\ work' = Append(work, w)

-----------------------------------------------------------------------------
(* Tokens and configuration                                                *)

Token(net, symbol, of, flag) ==
  [net |-> net, symbol |-> symbol, of |-> of, rewards |-> flag, quote |-> None, alive |-> TRUE]

insertToken(t) == Len(tokens) < MaxTokens /\ tokens' = Append(tokens, t)

\* A request of an administrator; a second row of a symbol is not refused.
addToken(net, symbol) ==
  /\ Edit
  /\ insertToken(Token(net, symbol, 0, FALSE))
  /\ UNCHANGED <<config, users, wallets, ledger, rewards, work>>

\* A request that takes the flag from a token (bound: none that gives it).
updateToken(i) ==
  /\ Edit
  /\ i \in Listed /\ tokens[i].rewards
  /\ tokens' = [tokens EXCEPT ![i].rewards = FALSE]
  /\ UNCHANGED <<config, users, wallets, ledger, rewards, work>>

\* Rewards of a row that is gone lose their reference (SET NULL); runs no longer
\* owe what they owed for it.
SetNull(field, gone) == [r \in DOMAIN rewards |->
  IF rewards[r][field] \in gone THEN [rewards[r] EXCEPT ![field] = None] ELSE rewards[r]]
Forgive(P) == [k \in Work |->
  IF work[k].kind = "reflections" THEN [work[k] EXCEPT !.owed = @ \ P] ELSE work[k]]

deleteToken(i) ==
  /\ Edit
  /\ i \in Listed
  /\ tokens' = [tokens EXCEPT ![i].alive = FALSE]
  /\ rewards' = SetNull("token", {i})
  /\ work' = Forgive(Wallets \X {i})
  /\ UNCHANGED <<config, users, wallets, ledger>>

updateConfiguration(mode) ==
  /\ Edit /\ mode # config.mode
  /\ config' = [config EXCEPT !.mode = mode]
  /\ UNCHANGED <<tokens, users, wallets, ledger, rewards, work>>

-----------------------------------------------------------------------------
(* A presale is deployed                                                   *)

\* The mode is read once.
deploy ==
  /\ Begin([kind |-> "deploy", op |-> "presale", local |-> None, net |-> config.mode])
  /\ UNCHANGED <<tokens, config, rest, rewards>>

\* A transaction per contract; each may fail.
deployTx(k) ==
  /\ \E ok \in BOOLEAN :
       \/ Is(k, "deploy", "presale") /\ Goon(k, IF ok THEN "locker" ELSE "failed")
       \/ Is(k, "deploy", "locker") /\ Goon(k, IF ok THEN "config" ELSE "failed")
  /\ UNCHANGED <<tokens, config, rest, rewards>>

\* Fault: each address is written when its contract is there.
storeAddresses_OneByOne(k) ==
  /\ \/ Is(k, "deploy", "locker") /\ config' = [config EXCEPT !.presale = k] /\ Goon(k, "config")
     \/ Is(k, "deploy", "config") /\ config' = [config EXCEPT !.locker = k] /\ Goon(k, "token")
  /\ UNCHANGED <<tokens, rest, rewards>>

\* Both addresses in one update.
storeAddresses(k) ==
  /\ Is(k, "deploy", "config")
  /\ config' = [config EXCEPT !.presale = k, !.locker = k]
  /\ Goon(k, "token")
  /\ UNCHANGED <<tokens, rest, rewards>>

\* The address of the token is asked of the new contract; prices and the flag of
\* the row are null.
addCharityToken(k) ==
  /\ Is(k, "deploy", "token")
  /\ \/ insertToken(Token(work[k].net, "CHAT", k, FALSE)) /\ End(k, "done")
     \/ UNCHANGED tokens /\ Fail(k)
  /\ UNCHANGED <<config, rest, rewards>>

-----------------------------------------------------------------------------
(* The price job                                                           *)

\* clear: no other run of the job goes on.
startPrice ==
  /\ Begin([kind |-> "price", op |-> "main", local |-> None, mate |-> <<>>,
            clear |-> \A k \in Work : work[k].kind = "price" => Ended(k)])
  /\ UNCHANGED <<tokens, config, rest, rewards>>

Symbols(S) == {tokens[i].symbol : i \in S}
\* find, on an array in no order: for each symbol one of its rows.
Finds(S) == {f \in [Symbols(S) -> S] : \A s \in Symbols(S) : tokens[f[s]].symbol = s}

\* Rows of the main network, and among them those the job goes on with: without the two
\* bases it throws, and rows of their symbols other than the first are skipped.
findMain(k) ==
  LET main == {i \in Listed : tokens[i].net = "main"} IN
  /\ Is(k, "price", "main")
  /\ IF ~(Priced \subseteq Symbols(main)) THEN Fail(k)
     ELSE \E f \in Finds(main) :
       LET bases == {f[s] : s \in Priced} IN
       work' = [work EXCEPT ![k] = [@ EXCEPT !.op = "test",
         !.local = [bases |-> bases, at |-> None,
                    left |-> bases \union {i \in main : tokens[i].symbol \notin Priced}],
         !.mate = [i \in main |-> None]]]
  /\ UNCHANGED <<tokens, config, rest, rewards>>

\* The row of each symbol on the test network, read in a statement of its own.
findTest(k) ==
  /\ Is(k, "price", "test")
  /\ \E g \in Finds({i \in Listed : tokens[i].net = "test"}) :
       work' = [work EXCEPT ![k] = [@ EXCEPT !.op = "quote",
         !.mate = [i \in DOMAIN work[k].mate |->
                    IF tokens[i].symbol \in DOMAIN g THEN g[tokens[i].symbol] ELSE None]]]
  /\ UNCHANGED <<tokens, config, rest, rewards>>

\* WMATIC, then USDC, then the others in no order.
Turn(l) ==
  {i \in l.left : \A j \in l.left \intersect l.bases :
     i \in l.bases /\ (tokens[i].symbol = "WMATIC" \/ tokens[j].symbol # "WMATIC")}

Quoted(i, k) == [tokens EXCEPT ![i].quote = IF tokens[i].alive THEN k ELSE @]

\* The exchange knows no price of a token, unless it is one of the two: the next
\* token.  A request that fails, and a missing price the column refuses, end the job.
quote(k) ==
  LET Without(i, op) == [work EXCEPT ![k].op = op, ![k].local.left = @ \ {i}, ![k].local.at = i] IN
  /\ Is(k, "price", "quote")
  /\ \E i \in Turn(work[k].local) :
       \/ tokens' = Quoted(i, k) /\ work' = Without(i, "mirror")
       \/ tokens[i].symbol \notin Priced /\ work' = Without(i, "quote") /\ UNCHANGED tokens
       \/ Fail(k) /\ UNCHANGED tokens
  /\ UNCHANGED <<config, rest, rewards>>

\* Fault: a token of the main network alone is gone by.
mirror_Skip(k) ==
  LET j == work[k].mate[work[k].local.at] IN
  /\ Is(k, "price", "mirror")
  /\ tokens' = IF j = None THEN tokens ELSE Quoted(j, k)
  /\ Goon(k, "quote")
  /\ UNCHANGED <<config, rest, rewards>>

\* The same price for the row of the test network; there may be none, and reading
\* its id throws.
mirror(k) ==
  LET j == work[k].mate[work[k].local.at] IN
  /\ Is(k, "price", "mirror")
  /\ IF j = None THEN Fail(k) /\ UNCHANGED tokens
     ELSE tokens' = Quoted(j, k) /\ Goon(k, "quote")
  /\ UNCHANGED <<config, rest, rewards>>

pricesDone(k) ==
  /\ Is(k, "price", "quote") /\ work[k].local.left = {}
  /\ End(k, "done")
  /\ UNCHANGED <<tokens, config, rest, rewards>>

-----------------------------------------------------------------------------
(* The token on its chain                                                  *)

\* Sums the explorer lists since the wallet was added are in and out; what a sender
\* pays is more than the event says, by the fees.
Balance(w) ==
  Early[w] + ledger[w].in - ledger[w].out - ledger[w].fees + ledger[w].reflected
Holds(w, i) == IF tokens[i].of = 0 THEN Balance(w) ELSE 0

\* Fault: a wallet that only got tokens is taken for one where nothing moved.
Reflections_BothWays(balance, in, out) ==
  IF in # 0 /\ out # 0 THEN balance - (in - out) ELSE 0

\* What the balance is more than in and out explain; nothing, when nothing moved.
Reflections(balance, in, out) == IF in # 0 \/ out # 0 THEN balance - (in - out) ELSE 0

\* A unit arrives, or one leaves at a fee of one more, or one is shared out.  Bound:
\* only while a run may see it.  A run owes nothing for a wallet that held nothing at
\* some time.
move(w, what) ==
  /\ Edit
  /\ \E k \in Work : work[k].kind = "reflections" /\ ~Ended(k)
  /\ Balance(w) >= CASE what = "in" -> 0 [] what = "out" -> 2 [] what = "reflected" -> 1
  /\ ledger' = [ledger EXCEPT
       ![w][what] = @ + 1, ![w].fees = IF what = "out" THEN @ + 1 ELSE @]
  /\ work' = Forgive(IF what = "out" /\ Balance(w) = 2 THEN {w} \X DOMAIN tokens ELSE {})
  /\ UNCHANGED <<tokens, config, users, wallets, rewards>>

-----------------------------------------------------------------------------
(* The reflections job                                                     *)

Jobs == {work[k].job : k \in {k \in Work : work[k].kind = "reflections"}}
Stalled == {work[k].job : k \in {k \in Work : work[k].kind = "reflections" /\ ~Ended(k)}}

\* A job of its own, or one whose run goes on; the mode is that of the hour it was
\* queued in.  owed: what the run is to record, unless it goes away meanwhile.
startReflections(job) ==
  /\ Begin([kind |-> "reflections", op |-> "users", job |-> job, net |-> config.mode,
            local |-> None, at |-> None,
            owed |-> {p \in wallets \X Listed :
                        tokens[p[2]].rewards /\ tokens[p[2]].net = config.mode
                          /\ Holds(p[1], p[2]) > 0}])
  /\ UNCHANGED <<tokens, config, rest, rewards>>

\* Users and the tokens with the flag on the chain, which may be out of reach.  A token
\* that has lost its flag is not owed for.
findUsers(k) ==
  LET S == {i \in Listed : tokens[i].rewards /\ tokens[i].net = work[k].net} IN
  /\ Is(k, "reflections", "users")
  /\ \/ work' = [work EXCEPT
          ![k].op = "user", ![k].owed = {p \in @ : p[2] \in S},
          ![k].local = [users |-> users, toks |-> S, pairs |-> {}]]
     \/ Fail(k)
  /\ UNCHANGED <<tokens, config, rest, rewards>>

\* The wallets of the next user are read anew.
nextUser(k) ==
  /\ Is(k, "reflections", "user") /\ work[k].local.pairs = {}
  /\ \E u \in work[k].local.users :
       work' = [work EXCEPT
         ![k].local.users = @ \ {u},
         ![k].local.pairs = {w \in wallets : OwnerOf[w] = u} \X work[k].local.toks]
  /\ UNCHANGED <<tokens, config, rest, rewards>>

rewardsDone(k) ==
  /\ Is(k, "reflections", "user") /\ work[k].local.pairs = {} /\ work[k].local.users = {}
  /\ End(k, "done")
  /\ UNCHANGED <<tokens, config, rest, rewards>>

\* The balance of the next wallet.
balanceOf(k) ==
  /\ Is(k, "reflections", "user")
  /\ \E p \in work[k].local.pairs :
       work' = [work EXCEPT
         ![k].local.pairs = @ \ {p},
         ![k].op = IF Holds(p[1], p[2]) > 0 THEN "list" ELSE "user",
         ![k].at = IF Holds(p[1], p[2]) > 0
                   THEN [wallet |-> p[1], token |-> p[2], held |-> ledger[p[1]]] ELSE None]
  /\ UNCHANGED <<tokens, config, rest, rewards>>

\* A call of the node or the explorer fails.
unreachable(k) ==
  /\ \/ Is(k, "reflections", "user") /\ work[k].local.pairs # {}
     \/ Is(k, "reflections", "list")
  /\ work' = [work EXCEPT ![k] = [@ EXCEPT !.op = "failed", !.local = None, !.at = None]]
  /\ UNCHANGED <<tokens, config, rest, rewards>>

\* A row is created without its references.  earned: reflections less fees when the
\* balance was read; strayed: what left, less what arrived, from then on.
Reward(job, at, reflections, now) ==
  [job |-> job, user |-> None, wallet |-> None, token |-> None,
   of |-> <<at.wallet, at.token>>, reflections |-> reflections,
   earned |-> at.held.reflected - at.held.fees,
   strayed |-> now.out - at.held.out - (now.in - at.held.in)]

\* What moved is listed after the balance was read, and the row is created.
createReward(k) ==
  LET at == work[k].at  held == at.held  now == ledger[at.wallet]
      balance == Early[at.wallet] + held.in - held.out - held.fees + held.reflected IN
  /\ Is(k, "reflections", "list")
  /\ rewards' = Append(rewards,
       Reward(work[k].job, at, Reflections(balance, now.in, now.out), now))
  /\ work' = [work EXCEPT ![k].op = "setUser",
       ![k].at = [wallet |-> at.wallet, token |-> at.token, row |-> Len(rewards) + 1]]
  /\ UNCHANGED <<tokens, config, rest>>

Refer(k, field, id) == rewards' = [rewards EXCEPT ![work[k].at.row][field] = id]

\* The foreign key refuses a row that is gone, and with it the rest of the run.
setReference(k, field, id, there, next) ==
  IF there THEN Refer(k, field, id) /\ next
  ELSE UNCHANGED rewards
       /\ work' = [work EXCEPT ![k] = [@ EXCEPT !.op = "failed", !.local = None, !.at = None]]

setUser(k) ==
  LET u == OwnerOf[work[k].at.wallet] IN
  /\ Is(k, "reflections", "setUser")
  /\ setReference(k, "user", u, u \in users, Goon(k, "setWallet"))
  /\ UNCHANGED <<tokens, config, rest>>

setWallet(k) ==
  LET w == work[k].at.wallet IN
  /\ Is(k, "reflections", "setWallet")
  /\ setReference(k, "wallet", w, w \in wallets, Goon(k, "setToken"))
  /\ UNCHANGED <<tokens, config, rest>>

\* Fault: the job goes on with the next user.
setToken_NextUser(k) ==
  /\ Is(k, "reflections", "setToken")
  /\ Refer(k, "token", work[k].at.token)
  /\ work' = [work EXCEPT ![k] = [@ EXCEPT !.op = "user", !.at = None, !.local.pairs = {}]]
  /\ UNCHANGED <<tokens, config, rest>>

setToken(k) ==
  LET i == work[k].at.token IN
  /\ Is(k, "reflections", "setToken")
  /\ setReference(k, "token", i, i \in Listed,
       work' = [work EXCEPT ![k] = [@ EXCEPT !.op = "user", !.at = None]])
  /\ UNCHANGED <<tokens, config, rest>>

\* The rewards a user is shown of one of his wallets and a token.
getRewardsHistory(w, i) ==
  {r \in DOMAIN rewards : /\ rewards[r].user = OwnerOf[w]
                          /\ rewards[r].wallet = w /\ rewards[r].token = i}

-----------------------------------------------------------------------------
(* Users and wallets go                                                    *)

deleteAdress(w) ==
  /\ Edit
  /\ w \in wallets /\ wallets' = wallets \ {w}
  /\ rewards' = SetNull("wallet", {w})
  /\ work' = Forgive({w} \X DOMAIN tokens)
  /\ UNCHANGED <<tokens, config, users, ledger>>

\* The wallets go with the user (CASCADE), the rewards stay.
deleteUser(u) ==
  LET W == {w \in Wallets : OwnerOf[w] = u} IN
  /\ Edit /\ u \in users /\ users' = users \ {u} /\ wallets' = wallets \ W
  /\ rewards' = [r \in DOMAIN rewards |->
       [SetNull("wallet", W)[r] EXCEPT !.user = IF @ = u THEN None ELSE @]]
  /\ work' = Forgive(W \X DOMAIN tokens)
  /\ UNCHANGED <<tokens, config, ledger>>

-----------------------------------------------------------------------------
Init ==
  /\ tokens = InitTokens
  /\ config = [mode |-> InitMode, presale |-> None, locker |-> None]
  /\ users = Users /\ wallets = Wallets
  /\ ledger = InitLedger
  /\ rewards = <<>> /\ work = <<>> /\ edits = 0

price(k) ==
  findMain(k) \/ findTest(k) \/ quote(k) \/ mirror(k) \/ pricesDone(k)

reflections(k) ==
  \/ findUsers(k) \/ nextUser(k) \/ rewardsDone(k)
  \/ balanceOf(k) \/ unreachable(k) \/ createReward(k)
  \/ setUser(k) \/ setWallet(k) \/ setToken(k)

Next ==
  \/ startPrice \/ deploy
  \/ \E job \in Stalled \union {Cardinality(Jobs) + 1} : startReflections(job)
  \/ \E k \in Work :
       price(k) \/ reflections(k) \/ deployTx(k) \/ storeAddresses(k) \/ addCharityToken(k)
  \/ \E net \in Nets : updateConfiguration(net) \/ addToken(net, "CHAT")
  \/ \E i \in Edited : deleteToken(i) \/ updateToken(i)
  \/ \E w \in Wallets : deleteAdress(w)
  \/ \E w \in Moving, what \in {"in", "out", "reflected"} : move(w, what)
  \/ \E u \in Users : deleteUser(u)

Spec == Init /\ [][Next]_vars

-----------------------------------------------------------------------------
(* Properties                                                              *)

Torn(k) ==
  LET mate == work[k].mate IN
  {i \in DOMAIN mate : tokens[i].quote = k /\
     (mate[i] = None \/ (tokens[mate[i]].alive /\ tokens[mate[i]].quote # k))}

\* The two rows of a symbol are priced one after the other, and the job may fail in
\* between: with no other run of it meanwhile, no more than one symbol has a price of
\* the run on the main network alone, and none once the run completed.
PricesMirrored ==
  \A k \in Work :
    work[k].kind = "price" /\ work[k].clear
      /\ (\A l \in Work : work[l].kind = "price" => l <= k) =>
    /\ Cardinality(Torn(k)) <= 1
    /\ Torn(k) # {} => work[k].op \in {"mirror", "failed"}

\* Presale and locker of the configuration are of one deployment, although two may
\* overlap and each may fail anywhere; and of a deployment that completed, the token
\* was listed on its network.
ConfigurationIsWhole ==
  /\ config.presale = config.locker
  /\ \A k \in Work :
       /\ work[k].kind = "deploy" /\ work[k].op = "done" =>
            \E i \in DOMAIN tokens : tokens[i].of = k /\ tokens[i].net = work[k].net
       /\ config.presale = k => work[k].kind = "deploy" /\ work[k].op \in {"token", "done", "failed"}

\* After a run that completed, the history shows a reward of it of every wallet and flagged
\* token that were there and held something from its start on, whatever else was
\* added, moved or deleted meanwhile; and of no wallet and token a job has more rewards
\* than it had runs: those of a stalled job are written again, and nothing else is.
RewardedOncePerRun ==
  /\ \A k \in Work :
       work[k].kind = "reflections" /\ work[k].op = "done" =>
         \A p \in work[k].owed :
           \E r \in getRewardsHistory(p[1], p[2]) : rewards[r].job = work[k].job
  /\ \A job \in Jobs, p \in Wallets \X DOMAIN tokens :
       Cardinality({r \in DOMAIN rewards : rewards[r].job = job /\ rewards[r].of = p})
         <= Cardinality({k \in Work : work[k].kind = "reflections" /\ work[k].job = job})

\* The balance is read first and what moved is listed later.  Of a wallet that was empty
\* when it was added, what is recorded is what it had got less the fees it had paid, and
\* off by just what arrived and left between the two reads, in however many runs of the
\* job: sums and balance of different moments do no other harm.
ReflectionsStray ==
  \A r \in DOMAIN rewards :
    Early[rewards[r].of[1]] = 0 =>
      rewards[r].reflections = rewards[r].earned + rewards[r].strayed
=============================================================================

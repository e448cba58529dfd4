---------------------------- MODULE Hourly_proofs ----------------------------
(* Proofs of the safety properties of Hourly, for any users, wallets, tokens *)
(* and numbers of runs, deployments and requests.                            *)
EXTENDS Hourly, SequenceTheorems, FiniteSetTheorems, TLAPS

Names == {InitTokens[i].symbol : i \in DOMAIN InitTokens} \union {"CHAT"}
TokenSet ==
  [net : Nets, symbol : Names, of : Nat, rewards : BOOLEAN, quote : Nat \union {None}, alive : BOOLEAN]
Ledgers == [in : Nat, out : Nat, fees : Nat, reflected : Nat]
RewardSet ==
  [job : Nat, user : Users \union {None}, wallet : Wallets \union {None}, token : Nat \union {None},
   of : Wallets \X Nat, reflections : Int, earned : Int, strayed : Int]

DeployRuns ==
  [kind : {"deploy"}, op : {"presale", "locker", "config", "token", "done", "failed"},
   local : {None}, net : Nets]

Mates == UNION {[S -> Nat \union {None}] : S \in SUBSET Nat}
Prices == [bases : SUBSET Nat, at : Nat \union {None}, left : SUBSET Nat]
Price(ops, locals) ==
  [kind : {"price"}, op : ops, local : locals, mate : Mates, clear : BOOLEAN]
PriceRuns ==
  Price({"main", "done", "failed"}, {None})
  \union Price({"test", "quote", "mirror"}, Prices)

Setting == {"setUser", "setWallet", "setToken"}
Going == {"user", "list"} \union Setting
Locals == [users : SUBSET Users, toks : SUBSET Nat, pairs : SUBSET (Wallets \X Nat)]
Reflecting(ops, locals, ats) ==
  [kind : {"reflections"}, op : ops, job : Nat, net : Nets, local : locals, at : ats,
   owed : SUBSET (Wallets \X Nat)]
ReflectionsRuns ==
  Reflecting({"users", "done", "failed"}, {None}, {None})
  \union Reflecting({"user"}, Locals, {None})
  \union Reflecting({"list"}, Locals, [wallet : Wallets, token : Nat, held : Ledgers])
  \union Reflecting(Setting, Locals, [wallet : Wallets, token : Nat, row : Nat])

Runs == DeployRuns \union PriceRuns \union ReflectionsRuns

ShapeInv ==
  /\ tokens \in Seq(TokenSet)
  /\ config \in [mode : Nets, presale : Nat \union {None}, locker : Nat \union {None}]
  /\ users \subseteq Users /\ wallets \subseteq Wallets
  /\ ledger \in [Wallets -> Ledgers]
  /\ rewards \in Seq(RewardSet)
  /\ work \in Seq(Runs)

ConfigInv == ConfigurationIsWhole /\ config.presale \in Work \union {None}

\* No price run but k is under way, or was begun after it.
Sole(k) == work[k].clear /\ \A l \in Work : work[l].kind = "price" => l <= k

\* The row a price run is about to mirror.
Behind(k) == IF work[k].op = "mirror" THEN {work[k].local.at} ELSE {}

QuoteInv ==
  \A i \in DOMAIN tokens : tokens[i].quote # None =>
    /\ tokens[i].quote \in Work
    /\ work[tokens[i].quote].kind = "price" /\ work[tokens[i].quote].op \notin {"main", "test"}

MateInv ==
  \A k \in Work : work[k].kind = "price" =>
    /\ work[k].op = "main" => DOMAIN work[k].mate = {}
    /\ \A i \in DOMAIN work[k].mate :
         /\ i \in DOMAIN tokens /\ tokens[i].net = "main"
         /\ work[k].mate[i] # None =>
              work[k].mate[i] \in DOMAIN tokens /\ tokens[work[k].mate[i]].net = "test"
    /\ work[k].op \in {"test", "quote", "mirror"} => work[k].local.left \subseteq DOMAIN work[k].mate
    /\ work[k].op = "mirror" => work[k].local.at \in DOMAIN work[k].mate

ClearInv ==
  \A k, l \in Work :
    work[k].kind = "price" /\ work[k].clear /\ work[l].kind = "price" /\ l < k => Ended(l)

TornInv ==
  \A k \in Work : work[k].kind = "price" /\ Sole(k) =>
    IF work[k].op = "failed" THEN \E i : Torn(k) \subseteq {i} ELSE Torn(k) \subseteq Behind(k)

LedgerInv ==
  \A w \in Wallets :
    Early[w] = 0 /\ ledger[w].in = 0 /\ ledger[w].out = 0 => ledger[w].reflected = 0 /\ ledger[w].fees = 0

IsReflections(k, ops) == work[k].kind = "reflections" /\ work[k].op \in ops
AtPair(k) == <<work[k].at.wallet, work[k].at.token>>
Shown(k, p) == \E r \in getRewardsHistory(p[1], p[2]) : rewards[r].job = work[k].job

OwnersInv == \A w \in wallets : OwnerOf[w] \in users

\* What run k owes: it is there, and is ahead of the run, at hand, or shown.
OwedOf(k) ==
  \A p \in work[k].owed :
    /\ p[1] \in wallets /\ p[2] \in Listed /\ Holds(p[1], p[2]) > 0
    /\ work[k].op \in Going =>
         /\ p[2] \in work[k].local.toks
         /\ \/ OwnerOf[p[1]] \in work[k].local.users
            \/ p \in work[k].local.pairs
            \/ work[k].op # "user" /\ p = AtPair(k)
            \/ Shown(k, p)
    /\ work[k].op = "done" => Shown(k, p)
OwedInv == \A k \in Work : work[k].kind = "reflections" => OwedOf(k)

\* The row run k is filling: nobody else's, and no one is shown it yet.
RowOf(k) ==
  LET row == work[k].at.row IN
  /\ row \in DOMAIN rewards /\ rewards[row].token = None
  /\ rewards[row].of = AtPair(k) /\ rewards[row].job = work[k].job
  /\ \A l \in Work \ {k} : IsReflections(l, Setting) => work[l].at.row # row
  /\ AtPair(k) \in work[k].owed =>
       /\ work[k].op # "setUser" => rewards[row].user = OwnerOf[work[k].at.wallet]
       /\ work[k].op = "setToken" => rewards[row].wallet = work[k].at.wallet
RowsInv == \A k \in Work : IsReflections(k, Setting) => RowOf(k)

\* Sums only grow.
Upto(held, now) ==
  held.in <= now.in /\ held.out <= now.out /\ held.fees <= now.fees /\ held.reflected <= now.reflected

\* What run k has gone past does not come again; and what it saw of a wallet was before.
AheadOf(k) ==
  /\ \A p \in work[k].local.pairs : OwnerOf[p[1]] \notin work[k].local.users
  /\ work[k].op # "user" =>
       AtPair(k) \notin work[k].local.pairs /\ OwnerOf[work[k].at.wallet] \notin work[k].local.users
  /\ work[k].op = "list" => Upto(work[k].at.held, ledger[work[k].at.wallet])
AheadInv == \A k \in Work : IsReflections(k, Going) => AheadOf(k)

\* Each reward has a run that made it, and that made no other of its wallet and token.
Makers(m) ==
  \A r \in DOMAIN rewards :
    LET k == m[r]  of == rewards[r].of IN
    /\ IsReflections(k, Going \union {"done", "failed"}) /\ work[k].job = rewards[r].job
    /\ \A s \in DOMAIN rewards \ {r} : rewards[s].of = of => m[s] # k
    /\ work[k].op \in Going =>
         /\ OwnerOf[of[1]] \notin work[k].local.users /\ of \notin work[k].local.pairs
         /\ work[k].op = "list" => of # AtPair(k)
MakerInv == \E m \in [DOMAIN rewards -> Work] : Makers(m)

RunsInv == OwnersInv /\ OwedInv /\ RowsInv /\ AheadInv /\ MakerInv

EarnedInv ==
  \A r \in DOMAIN rewards :
    Early[rewards[r].of[1]] = 0 => rewards[r].reflections = rewards[r].earned + rewards[r].strayed

-----------------------------------------------------------------------------
(* Sequences                                                               *)

LEMMA Appended ==
  ASSUME NEW S, NEW s \in Seq(S), NEW e \in S
  PROVE  /\ Append(s, e) \in Seq(S)
         /\ Len(s) \in Nat /\ Len(s) + 1 \in Nat \ {0} /\ Len(s) + 1 \notin DOMAIN s
         /\ DOMAIN Append(s, e) = DOMAIN s \union {Len(s) + 1}
         /\ \A i \in DOMAIN s : Append(s, e)[i] = s[i]
         /\ Append(s, e)[Len(s) + 1] = e
BY AppendProperties

LEMMA Mapped ==
  ASSUME NEW S, NEW T, NEW s \in Seq(S), NEW f \in [DOMAIN s -> T]
  PROVE  f \in Seq(T) /\ DOMAIN f = DOMAIN s
<1>1. DOMAIN s = 1..Len(s) /\ Len(s) \in Nat
  OBVIOUS
<1>. QED
  BY <1>1, SeqDef

LEMMA Replaced ==
  ASSUME NEW S, NEW s \in Seq(S), NEW i \in DOMAIN s, NEW e \in S
  PROVE  /\ [s EXCEPT ![i] = e] \in Seq(S) /\ DOMAIN [s EXCEPT ![i] = e] = DOMAIN s
         /\ [s EXCEPT ![i] = e][i] = e
         /\ \A j \in DOMAIN s \ {i} : [s EXCEPT ![i] = e][j] = s[j]
<1>1. s \in [DOMAIN s -> S]
  OBVIOUS
<1>2. [s EXCEPT ![i] = e] \in [DOMAIN s -> S]
  BY <1>1
<1>. QED
  BY <1>1, <1>2, Mapped

\* Numbers of rows and of runs are numbers, and None is none.
LEMMA Indices ==
  ASSUME ShapeInv
  PROVE  /\ DOMAIN tokens \subseteq Nat \ {0} /\ Work \subseteq Nat \ {0}
         /\ DOMAIN rewards \subseteq Nat \ {0} /\ None \notin Nat
         /\ \A i \in DOMAIN tokens : tokens[i] \in TokenSet
         /\ \A k \in Work : work[k] \in Runs
         /\ \A r \in DOMAIN rewards : rewards[r] \in RewardSet
BY HourlyAssumption DEF ShapeInv, Work

-----------------------------------------------------------------------------
(* Runs                                                                    *)

LEMMA Kinds ==
  ASSUME NEW r \in Runs
  PROVE  /\ r.kind \in {"deploy", "price", "reflections"}
         /\ r.kind = "deploy" => r \in DeployRuns
         /\ r.kind = "price" => r \in PriceRuns
         /\ r.kind = "reflections" => r \in ReflectionsRuns
BY DEF Runs, DeployRuns, PriceRuns, Price, ReflectionsRuns, Reflecting

LEMMA PriceKinds ==
  ASSUME NEW r \in PriceRuns
  PROVE  /\ r.op \in {"main", "done", "failed", "test", "quote", "mirror"}
         /\ r.mate \in Mates
         /\ r.op \in {"test", "quote", "mirror"} =>
              /\ r \in Price({"test", "quote", "mirror"}, Prices)
              /\ r.local \in Prices /\ r.local.left \in SUBSET Nat
         /\ r.op \in {"main", "done", "failed"} => r \in Price({"main", "done", "failed"}, {None})
BY DEF PriceRuns, Price, Prices

LEMMA ReflectionsKinds ==
  ASSUME NEW r \in ReflectionsRuns
  PROVE  /\ r.job \in Nat /\ r.net \in Nets /\ r.owed \in SUBSET (Wallets \X Nat)
         /\ r.op \in {"users", "done", "failed"} \union Going
         /\ r.op \in {"users", "done", "failed"} => r.at = None
         /\ r.op = "user" => r.at = None
         /\ r.op \in Going =>
              /\ r.local \in Locals /\ r.local.users \in SUBSET Users
              /\ r.local.toks \in SUBSET Nat /\ r.local.pairs \in SUBSET (Wallets \X Nat)
         /\ r.op = "list" =>
              /\ r.at \in [wallet : Wallets, token : Nat, held : Ledgers]
              /\ r.at.wallet \in Wallets /\ r.at.token \in Nat /\ r.at.held \in Ledgers
         /\ r.op \in Setting =>
              /\ r.at \in [wallet : Wallets, token : Nat, row : Nat]
              /\ r.at.wallet \in Wallets /\ r.at.token \in Nat /\ r.at.row \in Nat
BY DEF ReflectionsRuns, Reflecting, Going, Setting, Locals

\* Run k goes on, and no other.
GoesOn(k) ==
  /\ Work' = Work /\ work' \in Seq(Runs) /\ work'[k].kind = work[k].kind
  /\ \A j \in Work \ {k} : work'[j] = work[j]

LEMMA RunGoesOn ==
  ASSUME ShapeInv, NEW k \in Work, NEW r \in Runs, r.kind = work[k].kind,
         work' = [work EXCEPT ![k] = r]
  PROVE  GoesOn(k) /\ work'[k] = r
<1>1. work \in Seq(Runs)
  BY DEF ShapeInv
<1>2. /\ work' \in Seq(Runs) /\ DOMAIN work' = DOMAIN work /\ work'[k] = r
      /\ \A j \in Work \ {k} : work'[j] = work[j]
  <2> HIDE DEF Runs
  <2>. QED
    BY <1>1, Replaced DEF Work
<1>. QED
  BY <1>2 DEF GoesOn, Work

LEMMA RunBegins ==
  ASSUME ShapeInv, NEW r \in Runs, Begin(r)
  PROVE  /\ work' \in Seq(Runs) /\ Work' = Work \union {Len(work) + 1}
         /\ Len(work) + 1 \in Nat \ {0} /\ Len(work) + 1 \notin Work
         /\ \A j \in Work : work'[j] = work[j] /\ j < Len(work) + 1
         /\ work'[Len(work) + 1] = r
<1>1. work \in Seq(Runs) /\ work' = Append(work, r)
  BY DEF ShapeInv, Begin
<1>2. Work = 1..Len(work) /\ Len(work) \in Nat
  BY <1>1 DEF Work
<1> HIDE DEF Runs
<1>3. /\ work' \in Seq(Runs) /\ Work' = Work \union {Len(work) + 1}
      /\ Len(work) + 1 \in Nat \ {0} /\ Len(work) + 1 \notin Work
      /\ \A j \in Work : work'[j] = work[j]
      /\ work'[Len(work) + 1] = r
  BY <1>1, Appended DEF Work
<1>. QED
  BY <1>2, <1>3

\* A run of the reflections job with another continuation.
Resumed(r, op, local, at, owed) ==
  [r EXCEPT !.op = op, !.local = local, !.at = at, !.owed = owed]

LEMMA ResumedFields ==
  ASSUME NEW r \in ReflectionsRuns, NEW op, NEW local, NEW at, NEW owed \in SUBSET (Wallets \X Nat)
  PROVE  /\ Resumed(r, op, local, at, owed).op = op
         /\ Resumed(r, op, local, at, owed).local = local
         /\ Resumed(r, op, local, at, owed).at = at
         /\ Resumed(r, op, local, at, owed).owed = owed
         /\ Resumed(r, op, local, at, owed).job = r.job
         /\ Resumed(r, op, local, at, owed).net = r.net
         /\ Resumed(r, op, local, at, owed).kind = "reflections" /\ r.kind = "reflections"
         /\ (\/ op \in {"users", "done", "failed"} /\ local = None /\ at = None
             \/ op = "user" /\ local \in Locals /\ at = None
             \/ op = "list" /\ local \in Locals /\ at \in [wallet : Wallets, token : Nat, held : Ledgers]
             \/ op \in Setting /\ local \in Locals /\ at \in [wallet : Wallets, token : Nat, row : Nat])
            => Resumed(r, op, local, at, owed) \in ReflectionsRuns
BY DEF Resumed, ReflectionsRuns, Reflecting

LEMMA ResumedParts ==
  ASSUME NEW r \in ReflectionsRuns
  PROVE  /\ \A op : [r EXCEPT !.op = op] = Resumed(r, op, r.local, r.at, r.owed)
         /\ \A op, local : [r EXCEPT !.op = op, !.local = local] = Resumed(r, op, local, r.at, r.owed)
         /\ \A local : [r EXCEPT !.local = local] = Resumed(r, r.op, local, r.at, r.owed)
         /\ \A op, at : [r EXCEPT !.op = op, !.at = at] = Resumed(r, op, r.local, at, r.owed)
         /\ \A op, local, at : [r EXCEPT !.op = op, !.local = local, !.at = at]
                                 = Resumed(r, op, local, at, r.owed)
         /\ \A owed : [r EXCEPT !.owed = owed] = Resumed(r, r.op, r.local, r.at, owed)
BY DEF Resumed, ReflectionsRuns, Reflecting

\* Runs of these kinds are as they were.
Untouched(kinds) ==
  /\ Work \subseteq Work' /\ work' \in Seq(Runs)
  /\ \A k \in Work :
       work'[k].kind = work[k].kind /\ (work[k].kind \in kinds => work'[k] = work[k])
  /\ \A k \in Work' \ Work : work'[k].kind \notin kinds

LEMMA UntouchedByOne ==
  ASSUME NEW k \in Work, GoesOn(k)
  PROVE  \A kinds : work[k].kind \notin kinds => Untouched(kinds)
BY DEF GoesOn, Untouched

LEMMA UntouchedByNew ==
  ASSUME ShapeInv, NEW r \in Runs, Begin(r)
  PROVE  \A kinds : r.kind \notin kinds => Untouched(kinds)
<1> HIDE DEF Runs
<1>. QED
  BY RunBegins DEF Untouched

LEMMA UntouchedByNone ==
  ASSUME ShapeInv, work' = work
  PROVE  \A kinds : Untouched(kinds)
BY DEF Untouched, Work, ShapeInv

\* Runs of the reflections job owe less.
LEMMA Forgiven ==
  ASSUME ShapeInv, NEW P, work' = Forgive(P)
  PROVE  /\ Untouched({"deploy", "price"}) /\ Work' = Work
         /\ \A k \in Work : work[k].kind = "reflections" =>
              /\ work'[k].kind = "reflections" /\ work'[k].op = work[k].op
              /\ work'[k].job = work[k].job /\ work'[k].net = work[k].net
              /\ work'[k].local = work[k].local /\ work'[k].at = work[k].at
              /\ work'[k].owed = work[k].owed \ P
<1> DEFINE r(k) == IF work[k].kind = "reflections" THEN [work[k] EXCEPT !.owed = @ \ P] ELSE work[k]
<1>1. ASSUME NEW k \in Work, work[k].kind = "reflections"
      PROVE  /\ r(k) \in Runs /\ r(k).kind = "reflections" /\ r(k).op = work[k].op
             /\ r(k).job = work[k].job /\ r(k).net = work[k].net
             /\ r(k).local = work[k].local /\ r(k).at = work[k].at
             /\ r(k).owed = work[k].owed \ P
  <2>1. work[k] \in ReflectionsRuns
    BY <1>1, Indices, Kinds
  <2>2. work[k].owed \ P \in SUBSET (Wallets \X Nat)
    BY <2>1, ReflectionsKinds
  <2>3. r(k) = Resumed(work[k], work[k].op, work[k].local, work[k].at, work[k].owed \ P)
    BY <1>1, <2>1, ResumedParts
  <2>4. r(k) \in ReflectionsRuns
    BY <2>1, <2>2 DEF ReflectionsRuns, Reflecting
  <2>. QED
    BY <2>1, <2>2, <2>3, <2>4, ResumedFields DEF Runs
<1>2. \A k \in Work : r(k) \in Runs
  BY <1>1, Indices
<1>3. work' = [k \in Work |-> r(k)]
  BY DEF Forgive
<1> HIDE DEF r, Runs
<1>4. work' \in [DOMAIN work -> Runs] /\ work \in Seq(Runs)
  BY <1>2, <1>3 DEF Work, ShapeInv
<1>5. work' \in Seq(Runs) /\ DOMAIN work' = DOMAIN work
  BY <1>4, Mapped
<1>6. \A k \in Work : work'[k] = r(k)
  BY <1>3
<1>7. \A k \in Work : work[k].kind # "reflections" => r(k) = work[k]
  BY DEF r
<1>. QED
  BY <1>1, <1>5, <1>6, <1>7 DEF Untouched, Work

-----------------------------------------------------------------------------
(* Tokens                                                                  *)

\* Tokens stay where they are, on their network and of their deployment.
TokensKept ==
  /\ tokens' \in Seq(TokenSet) /\ DOMAIN tokens \subseteq DOMAIN tokens'
  /\ \A i \in DOMAIN tokens :
       /\ tokens'[i].net = tokens[i].net /\ tokens'[i].of = tokens[i].of
       /\ tokens'[i].alive => tokens[i].alive
\* None is deleted, and none is priced.
AliveKept == \A i \in DOMAIN tokens : tokens[i].alive => tokens'[i].alive
QuotesKept ==
  /\ \A i \in DOMAIN tokens : tokens'[i].quote = tokens[i].quote
  /\ \A i \in DOMAIN tokens' \ DOMAIN tokens : tokens'[i].quote = None

LEMMA TokensSame ==
  ASSUME ShapeInv, tokens' = tokens
  PROVE  TokensKept /\ AliveKept /\ QuotesKept
BY DEF ShapeInv, TokensKept, AliveKept, QuotesKept

LEMMA TokenAdded ==
  ASSUME ShapeInv, NEW net \in Nets, NEW of \in Nat,
         insertToken(Token(net, "CHAT", of, FALSE))
  PROVE  /\ TokensKept /\ AliveKept /\ QuotesKept
         /\ \E i \in DOMAIN tokens' : tokens'[i].of = of /\ tokens'[i].net = net
<1> DEFINE t == Token(net, "CHAT", of, FALSE)
<1>1. t \in TokenSet /\ t.quote = None /\ t.of = of /\ t.net = net
  BY DEF Token, TokenSet, Names
<1>2. tokens' = Append(tokens, t) /\ tokens \in Seq(TokenSet)
  BY DEF insertToken, ShapeInv
<1> HIDE DEF t, TokenSet
<1>3. /\ tokens' \in Seq(TokenSet) /\ DOMAIN tokens' = DOMAIN tokens \union {Len(tokens) + 1}
      /\ \A i \in DOMAIN tokens : tokens'[i] = tokens[i]
      /\ tokens'[Len(tokens) + 1] = t
  BY <1>1, <1>2, Appended
<1>. QED
  BY <1>1, <1>3 DEF TokensKept, AliveKept, QuotesKept

LEMMA TokenReplaced ==
  ASSUME ShapeInv, NEW i \in DOMAIN tokens, NEW t \in TokenSet, tokens' = [tokens EXCEPT ![i] = t],
         t.net = tokens[i].net, t.of = tokens[i].of, t.alive => tokens[i].alive
  PROVE  /\ TokensKept /\ DOMAIN tokens' = DOMAIN tokens /\ tokens'[i] = t
         /\ \A j \in DOMAIN tokens \ {i} : tokens'[j] = tokens[j]
<1>1. tokens \in Seq(TokenSet)
  BY DEF ShapeInv
<1> HIDE DEF TokenSet
<1>2. /\ tokens' \in Seq(TokenSet) /\ DOMAIN tokens' = DOMAIN tokens /\ tokens'[i] = t
      /\ \A j \in DOMAIN tokens \ {i} : tokens'[j] = tokens[j]
  BY <1>1, Replaced
<1>. QED
  BY <1>2 DEF TokensKept

\* A price is written, to a row that is there.
LEMMA TokenQuoted ==
  ASSUME ShapeInv, NEW i \in DOMAIN tokens, NEW k \in Nat, tokens' = Quoted(i, k)
  PROVE  /\ TokensKept /\ AliveKept /\ DOMAIN tokens' = DOMAIN tokens
         /\ tokens'[i].quote = IF tokens[i].alive THEN k ELSE tokens[i].quote
         /\ \A j \in DOMAIN tokens \ {i} : tokens'[j] = tokens[j]
<1> DEFINE t == [tokens[i] EXCEPT !.quote = IF tokens[i].alive THEN k ELSE @]
<1>1. tokens[i] \in TokenSet
  BY Indices
<1>2. /\ t \in TokenSet /\ t.net = tokens[i].net /\ t.of = tokens[i].of
      /\ (t.alive <=> tokens[i].alive)
      /\ t.quote = IF tokens[i].alive THEN k ELSE tokens[i].quote
  BY <1>1 DEF TokenSet
<1>3. tokens' = [tokens EXCEPT ![i] = t]
  BY DEF Quoted
<1> HIDE DEF t
<1>4. /\ TokensKept /\ DOMAIN tokens' = DOMAIN tokens /\ tokens'[i] = t
      /\ \A j \in DOMAIN tokens \ {i} : tokens'[j] = tokens[j]
  BY <1>2, <1>3, TokenReplaced
<1>. QED
  BY <1>2, <1>4 DEF AliveKept

-----------------------------------------------------------------------------
(* Deployments                                                             *)

\* Steps that are none of a deployment leave the configuration whole.
LEMMA ConfigFrame ==
  ASSUME ConfigInv, Untouched({"deploy"}), TokensKept,
         config'.presale = config.presale, config'.locker = config.locker
  PROVE  ConfigInv'
<1>1. config'.presale = config'.locker /\ config'.presale \in Work' \union {None}
  BY DEF ConfigInv, ConfigurationIsWhole, Untouched
<1>2. ASSUME NEW k \in Work', work'[k].kind = "deploy"
      PROVE  k \in Work /\ work'[k] = work[k]
  BY <1>2 DEF Untouched
<1>3. ASSUME NEW k \in Work', work'[k].kind = "deploy", work'[k].op = "done"
      PROVE  \E i \in DOMAIN tokens' : tokens'[i].of = k /\ tokens'[i].net = work'[k].net
  BY <1>2, <1>3 DEF ConfigInv, ConfigurationIsWhole, TokensKept
<1>4. ASSUME NEW k \in Work', config'.presale = k
      PROVE  work'[k].kind = "deploy" /\ work'[k].op \in {"token", "done", "failed"}
  <2>1. k \in Nat
    BY DEF Untouched, Work
  <2>2. k \in Work
    BY <1>4, <2>1, HourlyAssumption DEF ConfigInv
  <2>. QED
    BY <1>4, <2>2 DEF ConfigInv, ConfigurationIsWhole, Untouched
<1>. QED
  BY <1>1, <1>3, <1>4 DEF ConfigInv, ConfigurationIsWhole

\* What a deployment leaves alone.
Deploying ==
  /\ Untouched({"price", "reflections"}) /\ TokensKept /\ AliveKept /\ QuotesKept
  /\ UNCHANGED <<users, wallets, ledger, rewards>>

LEMMA DeployRun ==
  ASSUME ShapeInv, NEW k \in Work, work[k].kind = "deploy",
         NEW op \in {"presale", "locker", "config", "token", "done", "failed"},
         \/ work' = [work EXCEPT ![k].op = op]
         \/ work' = [work EXCEPT ![k] = [@ EXCEPT !.op = op, !.local = None]]
  PROVE  /\ GoesOn(k) /\ Untouched({"price", "reflections"})
         /\ work'[k].kind = "deploy" /\ work'[k].op = op /\ work'[k].net = work[k].net
         /\ work[k].net \in Nets
<1>1. work[k] \in DeployRuns
  BY Indices, Kinds
<1> DEFINE r == [work[k] EXCEPT !.op = op]
<1>2. /\ r \in DeployRuns /\ r.kind = "deploy" /\ r.op = op /\ r.net = work[k].net
      /\ work[k].net \in Nets
      /\ [work[k] EXCEPT !.op = op, !.local = None] = r
  BY <1>1 DEF DeployRuns
<1>3. work' = [work EXCEPT ![k] = r]
  BY <1>2
<1> HIDE DEF r
<1>4. r \in Runs
  BY <1>2 DEF Runs
<1>5. GoesOn(k) /\ work'[k] = r
  <2>1. r.kind = work[k].kind
    BY <1>2
  <2>. QED
    BY <1>3, <1>4, <2>1, RunGoesOn
<1>. QED
  BY <1>2, <1>5, UntouchedByOne

LEMMA DeployStep == ASSUME ShapeInv, ConfigInv, deploy PROVE ShapeInv' /\ ConfigInv' /\ Deploying
<1> DEFINE r == [kind |-> "deploy", op |-> "presale", local |-> None, net |-> config.mode]
<1>1. r \in DeployRuns /\ r.kind = "deploy" /\ r.op = "presale"
  BY DEF DeployRuns, ShapeInv
<1>2. Begin(r) /\ UNCHANGED <<tokens, config, users, wallets, ledger, rewards>>
  BY DEF deploy, rest
<1> HIDE DEF r
<1>3. r \in Runs
  BY <1>1 DEF Runs
<1>4. /\ work' \in Seq(Runs) /\ Work' = Work \union {Len(work) + 1}
      /\ Len(work) + 1 \notin Work /\ Len(work) + 1 \in Nat
      /\ \A j \in Work : work'[j] = work[j]
      /\ work'[Len(work) + 1] = r
  BY <1>2, <1>3, RunBegins
<1>5. Untouched({"price", "reflections"})
  BY <1>1, <1>2, <1>3, UntouchedByNew
<1>6. TokensKept /\ AliveKept /\ QuotesKept
  BY <1>2, TokensSame
<1>7. ShapeInv'
  BY <1>2, <1>4 DEF ShapeInv
<1>8. config.presale # Len(work) + 1
  BY <1>4, HourlyAssumption DEF ConfigInv
<1>9. ConfigInv'
  BY <1>1, <1>2, <1>4, <1>8 DEF ConfigInv, ConfigurationIsWhole
<1>. QED
  BY <1>2, <1>5, <1>6, <1>7, <1>9 DEF Deploying

LEMMA DeployTxStep ==
  ASSUME ShapeInv, ConfigInv, NEW k \in Work, deployTx(k)
  PROVE  ShapeInv' /\ ConfigInv' /\ Deploying
<1>1. UNCHANGED <<tokens, config, users, wallets, ledger, rewards>>
  BY DEF deployTx, rest
<1>2. work[k].kind = "deploy" /\ work[k].op \in {"presale", "locker"}
  BY DEF deployTx, Is
<1>3. \E op \in {"locker", "config", "failed"} : work' = [work EXCEPT ![k].op = op]
  BY DEF deployTx, Goon
<1>4. PICK op \in {"locker", "config", "failed"} : work' = [work EXCEPT ![k].op = op]
  BY <1>3
<1>5. /\ GoesOn(k) /\ Untouched({"price", "reflections"})
      /\ work'[k].kind = "deploy" /\ work'[k].op = op /\ work'[k].net = work[k].net
  BY <1>2, <1>4, DeployRun
<1>6. TokensKept /\ AliveKept /\ QuotesKept
  BY <1>1, TokensSame
<1>7. ShapeInv'
  BY <1>1, <1>5 DEF ShapeInv, GoesOn
<1>8. config.presale # k
  BY <1>2 DEF ConfigInv, ConfigurationIsWhole
<1>9. ConfigInv'
  BY <1>1, <1>5, <1>8 DEF ConfigInv, ConfigurationIsWhole, GoesOn
<1>. QED
  BY <1>1, <1>5, <1>6, <1>7, <1>9 DEF Deploying

LEMMA StoreStep ==
  ASSUME ShapeInv, ConfigInv, NEW k \in Work, storeAddresses(k)
  PROVE  ShapeInv' /\ ConfigInv' /\ Deploying
<1>1. UNCHANGED <<tokens, users, wallets, ledger, rewards>>
  BY DEF storeAddresses, rest
<1>2. work[k].kind = "deploy" /\ work[k].op = "config" /\ work' = [work EXCEPT ![k].op = "token"]
  BY DEF storeAddresses, Is, Goon
<1>3. config' = [config EXCEPT !.presale = k, !.locker = k]
  BY DEF storeAddresses
<1>4. /\ config'.presale = k /\ config'.locker = k
      /\ config' \in [mode : Nets, presale : Nat \union {None}, locker : Nat \union {None}]
  BY <1>3, Indices DEF ShapeInv
<1>5. /\ GoesOn(k) /\ Untouched({"price", "reflections"})
      /\ work'[k].kind = "deploy" /\ work'[k].op = "token" /\ work'[k].net = work[k].net
  BY <1>2, DeployRun
<1>6. TokensKept /\ AliveKept /\ QuotesKept
  BY <1>1, TokensSame
<1>7. ShapeInv'
  BY <1>1, <1>4, <1>5 DEF ShapeInv, GoesOn
<1>8. ConfigInv'
  BY <1>1, <1>4, <1>5 DEF ConfigInv, ConfigurationIsWhole, GoesOn
<1>. QED
  BY <1>1, <1>5, <1>6, <1>7, <1>8 DEF Deploying

LEMMA AddCharityTokenStep ==
  ASSUME ShapeInv, ConfigInv, NEW k \in Work, addCharityToken(k)
  PROVE  ShapeInv' /\ ConfigInv' /\ Deploying
<1>1. UNCHANGED <<config, users, wallets, ledger, rewards>>
  BY DEF addCharityToken, rest
<1>2. work[k].kind = "deploy" /\ work[k].op = "token"
  BY DEF addCharityToken, Is
<1>3. k \in Nat
  BY Indices
<1>4. PICK op \in {"done", "failed"} :
        /\ work' = [work EXCEPT ![k] = [@ EXCEPT !.op = op, !.local = None]]
        /\ op = "done" => insertToken(Token(work[k].net, "CHAT", k, FALSE))
        /\ op = "failed" => UNCHANGED tokens
  BY DEF addCharityToken, End, Fail
<1>5. /\ GoesOn(k) /\ Untouched({"price", "reflections"})
      /\ work'[k].kind = "deploy" /\ work'[k].op = op /\ work'[k].net = work[k].net
      /\ work[k].net \in Nets
  BY <1>2, <1>4, DeployRun
<1>6. /\ TokensKept /\ AliveKept /\ QuotesKept
      /\ op = "done" => \E i \in DOMAIN tokens' : tokens'[i].of = k /\ tokens'[i].net = work[k].net
  BY <1>3, <1>4, <1>5, TokensSame, TokenAdded
<1>7. ShapeInv'
  BY <1>1, <1>5, <1>6 DEF ShapeInv, GoesOn, TokensKept
<1>8. ConfigInv'
  BY <1>1, <1>5, <1>6 DEF ConfigInv, ConfigurationIsWhole, GoesOn, TokensKept
<1>. QED
  BY <1>1, <1>5, <1>6, <1>7, <1>8 DEF Deploying

-----------------------------------------------------------------------------
(* The price job                                                           *)

PriceInv == QuoteInv /\ MateInv /\ ClearInv /\ TornInv

\* Steps that are none of the price job leave prices as they are.
LEMMA PriceFrame ==
  ASSUME ShapeInv, PriceInv, Untouched({"price"}), TokensKept, QuotesKept
  PROVE  PriceInv'
<1>1. ASSUME NEW k \in Work', work'[k].kind = "price" PROVE k \in Work /\ work'[k] = work[k]
  BY <1>1 DEF Untouched
<1>2. QuoteInv'
  BY Indices DEF QuoteInv, PriceInv, Untouched, TokensKept, QuotesKept
<1>3. MateInv'
  BY <1>1 DEF MateInv, PriceInv, TokensKept
<1>4. ClearInv'
  BY <1>1 DEF ClearInv, PriceInv, Ended
<1>5. TornInv'
  <2> SUFFICES ASSUME NEW k \in Work', work'[k].kind = "price", Sole(k)'
               PROVE  IF work'[k].op = "failed" THEN \E i : Torn(k)' \subseteq {i}
                                                ELSE Torn(k)' \subseteq Behind(k)'
    BY DEF TornInv
  <2>1. k \in Work /\ work'[k] = work[k]
    BY <1>1
  <2>2. Sole(k)
    BY <2>1 DEF Sole, Untouched
  <2>3. ASSUME NEW i \in Torn(k)' PROVE i \in Torn(k)
    <3>1. i \in DOMAIN work[k].mate /\ i \in DOMAIN tokens
      BY <2>1 DEF Torn, PriceInv, MateInv
    <3>2. work[k].mate[i] # None => work[k].mate[i] \in DOMAIN tokens
      BY <2>1, <3>1 DEF PriceInv, MateInv
    <3>3. tokens'[i].quote = k
      BY DEF Torn
    <3>4. work[k].mate[i] = None \/ (tokens'[work[k].mate[i]].alive /\ tokens'[work[k].mate[i]].quote # k)
      BY <2>1 DEF Torn
    <3>. QED
      BY <3>1, <3>2, <3>3, <3>4 DEF Torn, TokensKept, QuotesKept
  <2>4. Behind(k)' = Behind(k)
    BY <2>1 DEF Behind
  <2>. QED
    BY <2>1, <2>2, <2>3, <2>4 DEF TornInv, PriceInv
<1>. QED
  BY <1>2, <1>3, <1>4, <1>5 DEF PriceInv

\* What the price job leaves alone.
Pricing ==
  /\ Untouched({"deploy", "reflections"}) /\ TokensKept /\ AliveKept
  /\ UNCHANGED <<config, users, wallets, ledger, rewards>>

\* A run of the price job with another continuation.
Repriced(r, op, local, mate) == [r EXCEPT !.op = op, !.local = local, !.mate = mate]

LEMMA RepricedFields ==
  ASSUME NEW r \in PriceRuns, NEW op, NEW local, NEW mate \in Mates
  PROVE  /\ Repriced(r, op, local, mate).op = op
         /\ Repriced(r, op, local, mate).local = local
         /\ Repriced(r, op, local, mate).mate = mate
         /\ Repriced(r, op, local, mate).clear = r.clear
         /\ Repriced(r, op, local, mate).kind = "price" /\ r.kind = "price"
         /\ (\/ op \in {"main", "done", "failed"} /\ local = None
             \/ op \in {"test", "quote", "mirror"} /\ local \in Prices)
            => Repriced(r, op, local, mate) \in PriceRuns
BY DEF Repriced, PriceRuns, Price

LEMMA RepricedParts ==
  ASSUME NEW r \in PriceRuns
  PROVE  /\ \A op : [r EXCEPT !.op = op] = Repriced(r, op, r.local, r.mate)
         /\ \A op, local : [r EXCEPT !.op = op, !.local = local] = Repriced(r, op, local, r.mate)
BY DEF Repriced, PriceRuns, Price

\* Run k of the price job goes on with this continuation.
PriceGoesOn(k, op, local, mate) ==
  /\ work[k].kind = "price" /\ mate \in Mates
  /\ \/ op \in {"done", "failed"} /\ local = None
     \/ op \in {"test", "quote", "mirror"} /\ local \in Prices
  /\ work' = [work EXCEPT ![k] = Repriced(work[k], op, local, mate)]

LEMMA PriceRun ==
  ASSUME ShapeInv, NEW k \in Work, NEW op, NEW local, NEW mate, PriceGoesOn(k, op, local, mate)
  PROVE  /\ GoesOn(k) /\ Untouched({"deploy", "reflections"})
         /\ work'[k].kind = "price" /\ work'[k].op = op /\ work'[k].local = local
         /\ work'[k].mate = mate /\ work'[k].clear = work[k].clear
<1> DEFINE r == Repriced(work[k], op, local, mate)
<1>1. work[k] \in PriceRuns
  BY Indices, Kinds DEF PriceGoesOn
<1>2. /\ r \in PriceRuns /\ r.kind = "price" /\ r.op = op /\ r.local = local
      /\ r.mate = mate /\ r.clear = work[k].clear
  <2>1. mate \in Mates
    BY DEF PriceGoesOn
  <2>2. /\ r.kind = "price" /\ r.op = op /\ r.local = local
        /\ r.mate = mate /\ r.clear = work[k].clear
    BY <1>1, <2>1, RepricedFields
  <2>3. r \in PriceRuns
    <3>1. \/ op \in {"main", "done", "failed"} /\ local = None
          \/ op \in {"test", "quote", "mirror"} /\ local \in Prices
      BY DEF PriceGoesOn
    <3>. HIDE DEF r
    <3>2. CASE op \in {"main", "done", "failed"} /\ local = None
      BY <1>1, <2>1, <3>2 DEF r, Repriced, PriceRuns, Price
    <3>3. CASE op \in {"test", "quote", "mirror"} /\ local \in Prices
      BY <1>1, <2>1, <3>3, RepricedFields DEF r
    <3>. QED
      BY <3>1, <3>2, <3>3
  <2>. QED
    BY <2>2, <2>3
<1>3. work' = [work EXCEPT ![k] = r] /\ work[k].kind = "price"
  BY DEF PriceGoesOn
<1> HIDE DEF r
<1>4. r \in Runs /\ r.kind = work[k].kind
  BY <1>2, <1>3 DEF Runs
<1>5. GoesOn(k) /\ work'[k] = r
  BY <1>3, <1>4, RunGoesOn
<1>. QED
  BY <1>2, <1>3, <1>5, UntouchedByOne

\* A run that goes on is the only one that is sole, if it is.
LEMMA OnlyOneIsSole ==
  ASSUME ShapeInv, PriceInv, NEW k \in Work, work[k].kind = "price", ~Ended(k),
         GoesOn(k), work'[k].clear = work[k].clear
  PROVE  /\ ClearInv'
         /\ \A l \in Work : work[l].kind = "price" /\ Sole(l)' => l = k /\ Sole(k)
<1>1. Work \subseteq Nat /\ \A l \in Work \ {k} : work'[l] = work[l]
  BY Indices DEF GoesOn
<1>2. ClearInv'
  BY <1>1 DEF GoesOn, ClearInv, PriceInv, Ended
<1>3. ASSUME NEW l \in Work, work[l].kind = "price", Sole(l)' PROVE l = k /\ Sole(k)
  <2>1. work'[l].clear = work[l].clear /\ Sole(l)
    BY <1>1, <1>3 DEF Sole, GoesOn
  <2>2. k <= l
    BY <2>1 DEF Sole
  <2>3. l # k => Ended(k)
    <3>1. l # k => k < l
      BY <1>1, <2>2
    <3>2. work[l].clear
      BY <2>1 DEF Sole
    <3>3. ClearInv
      BY DEF PriceInv
    <3>. QED
      BY <1>3, <3>1, <3>2, <3>3 DEF ClearInv
  <2>. QED
    BY <2>1, <2>3
<1>. QED
  BY <1>2, <1>3

\* What a step of run k has to show: of its mates, and of what it leaves torn.
LEMMA PriceStep ==
  ASSUME ShapeInv, PriceInv, NEW k \in Work, ~Ended(k), NEW op, NEW local, NEW mate,
         PriceGoesOn(k, op, local, mate), TokensKept,
         \A i \in DOMAIN tokens' :
           \/ i \in DOMAIN tokens /\ tokens'[i].quote = tokens[i].quote
           \/ tokens'[i].quote = k,
         \A i \in DOMAIN mate :
           /\ i \in DOMAIN tokens /\ tokens[i].net = "main"
           /\ mate[i] # None => mate[i] \in DOMAIN tokens /\ tokens[mate[i]].net = "test",
         op \in {"test", "quote", "mirror"} => local.left \subseteq DOMAIN mate,
         op = "mirror" => local.at \in DOMAIN mate,
         op = "test" => work[k].op = "main" /\ tokens' = tokens,
         Sole(k) => IF op = "failed" THEN \E i : Torn(k)' \subseteq {i}
                                     ELSE Torn(k)' \subseteq Behind(k)'
  PROVE  PriceInv'
<1>1. /\ GoesOn(k) /\ work[k].kind = "price" /\ op # "main"
      /\ work'[k].kind = "price" /\ work'[k].op = op /\ work'[k].local = local
      /\ work'[k].mate = mate /\ work'[k].clear = work[k].clear
  <2>1. work[k].kind = "price" /\ op # "main"
    BY DEF PriceGoesOn
  <2>. QED
    BY <2>1, PriceRun
<1>2. Work' = Work /\ \A l \in Work \ {k} : work'[l] = work[l]
  BY <1>1 DEF GoesOn
<1>3. QuoteInv'
  <2> SUFFICES ASSUME NEW i \in DOMAIN tokens', tokens'[i].quote # None
               PROVE  /\ tokens'[i].quote \in Work'
                      /\ work'[tokens'[i].quote].kind = "price"
                      /\ work'[tokens'[i].quote].op \notin {"main", "test"}
    BY DEF QuoteInv
  <2>1. CASE tokens'[i].quote = k
    <3>1. op # "test"
      BY <2>1 DEF PriceInv, QuoteInv
    <3>. QED
      BY <2>1, <3>1, <1>1, <1>2
  <2>2. CASE tokens'[i].quote # k
    <3>1. i \in DOMAIN tokens /\ tokens'[i].quote = tokens[i].quote
      BY <2>2
    <3>. QED
      BY <2>2, <3>1, <1>2 DEF PriceInv, QuoteInv
  <2>. QED
    BY <2>1, <2>2
<1>4. MateInv'
  <2> SUFFICES ASSUME NEW l \in Work', work'[l].kind = "price"
               PROVE  /\ work'[l].op = "main" => DOMAIN work'[l].mate = {}
                      /\ \A i \in DOMAIN work'[l].mate :
                           /\ i \in DOMAIN tokens' /\ tokens'[i].net = "main"
                           /\ work'[l].mate[i] # None =>
                                work'[l].mate[i] \in DOMAIN tokens' /\ tokens'[work'[l].mate[i]].net = "test"
                      /\ work'[l].op \in {"test", "quote", "mirror"} => work'[l].local.left \subseteq DOMAIN work'[l].mate
                      /\ work'[l].op = "mirror" => work'[l].local.at \in DOMAIN work'[l].mate
    BY DEF MateInv
  <2>1. CASE l = k
    BY <2>1, <1>1 DEF TokensKept
  <2>2. CASE l # k
    <3>1. work'[l] = work[l] /\ l \in Work
      BY <2>2, <1>2
    <3>. QED
      BY <3>1 DEF PriceInv, MateInv, TokensKept
  <2>. QED
    BY <2>1, <2>2
<1>5. ClearInv' /\ \A l \in Work : work[l].kind = "price" /\ Sole(l)' => l = k /\ Sole(k)
  BY <1>1, OnlyOneIsSole
<1>6. TornInv'
  <2> SUFFICES ASSUME NEW l \in Work', work'[l].kind = "price", Sole(l)'
               PROVE  IF work'[l].op = "failed" THEN \E i : Torn(l)' \subseteq {i}
                                                ELSE Torn(l)' \subseteq Behind(l)'
    BY DEF TornInv
  <2>1. l \in Work /\ work[l].kind = "price"
    BY <1>1, <1>2
  <2>2. l = k /\ Sole(k)
    BY <1>5, <2>1
  <2>. QED
    BY <2>2, <1>1
<1>. QED
  BY <1>3, <1>4, <1>5, <1>6 DEF PriceInv

LEMMA EmptyMate == <<>> \in Mates /\ DOMAIN <<>> = {}
<1>1. <<>> \in Seq(Nat) /\ Len(<<>>) = 0
  OBVIOUS
<1>2. DOMAIN <<>> = {}
  BY <1>1
<1>3. <<>> \in [{} -> Nat \union {None}]
  BY <1>1, <1>2
<1>. QED
  BY <1>2, <1>3 DEF Mates

LEMMA StartPriceStep ==
  ASSUME ShapeInv, PriceInv, startPrice
  PROVE  ShapeInv' /\ PriceInv' /\ Pricing
<1> DEFINE alone == \A k \in Work : work[k].kind = "price" => Ended(k)
           r == [kind |-> "price", op |-> "main", local |-> None, mate |-> <<>>, clear |-> alone]
           n == Len(work) + 1
<1>1. r.kind = "price" /\ r.op = "main" /\ r.mate = <<>> /\ (r.clear <=> alone)
  OBVIOUS
<1>2. r \in PriceRuns
  BY EmptyMate DEF PriceRuns, Price
<1>3. Begin(r) /\ UNCHANGED <<tokens, config, users, wallets, ledger, rewards>>
  BY DEF startPrice, rest
<1> HIDE DEF r, alone
<1>4. r \in Runs
  BY <1>2 DEF Runs
<1>5. /\ work' \in Seq(Runs) /\ Work' = Work \union {n} /\ n \in Nat \ {0} /\ n \notin Work
      /\ \A j \in Work : work'[j] = work[j] /\ j < n
      /\ work'[n] = r
  BY <1>3, <1>4, RunBegins
<1> HIDE DEF n
<1>6. Untouched({"deploy", "reflections"})
  BY <1>1, <1>3, <1>4, UntouchedByNew
<1>7. TokensKept /\ AliveKept /\ QuotesKept
  BY <1>3, TokensSame
<1>8. ShapeInv'
  BY <1>3, <1>5 DEF ShapeInv
<1>9. QuoteInv'
  BY <1>3, <1>5 DEF PriceInv, QuoteInv
<1>10. MateInv'
  BY <1>1, <1>3, <1>5, EmptyMate DEF PriceInv, MateInv
<1>11. ClearInv'
  <2> SUFFICES ASSUME NEW k \in Work', NEW l \in Work', work'[k].kind = "price", work'[k].clear,
                      work'[l].kind = "price", l < k
               PROVE  Ended(l)'
    BY DEF ClearInv
  <2>0. Work \subseteq Nat
    BY Indices
  <2>1. l \in Work /\ work'[l] = work[l]
    BY <1>5, <2>0
  <2>2. CASE k = n
    BY <1>1, <1>5, <2>1, <2>2 DEF alone, Ended
  <2>3. CASE k # n
    BY <1>5, <2>1, <2>3 DEF PriceInv, ClearInv, Ended
  <2>. QED
    BY <2>2, <2>3
<1>12. TornInv'
  <2> SUFFICES ASSUME NEW k \in Work', work'[k].kind = "price", Sole(k)'
               PROVE  Torn(k)' = {} /\ work'[k].op # "failed"
    BY DEF TornInv
  <2>0. Work \subseteq Nat
    BY Indices
  <2>1. k = n
    <3>1. n \in Work' /\ work'[n].kind = "price"
      BY <1>1, <1>5
    <3>2. n <= k
      BY <3>1 DEF Sole
    <3>3. k \in Work => k < n
      BY <1>5
    <3>. QED
      BY <1>5, <2>0, <3>2, <3>3
  <2>. QED
    BY <1>1, <1>5, <2>1, EmptyMate DEF Torn
<1>. QED
  BY <1>3, <1>6, <1>7, <1>8, <1>9, <1>10, <1>11, <1>12 DEF PriceInv, Pricing

\* Finding a run that is under way, and what it knows.
LEMMA PriceRunIs ==
  ASSUME ShapeInv, PriceInv, NEW k \in Work, work[k].kind = "price"
  PROVE  /\ k \in Nat /\ work[k] \in PriceRuns /\ work[k].mate \in Mates
         /\ work[k].op \in {"test", "quote", "mirror"} =>
              /\ work[k].local \in Prices
              /\ work[k].local.left \subseteq DOMAIN work[k].mate
         /\ work[k].op = "mirror" => work[k].local.at \in DOMAIN work[k].mate
         /\ \A i \in DOMAIN work[k].mate :
              /\ i \in DOMAIN tokens /\ tokens[i].net = "main"
              /\ work[k].mate[i] # None =>
                   work[k].mate[i] \in DOMAIN tokens /\ tokens[work[k].mate[i]].net = "test"
<1>1. k \in Nat /\ work[k] \in PriceRuns
  BY Indices, Kinds
<1>2. /\ work[k].mate \in Mates
      /\ work[k].op \in {"test", "quote", "mirror"} => work[k].local \in Prices
  BY <1>1, PriceKinds
<1>. QED
  BY <1>1, <1>2 DEF PriceInv, MateInv

\* A run that ends writes nothing.
LEMMA PriceEnds ==
  ASSUME ShapeInv, PriceInv, NEW k \in Work, work[k].kind = "price",
         work[k].op \in {"main", "test", "quote", "mirror"}, NEW op \in {"done", "failed"},
         op = "done" => work[k].op # "mirror", End(k, op), tokens' = tokens
  PROVE  PriceInv' /\ GoesOn(k) /\ Untouched({"deploy", "reflections"}) /\ TokensKept /\ AliveKept
<1>1. work[k] \in PriceRuns /\ work[k].mate \in Mates
  BY PriceRunIs
<1>2. PriceGoesOn(k, op, None, work[k].mate)
  BY <1>1, RepricedParts DEF End, PriceGoesOn
<1>3. TokensKept /\ AliveKept
  BY TokensSame
<1>4. /\ GoesOn(k) /\ Untouched({"deploy", "reflections"})
      /\ work'[k].op = op /\ work'[k].mate = work[k].mate
  BY <1>2, PriceRun
<1>5. Torn(k)' = Torn(k)
  BY <1>4 DEF Torn
<1>6. Sole(k) => Torn(k) \subseteq Behind(k)
  BY DEF PriceInv, TornInv
<1>7. Sole(k) => IF op = "failed" THEN \E i : Torn(k)' \subseteq {i}
                                  ELSE Torn(k)' \subseteq Behind(k)'
  <2>1. CASE op = "failed"
    BY <1>5, <1>6, <2>1 DEF Behind
  <2>2. CASE op = "done"
    BY <1>5, <1>6, <2>2 DEF Behind
  <2>. QED
    BY <2>1, <2>2
<1>8. ~Ended(k)
  BY DEF Ended
<1>9. \A i \in DOMAIN work[k].mate :
        /\ i \in DOMAIN tokens /\ tokens[i].net = "main"
        /\ work[k].mate[i] # None =>
             work[k].mate[i] \in DOMAIN tokens /\ tokens[work[k].mate[i]].net = "test"
  BY PriceRunIs
<1>. QED
  BY <1>2, <1>3, <1>4, <1>7, <1>8, <1>9, PriceStep

\* A run that finds its tokens has priced none.
LEMMA NoneTorn ==
  ASSUME ShapeInv, PriceInv, NEW k \in Work, work[k].kind = "price",
         work[k].op \in {"main", "test"}, tokens' = tokens,
         DOMAIN work'[k].mate \subseteq DOMAIN tokens
  PROVE  Torn(k)' = {}
<1>1. \A i \in DOMAIN tokens : tokens[i].quote # k
  BY Indices DEF PriceInv, QuoteInv
<1>. QED
  BY <1>1 DEF Torn

LEMMA FindMainStep ==
  ASSUME ShapeInv, PriceInv, NEW k \in Work, findMain(k)
  PROVE  ShapeInv' /\ PriceInv' /\ Pricing
<1> DEFINE main == {i \in Listed : tokens[i].net = "main"}
           bases(f) == {f[s] : s \in Priced}
           local(f) == [bases |-> bases(f), at |-> None,
                        left |-> bases(f) \union {i \in main : tokens[i].symbol \notin Priced}]
           mate == [i \in main |-> None]
<1>1. /\ work[k].kind = "price" /\ work[k].op = "main"
      /\ UNCHANGED <<tokens, config, users, wallets, ledger, rewards>>
  BY DEF findMain, Is, rest
<1>2. /\ main \subseteq DOMAIN tokens /\ DOMAIN tokens \subseteq Nat
      /\ \A i \in main : tokens[i].net = "main"
  BY Indices DEF Listed
<1>3. CASE Fail(k)
  BY <1>1, <1>3, PriceEnds DEF Fail, ShapeInv, GoesOn, Pricing, TokensKept
<1>4. ASSUME NEW f \in Finds(main), Priced \subseteq Symbols(main),
             work' = [work EXCEPT ![k] =
                       [@ EXCEPT !.op = "test", !.local = local(f), !.mate = mate]]
      PROVE  ShapeInv' /\ PriceInv' /\ Pricing
  <2>1. bases(f) \subseteq main
    BY <1>4 DEF Finds
  <2>2. local(f) \in Prices /\ local(f).left \subseteq main
    BY <1>2, <2>1 DEF Prices
  <2>3. DOMAIN mate = main /\ mate \in [main -> Nat \union {None}] /\ \A i \in main : mate[i] = None
    OBVIOUS
  <2>4. mate \in Mates
    BY <1>2, <2>3 DEF Mates
  <2> HIDE DEF main, local, mate
  <2>5. PriceGoesOn(k, "test", local(f), mate)
    BY <1>1, <1>4, <2>2, <2>4 DEF PriceGoesOn, Repriced
  <2>6. TokensKept /\ AliveKept
    BY <1>1, TokensSame
  <2>7. GoesOn(k) /\ Untouched({"deploy", "reflections"}) /\ work'[k].mate = mate
    BY <2>5, PriceRun
  <2>8. Torn(k)' = {}
    BY <1>1, <1>2, <2>3, <2>7, NoneTorn
  <2>9. ~Ended(k) /\ local(f).left \subseteq DOMAIN mate
    BY <1>1, <2>2, <2>3 DEF Ended
  <2>10. PriceInv'
    BY <1>1, <1>2, <2>3, <2>5, <2>6, <2>8, <2>9, PriceStep
  <2>. QED
    BY <1>1, <2>6, <2>7, <2>10 DEF Pricing, ShapeInv, GoesOn
<1>. QED
  BY <1>3, <1>4 DEF findMain

LEMMA FindTestStep ==
  ASSUME ShapeInv, PriceInv, NEW k \in Work, findTest(k)
  PROVE  ShapeInv' /\ PriceInv' /\ Pricing
<1> DEFINE main == DOMAIN work[k].mate
           test == {i \in Listed : tokens[i].net = "test"}
           mate(g) == [i \in main |->
                        IF tokens[i].symbol \in DOMAIN g THEN g[tokens[i].symbol] ELSE None]
<1>1. /\ work[k].kind = "price" /\ work[k].op = "test"
      /\ UNCHANGED <<tokens, config, users, wallets, ledger, rewards>>
  BY DEF findTest, Is, rest
<1>2. /\ work[k] \in PriceRuns /\ work[k].local \in Prices
      /\ work[k].local.left \subseteq main
      /\ main \subseteq DOMAIN tokens /\ test \subseteq DOMAIN tokens /\ DOMAIN tokens \subseteq Nat
      /\ \A i \in main : tokens[i].net = "main"
      /\ \A i \in test : tokens[i].net = "test"
  BY <1>1, Indices, PriceRunIs DEF Listed
<1>3. PICK g \in Finds(test) :
        work' = [work EXCEPT ![k] = [@ EXCEPT !.op = "quote", !.mate = mate(g)]]
  BY DEF findTest
<1>4. \A i \in main : mate(g)[i] # None => mate(g)[i] \in test
  BY DEF Finds
<1>5. DOMAIN mate(g) = main /\ mate(g) \in [main -> Nat \union {None}]
  BY <1>2, <1>4
<1>6. mate(g) \in Mates
  BY <1>2, <1>5 DEF Mates
<1> HIDE DEF main, test, mate
<1>7. PriceGoesOn(k, "quote", work[k].local, mate(g))
  <2>1. [work[k] EXCEPT !.op = "quote", !.mate = mate(g)] = Repriced(work[k], "quote", work[k].local, mate(g))
    BY <1>2 DEF Repriced, PriceRuns, Price
  <2>. QED
    BY <1>1, <1>2, <1>3, <1>6, <2>1 DEF PriceGoesOn
<1>8. TokensKept /\ AliveKept
  BY <1>1, TokensSame
<1>9. GoesOn(k) /\ Untouched({"deploy", "reflections"}) /\ work'[k].mate = mate(g)
  BY <1>7, PriceRun
<1>10. Torn(k)' = {}
  BY <1>1, <1>2, <1>5, <1>9, NoneTorn
<1>11. ~Ended(k)
  BY <1>1 DEF Ended
<1>12. \A i \in DOMAIN mate(g) :
         /\ i \in DOMAIN tokens /\ tokens[i].net = "main"
         /\ mate(g)[i] # None => mate(g)[i] \in DOMAIN tokens /\ tokens[mate(g)[i]].net = "test"
  BY <1>2, <1>4, <1>5
<1>13. PriceInv'
  BY <1>1, <1>2, <1>5, <1>7, <1>8, <1>10, <1>11, <1>12, PriceStep
<1>. QED
  BY <1>1, <1>8, <1>9, <1>13 DEF Pricing, ShapeInv, GoesOn

\* A price is written: the row is priced, unless it is gone by now.
LEMMA QuoteStep ==
  ASSUME ShapeInv, PriceInv, NEW k \in Work, quote(k)
  PROVE  ShapeInv' /\ PriceInv' /\ Pricing
<1>1. /\ work[k].kind = "price" /\ work[k].op = "quote"
      /\ UNCHANGED <<config, users, wallets, ledger, rewards>>
  BY DEF quote, Is, rest
<1>2. /\ k \in Nat /\ work[k] \in PriceRuns /\ work[k].mate \in Mates
      /\ work[k].local \in Prices /\ work[k].local.left \subseteq DOMAIN work[k].mate
      /\ \A i \in DOMAIN work[k].mate :
           /\ i \in DOMAIN tokens /\ tokens[i].net = "main"
           /\ work[k].mate[i] # None =>
                work[k].mate[i] \in DOMAIN tokens /\ tokens[work[k].mate[i]].net = "test"
  BY <1>1, PriceRunIs
<1>3. Sole(k) => Torn(k) = {}
  BY <1>1 DEF PriceInv, TornInv, Behind
<1>4. ~Ended(k)
  BY <1>1 DEF Ended
<1> DEFINE local(i) == [work[k].local EXCEPT !.left = @ \ {i}, !.at = i]
<1>5. CASE Fail(k) /\ UNCHANGED tokens
  BY <1>1, <1>5, PriceEnds DEF Fail, ShapeInv, GoesOn, Pricing, TokensKept
<1>6. ASSUME NEW i \in Turn(work[k].local), NEW op \in {"mirror", "quote"},
             work' = [work EXCEPT ![k].op = op, ![k].local.left = @ \ {i}, ![k].local.at = i],
             \/ op = "mirror" /\ tokens' = Quoted(i, k)
             \/ op = "quote" /\ tokens' = tokens
      PROVE  ShapeInv' /\ PriceInv' /\ Pricing
  <2>1. i \in work[k].local.left /\ i \in DOMAIN work[k].mate /\ i \in Nat /\ i \in DOMAIN tokens
    BY <1>2, Indices DEF Turn
  <2>2. /\ local(i) \in Prices /\ local(i).at = i
        /\ local(i).left \subseteq DOMAIN work[k].mate
    BY <1>2, <2>1 DEF Prices
  <2>3. work' = [work EXCEPT ![k] = Repriced(work[k], op, local(i), work[k].mate)]
    <3>1. [work[k] EXCEPT !.op = op, !.local = local(i)] = Repriced(work[k], op, local(i), work[k].mate)
      BY <1>2, RepricedParts
    <3>2. work' = [work EXCEPT ![k] = [work[k] EXCEPT !.op = op, !.local = local(i)]]
      <4>1. work[k] \in Price({"test", "quote", "mirror"}, Prices)
        BY <1>1, <1>2, PriceKinds
      <4>. QED
        BY <1>6, <4>1 DEF Price, Prices
    <3>. QED
      BY <3>1, <3>2
  <2> HIDE DEF local
  <2>4. PriceGoesOn(k, op, local(i), work[k].mate)
    BY <1>1, <1>2, <1>6, <2>2, <2>3 DEF PriceGoesOn
  <2>5. /\ GoesOn(k) /\ Untouched({"deploy", "reflections"}) /\ work'[k].op = op
        /\ work'[k].mate = work[k].mate /\ work'[k].local = local(i)
    BY <2>4, PriceRun
  <2>6. TokensKept /\ AliveKept /\ DOMAIN tokens' = DOMAIN tokens
    BY <1>2, <1>6, <2>1, TokensSame, TokenQuoted
  <2>7. \A j \in DOMAIN tokens : tokens'[j].quote = tokens[j].quote \/ tokens'[j].quote = k
    BY <1>2, <1>6, <2>1, TokenQuoted
  <2>8. Sole(k) => Torn(k)' \subseteq Behind(k)'
    <3>1. CASE op = "quote"
      <4>1. tokens' = tokens
        BY <1>6, <3>1
      <4>2. Torn(k)' = Torn(k)
        BY <2>5, <4>1 DEF Torn
      <4>. QED
        BY <1>3, <4>2
    <3>2. CASE op = "mirror"
      <4>1. Behind(k)' = {i}
        BY <2>2, <2>5, <3>2 DEF Behind
      <4>2. \A j \in DOMAIN tokens \ {i} : tokens'[j] = tokens[j]
        BY <1>2, <1>6, <2>1, <3>2, TokenQuoted
      <4>3. ASSUME NEW j \in Torn(k)', j # i, Sole(k) PROVE FALSE
        <5>1. /\ j \in DOMAIN work[k].mate /\ tokens'[j].quote = k
              /\ \/ work[k].mate[j] = None
                 \/ tokens'[work[k].mate[j]].alive /\ tokens'[work[k].mate[j]].quote # k
          BY <2>5 DEF Torn
        <5>2. j \in DOMAIN tokens /\ tokens'[j] = tokens[j]
          BY <1>2, <4>2, <4>3, <5>1
        <5>3. work[k].mate[j] # None =>
                /\ work[k].mate[j] \in DOMAIN tokens /\ tokens[work[k].mate[j]].net = "test"
                /\ work[k].mate[j] # i
          BY <1>2, <2>1, <5>1
        <5>4. j \in Torn(k)
          BY <4>2, <5>1, <5>2, <5>3 DEF Torn
        <5>. QED
          BY <1>3, <4>3, <5>4
      <4>. QED
        BY <4>1, <4>3
    <3>. QED
      BY <1>6, <3>1, <3>2
  <2>9. PriceInv'
    BY <1>2, <1>4, <1>6, <2>1, <2>2, <2>4, <2>5, <2>6, <2>7, <2>8, PriceStep
  <2>. QED
    BY <1>1, <2>5, <2>6, <2>9 DEF Pricing, ShapeInv, GoesOn, TokensKept
<1>. QED
  BY <1>5, <1>6 DEF quote

LEMMA MirrorStep ==
  ASSUME ShapeInv, PriceInv, NEW k \in Work, mirror(k)
  PROVE  ShapeInv' /\ PriceInv' /\ Pricing
<1> DEFINE at == work[k].local.at
           j == work[k].mate[at]
<1>1. /\ work[k].kind = "price" /\ work[k].op = "mirror"
      /\ UNCHANGED <<config, users, wallets, ledger, rewards>>
  BY DEF mirror, Is, rest
<1>2. /\ k \in Nat /\ work[k] \in PriceRuns /\ work[k].mate \in Mates
      /\ work[k].local \in Prices /\ work[k].local.left \subseteq DOMAIN work[k].mate
      /\ at \in DOMAIN work[k].mate
      /\ \A i \in DOMAIN work[k].mate :
           /\ i \in DOMAIN tokens /\ tokens[i].net = "main"
           /\ work[k].mate[i] # None =>
                work[k].mate[i] \in DOMAIN tokens /\ tokens[work[k].mate[i]].net = "test"
  BY <1>1, PriceRunIs
<1>3. Sole(k) => Torn(k) \subseteq {at}
  BY <1>1 DEF PriceInv, TornInv, Behind
<1>4. ~Ended(k)
  BY <1>1 DEF Ended
<1>5. CASE j = None
  <2>1. Fail(k) /\ UNCHANGED tokens
    BY <1>5 DEF mirror
  <2>. QED
    BY <1>1, <2>1, PriceEnds DEF Fail, ShapeInv, GoesOn, Pricing, TokensKept
<1>6. CASE j # None
  <2>1. tokens' = Quoted(j, k) /\ Goon(k, "quote")
    BY <1>6 DEF mirror
  <2>2. j \in DOMAIN tokens /\ tokens[j].net = "test" /\ at \in DOMAIN tokens /\ tokens[at].net = "main"
    BY <1>2, <1>6
  <2>3. PriceGoesOn(k, "quote", work[k].local, work[k].mate)
    BY <1>1, <1>2, <2>1, RepricedParts DEF Goon, PriceGoesOn
  <2>4. /\ GoesOn(k) /\ Untouched({"deploy", "reflections"}) /\ work'[k].op = "quote"
        /\ work'[k].mate = work[k].mate /\ work'[k].local = work[k].local
    BY <2>3, PriceRun
  <2>5. /\ TokensKept /\ AliveKept /\ DOMAIN tokens' = DOMAIN tokens
        /\ tokens'[j].quote = IF tokens[j].alive THEN k ELSE tokens[j].quote
        /\ \A i \in DOMAIN tokens \ {j} : tokens'[i] = tokens[i]
    BY <1>2, <2>1, <2>2, TokenQuoted
  <2>6. \A i \in DOMAIN tokens : tokens'[i].quote = tokens[i].quote \/ tokens'[i].quote = k
    BY <2>5
  <2>7. ASSUME Sole(k), NEW i \in Torn(k)' PROVE FALSE
    <3>1. /\ i \in DOMAIN work[k].mate /\ tokens'[i].quote = k
          /\ \/ work[k].mate[i] = None
             \/ tokens'[work[k].mate[i]].alive /\ tokens'[work[k].mate[i]].quote # k
      BY <2>4, <2>7 DEF Torn
    <3>2. i \in DOMAIN tokens /\ i # j /\ tokens'[i] = tokens[i]
      BY <1>2, <2>2, <2>5, <3>1
    <3>3. work[k].mate[i] = None \/ (work[k].mate[i] \in DOMAIN tokens)
      BY <1>2, <3>1
    <3>4. work[k].mate[i] # j \/ ~tokens'[j].alive
      <4>1. tokens'[j].alive => tokens'[j].quote = k
        BY <2>2, <2>5 DEF TokensKept
      <4>. QED
        BY <1>6, <3>1, <4>1
    <3>5. i \in Torn(k)
      <4>1. work[k].mate[i] # None => work[k].mate[i] # j
        BY <3>1, <3>4
      <4>2. /\ tokens[i].quote = k
            /\ work[k].mate[i] # None => tokens'[work[k].mate[i]] = tokens[work[k].mate[i]]
        BY <2>5, <3>1, <3>2, <3>3, <4>1
      <4>3. \/ work[k].mate[i] = None
            \/ tokens[work[k].mate[i]].alive /\ tokens[work[k].mate[i]].quote # k
        BY <3>1, <4>2
      <4>. QED
        BY <3>1, <4>2, <4>3 DEF Torn
    <3>6. i = at
      BY <1>3, <2>7, <3>5
    <3>. QED
      BY <1>6, <3>1, <3>4, <3>6
  <2>8. Sole(k) => Torn(k)' \subseteq Behind(k)'
    BY <2>7
  <2>9. \A i \in DOMAIN tokens' :
          (i \in DOMAIN tokens /\ tokens'[i].quote = tokens[i].quote) \/ tokens'[i].quote = k
    BY <2>5, <2>6
  <2> HIDE DEF at, j
  <2>10. PriceInv'
    BY <1>2, <1>4, <2>3, <2>5, <2>8, <2>9, PriceStep
  <2>. QED
    BY <1>1, <2>4, <2>5, <2>10 DEF Pricing, ShapeInv, GoesOn, TokensKept
<1>. QED
  BY <1>5, <1>6

LEMMA PricesDoneStep ==
  ASSUME ShapeInv, PriceInv, NEW k \in Work, pricesDone(k)
  PROVE  ShapeInv' /\ PriceInv' /\ Pricing
<1>1. /\ work[k].kind = "price" /\ work[k].op = "quote" /\ End(k, "done")
      /\ UNCHANGED <<tokens, config, users, wallets, ledger, rewards>>
  BY DEF pricesDone, Is, rest
<1>2. PriceInv' /\ GoesOn(k) /\ Untouched({"deploy", "reflections"}) /\ TokensKept /\ AliveKept
  BY <1>1, PriceEnds
<1>. QED
  BY <1>1, <1>2 DEF ShapeInv, GoesOn, Pricing, TokensKept

LEMMA PriceSteps ==
  ASSUME ShapeInv, PriceInv, NEW k \in Work, price(k)
  PROVE  ShapeInv' /\ PriceInv' /\ Pricing
BY FindMainStep, FindTestStep, QuoteStep, MirrorStep, PricesDoneStep DEF price

-----------------------------------------------------------------------------
(* The reflections job: steps that are none of it                          *)

\* What every step but those of the price job and of deployments leaves alone.
Recording ==
  /\ Untouched({"deploy", "price"}) /\ TokensKept /\ QuotesKept
  /\ config'.presale = config.presale /\ config'.locker = config.locker

\* What was recorded of a reward stays.
RewardsStay ==
  /\ DOMAIN rewards' = DOMAIN rewards
  /\ \A r \in DOMAIN rewards :
       /\ rewards'[r].job = rewards[r].job /\ rewards'[r].of = rewards[r].of
       /\ rewards'[r].reflections = rewards[r].reflections
       /\ rewards'[r].earned = rewards[r].earned /\ rewards'[r].strayed = rewards[r].strayed

LEMMA EarnedFrame ==
  ASSUME LedgerInv, EarnedInv, RewardsStay, ledger' = ledger
  PROVE  LedgerInv' /\ EarnedInv'
<1>1. LedgerInv'
  BY DEF LedgerInv
<1>2. EarnedInv'
  BY DEF EarnedInv, RewardsStay
<1>. QED
  BY <1>1, <1>2

LEMMA OwedIs ==
  ASSUME ShapeInv, NEW k \in Work, work[k].kind = "reflections"
  PROVE  /\ k \in Nat /\ work[k] \in ReflectionsRuns /\ work[k].job \in Nat /\ work[k].net \in Nets
         /\ work[k].owed \in SUBSET (Wallets \X Nat)
         /\ \A p \in work[k].owed : p[1] \in Wallets /\ p[2] \in Nat /\ p = <<p[1], p[2]>>
BY Indices, Kinds, ReflectionsKinds

\* Steps of other jobs.
LEMMA RunsFrame ==
  ASSUME ShapeInv, RunsInv, Untouched({"reflections"}), TokensKept, AliveKept,
         UNCHANGED <<users, wallets, ledger, rewards>>
  PROVE  RunsInv'
<1>1. ASSUME NEW k \in Work', work'[k].kind = "reflections" PROVE k \in Work /\ work'[k] = work[k]
  BY <1>1 DEF Untouched
<1>2. OwnersInv'
  BY DEF RunsInv, OwnersInv
<1>3. OwedInv'
  <2> SUFFICES ASSUME NEW k \in Work', work'[k].kind = "reflections" PROVE OwedOf(k)'
    BY DEF OwedInv
  <2>1. k \in Work /\ work'[k] = work[k] /\ work[k].kind = "reflections"
    BY <1>1
  <2>2. OwedOf(k)
    BY <2>1 DEF RunsInv, OwedInv
  <2>3. \A p \in work[k].owed : p[2] \in Listed' /\ Holds(p[1], p[2])' = Holds(p[1], p[2])
    BY <2>2 DEF OwedOf, Listed, TokensKept, AliveKept, Holds, Balance
  <2>4. \A p : Shown(k, p)' <=> Shown(k, p)
    BY <2>1 DEF Shown, getRewardsHistory
  <2>5. AtPair(k)' = AtPair(k)
    BY <2>1 DEF AtPair
  <2>. QED
    BY <2>1, <2>2, <2>3, <2>4, <2>5 DEF OwedOf
<1>4. RowsInv'
  <2> SUFFICES ASSUME NEW k \in Work', IsReflections(k, Setting)' PROVE RowOf(k)'
    BY DEF RowsInv
  <2>1. k \in Work /\ work'[k] = work[k] /\ IsReflections(k, Setting)
    BY <1>1 DEF IsReflections
  <2>2. RowOf(k)
    BY <2>1 DEF RunsInv, RowsInv
  <2>3. AtPair(k)' = AtPair(k)
    BY <2>1 DEF AtPair
  <2>4. \A l \in Work' : IsReflections(l, Setting)' => l \in Work /\ work'[l] = work[l] /\ IsReflections(l, Setting)
    BY <1>1 DEF IsReflections
  <2>. QED
    BY <2>1, <2>2, <2>3, <2>4 DEF RowOf
<1>5. AheadInv'
  <2> SUFFICES ASSUME NEW k \in Work', IsReflections(k, Going)' PROVE AheadOf(k)'
    BY DEF AheadInv
  <2>1. k \in Work /\ work'[k] = work[k] /\ IsReflections(k, Going)
    BY <1>1 DEF IsReflections
  <2>. QED
    BY <2>1 DEF RunsInv, AheadInv, AheadOf, AtPair
<1>6. MakerInv'
  <2>1. PICK m \in [DOMAIN rewards -> Work] : Makers(m)
    BY DEF RunsInv, MakerInv
  <2>2. m \in [DOMAIN rewards' -> Work']
    BY DEF Untouched
  <2>3. ASSUME NEW r \in DOMAIN rewards
        PROVE  work'[m[r]] = work[m[r]] /\ IsReflections(m[r], Going \union {"done", "failed"})
    <3>1. IsReflections(m[r], Going \union {"done", "failed"})
      BY <2>1 DEF Makers
    <3>. QED
      BY <3>1 DEF IsReflections, Untouched
  <2>4. Makers(m)'
    BY <2>1, <2>3 DEF Makers, IsReflections, AtPair
  <2>. QED
    BY <2>2, <2>4 DEF MakerInv
<1>. QED
  BY <1>2, <1>3, <1>4, <1>5, <1>6 DEF RunsInv

-----------------------------------------------------------------------------
(* Requests and movements: what goes is owed no more                       *)

\* References of a reward to the wallet and the token of p, and to his owner, stay.
Spared(p) ==
  \A r \in DOMAIN rewards :
    /\ rewards[r].user = OwnerOf[p[1]] => rewards'[r].user = rewards[r].user
    /\ rewards[r].wallet = p[1] => rewards'[r].wallet = rewards[r].wallet
    /\ rewards[r].token = p[2] => rewards'[r].token = rewards[r].token

LEMMA RunsForgiven ==
  ASSUME ShapeInv, RunsInv, NEW P, work' = Forgive(P), TokensKept, RewardsStay,
         OwnersInv', \A v \in Wallets : ledger'[v] = ledger[v] \/ Upto(ledger[v], ledger'[v]),
         ledger \in [Wallets -> Ledgers], ledger' \in [Wallets -> Ledgers],
         \A r \in DOMAIN rewards : rewards[r].token = None => rewards'[r].token = None,
         \A p \in Wallets \X Nat :
           p \notin P /\ p[1] \in wallets /\ p[2] \in Listed /\ Holds(p[1], p[2]) > 0 =>
             /\ p[1] \in wallets' /\ p[2] \in Listed' /\ Holds(p[1], p[2])' > 0
             /\ Spared(p)
  PROVE  RunsInv'
<1>1. /\ Work' = Work
      /\ \A k \in Work : work'[k].kind = "reflections" => work[k].kind = "reflections"
      /\ \A k \in Work : work[k].kind = "reflections" =>
           /\ work'[k].op = work[k].op /\ work'[k].job = work[k].job
           /\ work'[k].local = work[k].local /\ work'[k].at = work[k].at
           /\ work'[k].owed = work[k].owed \ P
  BY Forgiven DEF Untouched
<1>2. \A k \in Work : \A ops : IsReflections(k, ops)' <=> IsReflections(k, ops)
  BY <1>1, Forgiven DEF IsReflections
<1>3. \A k \in Work : work[k].kind = "reflections" => AtPair(k)' = AtPair(k)
  BY <1>1 DEF AtPair
<1>4. OwedInv'
  <2> SUFFICES ASSUME NEW k \in Work', work'[k].kind = "reflections", NEW p \in work'[k].owed
               PROVE  /\ p[1] \in wallets' /\ p[2] \in Listed' /\ Holds(p[1], p[2])' > 0
                      /\ work'[k].op \in Going =>
                           /\ p[2] \in work'[k].local.toks
                           /\ \/ OwnerOf[p[1]] \in work'[k].local.users
                              \/ p \in work'[k].local.pairs
                              \/ work'[k].op # "user" /\ p = AtPair(k)'
                              \/ Shown(k, p)'
                      /\ work'[k].op = "done" => Shown(k, p)'
    BY DEF OwedInv, OwedOf
  <2>1. k \in Work /\ work[k].kind = "reflections" /\ p \in work[k].owed /\ p \notin P
    BY <1>1
  <2>2. OwedOf(k)
    BY <2>1 DEF RunsInv, OwedInv
  <2>3. p[1] \in wallets /\ p[2] \in Listed /\ Holds(p[1], p[2]) > 0 /\ p \in Wallets \X Nat
    BY <2>1, <2>2, OwedIs DEF OwedOf
  <2>4. p[1] \in wallets' /\ p[2] \in Listed' /\ Holds(p[1], p[2])' > 0 /\ Spared(p)
    BY <2>1, <2>3
  <2>5. Shown(k, p) => Shown(k, p)'
    BY <1>1, <2>1, <2>4 DEF Shown, getRewardsHistory, Spared, RewardsStay
  <2>6. AtPair(k)' = AtPair(k)
    BY <1>3, <2>1
  <2>. QED
    BY <1>1, <2>1, <2>2, <2>4, <2>5, <2>6 DEF OwedOf
<1>5. RowsInv'
  <2> SUFFICES ASSUME NEW k \in Work', IsReflections(k, Setting)' PROVE RowOf(k)'
    BY DEF RowsInv
  <2>1. k \in Work /\ IsReflections(k, Setting) /\ work[k].kind = "reflections"
    BY <1>1, <1>2 DEF IsReflections
  <2>2. RowOf(k) /\ OwedOf(k)
    BY <2>1 DEF RunsInv, RowsInv, OwedInv
  <2> DEFINE row == work[k].at.row
  <2>3. work'[k].at.row = row /\ AtPair(k)' = AtPair(k) /\ work'[k].job = work[k].job /\ work'[k].op = work[k].op
    BY <1>1, <1>3, <2>1
  <2>4. row \in DOMAIN rewards' /\ rewards'[row].token = None
    BY <2>2 DEF RowOf, RewardsStay
  <2>5. rewards'[row].of = AtPair(k) /\ rewards'[row].job = work[k].job
    BY <2>2 DEF RowOf, RewardsStay
  <2>6. \A l \in Work' \ {k} : IsReflections(l, Setting)' => work'[l].at.row # row
    <3>1. \A l \in Work \ {k} : IsReflections(l, Setting) => work[l].at.row # row
      BY <2>2 DEF RowOf
    <3>. QED
      BY <1>1, <1>2, <3>1 DEF IsReflections
  <2>7. ASSUME AtPair(k)' \in work'[k].owed
        PROVE  /\ work[k].op # "setUser" => rewards'[row].user = OwnerOf[work[k].at.wallet]
               /\ work[k].op = "setToken" => rewards'[row].wallet = work[k].at.wallet
    <3>1. AtPair(k) \in work[k].owed /\ AtPair(k) \notin P
      BY <1>1, <2>1, <2>3, <2>7
    <3>2. Spared(AtPair(k))
      BY <2>1, <2>2, <3>1, OwedIs DEF OwedOf
    <3>3. AtPair(k)[1] = work[k].at.wallet
      BY DEF AtPair
    <3>4. /\ work[k].op # "setUser" => rewards[row].user = OwnerOf[work[k].at.wallet]
          /\ work[k].op = "setToken" => rewards[row].wallet = work[k].at.wallet
          /\ row \in DOMAIN rewards
      BY <2>2, <3>1 DEF RowOf
    <3>. QED
      BY <3>2, <3>3, <3>4 DEF Spared
  <2>8. work'[k].at = work[k].at
    BY <1>1, <2>1
  <2>. QED
    BY <2>3, <2>4, <2>5, <2>6, <2>7, <2>8 DEF RowOf
<1>6. AheadInv'
  <2> SUFFICES ASSUME NEW k \in Work', IsReflections(k, Going)' PROVE AheadOf(k)'
    BY DEF AheadInv
  <2>1. k \in Work /\ IsReflections(k, Going) /\ work[k].kind = "reflections"
    BY <1>1, <1>2 DEF IsReflections
  <2>2. AheadOf(k)
    BY <2>1 DEF RunsInv, AheadInv
  <2>3. work'[k].op = "list" => Upto(work'[k].at.held, ledger'[work'[k].at.wallet])
    <3>1. work'[k].op = work[k].op /\ work'[k].at = work[k].at
      BY <1>1, <2>1
    <3>2. SUFFICES ASSUME work[k].op = "list"
                   PROVE  Upto(work[k].at.held, ledger'[work[k].at.wallet])
      BY <3>1
    <3>3. work[k].at \in [wallet : Wallets, token : Nat, held : Ledgers]
      BY <2>1, <3>2, OwedIs, ReflectionsKinds
    <3>4. PICK v \in Wallets, held \in Ledgers : v = work[k].at.wallet /\ held = work[k].at.held
      BY <3>3
    <3>5. Upto(held, ledger[v]) /\ ledger[v] \in Ledgers /\ ledger'[v] \in Ledgers
      BY <2>2, <3>2, <3>4 DEF AheadOf
    <3>6. Upto(held, ledger'[v])
      BY <3>4, <3>5 DEF Upto, Ledgers
    <3>. QED
      BY <3>4, <3>6
  <2>. QED
    BY <1>1, <1>3, <2>1, <2>2, <2>3 DEF AheadOf
<1>7. MakerInv'
  <2>1. PICK m \in [DOMAIN rewards -> Work] : Makers(m)
    BY DEF RunsInv, MakerInv
  <2>2. m \in [DOMAIN rewards' -> Work']
    BY <1>1 DEF RewardsStay
  <2>3. ASSUME NEW r \in DOMAIN rewards'
        PROVE  LET k == m[r]  of == rewards'[r].of IN
               /\ IsReflections(k, Going \union {"done", "failed"})' /\ work'[k].job = rewards'[r].job
               /\ \A s \in DOMAIN rewards' \ {r} : rewards'[s].of = of => m[s] # k
               /\ work'[k].op \in Going =>
                    /\ OwnerOf[of[1]] \notin work'[k].local.users /\ of \notin work'[k].local.pairs
                    /\ work'[k].op = "list" => of # AtPair(k)'
    <3>1. r \in DOMAIN rewards /\ m[r] \in Work /\ work[m[r]].kind = "reflections"
      BY <2>1 DEF RewardsStay, Makers, IsReflections
    <3>2. AtPair(m[r])' = AtPair(m[r])
      BY <1>3, <3>1
    <3>3. IsReflections(m[r], Going \union {"done", "failed"})'
      BY <1>2, <2>1, <3>1 DEF Makers
    <3>. QED
      BY <1>1, <2>1, <3>1, <3>2, <3>3 DEF Makers, RewardsStay
  <2>. QED
    BY <2>2, <2>3 DEF MakerInv, Makers
<1>. QED
  BY <1>4, <1>5, <1>6, <1>7 DEF RunsInv

\* A reward that refers to other rows.
Refs(S) == S \union {None}
Referring(e, user, wallet, token) == [e EXCEPT !.user = user, !.wallet = wallet, !.token = token]

LEMMA ReferringFields ==
  ASSUME NEW e \in RewardSet, NEW user \in Refs(Users), NEW wallet \in Refs(Wallets),
         NEW token \in Refs(Nat)
  PROVE  /\ Referring(e, user, wallet, token) \in RewardSet
         /\ Referring(e, user, wallet, token).user = user
         /\ Referring(e, user, wallet, token).wallet = wallet
         /\ Referring(e, user, wallet, token).token = token
         /\ Referring(e, user, wallet, token).job = e.job
         /\ Referring(e, user, wallet, token).of = e.of
         /\ Referring(e, user, wallet, token).reflections = e.reflections
         /\ Referring(e, user, wallet, token).earned = e.earned
         /\ Referring(e, user, wallet, token).strayed = e.strayed
BY DEF Referring, RewardSet, Refs

LEMMA ReferringParts ==
  ASSUME NEW e \in RewardSet
  PROVE  /\ \A user : [e EXCEPT !.user = user] = Referring(e, user, e.wallet, e.token)
         /\ \A wallet : [e EXCEPT !.wallet = wallet] = Referring(e, e.user, wallet, e.token)
         /\ \A token : [e EXCEPT !.token = token] = Referring(e, e.user, e.wallet, token)
         /\ \A user, wallet : [[e EXCEPT !.wallet = wallet] EXCEPT !.user = user]
                                = Referring(e, user, wallet, e.token)
         /\ e = Referring(e, e.user, e.wallet, e.token)
         /\ e.user \in Users \union {None} /\ e.wallet \in Wallets \union {None}
         /\ e.token \in Nat \union {None}
BY DEF Referring, RewardSet

LEMMA Referred ==
  ASSUME ShapeInv, NEW u \in [DOMAIN rewards -> Users \union {None}],
         NEW w \in [DOMAIN rewards -> Wallets \union {None}], NEW t \in [DOMAIN rewards -> Nat \union {None}],
         rewards' = [r \in DOMAIN rewards |-> Referring(rewards[r], u[r], w[r], t[r])]
  PROVE  /\ rewards' \in Seq(RewardSet) /\ RewardsStay
         /\ \A r \in DOMAIN rewards :
              rewards'[r].user = u[r] /\ rewards'[r].wallet = w[r] /\ rewards'[r].token = t[r]
<1> DEFINE d(r) == Referring(rewards[r], u[r], w[r], t[r])
<1>1. \A r \in DOMAIN rewards : rewards[r] \in RewardSet
  BY Indices
<1>2. \A r \in DOMAIN rewards :
        /\ d(r) \in RewardSet
        /\ d(r).user = u[r] /\ d(r).wallet = w[r] /\ d(r).token = t[r]
        /\ d(r).job = rewards[r].job /\ d(r).of = rewards[r].of
        /\ d(r).reflections = rewards[r].reflections /\ d(r).earned = rewards[r].earned
        /\ d(r).strayed = rewards[r].strayed
  <2> TAKE r \in DOMAIN rewards
  <2>1. /\ u[r] \in Users \union {None} /\ w[r] \in Wallets \union {None} /\ t[r] \in Nat \union {None}
        /\ rewards[r] \in RewardSet
    BY <1>1
  <2>2. u[r] \in Refs(Users) /\ w[r] \in Refs(Wallets) /\ t[r] \in Refs(Nat)
    BY <2>1 DEF Refs
  <2>. QED
    BY <2>1, <2>2, ReferringFields
<1> HIDE DEF d
<1>3. rewards' \in [DOMAIN rewards -> RewardSet] /\ rewards \in Seq(RewardSet)
  BY <1>2 DEF ShapeInv, d
<1>4. rewards' \in Seq(RewardSet) /\ DOMAIN rewards' = DOMAIN rewards
  BY <1>3, Mapped
<1>5. \A r \in DOMAIN rewards : rewards'[r] = d(r)
  BY DEF d
<1>. QED
  BY <1>2, <1>4, <1>5 DEF RewardsStay

LEMMA DeleteTokenStep ==
  ASSUME ShapeInv, RunsInv, LedgerInv, EarnedInv, NEW i, deleteToken(i)
  PROVE  ShapeInv' /\ RunsInv' /\ LedgerInv' /\ EarnedInv' /\ Recording
<1>1. /\ i \in Listed /\ i \in DOMAIN tokens /\ i \in Nat
      /\ tokens' = [tokens EXCEPT ![i].alive = FALSE]
      /\ rewards' = SetNull("token", {i}) /\ work' = Forgive(Wallets \X {i})
      /\ UNCHANGED <<config, users, wallets, ledger>>
  BY Indices DEF deleteToken, Listed
<1> DEFINE t == [tokens[i] EXCEPT !.alive = FALSE]
<1>2. t \in TokenSet /\ t.net = tokens[i].net /\ t.of = tokens[i].of /\ t.quote = tokens[i].quote /\ ~t.alive
  BY <1>1, Indices DEF TokenSet
<1>3. tokens' = [tokens EXCEPT ![i] = t]
  BY <1>1
<1> HIDE DEF t
<1>4. /\ TokensKept /\ DOMAIN tokens' = DOMAIN tokens /\ tokens'[i] = t
      /\ \A j \in DOMAIN tokens \ {i} : tokens'[j] = tokens[j]
  BY <1>1, <1>2, <1>3, TokenReplaced
<1>5. QuotesKept
  BY <1>2, <1>4 DEF QuotesKept
<1>6. Untouched({"deploy", "price"}) /\ work' \in Seq(Runs)
  BY <1>1, Forgiven DEF Untouched
<1> DEFINE tok == [r \in DOMAIN rewards |-> IF rewards[r].token = i THEN None ELSE rewards[r].token]
           usr == [r \in DOMAIN rewards |-> rewards[r].user]
           wal == [r \in DOMAIN rewards |-> rewards[r].wallet]
<1>7. \A r \in DOMAIN rewards : rewards[r] \in RewardSet
  BY Indices
<1>8. /\ tok \in [DOMAIN rewards -> Nat \union {None}]
      /\ usr \in [DOMAIN rewards -> Users \union {None}]
      /\ wal \in [DOMAIN rewards -> Wallets \union {None}]
  BY <1>7 DEF RewardSet
<1>9. rewards' = [r \in DOMAIN rewards |-> Referring(rewards[r], usr[r], wal[r], tok[r])]
  <2>1. ASSUME NEW r \in DOMAIN rewards
        PROVE  SetNull("token", {i})[r] = Referring(rewards[r], usr[r], wal[r], tok[r])
    <3>1. CASE rewards[r].token = i
      BY <1>7, <3>1, ReferringParts DEF SetNull
    <3>2. CASE rewards[r].token # i
      BY <1>7, <3>2, ReferringParts DEF SetNull
    <3>. QED
      BY <3>1, <3>2
  <2>2. SetNull("token", {i}) = [r \in DOMAIN rewards |-> SetNull("token", {i})[r]]
    BY DEF SetNull
  <2>. QED
    BY <1>1, <2>1, <2>2
<1>10. /\ rewards' \in Seq(RewardSet) /\ RewardsStay
       /\ \A r \in DOMAIN rewards :
            rewards'[r].user = usr[r] /\ rewards'[r].wallet = wal[r] /\ rewards'[r].token = tok[r]
  <2> HIDE DEF tok, usr, wal
  <2>. QED
    BY <1>8, <1>9, Referred
<1>11. \A r \in DOMAIN rewards : rewards[r].token = None => rewards'[r].token = None
  BY <1>10
<1>12. ASSUME NEW p \in Wallets \X Nat, p \notin Wallets \X {i},
              p[1] \in wallets, p[2] \in Listed, Holds(p[1], p[2]) > 0
       PROVE  /\ p[1] \in wallets' /\ p[2] \in Listed' /\ Holds(p[1], p[2])' > 0 /\ Spared(p)
  <2>1. p[2] # i /\ p[2] \in DOMAIN tokens
    BY <1>12 DEF Listed
  <2>2. tokens'[p[2]] = tokens[p[2]]
    BY <1>4, <2>1
  <2>3. Spared(p)
    BY <1>10, <2>1 DEF Spared
  <2>. QED
    BY <1>1, <1>4, <1>12, <2>1, <2>2, <2>3 DEF Listed, Holds, Balance
<1>13. OwnersInv'
  BY <1>1 DEF RunsInv, OwnersInv
<1>14. RunsInv'
  BY <1>1, <1>4, <1>10, <1>11, <1>12, <1>13, RunsForgiven DEF ShapeInv
<1>15. LedgerInv' /\ EarnedInv'
  BY <1>1, <1>10, EarnedFrame
<1>. QED
  BY <1>1, <1>4, <1>5, <1>6, <1>10, <1>14, <1>15 DEF ShapeInv, Recording, TokensKept

LEMMA DeleteAdressStep ==
  ASSUME ShapeInv, RunsInv, LedgerInv, EarnedInv, NEW w \in Wallets, deleteAdress(w)
  PROVE  ShapeInv' /\ RunsInv' /\ LedgerInv' /\ EarnedInv' /\ Recording
<1>1. /\ wallets' = wallets \ {w}
      /\ rewards' = SetNull("wallet", {w}) /\ work' = Forgive({w} \X DOMAIN tokens)
      /\ UNCHANGED <<tokens, config, users, ledger>>
  BY DEF deleteAdress
<1>2. TokensKept /\ QuotesKept
  BY <1>1, TokensSame
<1>3. Untouched({"deploy", "price"}) /\ work' \in Seq(Runs)
  BY <1>1, Forgiven DEF Untouched
<1> DEFINE tok == [r \in DOMAIN rewards |-> rewards[r].token]
           usr == [r \in DOMAIN rewards |-> rewards[r].user]
           wal == [r \in DOMAIN rewards |-> IF rewards[r].wallet = w THEN None ELSE rewards[r].wallet]
<1>4. \A r \in DOMAIN rewards : rewards[r] \in RewardSet
  BY Indices
<1>5. /\ tok \in [DOMAIN rewards -> Nat \union {None}]
      /\ usr \in [DOMAIN rewards -> Users \union {None}]
      /\ wal \in [DOMAIN rewards -> Wallets \union {None}]
  BY <1>4 DEF RewardSet
<1>6. rewards' = [r \in DOMAIN rewards |-> Referring(rewards[r], usr[r], wal[r], tok[r])]
  <2>1. ASSUME NEW r \in DOMAIN rewards
        PROVE  SetNull("wallet", {w})[r] = Referring(rewards[r], usr[r], wal[r], tok[r])
    <3>1. CASE rewards[r].wallet = w
      BY <1>4, <3>1, ReferringParts DEF SetNull
    <3>2. CASE rewards[r].wallet # w
      BY <1>4, <3>2, ReferringParts DEF SetNull
    <3>. QED
      BY <3>1, <3>2
  <2>2. SetNull("wallet", {w}) = [r \in DOMAIN rewards |-> SetNull("wallet", {w})[r]]
    BY DEF SetNull
  <2>. QED
    BY <1>1, <2>1, <2>2
<1>7. /\ rewards' \in Seq(RewardSet) /\ RewardsStay
      /\ \A r \in DOMAIN rewards :
           rewards'[r].user = usr[r] /\ rewards'[r].wallet = wal[r] /\ rewards'[r].token = tok[r]
  <2> HIDE DEF tok, usr, wal
  <2>. QED
    BY <1>5, <1>6, Referred
<1>8. ASSUME NEW p \in Wallets \X Nat, p \notin {w} \X DOMAIN tokens,
             p[1] \in wallets, p[2] \in Listed, Holds(p[1], p[2]) > 0
      PROVE  /\ p[1] \in wallets' /\ p[2] \in Listed' /\ Holds(p[1], p[2])' > 0 /\ Spared(p)
  <2>1. p[1] # w
    BY <1>8 DEF Listed
  <2>2. Spared(p)
    BY <1>7, <2>1 DEF Spared
  <2>. QED
    BY <1>1, <1>8, <2>1, <2>2 DEF Listed, Holds, Balance
<1>9. OwnersInv'
  BY <1>1 DEF RunsInv, OwnersInv
<1>10. \A r \in DOMAIN rewards : rewards[r].token = None => rewards'[r].token = None
  BY <1>7
<1>11. RunsInv'
  BY <1>1, <1>2, <1>7, <1>8, <1>9, <1>10, RunsForgiven DEF ShapeInv
<1>12. LedgerInv' /\ EarnedInv'
  BY <1>1, <1>7, EarnedFrame
<1>. QED
  BY <1>1, <1>2, <1>3, <1>7, <1>11, <1>12 DEF ShapeInv, Recording

LEMMA DeleteUserStep ==
  ASSUME ShapeInv, RunsInv, LedgerInv, EarnedInv, NEW u \in Users, deleteUser(u)
  PROVE  ShapeInv' /\ RunsInv' /\ LedgerInv' /\ EarnedInv' /\ Recording
<1> DEFINE W == {w \in Wallets : OwnerOf[w] = u}
<1>1. /\ users' = users \ {u} /\ wallets' = wallets \ W
      /\ rewards' = [r \in DOMAIN rewards |->
           [SetNull("wallet", W)[r] EXCEPT !.user = IF @ = u THEN None ELSE @]]
      /\ work' = Forgive(W \X DOMAIN tokens)
      /\ UNCHANGED <<tokens, config, ledger>>
  BY DEF deleteUser
<1>2. TokensKept /\ QuotesKept
  BY <1>1, TokensSame
<1>3. Untouched({"deploy", "price"}) /\ work' \in Seq(Runs)
  BY <1>1, Forgiven DEF Untouched
<1> DEFINE tok == [r \in DOMAIN rewards |-> rewards[r].token]
           usr == [r \in DOMAIN rewards |-> IF rewards[r].user = u THEN None ELSE rewards[r].user]
           wal == [r \in DOMAIN rewards |-> IF rewards[r].wallet \in W THEN None ELSE rewards[r].wallet]
<1>4. \A r \in DOMAIN rewards : rewards[r] \in RewardSet
  BY Indices
<1>5. /\ tok \in [DOMAIN rewards -> Nat \union {None}]
      /\ usr \in [DOMAIN rewards -> Users \union {None}]
      /\ wal \in [DOMAIN rewards -> Wallets \union {None}]
  BY <1>4 DEF RewardSet
<1>6. rewards' = [r \in DOMAIN rewards |-> Referring(rewards[r], usr[r], wal[r], tok[r])]
  <2>1. ASSUME NEW r \in DOMAIN rewards
        PROVE  [SetNull("wallet", W)[r] EXCEPT !.user = IF @ = u THEN None ELSE @]
                 = Referring(rewards[r], usr[r], wal[r], tok[r])
    <3> DEFINE e == [rewards[r] EXCEPT !.wallet = wal[r]]
    <3>1. rewards[r] \in RewardSet
      BY <1>4
    <3>2. SetNull("wallet", W)[r] = e
      BY <3>1 DEF SetNull, RewardSet
    <3>3. e.user = rewards[r].user
      BY <3>1 DEF RewardSet
    <3>4. [e EXCEPT !.user = IF @ = u THEN None ELSE @] = [e EXCEPT !.user = usr[r]]
      BY <3>3
    <3>5. [e EXCEPT !.user = usr[r]] = Referring(rewards[r], usr[r], wal[r], rewards[r].token)
      BY <3>1 DEF Referring, RewardSet
    <3>. QED
      BY <3>2, <3>4, <3>5
  <2>. QED
    BY <1>1, <2>1
<1>7. /\ rewards' \in Seq(RewardSet) /\ RewardsStay
      /\ \A r \in DOMAIN rewards :
           rewards'[r].user = usr[r] /\ rewards'[r].wallet = wal[r] /\ rewards'[r].token = tok[r]
  <2> HIDE DEF tok, usr, wal
  <2>. QED
    BY <1>5, <1>6, Referred
<1>8. ASSUME NEW p \in Wallets \X Nat, p \notin W \X DOMAIN tokens,
             p[1] \in wallets, p[2] \in Listed, Holds(p[1], p[2]) > 0
      PROVE  /\ p[1] \in wallets' /\ p[2] \in Listed' /\ Holds(p[1], p[2])' > 0 /\ Spared(p)
  <2>1. p[1] \notin W /\ OwnerOf[p[1]] # u
    BY <1>8 DEF Listed
  <2>2. Spared(p)
    BY <1>7, <2>1 DEF Spared
  <2>. QED
    BY <1>1, <1>8, <2>1, <2>2 DEF Listed, Holds, Balance
<1>9. OwnersInv'
  BY <1>1 DEF RunsInv, OwnersInv, ShapeInv
<1>10. \A r \in DOMAIN rewards : rewards[r].token = None => rewards'[r].token = None
  BY <1>7
<1>11. RunsInv'
  BY <1>1, <1>2, <1>7, <1>8, <1>9, <1>10, RunsForgiven DEF ShapeInv
<1>12. LedgerInv' /\ EarnedInv'
  BY <1>1, <1>7, EarnedFrame
<1>. QED
  BY <1>1, <1>2, <1>3, <1>7, <1>11, <1>12 DEF ShapeInv, Recording

LEMMA MovedParts ==
  ASSUME NEW l \in Ledgers, NEW a \in Nat, NEW b \in Nat
  PROVE  /\ l.in \in Nat /\ l.out \in Nat /\ l.fees \in Nat /\ l.reflected \in Nat
         /\ [l EXCEPT !.in = a, !.fees = b] \in Ledgers
         /\ [l EXCEPT !.out = a, !.fees = b] \in Ledgers
         /\ [l EXCEPT !.reflected = a, !.fees = b] \in Ledgers
BY DEF Ledgers

LEMMA Moved ==
  ASSUME NEW l \in Ledgers
  PROVE  /\ l.in \in Nat /\ l.out \in Nat /\ l.fees \in Nat /\ l.reflected \in Nat
         /\ LET m == [l EXCEPT !.in = l.in + 1, !.fees = l.fees] IN
            /\ m \in Ledgers /\ m.in = l.in + 1 /\ m.out = l.out
            /\ m.fees = l.fees /\ m.reflected = l.reflected
         /\ LET m == [l EXCEPT !.out = l.out + 1, !.fees = l.fees + 1] IN
            /\ m \in Ledgers /\ m.in = l.in /\ m.out = l.out + 1
            /\ m.fees = l.fees + 1 /\ m.reflected = l.reflected
         /\ LET m == [l EXCEPT !.reflected = l.reflected + 1, !.fees = l.fees] IN
            /\ m \in Ledgers /\ m.in = l.in /\ m.out = l.out
            /\ m.fees = l.fees /\ m.reflected = l.reflected + 1
<1>1. /\ l.in \in Nat /\ l.out \in Nat /\ l.fees \in Nat /\ l.reflected \in Nat
      /\ l.in + 1 \in Nat /\ l.out + 1 \in Nat /\ l.fees + 1 \in Nat /\ l.reflected + 1 \in Nat
  BY DEF Ledgers
<1>2. /\ [l EXCEPT !.in = l.in + 1, !.fees = l.fees] \in Ledgers
      /\ [l EXCEPT !.out = l.out + 1, !.fees = l.fees + 1] \in Ledgers
      /\ [l EXCEPT !.reflected = l.reflected + 1, !.fees = l.fees] \in Ledgers
  BY <1>1, MovedParts
<1>. QED
  BY <1>1, <1>2 DEF Ledgers

LEMMA MoveStep ==
  ASSUME ShapeInv, RunsInv, LedgerInv, EarnedInv, NEW w \in Wallets,
         NEW what \in {"in", "out", "reflected"}, move(w, what)
  PROVE  ShapeInv' /\ RunsInv' /\ LedgerInv' /\ EarnedInv' /\ Recording
<1> DEFINE P == IF what = "out" /\ Balance(w) = 2 THEN {w} \X DOMAIN tokens ELSE {}
<1>1. UNCHANGED <<tokens, config, users, wallets, rewards>> /\ work' = Forgive(P)
  BY DEF move
<1>2. /\ what = "out" => Balance(w) >= 2
      /\ what = "reflected" => Balance(w) >= 1
  BY DEF move
<1>3. /\ ledger \in [Wallets -> Ledgers] /\ ledger[w] \in Ledgers
      /\ Early[w] \in Nat /\ \A v \in Wallets : Early[v] \in Nat
  BY HourlyAssumption DEF ShapeInv
<1> HIDE DEF P
<1> DEFINE moved == IF what = "in" THEN [ledger[w] EXCEPT !.in = ledger[w].in + 1, !.fees = ledger[w].fees]
                    ELSE IF what = "out"
                    THEN [ledger[w] EXCEPT !.out = ledger[w].out + 1, !.fees = ledger[w].fees + 1]
                    ELSE [ledger[w] EXCEPT !.reflected = ledger[w].reflected + 1, !.fees = ledger[w].fees]
<1>4. /\ ledger[w].in \in Nat /\ ledger[w].out \in Nat /\ ledger[w].fees \in Nat
      /\ ledger[w].reflected \in Nat
  BY <1>3 DEF Ledgers
<1>5. /\ moved \in Ledgers
      /\ what = "in" => /\ moved.in = ledger[w].in + 1 /\ moved.out = ledger[w].out
                        /\ moved.fees = ledger[w].fees /\ moved.reflected = ledger[w].reflected
      /\ what = "out" => /\ moved.in = ledger[w].in /\ moved.out = ledger[w].out + 1
                         /\ moved.fees = ledger[w].fees + 1 /\ moved.reflected = ledger[w].reflected
      /\ what = "reflected" => /\ moved.in = ledger[w].in /\ moved.out = ledger[w].out
                               /\ moved.fees = ledger[w].fees
                               /\ moved.reflected = ledger[w].reflected + 1
  <2>1. CASE what = "in"
    BY <1>3, <2>1, Moved
  <2>2. CASE what = "out"
    BY <1>3, <2>2, Moved
  <2>3. CASE what = "reflected"
    BY <1>3, <2>3, Moved
  <2>. QED
    BY <2>1, <2>2, <2>3
<1>6. /\ ledger' \in [Wallets -> Ledgers] /\ ledger'[w] = moved
      /\ \A v \in Wallets \ {w} : ledger'[v] = ledger[v]
  <2>1. ledger' = [ledger EXCEPT ![w] = moved]
    <3>1. CASE what = "in"
      BY <3>1, Zenon DEF move
    <3>2. CASE what = "out"
      BY <3>2, Zenon DEF move
    <3>3. CASE what = "reflected"
      BY <3>3, Zenon DEF move
    <3>. QED
      BY <3>1, <3>2, <3>3
  <2> HIDE DEF moved
  <2>. QED
    BY <1>3, <1>5, <2>1
<1>7. /\ Balance(w) \in Int /\ Balance(w)' \in Int
      /\ (Balance(w)' >= Balance(w) \/ (what = "out" /\ Balance(w)' = Balance(w) - 2))
  <2> HIDE DEF moved
  <2>1. Balance(w) = Early[w] + ledger[w].in - ledger[w].out - ledger[w].fees + ledger[w].reflected
    BY DEF Balance
  <2>2. Balance(w)' = Early[w] + moved.in - moved.out - moved.fees + moved.reflected
    BY <1>6 DEF Balance
  <2>3. CASE what = "in"
    <3>1. Balance(w)' = Early[w] + (ledger[w].in + 1) - ledger[w].out - ledger[w].fees + ledger[w].reflected
      BY <1>5, <2>2, <2>3
    <3>2. Balance(w)' = Balance(w) + 1 /\ Balance(w) \in Int
      BY <1>3, <1>4, <2>1, <3>1
    <3>. QED
      BY <3>2
  <2>4. CASE what = "out"
    BY <1>3, <1>4, <1>5, <2>1, <2>2, <2>4
  <2>5. CASE what = "reflected"
    <3>1. Balance(w)' = Early[w] + ledger[w].in - ledger[w].out - ledger[w].fees + (ledger[w].reflected + 1)
      BY <1>5, <2>2, <2>5
    <3>2. Balance(w)' = Balance(w) + 1 /\ Balance(w) \in Int
      BY <1>3, <1>4, <2>1, <3>1
    <3>. QED
      BY <3>2
  <2>. QED
    BY <2>3, <2>4, <2>5
<1> HIDE DEF moved
<1>8. TokensKept /\ QuotesKept
  BY <1>1, TokensSame
<1>9. Untouched({"deploy", "price"}) /\ work' \in Seq(Runs)
  <2>. QED
    BY <1>1, Forgiven DEF Untouched
<1>10. LedgerInv'
  <2> SUFFICES ASSUME NEW v \in Wallets, Early[v] = 0, ledger'[v].in = 0, ledger'[v].out = 0
               PROVE  ledger'[v].reflected = 0 /\ ledger'[v].fees = 0
    BY DEF LedgerInv
  <2>1. CASE v # w
    BY <1>6, <2>1 DEF LedgerInv
  <2>2. CASE v = w
    <3>1. what = "reflected" /\ ledger[w].in = 0 /\ ledger[w].out = 0
      BY <1>4, <1>5, <1>6, <2>2
    <3>2. ledger[w].reflected = 0 /\ ledger[w].fees = 0
      BY <2>2, <3>1 DEF LedgerInv
    <3>3. Balance(w) = 0 + 0 - 0 - 0 + 0
      BY <2>2, <3>1, <3>2 DEF Balance
    <3>. QED
      BY <1>2, <3>1, <3>3
  <2>. QED
    BY <2>1, <2>2
<1>11. EarnedInv'
  BY <1>1 DEF EarnedInv
<1>12. RewardsStay /\ \A p : Spared(p)
  BY <1>1 DEF RewardsStay, Spared
<1>13. ASSUME NEW p \in Wallets \X Nat, p \notin P,
              p[1] \in wallets, p[2] \in Listed, Holds(p[1], p[2]) > 0
       PROVE  /\ p[1] \in wallets' /\ p[2] \in Listed' /\ Holds(p[1], p[2])' > 0 /\ Spared(p)
  <2>1. tokens[p[2]].of = 0 /\ Balance(p[1]) > 0
    BY <1>13 DEF Holds
  <2>2. Balance(p[1])' > 0
    <3>1. CASE p[1] # w
      BY <1>6, <1>13, <2>1, <3>1 DEF Balance
    <3>2. CASE p[1] = w
      <4>1. what = "out" => Balance(w) # 2
        <5>1. p \in {w} \X DOMAIN tokens
          BY <1>13, <3>2 DEF Listed
        <5>. QED
          BY <1>13, <5>1 DEF P
      <4>2. Balance(w) > 0
        BY <2>1, <3>2
      <4>3. Balance(w)' > 0
        BY <1>2, <1>7, <4>1, <4>2
      <4>. QED
        BY <3>2, <4>3
    <3>. QED
      BY <3>1, <3>2
  <2>. QED
    BY <1>1, <1>12, <1>13, <2>1, <2>2 DEF Listed, Holds
<1>14. OwnersInv'
  BY <1>1 DEF RunsInv, OwnersInv
<1>15. RunsInv'
  <2>1. \A v \in Wallets : ledger'[v] = ledger[v] \/ Upto(ledger[v], ledger'[v])
    <3>1. Upto(ledger[w], moved)
      BY <1>4, <1>5 DEF Upto
    <3>. QED
      BY <1>6, <3>1
  <2>. QED
    BY <1>1, <1>3, <1>6, <1>8, <1>12, <1>13, <1>14, <2>1, RunsForgiven
<1>. QED
  BY <1>1, <1>6, <1>8, <1>9, <1>10, <1>11, <1>15 DEF ShapeInv, Recording

LEMMA EditStep ==
  ASSUME ShapeInv, RunsInv, LedgerInv, EarnedInv,
         \/ \E net \in Nets : updateConfiguration(net) \/ addToken(net, "CHAT")
         \/ \E i \in Edited : updateToken(i)
  PROVE  ShapeInv' /\ RunsInv' /\ LedgerInv' /\ EarnedInv' /\ Recording
<1>1. UNCHANGED <<users, wallets, ledger, rewards, work>>
  BY DEF updateConfiguration, addToken, updateToken
<1>2. Untouched({"reflections"}) /\ Untouched({"deploy", "price"})
  BY <1>1, UntouchedByNone
<1>3. RewardsStay
  BY <1>1 DEF RewardsStay
<1>4. LedgerInv' /\ EarnedInv'
  BY <1>1, <1>3, EarnedFrame
<1>5. CASE \E net \in Nets : updateConfiguration(net)
  <2>1. /\ tokens' = tokens /\ config'.presale = config.presale /\ config'.locker = config.locker
        /\ config' \in [mode : Nets, presale : Nat \union {None}, locker : Nat \union {None}]
    BY <1>5 DEF updateConfiguration, ShapeInv
  <2>2. TokensKept /\ AliveKept /\ QuotesKept
    BY <2>1, TokensSame
  <2>3. RunsInv'
    BY <1>1, <1>2, <2>2, RunsFrame
  <2>. QED
    BY <1>1, <1>2, <1>4, <2>1, <2>2, <2>3 DEF ShapeInv, Recording
<1>6. ASSUME NEW net \in Nets, addToken(net, "CHAT")
      PROVE  ShapeInv' /\ RunsInv' /\ LedgerInv' /\ EarnedInv' /\ Recording
  <2>1. config' = config /\ insertToken(Token(net, "CHAT", 0, FALSE)) /\ 0 \in Nat
    BY <1>6 DEF addToken
  <2>2. TokensKept /\ AliveKept /\ QuotesKept
    BY <2>1, TokenAdded
  <2>3. RunsInv'
    BY <1>1, <1>2, <2>2, RunsFrame
  <2>. QED
    BY <1>1, <1>2, <1>4, <2>1, <2>2, <2>3 DEF ShapeInv, Recording, TokensKept
<1>7. ASSUME NEW i \in Edited, updateToken(i)
      PROVE  ShapeInv' /\ RunsInv' /\ LedgerInv' /\ EarnedInv' /\ Recording
  <2>1. config' = config /\ i \in DOMAIN tokens /\ tokens' = [tokens EXCEPT ![i].rewards = FALSE]
    BY <1>7 DEF updateToken, Listed
  <2> DEFINE t == [tokens[i] EXCEPT !.rewards = FALSE]
  <2>2. /\ t \in TokenSet /\ t.net = tokens[i].net /\ t.of = tokens[i].of /\ t.quote = tokens[i].quote
        /\ (t.alive <=> tokens[i].alive)
    BY <2>1, Indices DEF TokenSet
  <2>3. tokens' = [tokens EXCEPT ![i] = t]
    BY <2>1
  <2> HIDE DEF t
  <2>4. /\ TokensKept /\ DOMAIN tokens' = DOMAIN tokens /\ tokens'[i] = t
        /\ \A j \in DOMAIN tokens \ {i} : tokens'[j] = tokens[j]
    BY <2>1, <2>2, <2>3, TokenReplaced
  <2>5. AliveKept /\ QuotesKept
    BY <2>2, <2>4 DEF AliveKept, QuotesKept
  <2>6. RunsInv'
    BY <1>1, <1>2, <2>4, <2>5, RunsFrame
  <2>. QED
    BY <1>1, <1>2, <1>4, <2>1, <2>4, <2>5, <2>6 DEF ShapeInv, Recording, TokensKept
<1>. QED
  BY <1>5, <1>6, <1>7

-----------------------------------------------------------------------------
(* The reflections job: its steps                                          *)

\* Run k goes on with this continuation.
ReflectionsGoOn(k, op, local, at, owed) ==
  /\ work[k].kind = "reflections" /\ owed \in SUBSET (Wallets \X Nat)
  /\ \/ op \in {"users", "done", "failed"} /\ local = None /\ at = None
     \/ op = "user" /\ local \in Locals /\ at = None
     \/ op = "list" /\ local \in Locals /\ at \in [wallet : Wallets, token : Nat, held : Ledgers]
     \/ op \in Setting /\ local \in Locals /\ at \in [wallet : Wallets, token : Nat, row : Nat]
  /\ work' = [work EXCEPT ![k] = Resumed(work[k], op, local, at, owed)]

LEMMA ReflectionsRun ==
  ASSUME ShapeInv, NEW k \in Work, NEW op, NEW local, NEW at, NEW owed,
         ReflectionsGoOn(k, op, local, at, owed)
  PROVE  /\ GoesOn(k) /\ Untouched({"deploy", "price"})
         /\ work'[k].kind = "reflections" /\ work'[k].op = op /\ work'[k].local = local
         /\ work'[k].at = at /\ work'[k].owed = owed
         /\ work'[k].job = work[k].job /\ work'[k].net = work[k].net
<1> DEFINE r == Resumed(work[k], op, local, at, owed)
<1>1. work[k] \in ReflectionsRuns /\ owed \in SUBSET (Wallets \X Nat) /\ work[k].kind = "reflections"
  BY Indices, Kinds DEF ReflectionsGoOn
<1>2. /\ r.kind = "reflections" /\ r.op = op /\ r.local = local /\ r.at = at /\ r.owed = owed
      /\ r.job = work[k].job /\ r.net = work[k].net
  BY <1>1, ResumedFields
<1>3. r \in ReflectionsRuns
  BY <1>1 DEF ReflectionsGoOn, Resumed, ReflectionsRuns, Reflecting
<1>4. work' = [work EXCEPT ![k] = r]
  BY DEF ReflectionsGoOn
<1> HIDE DEF r
<1>5. r \in Runs /\ r.kind = work[k].kind
  BY <1>1, <1>2, <1>3 DEF Runs
<1>6. GoesOn(k) /\ work'[k] = r
  BY <1>4, <1>5, RunGoesOn
<1>. QED
  BY <1>1, <1>2, <1>6, UntouchedByOne

\* The rows run k does not fill stay as they are.
OthersRowsStay(k) ==
  /\ rewards' \in Seq(RewardSet) /\ DOMAIN rewards \subseteq DOMAIN rewards'
  /\ \A r \in DOMAIN rewards :
       /\ rewards'[r].job = rewards[r].job /\ rewards'[r].of = rewards[r].of
       /\ \/ rewards'[r] = rewards[r]
          \/ rewards[r].token = None /\ IsReflections(k, Setting) /\ work[k].at.row = r

\* What is shown stays, for the row that is filled was not.
LEMMA ShownStays ==
  ASSUME ShapeInv, NEW k \in Work, OthersRowsStay(k), NEW l \in Work,
         work'[l].job = work[l].job, NEW p \in Wallets \X Nat, Shown(l, p)
  PROVE  Shown(l, p)'
<1>1. PICK r \in DOMAIN rewards :
        /\ rewards[r].user = OwnerOf[p[1]] /\ rewards[r].wallet = p[1] /\ rewards[r].token = p[2]
        /\ rewards[r].job = work[l].job
  BY DEF Shown, getRewardsHistory
<1>2. p[2] # None
  BY Indices
<1>3. r \in DOMAIN rewards' /\ rewards'[r] = rewards[r]
  BY <1>1, <1>2 DEF OthersRowsStay
<1>. QED
  BY <1>1, <1>3 DEF Shown, getRewardsHistory

\* What a step of run k has to show, of itself alone.
LEMMA RunsStep ==
  ASSUME ShapeInv, RunsInv, NEW k \in Work, work[k].kind = "reflections", GoesOn(k),
         work'[k].job = work[k].job,
         UNCHANGED <<tokens, users, wallets, ledger>>, OthersRowsStay(k),
         OwedOf(k)', IsReflections(k, Setting)' => RowOf(k)',
         IsReflections(k, Going)' => AheadOf(k)', MakerInv'
  PROVE  RunsInv'
<1>1. /\ Work' = Work /\ work'[k].kind = "reflections"
      /\ \A l \in Work \ {k} : work'[l] = work[l] /\ AtPair(l)' = AtPair(l)
  BY DEF GoesOn, AtPair
<1>2. OwnersInv'
  BY DEF RunsInv, OwnersInv
<1>3. OwedInv'
  <2> SUFFICES ASSUME NEW l \in Work, l # k, work[l].kind = "reflections" PROVE OwedOf(l)'
    BY <1>1 DEF OwedInv
  <2>1. work'[l] = work[l] /\ AtPair(l)' = AtPair(l)
    BY <1>1
  <2>2. OwedOf(l)
    BY DEF RunsInv, OwedInv
  <2>3. \A p \in work[l].owed : Shown(l, p) => Shown(l, p)'
    BY <2>1, ShownStays, OwedIs
  <2>4. Listed' = Listed /\ \A p : Holds(p[1], p[2])' = Holds(p[1], p[2])
    BY DEF Listed, Holds, Balance
  <2>. QED
    BY <2>1, <2>2, <2>3, <2>4 DEF OwedOf
<1>4. RowsInv'
  <2> SUFFICES ASSUME NEW l \in Work, l # k, IsReflections(l, Setting)' PROVE RowOf(l)'
    BY <1>1 DEF RowsInv
  <2>1. work'[l] = work[l] /\ AtPair(l)' = AtPair(l) /\ IsReflections(l, Setting)
    BY <1>1 DEF IsReflections
  <2> DEFINE row == work[l].at.row
  <2>2. RowOf(l)
    BY <2>1 DEF RunsInv, RowsInv
  <2>3. row \in DOMAIN rewards /\ row \in DOMAIN rewards'
    BY <2>2 DEF RowOf, OthersRowsStay
  <2>4. IsReflections(k, Setting) => work[k].at.row # row
    BY <2>2 DEF RowOf
  <2>5. rewards'[row] = rewards[row]
    BY <2>3, <2>4 DEF OthersRowsStay
  <2>6. IsReflections(k, Setting)' => work'[k].at.row # row
    BY <1>1, <2>1 DEF RowOf
  <2>7. \A j \in Work \ {l} : IsReflections(j, Setting)' => work'[j].at.row # row
    BY <1>1, <2>2, <2>6 DEF RowOf, IsReflections
  <2>. QED
    BY <1>1, <2>1, <2>2, <2>3, <2>5, <2>7 DEF RowOf
<1>5. AheadInv'
  <2> SUFFICES ASSUME NEW l \in Work, l # k, IsReflections(l, Going)' PROVE AheadOf(l)'
    BY <1>1 DEF AheadInv
  <2>. QED
    BY <1>1 DEF RunsInv, AheadInv, AheadOf, IsReflections
<1>. QED
  BY <1>2, <1>3, <1>4, <1>5 DEF RunsInv

\* Run k has gone past wallet and token p.
PastBy(k, p) ==
  /\ OwnerOf[p[1]] \notin work[k].local.users /\ p \notin work[k].local.pairs
  /\ work[k].op = "list" => p # AtPair(k)

\* Makers stay makers while run k leaves behind what it has gone past.
LEMMA MakersStay ==
  ASSUME ShapeInv, RunsInv, NEW k \in Work, GoesOn(k), work'[k].job = work[k].job,
         DOMAIN rewards' = DOMAIN rewards,
         \A r \in DOMAIN rewards : rewards'[r].job = rewards[r].job /\ rewards'[r].of = rewards[r].of,
         \/ work[k].op \notin Going \union {"done", "failed"}
         \/ /\ work'[k].op \in Going \union {"done", "failed"}
            /\ work'[k].op \in Going =>
                 /\ work[k].op \in Going
                 /\ \A p \in Wallets \X Nat : PastBy(k, p) => PastBy(k, p)'
  PROVE  MakerInv'
<1>1. PICK m \in [DOMAIN rewards -> Work] : Makers(m)
  BY DEF RunsInv, MakerInv
<1>2. /\ Work' = Work /\ work'[k].kind = work[k].kind
      /\ \A l \in Work \ {k} : work'[l] = work[l] /\ AtPair(l)' = AtPair(l)
  BY DEF GoesOn, AtPair
<1>3. ASSUME NEW r \in DOMAIN rewards'
      PROVE  LET l == m[r]  of == rewards'[r].of IN
             /\ IsReflections(l, Going \union {"done", "failed"})' /\ work'[l].job = rewards'[r].job
             /\ \A s \in DOMAIN rewards' \ {r} : rewards'[s].of = of => m[s] # l
             /\ work'[l].op \in Going =>
                  /\ OwnerOf[of[1]] \notin work'[l].local.users /\ of \notin work'[l].local.pairs
                  /\ work'[l].op = "list" => of # AtPair(l)'
  <2> DEFINE l == m[r]  of == rewards[r].of
  <2>1. /\ r \in DOMAIN rewards /\ l \in Work /\ rewards'[r].of = of /\ rewards'[r].job = rewards[r].job
        /\ of \in Wallets \X Nat
    BY <1>1, Indices DEF RewardSet
  <2>2. /\ IsReflections(l, Going \union {"done", "failed"}) /\ work[l].job = rewards[r].job
        /\ \A s \in DOMAIN rewards \ {r} : rewards[s].of = of => m[s] # l
        /\ work[l].op \in Going =>
             /\ OwnerOf[of[1]] \notin work[l].local.users /\ of \notin work[l].local.pairs
             /\ work[l].op = "list" => of # AtPair(l)
    BY <1>1, <2>1 DEF Makers
  <2>3. \A s \in DOMAIN rewards' \ {r} : rewards'[s].of = of => m[s] # l
    BY <2>2
  <2> HIDE DEF l, of
  <2>4. CASE l # k
    BY <1>2, <2>1, <2>2, <2>3, <2>4 DEF IsReflections, l, of
  <2>5. CASE l = k
    <3>1. /\ work'[k].op \in Going \union {"done", "failed"}
          /\ work'[k].op \in Going =>
                 /\ OwnerOf[of[1]] \notin work'[k].local.users /\ of \notin work'[k].local.pairs
                 /\ work'[k].op = "list" => of # AtPair(k)'
      BY <2>1, <2>2, <2>5 DEF IsReflections, PastBy
    <3>2. IsReflections(k, Going \union {"done", "failed"})'
      BY <1>2, <2>2, <2>5, <3>1 DEF IsReflections
    <3>. QED
      BY <2>1, <2>2, <2>3, <2>5, <3>1, <3>2 DEF l, of
  <2>. QED
    BY <2>4, <2>5
<1>. QED
  BY <1>1, <1>2, <1>3 DEF MakerInv, Makers

\* Steps that leave the rewards alone, and fill none.
LEMMA RunLooks ==
  ASSUME ShapeInv, RunsInv, LedgerInv, EarnedInv, NEW k \in Work, NEW op, NEW local, NEW at, NEW owed,
         ReflectionsGoOn(k, op, local, at, owed), op \notin Setting,
         UNCHANGED <<tokens, config, users, wallets, ledger, rewards>>,
         OwedOf(k)', op \in Going => AheadOf(k)',
         \/ work[k].op \notin Going \union {"done", "failed"}
         \/ /\ op \in Going \union {"done", "failed"}
            /\ op \in Going =>
                 work[k].op \in Going /\ \A p \in Wallets \X Nat : PastBy(k, p) => PastBy(k, p)'
  PROVE  ShapeInv' /\ RunsInv' /\ LedgerInv' /\ EarnedInv' /\ Recording
<1>1. /\ GoesOn(k) /\ Untouched({"deploy", "price"}) /\ work[k].kind = "reflections"
      /\ work'[k].kind = "reflections" /\ work'[k].op = op /\ work'[k].job = work[k].job
  <2>1. work[k].kind = "reflections"
    BY DEF ReflectionsGoOn
  <2>. QED
    BY <2>1, ReflectionsRun
<1>2. TokensKept /\ QuotesKept
  BY TokensSame
<1>3. OthersRowsStay(k)
  BY DEF OthersRowsStay, ShapeInv
<1>4. MakerInv'
  BY <1>1, MakersStay
<1>5. /\ IsReflections(k, Setting)' => RowOf(k)'
      /\ IsReflections(k, Going)' => AheadOf(k)'
  BY <1>1 DEF IsReflections
<1>6. RunsInv'
  BY <1>1, <1>3, <1>4, <1>5, RunsStep
<1>7. LedgerInv' /\ EarnedInv'
  BY EarnedFrame DEF RewardsStay
<1>8. ShapeInv'
  BY <1>1 DEF ShapeInv, GoesOn
<1>. QED
  BY <1>1, <1>2, <1>6, <1>7, <1>8 DEF Recording

LEMMA RunFails ==
  ASSUME ShapeInv, RunsInv, LedgerInv, EarnedInv, NEW k \in Work, work[k].kind = "reflections",
         work' = [work EXCEPT ![k] = [@ EXCEPT !.op = "failed", !.local = None, !.at = None]],
         UNCHANGED <<tokens, config, users, wallets, ledger, rewards>>
  PROVE  ShapeInv' /\ RunsInv' /\ LedgerInv' /\ EarnedInv' /\ Recording
<1>1. work[k] \in ReflectionsRuns /\ work[k].owed \in SUBSET (Wallets \X Nat)
  BY OwedIs
<1>2. ReflectionsGoOn(k, "failed", None, None, work[k].owed)
  <2>1. work' = [work EXCEPT ![k] = Resumed(work[k], "failed", None, None, work[k].owed)]
    <3>1. [work[k] EXCEPT !.op = "failed", !.local = None, !.at = None]
            = Resumed(work[k], "failed", None, None, work[k].owed)
      BY <1>1 DEF Resumed, ReflectionsRuns, Reflecting
    <3>. QED
      BY <3>1
  <2>. QED
    BY <1>1, <2>1 DEF ReflectionsGoOn
<1>3. work'[k].op = "failed" /\ work'[k].owed = work[k].owed
  BY <1>2, ReflectionsRun
<1>4. "failed" \notin Going /\ "failed" \notin Setting
  BY DEF Going, Setting
<1>5. OwedOf(k)'
  <2>1. OwedOf(k)
    BY DEF RunsInv, OwedInv
  <2>. QED
    BY <1>3, <1>4, <2>1 DEF OwedOf, Listed, Holds, Balance
<1>. QED
  BY <1>2, <1>4, <1>5, RunLooks

LEMMA StartReflectionsStep ==
  ASSUME ShapeInv, RunsInv, LedgerInv, EarnedInv, NEW job \in Nat, startReflections(job)
  PROVE  ShapeInv' /\ RunsInv' /\ LedgerInv' /\ EarnedInv' /\ Recording
<1> DEFINE owed == {p \in wallets \X Listed :
                      tokens[p[2]].rewards /\ tokens[p[2]].net = config.mode /\ Holds(p[1], p[2]) > 0}
           r == [kind |-> "reflections", op |-> "users", job |-> job, net |-> config.mode,
                 local |-> None, at |-> None, owed |-> owed]
<1>1. Begin(r) /\ UNCHANGED <<tokens, config, users, wallets, ledger, rewards>>
  BY DEF startReflections, rest
<1>2. /\ owed \subseteq Wallets \X Nat
      /\ \A p \in owed : p[1] \in wallets /\ p[2] \in Listed /\ Holds(p[1], p[2]) > 0
  BY Indices DEF ShapeInv, Listed
<1> HIDE DEF owed
<1>3. r \in ReflectionsRuns /\ r.kind = "reflections" /\ r.op = "users" /\ r.owed = owed
  BY <1>2 DEF ReflectionsRuns, Reflecting, ShapeInv
<1> HIDE DEF r
<1>4. r \in Runs
  BY <1>3 DEF Runs
<1>5. PICK n \in Nat :
      /\ work' \in Seq(Runs) /\ Work' = Work \union {n} /\ n \in Nat \ {0} /\ n \notin Work
      /\ \A j \in Work : work'[j] = work[j] /\ j < n
      /\ work'[n] = r
  BY <1>1, <1>4, RunBegins
<1>6. Untouched({"deploy", "price"})
  BY <1>1, <1>3, <1>4, UntouchedByNew
<1>7. TokensKept /\ QuotesKept
  BY <1>1, TokensSame
<1>8. "users" \notin Going /\ "users" \notin Setting
  BY DEF Going, Setting
<1>9. /\ \A k \in Work : work'[k] = work[k] /\ AtPair(k)' = AtPair(k)
      /\ Listed' = Listed /\ \A w, i : Holds(w, i)' = Holds(w, i)
      /\ ~IsReflections(n, Going)' /\ ~IsReflections(n, Setting)'
  <2>1. \A k \in Work : work'[k] = work[k] /\ AtPair(k)' = AtPair(k)
    BY <1>5 DEF AtPair
  <2>2. Listed' = Listed /\ \A w, i : Holds(w, i)' = Holds(w, i)
    BY <1>1 DEF Listed, Holds, Balance
  <2>3. ~IsReflections(n, Going)' /\ ~IsReflections(n, Setting)'
    BY <1>3, <1>5, <1>8 DEF IsReflections
  <2>. QED
    BY <2>1, <2>2, <2>3
<1>10. ASSUME NEW k \in Work, NEW ops PROVE IsReflections(k, ops)' <=> IsReflections(k, ops)
  BY <1>9 DEF IsReflections
<1>11. ASSUME NEW k \in Work, NEW p PROVE Shown(k, p)' <=> Shown(k, p)
  BY <1>1, <1>9 DEF Shown, getRewardsHistory
<1>12. ASSUME NEW k \in Work', IsReflections(k, Setting)' \/ IsReflections(k, Going)' PROVE k \in Work
  BY <1>5, <1>9, <1>12
<1>13. OwnersInv'
  BY <1>1 DEF RunsInv, OwnersInv
<1>14. OwedInv'
  <2>1. OwedOf(n)'
    <3> SUFFICES ASSUME NEW p \in owed
                 PROVE  p[1] \in wallets' /\ p[2] \in Listed' /\ Holds(p[1], p[2])' > 0
      BY <1>3, <1>5, <1>8 DEF OwedOf
    <3>. QED
      BY <1>1, <1>2, <1>9
  <2>2. ASSUME NEW k \in Work, work[k].kind = "reflections" PROVE OwedOf(k)'
    <3>1. OwedOf(k)
      BY <2>2 DEF RunsInv, OwedInv
    <3>. QED
      BY <1>1, <1>9, <1>11, <3>1 DEF OwedOf
  <2> SUFFICES ASSUME NEW k \in Work', work'[k].kind = "reflections" PROVE OwedOf(k)'
    BY DEF OwedInv
  <2>3. CASE k = n
    BY <2>1, <2>3
  <2>4. CASE k \in Work
    <3>1. work[k].kind = "reflections"
      BY <1>9, <2>4
    <3>. QED
      BY <2>2, <2>4, <3>1
  <2>. QED
    BY <1>5, <2>3, <2>4
<1>15. RowsInv'
  <2> SUFFICES ASSUME NEW k \in Work', IsReflections(k, Setting)' PROVE RowOf(k)'
    BY DEF RowsInv
  <2>1. k \in Work /\ IsReflections(k, Setting)
    BY <1>10, <1>12
  <2>2. RowOf(k)
    BY <2>1 DEF RunsInv, RowsInv
  <2>3. \A l \in Work' \ {k} : IsReflections(l, Setting)' =>
          l \in Work \ {k} /\ IsReflections(l, Setting) /\ work'[l] = work[l]
    BY <1>9, <1>10, <1>12
  <2>. QED
    BY <1>1, <1>9, <2>1, <2>2, <2>3 DEF RowOf
<1>16. AheadInv'
  <2> SUFFICES ASSUME NEW k \in Work', IsReflections(k, Going)' PROVE AheadOf(k)'
    BY DEF AheadInv
  <2>1. k \in Work /\ IsReflections(k, Going)
    BY <1>10, <1>12
  <2>. QED
    BY <1>1, <1>9, <2>1 DEF RunsInv, AheadInv, AheadOf
<1>17. MakerInv'
  <2>1. PICK m \in [DOMAIN rewards -> Work] : Makers(m)
    BY DEF RunsInv, MakerInv
  <2>2. m \in [DOMAIN rewards' -> Work']
    BY <1>1, <1>5
  <2>3. \A s \in DOMAIN rewards : work'[m[s]] = work[m[s]] /\ AtPair(m[s])' = AtPair(m[s])
    BY <1>9, <2>1
  <2>4. Makers(m)'
    BY <1>1, <2>1, <2>3 DEF Makers, IsReflections
  <2>. QED
    BY <2>2, <2>4 DEF MakerInv
<1>18. LedgerInv' /\ EarnedInv'
  BY <1>1, EarnedFrame DEF RewardsStay
<1>19. ShapeInv'
  BY <1>1, <1>5 DEF ShapeInv
<1>. QED
  BY <1>1, <1>6, <1>7, <1>13, <1>14, <1>15, <1>16, <1>17, <1>18, <1>19 DEF RunsInv, Recording

LEMMA FindUsersStep ==
  ASSUME ShapeInv, RunsInv, LedgerInv, EarnedInv, NEW k \in Work, findUsers(k)
  PROVE  ShapeInv' /\ RunsInv' /\ LedgerInv' /\ EarnedInv' /\ Recording
<1> DEFINE S == {i \in Listed : tokens[i].rewards /\ tokens[i].net = work[k].net}
           local == [users |-> users, toks |-> S, pairs |-> {}]
           owed == {p \in work[k].owed : p[2] \in S}
<1>1. /\ work[k].kind = "reflections" /\ work[k].op = "users"
      /\ UNCHANGED <<tokens, config, users, wallets, ledger, rewards>>
  BY DEF findUsers, Is, rest
<1>2. /\ work[k] \in ReflectionsRuns /\ work[k].owed \in SUBSET (Wallets \X Nat)
      /\ work[k].at = None
      /\ work[k] \in Reflecting({"users", "done", "failed"}, {None}, {None})
  <2>1. work[k] \in ReflectionsRuns
    BY <1>1, OwedIs
  <2>. QED
    BY <1>1, <2>1, ReflectionsKinds DEF ReflectionsRuns, Reflecting, Going, Setting
<1>3. CASE Fail(k)
  <2>1. work' = [work EXCEPT ![k] = [@ EXCEPT !.op = "failed", !.local = None, !.at = None]]
    BY <1>2, <1>3 DEF Fail, End, Reflecting
  <2>. QED
    BY <1>1, <2>1, RunFails
<1>4. CASE work' = [work EXCEPT ![k].op = "user", ![k].owed = {p \in @ : p[2] \in S}, ![k].local = local]
  <2>1. work' = [work EXCEPT ![k] = Resumed(work[k], "user", local, None, owed)]
    <3>1. Resumed(work[k], "user", local, None, owed)
            = [work[k] EXCEPT !.op = "user", !.owed = owed, !.local = local]
      BY <1>2 DEF Resumed, Reflecting
    <3> HIDE DEF S, local
    <3>. QED
      BY <1>2, <1>4, <3>1 DEF Reflecting
  <2>2. local \in Locals /\ owed \in SUBSET (Wallets \X Nat)
    BY <1>2, Indices DEF Locals, Listed, ShapeInv
  <2>3. local.users = users /\ local.toks = S /\ local.pairs = {}
    OBVIOUS
  <2> HIDE DEF local
  <2>4. ReflectionsGoOn(k, "user", local, None, owed)
    BY <1>1, <2>1, <2>2 DEF ReflectionsGoOn
  <2>5. work'[k].op = "user" /\ work'[k].local = local /\ work'[k].owed = owed
    BY <2>4, ReflectionsRun
  <2>6. /\ "user" \in Going /\ "user" \notin Setting /\ work[k].op \notin Going \union {"done", "failed"}
        /\ "user" # "done"
    BY <1>1 DEF Going, Setting
  <2>7. OwedOf(k) /\ OwnersInv
    BY <1>1 DEF RunsInv, OwedInv
  <2>8. OwedOf(k)'
    <3> SUFFICES ASSUME NEW p \in owed
                 PROVE  /\ p[1] \in wallets /\ p[2] \in Listed /\ Holds(p[1], p[2]) > 0
                        /\ p[2] \in S /\ OwnerOf[p[1]] \in users
      BY <1>1, <2>3, <2>5, <2>6 DEF OwedOf, Listed, Holds, Balance
    <3>. QED
      BY <2>7 DEF OwedOf, OwnersInv
  <2>9. AheadOf(k)'
    BY <2>3, <2>5 DEF AheadOf
  <2>. QED
    BY <1>1, <2>4, <2>6, <2>8, <2>9, RunLooks
<1>. QED
  BY <1>3, <1>4 DEF findUsers

\* A run between two wallets.
LEMMA UserRunIs ==
  ASSUME ShapeInv, RunsInv, NEW k \in Work, Is(k, "reflections", "user")
  PROVE  /\ work[k].kind = "reflections" /\ work[k].op = "user" /\ work[k].at = None
         /\ work[k] \in ReflectionsRuns /\ work[k] \in Reflecting({"user"}, Locals, {None})
         /\ work[k].local \in Locals /\ work[k].local.users \in SUBSET Users
         /\ work[k].local.toks \in SUBSET Nat /\ work[k].local.pairs \in SUBSET (Wallets \X Nat)
         /\ work[k].owed \in SUBSET (Wallets \X Nat)
         /\ "user" \in Going /\ "user" \notin Setting
         /\ OwedOf(k) /\ AheadOf(k) /\ OwnersInv
<1>1. work[k].kind = "reflections" /\ work[k].op = "user"
  BY DEF Is
<1>2. "user" \in Going /\ "user" \notin Setting
  BY DEF Going, Setting
<1>3. work[k] \in ReflectionsRuns /\ work[k].owed \in SUBSET (Wallets \X Nat)
  BY <1>1, OwedIs
<1>4. work[k] \in Reflecting({"user"}, Locals, {None})
  BY <1>1, <1>3 DEF ReflectionsRuns, Reflecting, Setting
<1>5. /\ work[k].local \in Locals /\ work[k].local.users \in SUBSET Users /\ work[k].at = None
      /\ work[k].local.toks \in SUBSET Nat /\ work[k].local.pairs \in SUBSET (Wallets \X Nat)
  BY <1>1, <1>2, <1>3, ReflectionsKinds
<1>6. OwedOf(k) /\ AheadOf(k) /\ OwnersInv
  BY <1>1, <1>2 DEF RunsInv, OwedInv, AheadInv, IsReflections
<1>. QED
  BY <1>1, <1>2, <1>3, <1>4, <1>5, <1>6

LEMMA NextUserStep ==
  ASSUME ShapeInv, RunsInv, LedgerInv, EarnedInv, NEW k \in Work, nextUser(k)
  PROVE  ShapeInv' /\ RunsInv' /\ LedgerInv' /\ EarnedInv' /\ Recording
<1>1. /\ Is(k, "reflections", "user") /\ work[k].local.pairs = {}
      /\ UNCHANGED <<tokens, config, users, wallets, ledger, rewards>>
  BY DEF nextUser, rest
<1>2. /\ work[k].kind = "reflections" /\ work[k].op = "user" /\ work[k].at = None
      /\ work[k] \in ReflectionsRuns /\ work[k] \in Reflecting({"user"}, Locals, {None})
      /\ work[k].local \in Locals /\ work[k].local.users \in SUBSET Users
      /\ work[k].local.toks \in SUBSET Nat
      /\ work[k].owed \in SUBSET (Wallets \X Nat)
      /\ "user" \in Going /\ "user" \notin Setting
      /\ OwedOf(k)
  BY <1>1, UserRunIs
<1>3. PICK u \in work[k].local.users :
        work' = [work EXCEPT
          ![k].local.users = @ \ {u},
          ![k].local.pairs = {w \in wallets : OwnerOf[w] = u} \X work[k].local.toks]
  BY DEF nextUser
<1> DEFINE his == {w \in wallets : OwnerOf[w] = u} \X work[k].local.toks
           local == [work[k].local EXCEPT !.users = @ \ {u}, !.pairs = his]
<1>4. his \in SUBSET (Wallets \X Nat)
  BY <1>2 DEF ShapeInv
<1>5. \A p \in Wallets \X Nat :
        p \in his <=> p[1] \in wallets /\ OwnerOf[p[1]] = u /\ p[2] \in work[k].local.toks
  OBVIOUS
<1>6. work' = [work EXCEPT ![k].local.users = @ \ {u}, ![k].local.pairs = his]
  BY <1>3
<1> HIDE DEF his
<1>7. /\ local \in Locals /\ local.users = work[k].local.users \ {u}
      /\ local.toks = work[k].local.toks /\ local.pairs = his
  BY <1>2, <1>4 DEF Locals
<1>8. work' = [work EXCEPT ![k] = Resumed(work[k], "user", local, None, work[k].owed)]
  <2>1. Resumed(work[k], "user", local, None, work[k].owed) = [work[k] EXCEPT !.local = local]
    BY <1>2 DEF Resumed, Reflecting
  <2>2. work' = [work EXCEPT ![k] = [work[k] EXCEPT !.local = local]]
    BY <1>2, <1>6 DEF Reflecting, Locals
  <2>. QED
    BY <2>1, <2>2
<1> HIDE DEF local
<1>9. ReflectionsGoOn(k, "user", local, None, work[k].owed)
  BY <1>2, <1>7, <1>8 DEF ReflectionsGoOn
<1>10. work'[k].op = "user" /\ work'[k].local = local /\ work'[k].owed = work[k].owed /\ work'[k].job = work[k].job
  BY <1>9, ReflectionsRun
<1>11. OwedOf(k)'
  <2>1. ASSUME NEW p \in work[k].owed
        PROVE  /\ p[1] \in wallets /\ p[2] \in Listed /\ Holds(p[1], p[2]) > 0
               /\ p[2] \in local.toks
               /\ OwnerOf[p[1]] \in local.users \/ p \in local.pairs \/ Shown(k, p)
    <3>1. /\ p[1] \in wallets /\ p[2] \in Listed /\ Holds(p[1], p[2]) > 0
          /\ p[2] \in work[k].local.toks
          /\ OwnerOf[p[1]] \in work[k].local.users \/ Shown(k, p)
      BY <1>1, <1>2 DEF OwedOf
    <3>2. p \in Wallets \X Nat
      BY <1>2
    <3>. QED
      BY <1>5, <1>7, <3>1, <3>2
  <2>2. \A p : Shown(k, p)' <=> Shown(k, p)
    BY <1>1, <1>10 DEF Shown, getRewardsHistory
  <2>. QED
    BY <1>1, <1>2, <1>10, <2>1, <2>2 DEF OwedOf, Listed, Holds, Balance
<1>12. AheadOf(k)'
  BY <1>4, <1>5, <1>7, <1>10 DEF AheadOf
<1>13. \A p \in Wallets \X Nat : PastBy(k, p) => PastBy(k, p)'
  BY <1>2, <1>5, <1>7, <1>10 DEF PastBy
<1>. QED
  BY <1>1, <1>2, <1>9, <1>11, <1>12, <1>13, RunLooks

LEMMA RewardsDoneStep ==
  ASSUME ShapeInv, RunsInv, LedgerInv, EarnedInv, NEW k \in Work, rewardsDone(k)
  PROVE  ShapeInv' /\ RunsInv' /\ LedgerInv' /\ EarnedInv' /\ Recording
<1>1. /\ Is(k, "reflections", "user") /\ work[k].local.pairs = {} /\ work[k].local.users = {}
      /\ UNCHANGED <<tokens, config, users, wallets, ledger, rewards>>
      /\ work' = [work EXCEPT ![k] = [@ EXCEPT !.op = "done", !.local = None]]
  BY DEF rewardsDone, rest, End
<1>2. /\ work[k].kind = "reflections" /\ work[k].op = "user" /\ work[k].at = None
      /\ work[k] \in ReflectionsRuns /\ work[k] \in Reflecting({"user"}, Locals, {None})
      /\ work[k].owed \in SUBSET (Wallets \X Nat)
      /\ "user" \in Going /\ OwedOf(k)
  BY <1>1, UserRunIs
<1>3. [work[k] EXCEPT !.op = "done", !.local = None] = Resumed(work[k], "done", None, None, work[k].owed)
  BY <1>2 DEF Resumed, Reflecting
<1>4. work' = [work EXCEPT ![k] = Resumed(work[k], "done", None, None, work[k].owed)]
  BY <1>1, <1>3
<1>5. ReflectionsGoOn(k, "done", None, None, work[k].owed)
  BY <1>2, <1>4 DEF ReflectionsGoOn
<1>6. work'[k].op = "done" /\ work'[k].owed = work[k].owed /\ work'[k].job = work[k].job
  BY <1>5, ReflectionsRun
<1>7. "done" \notin Going /\ "done" \notin Setting
  BY DEF Going, Setting
<1>8. OwedOf(k)'
  <2>1. ASSUME NEW p \in work[k].owed
        PROVE  p[1] \in wallets /\ p[2] \in Listed /\ Holds(p[1], p[2]) > 0 /\ Shown(k, p)
    BY <1>1, <1>2 DEF OwedOf
  <2>2. \A p : Shown(k, p)' <=> Shown(k, p)
    BY <1>1, <1>6 DEF Shown, getRewardsHistory
  <2>. QED
    BY <1>1, <1>6, <1>7, <2>1, <2>2 DEF OwedOf, Listed, Holds, Balance
<1>. QED
  BY <1>1, <1>5, <1>7, <1>8, RunLooks

LEMMA BalanceOfStep ==
  ASSUME ShapeInv, RunsInv, LedgerInv, EarnedInv, NEW k \in Work, balanceOf(k)
  PROVE  ShapeInv' /\ RunsInv' /\ LedgerInv' /\ EarnedInv' /\ Recording
<1>1. /\ Is(k, "reflections", "user")
      /\ UNCHANGED <<tokens, config, users, wallets, ledger, rewards>>
  BY DEF balanceOf, rest
<1>2. /\ work[k].kind = "reflections" /\ work[k].op = "user" /\ work[k].at = None
      /\ work[k] \in ReflectionsRuns /\ work[k] \in Reflecting({"user"}, Locals, {None})
      /\ work[k].local \in Locals /\ work[k].local.users \in SUBSET Users
      /\ work[k].local.pairs \in SUBSET (Wallets \X Nat)
      /\ work[k].owed \in SUBSET (Wallets \X Nat)
      /\ "user" \in Going /\ "user" \notin Setting
      /\ OwedOf(k) /\ AheadOf(k)
  BY <1>1, UserRunIs
<1>3. PICK p \in work[k].local.pairs :
        work' = [work EXCEPT
          ![k].local.pairs = @ \ {p},
          ![k].op = IF Holds(p[1], p[2]) > 0 THEN "list" ELSE "user",
          ![k].at = IF Holds(p[1], p[2]) > 0
                    THEN [wallet |-> p[1], token |-> p[2], held |-> ledger[p[1]]] ELSE None]
  BY DEF balanceOf
<1>4. p \in Wallets \X Nat /\ p[1] \in Wallets /\ p[2] \in Nat /\ p = <<p[1], p[2]>>
  BY <1>2
<1> DEFINE held == Holds(p[1], p[2]) > 0
           op == IF held THEN "list" ELSE "user"
           at == IF held THEN [wallet |-> p[1], token |-> p[2], held |-> ledger[p[1]]] ELSE None
           local == [work[k].local EXCEPT !.pairs = @ \ {p}]
<1>5. work' = [work EXCEPT ![k].local.pairs = @ \ {p}, ![k].op = op, ![k].at = at]
  BY <1>3
<1>6. /\ local \in Locals /\ local.users = work[k].local.users
      /\ local.toks = work[k].local.toks /\ local.pairs = work[k].local.pairs \ {p}
  BY <1>2 DEF Locals
<1>7. /\ held => /\ op = "list" /\ at \in [wallet : Wallets, token : Nat, held : Ledgers]
                 /\ at.wallet = p[1] /\ at.token = p[2]
      /\ ~held => op = "user" /\ at = None
  BY <1>4 DEF ShapeInv
<1> HIDE DEF held, op, at
<1>8. work' = [work EXCEPT ![k] = Resumed(work[k], op, local, at, work[k].owed)]
  <2>1. Resumed(work[k], op, local, at, work[k].owed) = [work[k] EXCEPT !.local = local, !.op = op, !.at = at]
    BY <1>2 DEF Resumed, Reflecting
  <2>2. work' = [work EXCEPT ![k] = [work[k] EXCEPT !.local = local, !.op = op, !.at = at]]
    BY <1>2, <1>5 DEF Reflecting, Locals
  <2>. QED
    BY <2>1, <2>2
<1> HIDE DEF local
<1>9. ReflectionsGoOn(k, op, local, at, work[k].owed)
  BY <1>2, <1>6, <1>7, <1>8 DEF ReflectionsGoOn
<1>10. /\ work'[k].op = op /\ work'[k].local = local /\ work'[k].at = at
       /\ work'[k].owed = work[k].owed /\ work'[k].job = work[k].job
  BY <1>9, ReflectionsRun
<1>11. held => AtPair(k)' = p
  BY <1>4, <1>7, <1>10 DEF AtPair
<1>12. op \in Going /\ op \notin Setting /\ op # "done"
  BY <1>7 DEF Going, Setting
<1>13. OwedOf(k)'
  <2>1. ASSUME NEW q \in work[k].owed
        PROVE  /\ q[1] \in wallets /\ q[2] \in Listed /\ Holds(q[1], q[2]) > 0
               /\ q[2] \in local.toks
               /\ \/ OwnerOf[q[1]] \in local.users
                  \/ q \in local.pairs
                  \/ op # "user" /\ q = AtPair(k)'
                  \/ Shown(k, q)
    <3>1. /\ q[1] \in wallets /\ q[2] \in Listed /\ Holds(q[1], q[2]) > 0
          /\ q[2] \in work[k].local.toks
          /\ OwnerOf[q[1]] \in work[k].local.users \/ q \in work[k].local.pairs \/ Shown(k, q)
      BY <1>2 DEF OwedOf
    <3>2. q = p => op # "user" /\ q = AtPair(k)'
      BY <1>7, <1>11, <3>1 DEF held
    <3>. QED
      BY <1>6, <3>1, <3>2
  <2>2. \A q : Shown(k, q)' <=> Shown(k, q)
    BY <1>1, <1>10 DEF Shown, getRewardsHistory
  <2>. QED
    BY <1>1, <1>10, <1>12, <2>1, <2>2 DEF OwedOf, Listed, Holds, Balance
<1>14. AheadOf(k)'
  <2>1. \A q \in local.pairs : OwnerOf[q[1]] \notin local.users
    BY <1>2, <1>6 DEF AheadOf
  <2>2. OwnerOf[p[1]] \notin local.users /\ p \notin local.pairs
    BY <1>2, <1>6 DEF AheadOf
  <2>3. op # "user" => work'[k].at.wallet = p[1] /\ AtPair(k)' = p
    BY <1>7, <1>10, <1>11
  <2>4. op = "list" => Upto(work'[k].at.held, ledger'[work'[k].at.wallet])
    <3>1. ledger[p[1]] \in Ledgers
      BY <1>4 DEF ShapeInv
    <3>2. Upto(ledger[p[1]], ledger[p[1]])
      BY <3>1 DEF Upto, Ledgers
    <3>3. op = "list" => work'[k].at.held = ledger[p[1]] /\ work'[k].at.wallet = p[1]
      BY <1>7, <1>10 DEF at
    <3>. QED
      BY <1>1, <3>2, <3>3
  <2>. QED
    BY <1>10, <2>1, <2>2, <2>3, <2>4 DEF AheadOf
<1>15. \A q \in Wallets \X Nat : PastBy(k, q) => PastBy(k, q)'
  BY <1>6, <1>7, <1>10, <1>11 DEF PastBy
<1>. QED
  BY <1>1, <1>2, <1>9, <1>12, <1>13, <1>14, <1>15, RunLooks

LEMMA UnreachableStep ==
  ASSUME ShapeInv, RunsInv, LedgerInv, EarnedInv, NEW k \in Work, unreachable(k)
  PROVE  ShapeInv' /\ RunsInv' /\ LedgerInv' /\ EarnedInv' /\ Recording
<1>1. /\ work[k].kind = "reflections"
      /\ work' = [work EXCEPT ![k] = [@ EXCEPT !.op = "failed", !.local = None, !.at = None]]
      /\ UNCHANGED <<tokens, config, users, wallets, ledger, rewards>>
  BY DEF unreachable, rest, Is
<1>. QED
  BY <1>1, RunFails

\* What is recorded of a wallet that was empty.
LEMMA Earned ==
  ASSUME LedgerInv, NEW w \in Wallets, NEW held \in Ledgers, NEW now \in Ledgers
  PROVE  LET balance == Early[w] + held.in - held.out - held.fees + held.reflected
             sum == Reflections(balance, now.in, now.out)
             strayed == now.out - held.out - (now.in - held.in) IN
         /\ sum \in Int /\ held.reflected - held.fees \in Int /\ strayed \in Int
         /\ Upto(held, now) /\ now = ledger[w] /\ Early[w] = 0 =>
              sum = held.reflected - held.fees + strayed
<1>1. /\ held.in \in Nat /\ held.out \in Nat /\ held.fees \in Nat /\ held.reflected \in Nat
      /\ now.in \in Nat /\ now.out \in Nat /\ Early[w] \in Nat
  BY HourlyAssumption DEF Ledgers
<1> DEFINE balance == Early[w] + held.in - held.out - held.fees + held.reflected
           strayed == now.out - held.out - (now.in - held.in)
<1>2. balance \in Int /\ strayed \in Int
  BY <1>1
<1>3. Reflections(balance, now.in, now.out) \in Int
  BY <1>1, <1>2 DEF Reflections
<1>4. ASSUME Upto(held, now), now = ledger[w], Early[w] = 0
      PROVE  Reflections(balance, now.in, now.out) = held.reflected - held.fees + strayed
  <2>1. CASE now.in # 0 \/ now.out # 0
    <3>1. Reflections(balance, now.in, now.out) = balance - (now.in - now.out)
      BY <2>1 DEF Reflections
    <3>2. balance = held.in - held.out - held.fees + held.reflected
      BY <1>1, <1>4
    <3>. QED
      BY <1>1, <3>1, <3>2
  <2>2. CASE now.in = 0 /\ now.out = 0
    <3>1. now.reflected = 0 /\ now.fees = 0
      BY <1>4, <2>2 DEF LedgerInv
    <3>2. held.in = 0 /\ held.out = 0 /\ held.reflected = 0 /\ held.fees = 0
      BY <1>1, <1>4, <2>2, <3>1 DEF Upto
    <3>3. Reflections(balance, now.in, now.out) = 0
      BY <2>2 DEF Reflections
    <3>. QED
      BY <2>2, <3>2, <3>3
  <2>. QED
    BY <1>1, <2>1, <2>2
<1>. QED
  BY <1>1, <1>2, <1>3, <1>4

LEMMA CreateRewardStep ==
  ASSUME ShapeInv, RunsInv, LedgerInv, EarnedInv, NEW k \in Work, createReward(k)
  PROVE  ShapeInv' /\ RunsInv' /\ LedgerInv' /\ EarnedInv' /\ Recording
<1> DEFINE w == work[k].at.wallet
           i == work[k].at.token
           held == work[k].at.held
           now == ledger[w]
           balance == Early[w] + held.in - held.out - held.fees + held.reflected
           sum == Reflections(balance, now.in, now.out)
           strayed == now.out - held.out - (now.in - held.in)
           e == Reward(work[k].job, work[k].at, sum, now)
<1>1. /\ work[k].kind = "reflections" /\ work[k].op = "list"
      /\ UNCHANGED <<tokens, config, users, wallets, ledger>>
      /\ rewards' = Append(rewards, e)
      /\ work' = [work EXCEPT ![k].op = "setUser",
           ![k].at = [wallet |-> w, token |-> i, row |-> Len(rewards) + 1]]
  BY DEF createReward, rest, Is
<1>2. /\ work[k] \in ReflectionsRuns /\ work[k].owed \in SUBSET (Wallets \X Nat) /\ work[k].job \in Nat
      /\ "list" \in Going
  BY <1>1, OwedIs DEF Going
<1>3. /\ work[k] \in Reflecting({"list"}, Locals, [wallet : Wallets, token : Nat, held : Ledgers])
      /\ work[k].local \in Locals /\ w \in Wallets /\ i \in Nat /\ held \in Ledgers
  BY <1>1, <1>2, ReflectionsKinds DEF ReflectionsRuns, Reflecting, Setting
<1>4. now \in Ledgers
  BY <1>3 DEF ShapeInv
<1>5. /\ sum \in Int /\ held.reflected - held.fees \in Int /\ strayed \in Int
      /\ Early[w] = 0 => sum = held.reflected - held.fees + strayed
  <2>1. Upto(held, now)
    BY <1>1, <1>2 DEF RunsInv, AheadInv, AheadOf, IsReflections
  <2>. QED
    BY <1>3, <1>4, <2>1, Earned
<1> HIDE DEF sum
<1>6. AtPair(k) = <<w, i>> /\ AtPair(k) \in Wallets \X Nat
  BY <1>3 DEF AtPair
<1>7. /\ e \in RewardSet /\ e.token = None /\ e.of = <<w, i>> /\ e.job = work[k].job
      /\ Early[e.of[1]] = 0 => e.reflections = e.earned + e.strayed
  BY <1>2, <1>3, <1>5 DEF Reward, RewardSet
<1> HIDE DEF e
<1>8. PICK n \in Nat :
        /\ n = Len(rewards) + 1 /\ n \notin DOMAIN rewards
        /\ rewards' \in Seq(RewardSet) /\ DOMAIN rewards' = DOMAIN rewards \union {n}
        /\ \A r \in DOMAIN rewards : rewards'[r] = rewards[r]
        /\ rewards'[n] = e
  <2>1. rewards \in Seq(RewardSet)
    BY DEF ShapeInv
  <2> HIDE DEF RewardSet
  <2>. QED
    BY <1>1, <1>7, <2>1, Appended
<1> DEFINE at == [wallet |-> w, token |-> i, row |-> n]
<1>9. /\ at \in [wallet : Wallets, token : Nat, row : Nat]
      /\ at.wallet = w /\ at.token = i /\ at.row = n
  BY <1>3, <1>8
<1>10. work' = [work EXCEPT ![k].op = "setUser", ![k].at = at]
  BY <1>1, <1>8
<1> HIDE DEF at
<1>11. work' = [work EXCEPT ![k] = Resumed(work[k], "setUser", work[k].local, at, work[k].owed)]
  <2>1. Resumed(work[k], "setUser", work[k].local, at, work[k].owed) = [work[k] EXCEPT !.op = "setUser", !.at = at]
    BY <1>3 DEF Resumed, Reflecting
  <2>2. work' = [work EXCEPT ![k] = [work[k] EXCEPT !.op = "setUser", !.at = at]]
    BY <1>3, <1>10 DEF Reflecting
  <2>. QED
    BY <2>1, <2>2
<1>12. "setUser" \in Setting /\ "setUser" \in Going /\ "setUser" \notin {"users", "user", "list", "done"}
  BY DEF Setting, Going
<1>13. ReflectionsGoOn(k, "setUser", work[k].local, at, work[k].owed)
  BY <1>1, <1>2, <1>3, <1>9, <1>11, <1>12 DEF ReflectionsGoOn
<1>14. /\ GoesOn(k) /\ Untouched({"deploy", "price"}) /\ work'[k].kind = "reflections"
       /\ work'[k].op = "setUser" /\ work'[k].local = work[k].local /\ work'[k].at = at
       /\ work'[k].owed = work[k].owed /\ work'[k].job = work[k].job
  BY <1>13, ReflectionsRun
<1>15. AtPair(k)' = AtPair(k)
  BY <1>6, <1>9, <1>14 DEF AtPair
<1>16. OthersRowsStay(k)
  BY <1>8 DEF OthersRowsStay
<1>17. OwedOf(k)'
  <2>1. OwedOf(k)
    BY <1>1 DEF RunsInv, OwedInv
  <2>2. \A p \in work[k].owed : Shown(k, p) => Shown(k, p)'
    BY <1>2, <1>14, <1>16, ShownStays
  <2>3. \A p \in work[k].owed :
          /\ p[1] \in wallets' /\ p[2] \in Listed' /\ Holds(p[1], p[2])' > 0
          /\ p[2] \in work[k].local.toks
          /\ \/ OwnerOf[p[1]] \in work[k].local.users
             \/ p \in work[k].local.pairs
             \/ p = AtPair(k)
             \/ Shown(k, p)
    BY <1>1, <1>2, <2>1 DEF OwedOf, Listed, Holds, Balance
  <2>. QED
    BY <1>12, <1>14, <1>15, <2>2, <2>3 DEF OwedOf
<1>18. RowOf(k)'
  <2>1. \A l \in Work \ {k} : IsReflections(l, Setting)' => work'[l].at.row # n
    BY <1>8, <1>14 DEF GoesOn, IsReflections, RunsInv, RowsInv, RowOf
  <2>2. Work' = Work
    BY <1>14 DEF GoesOn
  <2>3. work'[k].op # "setToken"
    BY <1>14
  <2>4. n \in DOMAIN rewards' /\ rewards'[n].token = None /\ rewards'[n].of = AtPair(k) /\ rewards'[n].job = work[k].job
    BY <1>6, <1>7, <1>8
  <2>. QED
    BY <1>9, <1>14, <1>15, <2>1, <2>2, <2>3, <2>4 DEF RowOf
<1>19. AheadOf(k)'
  <2>1. AheadOf(k)
    BY <1>1, <1>2 DEF RunsInv, AheadInv, IsReflections
  <2>. QED
    BY <1>1, <1>9, <1>14, <1>15, <2>1 DEF AheadOf
<1>20. MakerInv'
  <2>1. PICK m \in [DOMAIN rewards -> Work] : Makers(m)
    BY DEF RunsInv, MakerInv
  <2>2. PICK m2 \in [DOMAIN rewards' -> Work'] :
          m2[n] = k /\ \A r \in DOMAIN rewards : m2[r] = m[r] /\ m[r] \in Work
    <3>1. [r \in DOMAIN rewards' |-> IF r = n THEN k ELSE m[r]] \in [DOMAIN rewards' -> Work']
      BY <1>8, <1>14 DEF GoesOn
    <3>. QED
      BY <1>8, <3>1
  <2>3. /\ \A l \in Work \ {k} : work'[l] = work[l] /\ AtPair(l)' = AtPair(l)
        /\ \A r \in DOMAIN rewards : rewards'[r].of = rewards[r].of /\ rewards'[r].job = rewards[r].job
        /\ rewards'[n].of = AtPair(k) /\ rewards'[n].job = work[k].job
    BY <1>6, <1>7, <1>8, <1>14 DEF GoesOn, AtPair
  <2>4. ASSUME NEW r \in DOMAIN rewards, m[r] = k PROVE rewards[r].of # AtPair(k)
    BY <1>1, <1>2, <2>1, <2>4 DEF Makers
  <2>5. ASSUME NEW r \in DOMAIN rewards'
        PROVE  LET l == m2[r]  of == rewards'[r].of IN
               /\ IsReflections(l, Going \union {"done", "failed"})' /\ work'[l].job = rewards'[r].job
               /\ \A s \in DOMAIN rewards' \ {r} : rewards'[s].of = of => m2[s] # l
               /\ work'[l].op \in Going =>
                    /\ OwnerOf[of[1]] \notin work'[l].local.users /\ of \notin work'[l].local.pairs
                    /\ work'[l].op = "list" => of # AtPair(l)'
    <3>1. CASE r = n
      <4>1. m2[r] = k /\ rewards'[r].of = AtPair(k) /\ rewards'[r].job = work'[k].job
        BY <1>14, <2>2, <2>3, <3>1
      <4>2. IsReflections(k, Going \union {"done", "failed"})'
        BY <1>12, <1>14 DEF IsReflections
      <4>3. \A s \in DOMAIN rewards' \ {r} : rewards'[s].of = AtPair(k) => m2[s] # k
        BY <1>8, <2>2, <2>3, <2>4, <3>1
      <4>4. /\ OwnerOf[AtPair(k)[1]] \notin work'[k].local.users /\ AtPair(k) \notin work'[k].local.pairs
            /\ work'[k].op # "list"
        <5>1. AheadOf(k) /\ AtPair(k)[1] = w
          BY <1>1, <1>2, <1>6 DEF RunsInv, AheadInv, IsReflections
        <5>. QED
          BY <1>1, <1>12, <1>14, <5>1 DEF AheadOf
      <4>. QED
        BY <4>1, <4>2, <4>3, <4>4
    <3>2. CASE r # n
      <4> DEFINE l == m[r]  of == rewards[r].of
      <4>1. /\ r \in DOMAIN rewards /\ l \in Work /\ m2[r] = l /\ rewards'[r].of = of
            /\ rewards'[r].job = rewards[r].job
        BY <1>8, <2>2, <2>3, <3>2
      <4>2. /\ IsReflections(l, Going \union {"done", "failed"}) /\ work[l].job = rewards[r].job
            /\ \A s \in DOMAIN rewards \ {r} : rewards[s].of = of => m[s] # l
            /\ work[l].op \in Going =>
                 /\ OwnerOf[of[1]] \notin work[l].local.users /\ of \notin work[l].local.pairs
                 /\ work[l].op = "list" => of # AtPair(l)
        BY <2>1, <4>1 DEF Makers
      <4>3. \A s \in DOMAIN rewards' \ {r} : rewards'[s].of = of => m2[s] # l
        <5>1. ASSUME NEW s \in DOMAIN rewards' \ {r}, rewards'[s].of = of PROVE m2[s] # l
          <6>1. CASE s = n
            BY <2>2, <2>3, <2>4, <4>1, <5>1, <6>1
          <6>2. CASE s # n
            BY <1>8, <2>2, <2>3, <4>2, <5>1, <6>2
          <6>. QED
            BY <6>1, <6>2
        <5>. QED
          BY <5>1
      <4> HIDE DEF l, of
      <4>4. CASE l # k
        BY <2>3, <4>1, <4>2, <4>3, <4>4 DEF IsReflections
      <4>5. CASE l = k
        <5>1. IsReflections(k, Going \union {"done", "failed"})'
          BY <1>12, <1>14 DEF IsReflections
        <5>2. OwnerOf[of[1]] \notin work'[k].local.users /\ of \notin work'[k].local.pairs /\ work'[k].op # "list"
          BY <1>1, <1>2, <1>12, <1>14, <4>2, <4>5
        <5>. QED
          BY <1>14, <4>1, <4>2, <4>3, <4>5, <5>1, <5>2
      <4>. QED
        BY <4>4, <4>5
    <3>. QED
      BY <3>1, <3>2
  <2>6. Makers(m2)'
    BY <2>5 DEF Makers
  <2>. QED
    BY <2>2, <2>6 DEF MakerInv
<1>21. RunsInv'
  BY <1>1, <1>14, <1>16, <1>17, <1>18, <1>19, <1>20, RunsStep
<1>22. LedgerInv' /\ EarnedInv'
  BY <1>1, <1>7, <1>8 DEF LedgerInv, EarnedInv
<1>23. ShapeInv'
  BY <1>1, <1>8, <1>14 DEF ShapeInv, GoesOn
<1>24. TokensKept /\ QuotesKept
  BY <1>1, TokensSame
<1>. QED
  BY <1>1, <1>14, <1>21, <1>22, <1>23, <1>24 DEF Recording

\* A run that fills its row.
LEMMA SettingRunIs ==
  ASSUME ShapeInv, RunsInv, NEW k \in Work, work[k].kind = "reflections", work[k].op \in Setting
  PROVE  /\ work[k] \in ReflectionsRuns
         /\ work[k] \in Reflecting(Setting, Locals, [wallet : Wallets, token : Nat, row : Nat])
         /\ work[k].local \in Locals /\ work[k].owed \in SUBSET (Wallets \X Nat)
         /\ work[k].at \in [wallet : Wallets, token : Nat, row : Nat]
         /\ work[k].at.wallet \in Wallets /\ work[k].at.token \in Nat
         /\ AtPair(k) \in Wallets \X Nat
         /\ AtPair(k)[1] = work[k].at.wallet /\ AtPair(k)[2] = work[k].at.token
         /\ work[k].at.row \in DOMAIN rewards /\ rewards[work[k].at.row] \in RewardSet
         /\ work[k].op \in Going /\ IsReflections(k, Setting)
         /\ OwedOf(k) /\ RowOf(k) /\ AheadOf(k)
<1>1. work[k].op \in Going /\ IsReflections(k, Setting) /\ IsReflections(k, Going)
  BY DEF Going, IsReflections
<1>2. OwedOf(k) /\ RowOf(k) /\ AheadOf(k)
  BY <1>1 DEF RunsInv, OwedInv, RowsInv, AheadInv
<1>3. work[k] \in ReflectionsRuns /\ work[k].owed \in SUBSET (Wallets \X Nat)
  BY OwedIs
<1>4. /\ work[k].local \in Locals
      /\ work[k].at \in [wallet : Wallets, token : Nat, row : Nat]
      /\ work[k].at.wallet \in Wallets /\ work[k].at.token \in Nat
  BY <1>1, <1>3, ReflectionsKinds
<1>5. work[k] \in Reflecting(Setting, Locals, [wallet : Wallets, token : Nat, row : Nat])
  BY <1>3 DEF ReflectionsRuns, Reflecting, Setting
<1>6. work[k].at.row \in DOMAIN rewards
  BY <1>2 DEF RowOf
<1>. QED
  BY <1>1, <1>2, <1>3, <1>4, <1>5, <1>6, Indices DEF AtPair

\* The row of run k becomes e, which has one more reference, and the run goes on to op.
Sets(k, e, op, at) ==
  LET old == rewards[work[k].at.row] IN
  /\ rewards' = [rewards EXCEPT ![work[k].at.row] = e]
  /\ work' = [work EXCEPT ![k] = Resumed(work[k], op, work[k].local, at, work[k].owed)]
  /\ e.job = old.job /\ e.of = old.of
  /\ e.reflections = old.reflections /\ e.earned = old.earned /\ e.strayed = old.strayed
  /\ IF op = "user" THEN at = None ELSE at = work[k].at /\ e.token = None
  /\ AtPair(k) \in work[k].owed =>
       /\ e.user = OwnerOf[work[k].at.wallet]
       /\ op # "setWallet" => e.wallet = work[k].at.wallet
       /\ op = "user" => e.token = work[k].at.token
  /\ UNCHANGED <<tokens, config, users, wallets, ledger>>

LEMMA SetStep ==
  ASSUME ShapeInv, RunsInv, LedgerInv, EarnedInv, NEW k \in Work,
         work[k].kind = "reflections", work[k].op \in Setting,
         NEW e \in RewardSet, NEW op \in {"setWallet", "setToken", "user"}, NEW at,
         Sets(k, e, op, at)
  PROVE  ShapeInv' /\ RunsInv' /\ LedgerInv' /\ EarnedInv' /\ Recording
<1> DEFINE row == work[k].at.row
<1>1. /\ work[k].local \in Locals /\ work[k].owed \in SUBSET (Wallets \X Nat)
      /\ work[k].at \in [wallet : Wallets, token : Nat, row : Nat]
      /\ AtPair(k) \in Wallets \X Nat
      /\ AtPair(k)[1] = work[k].at.wallet /\ AtPair(k)[2] = work[k].at.token
      /\ row \in DOMAIN rewards
      /\ work[k].op \in Going /\ IsReflections(k, Setting)
      /\ OwedOf(k) /\ RowOf(k) /\ AheadOf(k)
  BY SettingRunIs
<1>2. /\ rewards' \in Seq(RewardSet) /\ DOMAIN rewards' = DOMAIN rewards /\ rewards'[row] = e
      /\ \A r \in DOMAIN rewards \ {row} : rewards'[r] = rewards[r]
  <2>1. rewards \in Seq(RewardSet)
    BY DEF ShapeInv
  <2> HIDE DEF RewardSet
  <2>. QED
    BY <1>1, <2>1, Replaced DEF Sets
<1>3. RewardsStay
  BY <1>2 DEF RewardsStay, Sets
<1>4. op \in Going /\ op # "list" /\ op # "done" /\ (op # "user" => op \in Setting) /\ "user" \notin Setting
  BY DEF Going, Setting
<1>5. ReflectionsGoOn(k, op, work[k].local, at, work[k].owed)
  BY <1>1, <1>4 DEF ReflectionsGoOn, Sets
<1>6. /\ GoesOn(k) /\ Untouched({"deploy", "price"}) /\ work'[k].kind = "reflections"
      /\ work'[k].op = op /\ work'[k].local = work[k].local /\ work'[k].at = at
      /\ work'[k].owed = work[k].owed /\ work'[k].job = work[k].job
  BY <1>5, ReflectionsRun
<1>7. OthersRowsStay(k)
  BY <1>1, <1>2, <1>3 DEF OthersRowsStay, RewardsStay, RowOf, Sets
<1>8. op # "user" => AtPair(k)' = AtPair(k)
  BY <1>6 DEF AtPair, Sets
<1>9. OwedOf(k)'
  <2>1. \A p \in work[k].owed : Shown(k, p) => Shown(k, p)'
    BY <1>1, <1>6, <1>7, ShownStays
  <2>2. ASSUME NEW p \in work[k].owed, p = AtPair(k), op = "user" PROVE Shown(k, p)'
    <3>1. /\ rewards'[row].user = OwnerOf[p[1]] /\ rewards'[row].wallet = p[1]
          /\ rewards'[row].token = p[2] /\ rewards'[row].job = work'[k].job
      BY <1>1, <1>2, <1>6, <2>2 DEF RowOf, Sets
    <3>. QED
      BY <1>1, <1>2, <3>1 DEF Shown, getRewardsHistory
  <2>3. \A p \in work[k].owed :
          /\ p[1] \in wallets' /\ p[2] \in Listed' /\ Holds(p[1], p[2])' > 0
          /\ p[2] \in work[k].local.toks
          /\ \/ OwnerOf[p[1]] \in work[k].local.users
             \/ p \in work[k].local.pairs
             \/ p = AtPair(k)
             \/ Shown(k, p)
    BY <1>1 DEF OwedOf, Listed, Holds, Balance, Sets
  <2>. QED
    BY <1>4, <1>6, <1>8, <2>1, <2>2, <2>3 DEF OwedOf
<1>10. op # "user" => RowOf(k)'
  <2> SUFFICES ASSUME op # "user" PROVE RowOf(k)'
    OBVIOUS
  <2>1. work'[k].at.row = row /\ work'[k].at.wallet = work[k].at.wallet
    BY <1>6 DEF Sets
  <2>2. \A l \in Work' \ {k} : IsReflections(l, Setting)' => work'[l].at.row # row
    BY <1>1, <1>6 DEF RowOf, GoesOn, IsReflections, Sets
  <2>3. rewards'[row].of = AtPair(k) /\ rewards'[row].job = work[k].job /\ rewards'[row].token = None
    BY <1>1, <1>2 DEF RowOf, Sets
  <2>4. /\ row \in DOMAIN rewards' /\ AtPair(k)' = AtPair(k)
        /\ work'[k].job = work[k].job /\ work'[k].owed = work[k].owed /\ work'[k].op = op
    BY <1>1, <1>2, <1>6, <1>8
  <2>5. AtPair(k) \in work[k].owed =>
          /\ rewards'[row].user = OwnerOf[work[k].at.wallet]
          /\ op = "setToken" => rewards'[row].wallet = work[k].at.wallet
    BY <1>2 DEF Sets
  <2>. QED
    BY <2>1, <2>2, <2>3, <2>4, <2>5 DEF RowOf
<1>11. AheadOf(k)'
  <2>1. /\ \A p \in work[k].local.pairs : OwnerOf[p[1]] \notin work[k].local.users
        /\ AtPair(k) \notin work[k].local.pairs
        /\ OwnerOf[work[k].at.wallet] \notin work[k].local.users
    BY <1>1, <1>4 DEF AheadOf
  <2>. QED
    BY <1>6, <1>8, <2>1 DEF AheadOf, Sets
<1>12. MakerInv'
  <2>1. \A p \in Wallets \X Nat : PastBy(k, p) => PastBy(k, p)'
    BY <1>4, <1>6 DEF PastBy
  <2>. QED
    BY <1>1, <1>3, <1>4, <1>6, <2>1, MakersStay DEF RewardsStay
<1>13. /\ IsReflections(k, Setting)' => RowOf(k)'
       /\ IsReflections(k, Going)' => AheadOf(k)'
  BY <1>4, <1>6, <1>10, <1>11 DEF IsReflections
<1>14. RunsInv'
  BY <1>6, <1>7, <1>9, <1>12, <1>13, RunsStep DEF Sets
<1>15. LedgerInv' /\ EarnedInv'
  BY <1>3, EarnedFrame DEF Sets
<1>16. ShapeInv'
  BY <1>2, <1>6 DEF ShapeInv, GoesOn, Sets
<1>17. TokensKept /\ QuotesKept
  BY TokensSame DEF Sets
<1>. QED
  BY <1>6, <1>14, <1>15, <1>16, <1>17 DEF Recording, Sets

LEMMA SetUserStep ==
  ASSUME ShapeInv, RunsInv, LedgerInv, EarnedInv, NEW k \in Work, setUser(k)
  PROVE  ShapeInv' /\ RunsInv' /\ LedgerInv' /\ EarnedInv' /\ Recording
<1> DEFINE u == OwnerOf[work[k].at.wallet]
           row == work[k].at.row
           e == [rewards[row] EXCEPT !.user = u]
<1>1. /\ work[k].kind = "reflections" /\ work[k].op = "setUser" /\ work[k].op \in Setting
      /\ UNCHANGED <<tokens, config, users, wallets, ledger>>
  BY DEF setUser, rest, Is, Setting
<1>2. /\ work[k] \in ReflectionsRuns
      /\ work[k].at.wallet \in Wallets /\ row \in DOMAIN rewards /\ rewards[row] \in RewardSet /\ RowOf(k)
  BY <1>1, SettingRunIs
<1>3. CASE u \notin users
  BY <1>1, <1>3, RunFails DEF setUser, setReference
<1>4. CASE u \in users
  <2>1. rewards' = [rewards EXCEPT ![row]["user"] = u] /\ work' = [work EXCEPT ![k].op = "setWallet"]
    BY <1>4 DEF setUser, setReference, Refer, Goon
  <2>2. /\ rewards' = [rewards EXCEPT ![row] = e]
        /\ work' = [work EXCEPT ![k] = Resumed(work[k], "setWallet", work[k].local, work[k].at, work[k].owed)]
    BY <1>2, <2>1, ResumedParts
  <2>3. /\ e \in RewardSet /\ e.user = u /\ e.token = rewards[row].token
        /\ e.job = rewards[row].job /\ e.of = rewards[row].of
        /\ e.reflections = rewards[row].reflections /\ e.earned = rewards[row].earned
        /\ e.strayed = rewards[row].strayed
    BY <1>2, <1>4 DEF RewardSet, ShapeInv
  <2> HIDE DEF e
  <2>4. e.token = None
    BY <1>2, <2>3 DEF RowOf
  <2>. QED
    BY <1>1, <2>2, <2>3, <2>4, SetStep DEF Sets
<1>. QED
  BY <1>3, <1>4

LEMMA SetWalletStep ==
  ASSUME ShapeInv, RunsInv, LedgerInv, EarnedInv, NEW k \in Work, setWallet(k)
  PROVE  ShapeInv' /\ RunsInv' /\ LedgerInv' /\ EarnedInv' /\ Recording
<1> DEFINE w == work[k].at.wallet
           row == work[k].at.row
           e == [rewards[row] EXCEPT !.wallet = w]
<1>1. /\ work[k].kind = "reflections" /\ work[k].op = "setWallet" /\ work[k].op \in Setting
      /\ UNCHANGED <<tokens, config, users, wallets, ledger>>
  BY DEF setWallet, rest, Is, Setting
<1>2. /\ work[k] \in ReflectionsRuns
      /\ w \in Wallets /\ row \in DOMAIN rewards /\ rewards[row] \in RewardSet /\ RowOf(k)
  BY <1>1, SettingRunIs
<1>3. CASE w \notin wallets
  BY <1>1, <1>3, RunFails DEF setWallet, setReference
<1>4. CASE w \in wallets
  <2>1. rewards' = [rewards EXCEPT ![row]["wallet"] = w] /\ work' = [work EXCEPT ![k].op = "setToken"]
    BY <1>4 DEF setWallet, setReference, Refer, Goon
  <2>2. /\ rewards' = [rewards EXCEPT ![row] = e]
        /\ work' = [work EXCEPT ![k] = Resumed(work[k], "setToken", work[k].local, work[k].at, work[k].owed)]
    BY <1>2, <2>1, ResumedParts
  <2>3. /\ e \in RewardSet /\ e.wallet = w /\ e.token = rewards[row].token /\ e.user = rewards[row].user
        /\ e.job = rewards[row].job /\ e.of = rewards[row].of
        /\ e.reflections = rewards[row].reflections /\ e.earned = rewards[row].earned
        /\ e.strayed = rewards[row].strayed
    BY <1>2, <1>4 DEF RewardSet
  <2> HIDE DEF e
  <2>4. /\ e.token = None
        /\ AtPair(k) \in work[k].owed => e.user = OwnerOf[w]
    BY <1>1, <1>2, <2>3 DEF RowOf
  <2>. QED
    BY <1>1, <2>2, <2>3, <2>4, SetStep DEF Sets
<1>. QED
  BY <1>3, <1>4

LEMMA SetTokenStep ==
  ASSUME ShapeInv, RunsInv, LedgerInv, EarnedInv, NEW k \in Work, setToken(k)
  PROVE  ShapeInv' /\ RunsInv' /\ LedgerInv' /\ EarnedInv' /\ Recording
<1> DEFINE i == work[k].at.token
           row == work[k].at.row
           e == [rewards[row] EXCEPT !.token = i]
<1>1. /\ work[k].kind = "reflections" /\ work[k].op = "setToken" /\ work[k].op \in Setting
      /\ UNCHANGED <<tokens, config, users, wallets, ledger>>
  BY DEF setToken, rest, Is, Setting
<1>2. /\ work[k] \in ReflectionsRuns
      /\ work[k] \in Reflecting(Setting, Locals, [wallet : Wallets, token : Nat, row : Nat])
      /\ i \in Nat /\ row \in DOMAIN rewards /\ rewards[row] \in RewardSet /\ RowOf(k)
  BY <1>1, SettingRunIs
<1>3. CASE i \notin Listed
  BY <1>1, <1>3, RunFails DEF setToken, setReference
<1>4. CASE i \in Listed
  <2>1. /\ rewards' = [rewards EXCEPT ![row]["token"] = i]
        /\ work' = [work EXCEPT ![k] = [@ EXCEPT !.op = "user", !.at = None]]
    BY <1>4 DEF setToken, setReference, Refer
  <2>2. rewards' = [rewards EXCEPT ![row] = e]
    BY <1>2, <2>1
  <2>3. work' = [work EXCEPT ![k] = Resumed(work[k], "user", work[k].local, None, work[k].owed)]
    <3>1. [work[k] EXCEPT !.op = "user", !.at = None] = Resumed(work[k], "user", work[k].local, None, work[k].owed)
      BY <1>2 DEF Resumed, Reflecting
    <3>. QED
      BY <2>1, <3>1
  <2>4. /\ e \in RewardSet /\ e.token = i /\ e.wallet = rewards[row].wallet /\ e.user = rewards[row].user
        /\ e.job = rewards[row].job /\ e.of = rewards[row].of
        /\ e.reflections = rewards[row].reflections /\ e.earned = rewards[row].earned
        /\ e.strayed = rewards[row].strayed
    BY <1>2 DEF RewardSet
  <2> HIDE DEF e
  <2>5. AtPair(k) \in work[k].owed =>
          e.user = OwnerOf[work[k].at.wallet] /\ e.wallet = work[k].at.wallet
    BY <1>1, <1>2, <2>4 DEF RowOf
  <2>. QED
    BY <1>1, <2>2, <2>3, <2>4, <2>5, SetStep DEF Sets
<1>. QED
  BY <1>3, <1>4

LEMMA ReflectionsSteps ==
  ASSUME ShapeInv, RunsInv, LedgerInv, EarnedInv, NEW k \in Work, reflections(k)
  PROVE  ShapeInv' /\ RunsInv' /\ LedgerInv' /\ EarnedInv' /\ Recording
BY FindUsersStep, NextUserStep, RewardsDoneStep, BalanceOfStep, UnreachableStep, CreateRewardStep,
   SetUserStep, SetWalletStep, SetTokenStep DEF reflections

-----------------------------------------------------------------------------
(* The invariant                                                           *)

HourlyInv == ShapeInv /\ ConfigInv /\ PriceInv /\ LedgerInv /\ EarnedInv /\ RunsInv

LEMMA InitShape == ASSUME Init PROVE ShapeInv
<1>1. InitTokens \in Seq(TokenSet)
  <2> DEFINE Row == [net : Nets, symbol : STRING, of : {0}, rewards : BOOLEAN, quote : {None}, alive : BOOLEAN]
  <2>1. InitTokens \in Seq(Row)
    BY HourlyAssumption
  <2>2. DOMAIN InitTokens = 1..Len(InitTokens) /\ InitTokens \in [DOMAIN InitTokens -> Row]
    <3> HIDE DEF Row
    <3>. QED
      BY <2>1
  <2>3. ASSUME NEW i \in DOMAIN InitTokens PROVE InitTokens[i] \in TokenSet
    <3>1. InitTokens[i] \in Row /\ InitTokens[i].symbol \in Names
      BY <2>2 DEF Names
    <3>. QED
      BY <3>1 DEF TokenSet
  <2> HIDE DEF Row
  <2>4. InitTokens \in [DOMAIN InitTokens -> TokenSet]
    BY <2>2, <2>3
  <2>. QED
    BY <2>1, <2>4, Mapped
<1>2. /\ config \in [mode : Nets, presale : Nat \union {None}, locker : Nat \union {None}]
      /\ users \subseteq Users /\ wallets \subseteq Wallets
  BY HourlyAssumption DEF Init
<1>3. ledger \in [Wallets -> Ledgers]
  BY HourlyAssumption DEF Init, Ledgers
<1>4. \A S : <<>> \in Seq(S)
  OBVIOUS
<1>. QED
  BY <1>1, <1>2, <1>3, <1>4 DEF Init, ShapeInv

LEMMA InitInv == Init => HourlyInv
<1> SUFFICES ASSUME Init PROVE HourlyInv
  OBVIOUS
<1>1. ShapeInv
  BY InitShape
<1>2. /\ Work = {} /\ DOMAIN rewards = {} /\ config.presale = None /\ config.locker = None
      /\ wallets = Wallets /\ users = Users
  BY DEF Init, Work
<1>3. ConfigInv
  BY <1>2 DEF ConfigInv, ConfigurationIsWhole
<1>4. PriceInv
  <2>1. ASSUME NEW i \in DOMAIN tokens PROVE tokens[i].quote = None
    <3> DEFINE Row == [net : Nets, symbol : STRING, of : {0}, rewards : BOOLEAN, quote : {None}, alive : BOOLEAN]
    <3>1. tokens \in Seq(Row)
      BY HourlyAssumption DEF Init
    <3>2. tokens[i] \in Row
      <4> HIDE DEF Row
      <4>. QED
        BY <3>1
    <3>. QED
      BY <3>2
  <2>. QED
    BY <1>2, <2>1 DEF PriceInv, QuoteInv, MateInv, ClearInv, TornInv
<1>5. LedgerInv /\ EarnedInv
  BY <1>2, HourlyAssumption DEF LedgerInv, EarnedInv, Init
<1>6. OwnersInv /\ OwedInv /\ RowsInv /\ AheadInv
  BY <1>2, HourlyAssumption DEF OwnersInv, OwedInv, RowsInv, AheadInv
<1>7. MakerInv
  <2>1. rewards \in [DOMAIN rewards -> Work]
    BY <1>1, <1>2 DEF ShapeInv
  <2>. QED
    BY <1>2, <2>1 DEF MakerInv, Makers
<1>. QED
  BY <1>1, <1>3, <1>4, <1>5, <1>6, <1>7 DEF HourlyInv, RunsInv

\* Jobs are numbered.
LEMMA JobsAreNumbers ==
  ASSUME ShapeInv, NEW job \in Stalled \union {Cardinality(Jobs) + 1}
  PROVE  job \in Nat
<1> DEFINE K == {k \in Work : work[k].kind = "reflections"}
           f == [k \in K |-> work[k].job]
<1>1. \A k \in K : work[k].job \in Nat
  BY OwedIs
<1>2. IsFiniteSet(Work)
  <2>1. Work = 1..Len(work) /\ Len(work) \in Nat
    BY DEF ShapeInv, Work
  <2>. QED
    BY <2>1, FS_Interval
<1>3. IsFiniteSet(K)
  BY <1>2, FS_Subset
<1>4. f \in Surjection(K, Jobs)
  BY DEF Surjection, Jobs
<1>5. IsFiniteSet(Jobs)
  <2> HIDE DEF f, K
  <2>. QED
    BY <1>3, <1>4, FS_Surjection
<1>6. Cardinality(Jobs) \in Nat
  BY <1>5, FS_CardinalityType
<1>7. Stalled \subseteq Nat
  BY <1>1 DEF Stalled
<1>. QED
  BY <1>6, <1>7

LEMMA Recorded ==
  ASSUME HourlyInv, ShapeInv' /\ RunsInv' /\ LedgerInv' /\ EarnedInv' /\ Recording
  PROVE  HourlyInv'
<1>1. Untouched({"deploy"}) /\ Untouched({"price"})
  BY DEF Recording, Untouched
<1>. QED
  BY <1>1, ConfigFrame, PriceFrame DEF HourlyInv, Recording

LEMMA Deployed ==
  ASSUME HourlyInv, ShapeInv' /\ ConfigInv' /\ Deploying
  PROVE  HourlyInv'
<1>1. Untouched({"reflections"}) /\ Untouched({"price"})
  BY DEF Deploying, Untouched
<1>2. RewardsStay
  BY DEF Deploying, RewardsStay
<1>3. LedgerInv' /\ EarnedInv'
  BY <1>2, EarnedFrame DEF HourlyInv, Deploying
<1>4. RunsInv'
  BY <1>1, RunsFrame DEF HourlyInv, Deploying
<1>5. PriceInv'
  BY <1>1, PriceFrame DEF HourlyInv, Deploying
<1>. QED
  BY <1>3, <1>4, <1>5 DEF HourlyInv

LEMMA PricedToo ==
  ASSUME HourlyInv, ShapeInv' /\ PriceInv' /\ Pricing
  PROVE  HourlyInv'
<1>1. Untouched({"reflections"}) /\ Untouched({"deploy"})
  BY DEF Pricing, Untouched
<1>2. RewardsStay
  BY DEF Pricing, RewardsStay
<1>3. LedgerInv' /\ EarnedInv'
  BY <1>2, EarnedFrame DEF HourlyInv, Pricing
<1>4. RunsInv'
  BY <1>1, RunsFrame DEF HourlyInv, Pricing
<1>5. ConfigInv'
  BY <1>1, ConfigFrame DEF HourlyInv, Pricing
<1>. QED
  BY <1>3, <1>4, <1>5 DEF HourlyInv

LEMMA NextInv == HourlyInv /\ [Next]_vars => HourlyInv'
<1> SUFFICES ASSUME HourlyInv, [Next]_vars PROVE HourlyInv'
  OBVIOUS
<1>1. ShapeInv /\ ConfigInv /\ PriceInv /\ LedgerInv /\ EarnedInv /\ RunsInv
  BY DEF HourlyInv
<1>2. CASE startPrice
  BY <1>1, <1>2, StartPriceStep, PricedToo
<1>3. CASE deploy
  BY <1>1, <1>3, DeployStep, Deployed
<1>4. ASSUME NEW job \in Stalled \union {Cardinality(Jobs) + 1}, startReflections(job) PROVE HourlyInv'
  <2>1. job \in Nat
    BY <1>1, JobsAreNumbers
  <2>. QED
    BY <1>1, <1>4, <2>1, StartReflectionsStep, Recorded
<1>5. ASSUME NEW k \in Work, price(k) PROVE HourlyInv'
  BY <1>1, <1>5, PriceSteps, PricedToo
<1>6. ASSUME NEW k \in Work, reflections(k) PROVE HourlyInv'
  BY <1>1, <1>6, ReflectionsSteps, Recorded
<1>7. ASSUME NEW k \in Work, deployTx(k) \/ storeAddresses(k) \/ addCharityToken(k) PROVE HourlyInv'
  BY <1>1, <1>7, DeployTxStep, StoreStep, AddCharityTokenStep, Deployed
<1>8. CASE \/ \E net \in Nets : updateConfiguration(net) \/ addToken(net, "CHAT")
           \/ \E i \in Edited : updateToken(i)
  BY <1>1, <1>8, EditStep, Recorded
<1>9. ASSUME NEW i \in Edited, deleteToken(i) PROVE HourlyInv'
  BY <1>1, <1>9, DeleteTokenStep, Recorded
<1>10. ASSUME NEW w \in Wallets, deleteAdress(w) PROVE HourlyInv'
  BY <1>1, <1>10, DeleteAdressStep, Recorded
<1>11. ASSUME NEW w \in Moving, NEW what \in {"in", "out", "reflected"}, move(w, what) PROVE HourlyInv'
  <2>1. w \in Wallets
    BY HourlyAssumption
  <2>. QED
    BY <1>1, <1>11, <2>1, MoveStep, Recorded
<1>12. ASSUME NEW u \in Users, deleteUser(u) PROVE HourlyInv'
  BY <1>1, <1>12, DeleteUserStep, Recorded
<1>13. CASE UNCHANGED vars
  <2>1. UNCHANGED <<tokens, config, users, wallets, ledger, rewards, work>>
    BY <1>13 DEF vars
  <2>2. /\ Untouched({"reflections"}) /\ Untouched({"deploy", "price"})
        /\ TokensKept /\ AliveKept /\ QuotesKept
    BY <1>1, <2>1, UntouchedByNone, TokensSame
  <2>3. RunsInv' /\ LedgerInv' /\ EarnedInv'
    BY <1>1, <2>1, <2>2, RunsFrame, EarnedFrame DEF RewardsStay
  <2>4. ShapeInv' /\ Recording
    BY <1>1, <2>1, <2>2 DEF ShapeInv, Recording
  <2>. QED
    BY <2>3, <2>4, Recorded
<1>. QED
  BY <1>2, <1>3, <1>4, <1>5, <1>6, <1>7, <1>8, <1>9, <1>10, <1>11, <1>12, <1>13 DEF Next

LEMMA Invariance == Spec => []HourlyInv
<1>. QED
  BY InitInv, NextInv, PTL DEF Spec

-----------------------------------------------------------------------------
(* What the jobs keep                                                      *)

\* A run of the price job that no other runs beside leaves at most one symbol with a
\* price on the main network alone, and none when it completed (PricesMirrored).
THEOREM Mirrored == Spec => []PricesMirrored
<1>1. HourlyInv => PricesMirrored
  <2> SUFFICES ASSUME HourlyInv, NEW k \in Work, work[k].kind = "price", work[k].clear,
                      \A l \in Work : work[l].kind = "price" => l <= k
               PROVE  Cardinality(Torn(k)) <= 1 /\ (Torn(k) # {} => work[k].op \in {"mirror", "failed"})
    BY DEF PricesMirrored
  <2>1. IF work[k].op = "failed" THEN \E i : Torn(k) \subseteq {i} ELSE Torn(k) \subseteq Behind(k)
    BY DEF HourlyInv, PriceInv, TornInv, Sole
  <2>2. PICK i : Torn(k) \subseteq {i}
    BY <2>1 DEF Behind
  <2>3. Cardinality({i}) = 1 /\ IsFiniteSet({i})
    BY FS_Singleton
  <2>4. Cardinality(Torn(k)) <= 1
    BY <2>2, <2>3, FS_Subset
  <2>5. Torn(k) # {} => work[k].op \in {"mirror", "failed"}
    BY <2>1 DEF Behind
  <2>. QED
    BY <2>4, <2>5
<1>. QED
  BY <1>1, Invariance, PTL

\* The configuration names presale and locker of one deployment, and a deployment that
\* completed listed its token (ConfigurationIsWhole).
THEOREM Whole == Spec => []ConfigurationIsWhole
<1>1. HourlyInv => ConfigurationIsWhole
  BY DEF HourlyInv, ConfigInv
<1>. QED
  BY <1>1, Invariance, PTL

\* A run that completed recorded what it owed, and nothing twice (RewardedOncePerRun).
THEOREM Rewarded == Spec => []RewardedOncePerRun
<1>1. ASSUME HourlyInv, NEW k \in Work, work[k].kind = "reflections", work[k].op = "done",
             NEW p \in work[k].owed
      PROVE  \E r \in getRewardsHistory(p[1], p[2]) : rewards[r].job = work[k].job
  BY <1>1 DEF HourlyInv, RunsInv, OwedInv, OwedOf, Shown
<1>2. ASSUME HourlyInv, NEW job, NEW p
      PROVE  Cardinality({r \in DOMAIN rewards : rewards[r].job = job /\ rewards[r].of = p})
               <= Cardinality({k \in Work : work[k].kind = "reflections" /\ work[k].job = job})
  <2> DEFINE R == {r \in DOMAIN rewards : rewards[r].job = job /\ rewards[r].of = p}
             K == {k \in Work : work[k].kind = "reflections" /\ work[k].job = job}
  <2>1. PICK m \in [DOMAIN rewards -> Work] : Makers(m)
    BY <1>2 DEF HourlyInv, RunsInv, MakerInv
  <2>2. IsFiniteSet(K)
    <3>1. Work = 1..Len(work) /\ Len(work) \in Nat
      BY <1>2 DEF HourlyInv, ShapeInv, Work
    <3>2. IsFiniteSet(Work)
      BY <3>1, FS_Interval
    <3>. QED
      BY <3>2, FS_Subset
  <2> DEFINE f == [r \in R |-> m[r]]
  <2>3. ASSUME NEW r \in R PROVE f[r] \in K
    BY <2>1 DEF Makers, IsReflections
  <2>4. ASSUME NEW r \in R, NEW s \in R, f[r] = f[s] PROVE r = s
    BY <2>1, <2>4 DEF Makers
  <2>5. f \in Injection(R, K)
    BY <2>3, <2>4 DEF Injection, IsInjective
  <2> HIDE DEF f, R, K
  <2>6. Cardinality(R) <= Cardinality(K)
    BY <2>2, <2>5, FS_Injection
  <2>. QED
    BY <2>6 DEF R, K
<1>3. HourlyInv => RewardedOncePerRun
  BY <1>1, <1>2 DEF RewardedOncePerRun
<1>. QED
  BY <1>3, Invariance, PTL

\* Of a wallet that was empty at first, what is recorded as reflections is what it had
\* got less the fees it had paid, off by just what moved between the read of its balance
\* and that of the explorer, for any number of runs (ReflectionsStray).
THEOREM Strayed == Spec => []ReflectionsStray
<1>1. HourlyInv => ReflectionsStray
  BY DEF ReflectionsStray, HourlyInv, EarnedInv
<1>. QED
  BY <1>1, Invariance, PTL
=============================================================================

-------------------------- MODULE Accounts_proofs ---------------------------
(* Proofs of the safety properties of Accounts, for any registrations,       *)
(* e-mail addresses, requests in flight, faults and recoveries.              *)
EXTENDS Accounts, TLAPS

\* An account that is not made yet has nothing, and no recovery is about it.
FreshInv ==
  /\ \A r \in Regs : pc[r] \in {"idle", "create"} =>
       r \notin users /\ r \notin inserting /\ parts[r] = {} /\ password[r] = 0
  /\ \A q \in Requests : req[q].op \in {"ask", "askMail"} => pc[req[q].user] \notin {"idle", "create"}

\* A registration gets to a statement only after those before it, unless its user
\* is gone; it ends otherwise only after a fault or a death.
PartsInv ==
  \A r \in users :
    /\ pc[r] = "data" => "role" \in parts[r]
    /\ pc[r] = "tokens" => {"role", "data"} \subseteq parts[r]
    /\ pc[r] \in {"mail", "done"} =>
         {"role", "data", "tokens"} \subseteq parts[r] /\ ("wallet" \in parts[r] \/ r \in inserting \/ died)
    /\ pc[r] = "error" => faults > 0
    /\ pc[r] = "lost" => died

\* The flag that was set when it was read is set, or an opening of the link that took
\* it is at work or has ended since.
AskInv ==
  \A q \in Requests : req[q].op \in {"ask", "askMail"} =>
    /\ req[q].seen <= attempts[req[q].user]
    /\ req[q].flag /\ req[q].user \in users =>
         \/ req[q].user \in resetting
         \/ Making(req[q].user)
         \/ attempts[req[q].user] > req[q].seen

IInv == TypeOK /\ FreshInv /\ PartsInv /\ AskInv /\ PasswordIsKnown /\ RecoveryLinkIsOpen

-----------------------------------------------------------------------------
\* What the continuations of a request hold.
LEMMA Conts ==
  /\ Idle \in Continuations /\ Idle.op = "idle"
  /\ \A k \in Continuations : k.op \in {"ask", "askMail"} =>
       /\ k.user \in Regs /\ k.seen \in Nat
       /\ [k EXCEPT !.op = "askMail"] \in Continuations
       /\ [k EXCEPT !.op = "askMail"].op = "askMail"
       /\ [k EXCEPT !.op = "askMail"].user = k.user
       /\ [k EXCEPT !.op = "askMail"].seen = k.seen
       /\ [k EXCEPT !.op = "askMail"].flag = k.flag
  /\ \A k \in Continuations : k.op = "clear" => k.user \in Regs
  /\ \A k \in Continuations : k.op \in {"set", "mail"} =>
       /\ k.user \in Regs /\ k.temporary \in Temporary
       /\ [k EXCEPT !.op = "mail"] \in Continuations
       /\ [k EXCEPT !.op = "mail"].op = "mail"
       /\ [k EXCEPT !.op = "mail"].user = k.user
       /\ [k EXCEPT !.op = "mail"].temporary = k.temporary
<1>1. Idle \in Continuations /\ Idle.op = "idle"
  BY DEF Continuations, Idle
<1>2. ASSUME NEW k \in Continuations, k.op \in {"ask", "askMail"}
      PROVE  k \in [op : {"ask", "askMail"}, user : Regs, flag : BOOLEAN, seen : Nat]
  BY <1>2 DEF Continuations, Idle
<1>3. ASSUME NEW k \in Continuations, k.op = "clear" PROVE k \in [op : {"clear"}, user : Regs]
  BY <1>3 DEF Continuations, Idle
<1>4. ASSUME NEW k \in Continuations, k.op \in {"set", "mail"}
      PROVE  k \in [op : {"set", "mail"}, user : Regs, temporary : Temporary]
  BY <1>4 DEF Continuations, Idle
<1>5. \A k \in [op : {"ask", "askMail"}, user : Regs, flag : BOOLEAN, seen : Nat] :
        /\ k.user \in Regs /\ k.seen \in Nat
        /\ [k EXCEPT !.op = "askMail"]
             \in [op : {"ask", "askMail"}, user : Regs, flag : BOOLEAN, seen : Nat]
        /\ [k EXCEPT !.op = "askMail"].op = "askMail"
        /\ [k EXCEPT !.op = "askMail"].user = k.user
        /\ [k EXCEPT !.op = "askMail"].seen = k.seen
        /\ [k EXCEPT !.op = "askMail"].flag = k.flag
  OBVIOUS
<1>6. \A k \in [op : {"set", "mail"}, user : Regs, temporary : Temporary] :
        /\ k.user \in Regs /\ k.temporary \in Temporary
        /\ [k EXCEPT !.op = "mail"] \in [op : {"set", "mail"}, user : Regs, temporary : Temporary]
        /\ [k EXCEPT !.op = "mail"].op = "mail"
        /\ [k EXCEPT !.op = "mail"].user = k.user
        /\ [k EXCEPT !.op = "mail"].temporary = k.temporary
  OBVIOUS
<1>. QED
  BY <1>1, <1>2, <1>3, <1>4, <1>5, <1>6 DEF Continuations

\* Who a recovery is about is a registration.
LEMMA Asking ==
  ASSUME TypeOK
  PROVE  \A q \in Requests : req[q].op \in {"ask", "askMail"} => req[q].user \in Regs
BY Conts DEF TypeOK

\* An opening that is making a password goes on with it through other requests' steps.
LEMMA StillMaking ==
  ASSUME NEW q \in Requests, \A x \in Requests \ {q} : req'[x] = req[x],
         NEW u, Making(u), req[q].op = "set" => req[q].user # u
  PROVE  Making(u)'
BY DEF Making

\* A request whose opening ends is counted, so that those who asked see it ended.
LEMMA AskKept ==
  ASSUME IInv, NEW q \in Requests, \A x \in Requests \ {q} : req'[x] = req[x],
         req'[q].op \notin {"ask", "askMail"}, UNCHANGED <<users, resetting>>,
         \/ req[q].op # "set" /\ UNCHANGED attempts
         \/ req[q].op = "set" /\ attempts' = [attempts EXCEPT ![req[q].user] = @ + 1]
  PROVE  AskInv' /\ RecoveryLinkIsOpen'
<1> SUFFICES ASSUME NEW x \in Requests \ {q}, req[x].op \in {"ask", "askMail"}
             PROVE  /\ req[x].seen <= attempts'[req[x].user]
                    /\ \/ Making(req[x].user) \/ attempts[req[x].user] > req[x].seen
                       => Making(req[x].user)' \/ attempts'[req[x].user] > req[x].seen
  BY DEF IInv, AskInv, RecoveryLinkIsOpen
<1>1. /\ req[x].user \in Regs /\ req[x].seen \in Nat
      /\ attempts \in [Regs -> Nat] /\ req[x].seen <= attempts[req[x].user]
      /\ req[q].op = "set" => req[q].user \in Regs
  BY Conts DEF IInv, TypeOK, AskInv
<1>2. CASE req[q].op = "set" /\ req[q].user = req[x].user
  BY <1>1, <1>2
<1>3. CASE ~(req[q].op = "set" /\ req[q].user = req[x].user)
  <2>1. attempts'[req[x].user] = attempts[req[x].user]
    BY <1>1, <1>3
  <2>2. Making(req[x].user) => Making(req[x].user)'
    BY <1>3, StillMaking
  <2>. QED
    BY <1>1, <2>1, <2>2
<1>. QED
  BY <1>2, <1>3

LEMMA InitIInv == Init => IInv
<1> SUFFICES ASSUME Init PROVE IInv
  OBVIOUS
<1>1. TypeOK
  <2>1. req \in [Requests -> Continuations]
    BY Conts DEF Init
  <2>2. pc \in [Regs -> {"idle", "create", "role", "data", "tokens", "mail"} \union Ended]
    BY DEF Init
  <2>3. clicks \in 0..MaxClicks /\ faults \in 0..MaxFaults
    BY AccountsAssumption DEF Init
  <2>4. died \in BOOLEAN
    BY DEF Init
  <2>. QED
    BY <2>1, <2>2, <2>3, <2>4 DEF Init, TypeOK
<1>2. FreshInv /\ PartsInv /\ AskInv /\ PasswordIsKnown /\ RecoveryLinkIsOpen
  BY Conts DEF Init, FreshInv, PartsInv, AskInv, PasswordIsKnown, RecoveryLinkIsOpen
<1>. QED
  BY <1>1, <1>2 DEF IInv

-----------------------------------------------------------------------------
(* Registration                                                            *)

LEMMA StartStep == ASSUME IInv, NEW r \in Regs, start(r) PROVE IInv'
<1> USE DEF start, Goto, Ended, accountVars, mailVars, countVars
<1>1. TypeOK'
  BY Conts DEF IInv, TypeOK
<1>2. FreshInv'
  BY Conts, Asking DEF IInv, TypeOK, FreshInv
<1>3. PartsInv'
  BY Conts DEF IInv, TypeOK, FreshInv, PartsInv
<1>4. AskInv' /\ RecoveryLinkIsOpen'
  BY Conts DEF IInv, TypeOK, FreshInv, AskInv, RecoveryLinkIsOpen, Making
<1>5. PasswordIsKnown'
  BY Conts DEF IInv, TypeOK, FreshInv, PasswordIsKnown
<1>. QED
  BY <1>1, <1>2, <1>3, <1>4, <1>5 DEF IInv

LEMMA CreateStep == ASSUME IInv, NEW r \in Regs, create(r) PROVE IInv'
<1> USE DEF create, Goto, Ended, mailVars, countVars
<1>1. TypeOK'
  BY Conts DEF IInv, TypeOK
<1>2. FreshInv'
  BY Conts, Asking DEF IInv, TypeOK, FreshInv
<1>3. PartsInv'
  BY Conts DEF IInv, TypeOK, FreshInv, PartsInv
<1>4. AskInv' /\ RecoveryLinkIsOpen'
  BY Conts DEF IInv, TypeOK, FreshInv, AskInv, RecoveryLinkIsOpen, Making
<1>5. PasswordIsKnown'
  BY Conts DEF IInv, TypeOK, FreshInv, PasswordIsKnown
<1>. QED
  BY <1>1, <1>2, <1>3, <1>4, <1>5 DEF IInv

LEMMA RoleStep == ASSUME IInv, NEW r \in Regs, addPart(r, "role", "data") PROVE IInv'
<1> USE DEF addPart, Goto, Ended, Parts, mailVars, countVars
<1>1. TypeOK'
  BY Conts DEF IInv, TypeOK
<1>2. FreshInv'
  BY Conts, Asking DEF IInv, TypeOK, FreshInv
<1>3. PartsInv'
  BY Conts DEF IInv, TypeOK, FreshInv, PartsInv
<1>4. AskInv' /\ RecoveryLinkIsOpen'
  BY Conts DEF IInv, TypeOK, FreshInv, AskInv, RecoveryLinkIsOpen, Making
<1>5. PasswordIsKnown'
  BY Conts DEF IInv, TypeOK, FreshInv, PasswordIsKnown
<1>. QED
  BY <1>1, <1>2, <1>3, <1>4, <1>5 DEF IInv

LEMMA DataStep == ASSUME IInv, NEW r \in Regs, addPart(r, "data", "tokens") PROVE IInv'
<1> USE DEF addPart, Goto, Ended, Parts, mailVars, countVars
<1>1. TypeOK'
  BY Conts DEF IInv, TypeOK
<1>2. FreshInv'
  BY Conts, Asking DEF IInv, TypeOK, FreshInv
<1>3. PartsInv'
  BY Conts DEF IInv, TypeOK, FreshInv, PartsInv
<1>4. AskInv' /\ RecoveryLinkIsOpen'
  BY Conts DEF IInv, TypeOK, FreshInv, AskInv, RecoveryLinkIsOpen, Making
<1>5. PasswordIsKnown'
  BY Conts DEF IInv, TypeOK, FreshInv, PasswordIsKnown
<1>. QED
  BY <1>1, <1>2, <1>3, <1>4, <1>5 DEF IInv

LEMMA TokensStep == ASSUME IInv, NEW r \in Regs, setTokens(r) PROVE IInv'
<1> USE DEF setTokens, Goto, Ended, Parts, mailVars, countVars
<1>1. TypeOK'
  BY Conts DEF IInv, TypeOK
<1>2. FreshInv'
  BY Conts, Asking DEF IInv, TypeOK, FreshInv
<1>3. PartsInv'
  BY Conts DEF IInv, TypeOK, FreshInv, PartsInv
<1>4. AskInv' /\ RecoveryLinkIsOpen'
  BY Conts DEF IInv, TypeOK, FreshInv, AskInv, RecoveryLinkIsOpen, Making
<1>5. PasswordIsKnown'
  BY Conts DEF IInv, TypeOK, FreshInv, PasswordIsKnown
<1>. QED
  BY <1>1, <1>2, <1>3, <1>4, <1>5 DEF IInv

LEMMA VerifyStep == ASSUME IInv, NEW r \in Regs, sendVerificationLink(r) PROVE IInv'
<1> USE DEF sendVerificationLink, Goto, Ended, accountVars, countVars
<1>1. TypeOK'
  <2>1. verifyLinks' \subseteq Emails
    BY AccountsAssumption DEF IInv, TypeOK
  <2>. QED
    BY <2>1 DEF IInv, TypeOK
<1>2. FreshInv'
  BY Conts, Asking DEF IInv, TypeOK, FreshInv
<1>3. PartsInv'
  BY Conts DEF IInv, TypeOK, FreshInv, PartsInv
<1>4. AskInv' /\ RecoveryLinkIsOpen'
  BY Conts DEF IInv, TypeOK, FreshInv, AskInv, RecoveryLinkIsOpen, Making
<1>5. PasswordIsKnown'
  BY Conts DEF IInv, TypeOK, FreshInv, PasswordIsKnown
<1>. QED
  BY <1>1, <1>2, <1>3, <1>4, <1>5 DEF IInv

LEMMA WalletStep == ASSUME IInv, NEW r \in Regs, createWallet(r) PROVE IInv'
<1> USE DEF createWallet, Ended, Parts, mailVars, countVars
<1>1. TypeOK'
  BY Conts DEF IInv, TypeOK
<1>2. FreshInv'
  BY Conts, Asking DEF IInv, TypeOK, FreshInv
<1>3. PartsInv'
  BY Conts DEF IInv, TypeOK, FreshInv, PartsInv
<1>4. AskInv' /\ RecoveryLinkIsOpen'
  BY Conts DEF IInv, TypeOK, FreshInv, AskInv, RecoveryLinkIsOpen, Making
<1>5. PasswordIsKnown'
  BY Conts DEF IInv, TypeOK, FreshInv, PasswordIsKnown
<1>. QED
  BY <1>1, <1>2, <1>3, <1>4, <1>5 DEF IInv

-----------------------------------------------------------------------------
(* Confirmation, recovery, the signed-in user                              *)

LEMMA ConfirmReadStep == ASSUME IInv, NEW q \in Requests, NEW u \in Regs, confirmEmailRead(q, u) PROVE IInv'
<1> USE DEF confirmEmailRead, Goon, Continuations, accountVars, mailVars, countVars
<1>1. TypeOK'
  BY Conts, AccountsAssumption DEF IInv, TypeOK
<1>2. FreshInv'
  BY Conts, Asking DEF IInv, TypeOK, FreshInv
<1>3. PartsInv'
  BY Conts DEF IInv, TypeOK, FreshInv, PartsInv
<1>4. AskInv' /\ RecoveryLinkIsOpen'
  <2>1. /\ resetting' = resetting /\ attempts' = attempts /\ users' = users
        /\ req[q].op = "idle" /\ req'[q].op = "confirm"
        /\ \A p \in Requests \ {q} : req'[p] = req[p]
    BY Conts DEF IInv, TypeOK
  <2>2. \A v \in Regs : Making(v) => Making(v)'
    BY <2>1 DEF Making
  <2>3. \A p \in Requests : req[p].op \in {"ask", "askMail"} => req[p].user \in Regs
    BY Conts DEF IInv, TypeOK
  <2>4. AskInv /\ RecoveryLinkIsOpen
    BY DEF IInv
  <2>. QED
    BY <2>1, <2>2, <2>3, <2>4 DEF AskInv, RecoveryLinkIsOpen
<1>5. PasswordIsKnown'
  BY Conts DEF IInv, TypeOK, FreshInv, PasswordIsKnown
<1>. QED
  BY <1>1, <1>2, <1>3, <1>4, <1>5 DEF IInv

LEMMA ConfirmStep == ASSUME IInv, NEW q \in Requests, markEmailAsConfirmed(q) PROVE IInv'
<1> USE DEF markEmailAsConfirmed, Goon, mailVars, countVars
<1>1. TypeOK'
  BY Conts DEF IInv, TypeOK
<1>2. FreshInv'
  BY Conts, Asking DEF IInv, TypeOK, FreshInv
<1>3. PartsInv'
  BY Conts DEF IInv, TypeOK, FreshInv, PartsInv
<1>4. AskInv' /\ RecoveryLinkIsOpen'
  BY Conts DEF IInv, TypeOK, FreshInv, AskInv, RecoveryLinkIsOpen, Making
<1>5. PasswordIsKnown'
  BY Conts DEF IInv, TypeOK, FreshInv, PasswordIsKnown
<1>. QED
  BY <1>1, <1>2, <1>3, <1>4, <1>5 DEF IInv

LEMMA ResendStep == ASSUME IInv, NEW u \in Regs, resendConfirmationLink(u) PROVE IInv'
<1> USE DEF resendConfirmationLink, accountVars, countVars
<1>1. TypeOK'
  BY Conts, AccountsAssumption DEF IInv, TypeOK
<1>2. FreshInv'
  BY Conts, Asking DEF IInv, TypeOK, FreshInv
<1>3. PartsInv'
  BY Conts DEF IInv, TypeOK, FreshInv, PartsInv
<1>4. AskInv' /\ RecoveryLinkIsOpen'
  BY Conts DEF IInv, TypeOK, FreshInv, AskInv, RecoveryLinkIsOpen, Making
<1>5. PasswordIsKnown'
  BY Conts DEF IInv, TypeOK, FreshInv, PasswordIsKnown
<1>. QED
  BY <1>1, <1>2, <1>3, <1>4, <1>5 DEF IInv

LEMMA AskStep == ASSUME IInv, NEW q \in Requests, NEW u \in Regs, recoveryRead(q, u) PROVE IInv'
<1> USE DEF recoveryRead, Goon, Continuations, accountVars, mailVars, countVars
<1>1. TypeOK'
  BY Conts DEF IInv, TypeOK
<1>2. FreshInv'
  BY Conts, Asking DEF IInv, TypeOK, FreshInv
<1>3. PartsInv'
  BY Conts DEF IInv, TypeOK, FreshInv, PartsInv
<1>4. AskInv' /\ RecoveryLinkIsOpen'
  <2>1. /\ req'[q].op = "ask" /\ req'[q].user = u /\ req'[q].seen = attempts[u]
        /\ req'[q].flag <=> u \in resetting
    BY DEF IInv, TypeOK
  <2>2. attempts[u] \in Nat /\ attempts[u] <= attempts[u]
    BY DEF IInv, TypeOK
  <2>3. \A x \in Requests \ {q} : req'[x] = req[x]
    BY DEF IInv, TypeOK
  <2>4. \A v : Making(v) => Making(v)'
    BY <2>3, StillMaking, Conts
  <2>. QED
    BY <2>1, <2>2, <2>3, <2>4 DEF IInv, AskInv, RecoveryLinkIsOpen
<1>5. PasswordIsKnown'
  BY Conts DEF IInv, TypeOK, FreshInv, PasswordIsKnown
<1>. QED
  BY <1>1, <1>2, <1>3, <1>4, <1>5 DEF IInv

LEMMA SaveFlagStep == ASSUME IInv, NEW q \in Requests, recoverySave(q) PROVE IInv'
<1> USE DEF recoverySave, Goon, mailVars, countVars
<1>1. TypeOK'
  BY Conts DEF IInv, TypeOK
<1>2. FreshInv'
  BY Conts, Asking DEF IInv, TypeOK, FreshInv
<1>3. PartsInv'
  BY Conts DEF IInv, TypeOK, FreshInv, PartsInv
<1>4. AskInv' /\ RecoveryLinkIsOpen'
  <2>1. req[q].user \in Regs /\ req[q].seen \in Nat
    BY Conts DEF IInv, TypeOK
  <2>2. /\ req'[q].op = "askMail" /\ req'[q].user = req[q].user
        /\ req'[q].flag = req[q].flag /\ req'[q].seen = req[q].seen
    BY Conts DEF IInv, TypeOK
  <2>3. req[q].user \in users =>
        req[q].user \in resetting' \/ Making(req[q].user) \/ attempts[req[q].user] > req[q].seen
    BY DEF IInv, AskInv
  <2>4. \A x \in Requests \ {q} : req'[x] = req[x]
    BY DEF IInv, TypeOK
  <2>5. resetting \subseteq resetting'
    OBVIOUS
  <2>. QED
    BY <2>1, <2>2, <2>3, <2>4, <2>5 DEF IInv, AskInv, RecoveryLinkIsOpen, Making
<1>5. PasswordIsKnown'
  BY Conts DEF IInv, TypeOK, FreshInv, PasswordIsKnown
<1>. QED
  BY <1>1, <1>2, <1>3, <1>4, <1>5 DEF IInv

LEMMA LinkStep == ASSUME IInv, NEW q \in Requests, sendRecoveryLink(q) PROVE IInv'
<1> USE DEF sendRecoveryLink, Goon, accountVars, countVars
<1>1. TypeOK'
  <2>1. recoveryLinks' \subseteq Emails
    BY Asking, AccountsAssumption DEF IInv, TypeOK
  <2>. QED
    BY <2>1, Conts DEF IInv, TypeOK
<1>2. FreshInv'
  BY Conts, Asking DEF IInv, TypeOK, FreshInv
<1>3. PartsInv'
  BY Conts DEF IInv, TypeOK, FreshInv, PartsInv
<1>4. AskInv' /\ RecoveryLinkIsOpen'
  BY Conts DEF IInv, TypeOK, FreshInv, AskInv, RecoveryLinkIsOpen, Making
<1>5. PasswordIsKnown'
  BY Conts DEF IInv, TypeOK, FreshInv, PasswordIsKnown
<1>. QED
  BY <1>1, <1>2, <1>3, <1>4, <1>5 DEF IInv

LEMMA OpenStep == ASSUME IInv, NEW q \in Requests, NEW u \in Regs, recoveryPasswordRead(q, u) PROVE IInv'
<1> USE DEF recoveryPasswordRead, Goon, Continuations, accountVars, mailVars, countVars
<1>1. TypeOK'
  BY Conts DEF IInv, TypeOK
<1>2. FreshInv'
  BY Conts, Asking DEF IInv, TypeOK, FreshInv
<1>3. PartsInv'
  BY Conts DEF IInv, TypeOK, FreshInv, PartsInv
<1>4. AskInv' /\ RecoveryLinkIsOpen'
  BY Conts DEF IInv, TypeOK, FreshInv, AskInv, RecoveryLinkIsOpen, Making
<1>5. PasswordIsKnown'
  BY Conts DEF IInv, TypeOK, FreshInv, PasswordIsKnown
<1>. QED
  BY <1>1, <1>2, <1>3, <1>4, <1>5 DEF IInv

LEMMA ClearStep == ASSUME IInv, NEW q \in Requests, clearFlag(q) PROVE IInv'
<1> USE DEF clearFlag, Goon, Continuations, Temporary, mailVars
<1>1. TypeOK'
  BY Conts, AccountsAssumption DEF IInv, TypeOK
<1>2. FreshInv'
  BY Conts, Asking DEF IInv, TypeOK, FreshInv
<1>3. PartsInv'
  BY Conts DEF IInv, TypeOK, FreshInv, PartsInv
<1>4. AskInv' /\ RecoveryLinkIsOpen'
  BY Conts DEF IInv, TypeOK, FreshInv, AskInv, RecoveryLinkIsOpen, Making
<1>5. PasswordIsKnown'
  BY Conts DEF IInv, TypeOK, FreshInv, PasswordIsKnown
<1>. QED
  BY <1>1, <1>2, <1>3, <1>4, <1>5 DEF IInv

LEMMA SetStep == ASSUME IInv, NEW q \in Requests, setNewUserPassword(q) PROVE IInv'
<1> USE DEF setNewUserPassword, Goon, mailVars, countVars
<1>1. TypeOK'
  BY Conts DEF IInv, TypeOK
<1>2. FreshInv'
  BY Conts, Asking DEF IInv, TypeOK, FreshInv
<1>3. PartsInv'
  BY Conts DEF IInv, TypeOK, FreshInv, PartsInv
<1>4. AskInv' /\ RecoveryLinkIsOpen'
  <2>1. \A x \in Requests \ {q} : req'[x] = req[x]
    BY DEF IInv, TypeOK
  <2>2. req'[q].op \notin {"ask", "askMail"}
    BY Conts DEF IInv, TypeOK
  <2>. QED
    BY <2>1, <2>2, AskKept
<1>5. PasswordIsKnown'
  BY Conts DEF IInv, TypeOK, FreshInv, PasswordIsKnown
<1>. QED
  BY <1>1, <1>2, <1>3, <1>4, <1>5 DEF IInv

LEMMA MailStep == ASSUME IInv, NEW q \in Requests, mailPassword(q) PROVE IInv'
<1> USE DEF mailPassword, Goon, accountVars, countVars
<1>1. TypeOK'
  <2>1. req[q].user \in Regs /\ req[q].temporary \in Temporary
    BY Conts DEF IInv, TypeOK
  <2>2. mailed' \in [Regs -> SUBSET Temporary]
    BY <2>1 DEF IInv, TypeOK
  <2>. QED
    BY <2>2, Conts DEF IInv, TypeOK
<1>2. FreshInv'
  BY Conts, Asking DEF IInv, TypeOK, FreshInv
<1>3. PartsInv'
  BY Conts DEF IInv, TypeOK, FreshInv, PartsInv
<1>4. AskInv' /\ RecoveryLinkIsOpen'
  BY Conts DEF IInv, TypeOK, FreshInv, AskInv, RecoveryLinkIsOpen, Making
<1>5. PasswordIsKnown'
  BY Conts DEF IInv, TypeOK, FreshInv, PasswordIsKnown
<1>. QED
  BY <1>1, <1>2, <1>3, <1>4, <1>5 DEF IInv

LEMMA OwnPasswordStep == ASSUME IInv, NEW u \in Regs, updateUserPassword(u) PROVE IInv'
<1> USE DEF updateUserPassword, mailVars, countVars
<1>1. TypeOK'
  BY Conts DEF IInv, TypeOK
<1>2. FreshInv'
  BY Conts, Asking DEF IInv, TypeOK, FreshInv
<1>3. PartsInv'
  BY Conts DEF IInv, TypeOK, FreshInv, PartsInv
<1>4. AskInv' /\ RecoveryLinkIsOpen'
  BY Conts DEF IInv, TypeOK, FreshInv, AskInv, RecoveryLinkIsOpen, Making
<1>5. PasswordIsKnown'
  BY Conts DEF IInv, TypeOK, FreshInv, PasswordIsKnown
<1>. QED
  BY <1>1, <1>2, <1>3, <1>4, <1>5 DEF IInv

LEMMA DeleteStep == ASSUME IInv, NEW u \in Regs, delete(u) PROVE IInv'
<1> USE DEF delete, mailVars, countVars
<1>1. TypeOK'
  BY Conts DEF IInv, TypeOK
<1>2. FreshInv'
  BY Conts, Asking DEF IInv, TypeOK, FreshInv
<1>3. PartsInv'
  BY Conts DEF IInv, TypeOK, FreshInv, PartsInv
<1>4. AskInv' /\ RecoveryLinkIsOpen'
  BY Conts DEF IInv, TypeOK, FreshInv, AskInv, RecoveryLinkIsOpen, Making
<1>5. PasswordIsKnown'
  BY Conts DEF IInv, TypeOK, FreshInv, PasswordIsKnown
<1>. QED
  BY <1>1, <1>2, <1>3, <1>4, <1>5 DEF IInv

-----------------------------------------------------------------------------
(* Faults                                                                  *)

LEMMA FailRegistrationStep == ASSUME IInv, NEW r \in Regs, failRegistration(r) PROVE IInv'
<1> USE DEF failRegistration, Goto, Ended, accountVars, mailVars
<1>1. TypeOK'
  BY Conts, AccountsAssumption DEF IInv, TypeOK
<1>2. FreshInv'
  BY Conts, Asking DEF IInv, TypeOK, FreshInv
<1>3. PartsInv'
  BY Conts DEF IInv, TypeOK, FreshInv, PartsInv
<1>4. AskInv' /\ RecoveryLinkIsOpen'
  BY Conts DEF IInv, TypeOK, FreshInv, AskInv, RecoveryLinkIsOpen, Making
<1>5. PasswordIsKnown'
  BY Conts DEF IInv, TypeOK, FreshInv, PasswordIsKnown
<1>. QED
  BY <1>1, <1>2, <1>3, <1>4, <1>5 DEF IInv

LEMMA FailRequestStep == ASSUME IInv, NEW q \in Requests, failRequest(q) PROVE IInv'
<1> USE DEF failRequest, Goon, accountVars, mailVars
<1>1. TypeOK'
  <2>1. attempts \in [Regs -> Nat] /\ (req[q].op = "set" => req[q].user \in Regs)
    BY Conts DEF IInv, TypeOK
  <2>2. attempts' \in [Regs -> Nat]
    <3>1. CASE req[q].op = "set"
      BY <2>1, <3>1
    <3>2. CASE req[q].op # "set"
      BY <2>1, <3>2
    <3>. QED
      BY <3>1, <3>2
  <2>. QED
    BY <2>2, Conts, AccountsAssumption DEF IInv, TypeOK
<1>2. FreshInv'
  BY Conts, Asking DEF IInv, TypeOK, FreshInv
<1>3. PartsInv'
  BY Conts DEF IInv, TypeOK, FreshInv, PartsInv
<1>4. AskInv' /\ RecoveryLinkIsOpen'
  <2>1. \A x \in Requests \ {q} : req'[x] = req[x]
    BY DEF IInv, TypeOK
  <2>2. req'[q].op \notin {"ask", "askMail"}
    BY Conts DEF IInv, TypeOK
  <2>. QED
    BY <2>1, <2>2, AskKept
<1>5. PasswordIsKnown'
  BY Conts DEF IInv, TypeOK, FreshInv, PasswordIsKnown
<1>. QED
  BY <1>1, <1>2, <1>3, <1>4, <1>5 DEF IInv

LEMMA DeathStep == ASSUME IInv, Death, faults' \in 0..MaxFaults, faults' >= faults PROVE IInv'
<1> USE DEF Death, Ended, accountVars, mailVars
<1>1. TypeOK'
  BY Conts DEF IInv, TypeOK
<1>2. FreshInv'
  BY Conts DEF IInv, TypeOK, FreshInv
<1>3. PartsInv'
  BY DEF IInv, TypeOK, PartsInv
<1>4. AskInv' /\ RecoveryLinkIsOpen' /\ PasswordIsKnown'
  BY Conts DEF AskInv, RecoveryLinkIsOpen, PasswordIsKnown
<1>. QED
  BY <1>1, <1>2, <1>3, <1>4 DEF IInv

-----------------------------------------------------------------------------
LEMMA NextIInv == IInv /\ [Next]_vars => IInv'
<1> SUFFICES ASSUME IInv, [Next]_vars PROVE IInv'
  OBVIOUS
<1>1. ASSUME NEW r \in Regs, registering(r) PROVE IInv'
  BY <1>1, StartStep, CreateStep, RoleStep, DataStep, TokensStep, VerifyStep, WalletStep
     DEF registering
<1>2. CASE crash \/ \E r \in Regs : unhandledRejection(r)
  <2>1. faults \in 0..MaxFaults /\ MaxFaults \in Nat
    BY AccountsAssumption DEF IInv, TypeOK
  <2>. QED
    BY <1>2, <2>1, DeathStep DEF crash, unhandledRejection
<1>3. CASE UNCHANGED vars
  BY <1>3 DEF vars, IInv, TypeOK, FreshInv, PartsInv, AskInv, PasswordIsKnown, RecoveryLinkIsOpen,
              Making
<1>. QED
  BY <1>1, <1>2, <1>3, FailRegistrationStep, FailRequestStep, ConfirmReadStep, ConfirmStep, AskStep,
     SaveFlagStep, LinkStep, OpenStep, ClearStep, SetStep, MailStep, ResendStep, OwnPasswordStep,
     DeleteStep DEF Next

LEMMA Invariance == Spec => []IInv
BY InitIInv, NextIInv, PTL DEF Spec

\* Every variable stays in its range.
THEOREM TypeCorrect == Spec => []TypeOK
<1>1. IInv => TypeOK
  BY DEF IInv
<1>. QED
  BY <1>1, Invariance, PTL

\* No account is half-made after its registration was answered, or after any end of it
\* if no statement failed and the process lived (createUser, createAdmin).
THEOREM Complete == Spec => []AccountsAreComplete
<1>1. IInv => AccountsAreComplete
  <2> SUFFICES ASSUME IInv, NEW r \in users PROVE
        /\ pc[r] = "done" => {"role", "data", "tokens"} \subseteq parts[r]
        /\ pc[r] \in Ended /\ faults = 0 /\ ~died => parts[r] = Parts \/ r \in inserting
    BY DEF AccountsAreComplete
  <2>1. parts[r] \subseteq Parts
    BY DEF IInv, TypeOK
  <2>. QED
    BY <2>1 DEF IInv, PartsInv, Ended, Parts
<1>. QED
  BY <1>1, Invariance, PTL

\* Without a fault the password of a user is his own, mailed, or being mailed, however
\* many recoveries overlap (recoveryPassword).
THEOREM Known == Spec => []PasswordIsKnown
<1>1. IInv => PasswordIsKnown
  BY DEF IInv
<1>. QED
  BY <1>1, Invariance, PTL

\* A recovery link about to be mailed works, or since it was asked for an earlier link
\* led to a password, is leading to one, or failed in between, however many recoveries
\* overlap (recovery).
THEOREM LinkOpen == Spec => []RecoveryLinkIsOpen
<1>1. IInv => RecoveryLinkIsOpen
  BY DEF IInv
<1>. QED
  BY <1>1, Invariance, PTL
=============================================================================

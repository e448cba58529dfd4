------------------------------ MODULE Accounts ------------------------------
(***************************************************************************)
(* Accounts: registration of users and of the super administrator, the     *)
(* e-mail confirmation, the recovery of a password, and deletion.  Account *)
(* r is the one that registration r makes.  No handler uses a transaction: *)
(* each statement of a handler is an action, and a handler that has read a *)
(* row goes on with what it read, whatever became of the row.              *)
(***************************************************************************)
EXTENDS Integers

CONSTANTS
  Regs,        \* registrations: POST /auth/register and POST /auth/super
  Admins,      \* those of POST /auth/super
  Emails, Email, \* Email[r]: the e-mail address registration r gives
  Requests,    \* other HTTP requests in flight at once
  MaxFaults,   \* bound: statements and mails that fail, process deaths
  MaxClicks    \* bound: recoveries that get to make a password

ASSUME AccountsAssumption ==
  /\ Admins \subseteq Regs
  /\ Email \in [Regs -> Emails]
  /\ {MaxFaults, MaxClicks} \subseteq Nat

VARIABLES
  pc,         \* per registration: the next statement of its handler
  users,      \* rows of table users
  parts,      \* per account: what the statements after the first one added
  inserting,  \* wallets whose insert runs un-awaited (forEach)
  confirmed,  \* column isEmailConfirmed (status ACTIVE)
  resetting,  \* column isPasswordReseting
  password,   \* column password: the user's own, or a temporary one
  req,        \* per request slot: the continuation of a handler
  verifyLinks, recoveryLinks, \* addresses a link was mailed to
  mailed,     \* per account: temporary passwords mailed
  attempts,   \* history: openings of a recovery link that cleared the flag and
              \* then made a password, or failed before they did
  clicks, faults, \* bounded counters
  died        \* history: the process died

vars == <<pc, users, parts, inserting, confirmed, resetting, password, req,
          verifyLinks, recoveryLinks, mailed, attempts, clicks, faults, died>>
accountVars == <<users, parts, confirmed, resetting, password>>
mailVars == <<verifyLinks, recoveryLinks, mailed>>
countVars == <<attempts, clicks, faults, died>>

Parts == {"role", "data", "tokens", "wallet"}
Ended == {"done", "error", "lost"}
Idle == [op |-> "idle"]
Temporary == 1..MaxClicks

Goto(r, l) == pc' = [pc EXCEPT ![r] = l]

-----------------------------------------------------------------------------
(* register, registerAdmin, createUser, createAdmin                        *)

SuperAdmins == {a \in users \intersect Admins : "role" \in parts[a]}

\* register has nothing to check; registerAdmin looks for a row of user_roles.
start(r) ==
  /\ pc[r] = "idle"
  /\ Goto(r, IF r \in Admins /\ SuperAdmins # {} THEN "error" ELSE "create")
  /\ UNCHANGED <<accountVars, inserting, req, mailVars, countVars>>

\* The unique index on email refuses a second account.
create(r) ==
  /\ pc[r] = "create"
  /\ IF \E u \in users : Email[u] = Email[r]
     THEN Goto(r, "error") /\ UNCHANGED users
     ELSE Goto(r, "role") /\ users' = users \union {r}
  /\ UNCHANGED <<parts, confirmed, resetting, password, inserting, req, mailVars, countVars>>

\* $add of the role, $set of user_data: the foreign key refuses them when the
\* user is gone.
addPart(r, part, next) ==
  /\ pc[r] = part
  /\ IF r \in users
     THEN Goto(r, next) /\ parts' = [parts EXCEPT ![r] = @ \union {part}]
     ELSE Goto(r, "error") /\ UNCHANGED parts
  /\ UNCHANGED <<users, confirmed, resetting, password, inserting, req, mailVars, countVars>>

\* Fault: user_tokens is neither awaited nor missed.
setTokens_Skipped(r) ==
  /\ pc[r] = "tokens"
  /\ Goto(r, IF r \in Admins THEN "done" ELSE "mail")
  /\ inserting' = inserting \union {r}
  /\ UNCHANGED <<accountVars, req, mailVars, countVars>>

\* $set of user_tokens, and the loop over the addresses: it starts the insert of
\* the wallet and does not wait for it.
setTokens(r) ==
  /\ pc[r] = "tokens"
  /\ IF r \in users
     THEN /\ Goto(r, IF r \in Admins THEN "done" ELSE "mail")
          /\ parts' = [parts EXCEPT ![r] = @ \union {"tokens"}]
          /\ inserting' = inserting \union {r}
     ELSE Goto(r, "error") /\ UNCHANGED <<parts, inserting>>
  /\ UNCHANGED <<users, confirmed, resetting, password, req, mailVars, countVars>>

\* The controller mails the link once register has returned.
sendVerificationLink(r) ==
  /\ pc[r] = "mail"
  /\ verifyLinks' = verifyLinks \union {Email[r]}
  /\ Goto(r, "done")
  /\ UNCHANGED <<accountVars, inserting, req, recoveryLinks, mailed, countVars>>

createWallet(r) ==
  /\ r \in inserting /\ r \in users
  /\ parts' = [parts EXCEPT ![r] = @ \union {"wallet"}]
  /\ inserting' = inserting \ {r}
  /\ UNCHANGED <<pc, users, confirmed, resetting, password, req, mailVars, countVars>>

registering(r) ==
  \/ start(r) \/ create(r)
  \/ addPart(r, "role", "data") \/ addPart(r, "data", "tokens")
  \/ setTokens(r) \/ sendVerificationLink(r) \/ createWallet(r)

-----------------------------------------------------------------------------
(* confirmEmail, resendConfirmationLink                                    *)

Goon(q, k) == req' = [req EXCEPT ![q] = k]

\* getByEmail: a confirmed account gets its answer at once.
confirmEmailRead(q, u) ==
  /\ req[q] = Idle
  /\ u \in users \ confirmed /\ Email[u] \in verifyLinks
  /\ Goon(q, [op |-> "confirm", email |-> Email[u]])
  /\ UNCHANGED <<pc, accountVars, inserting, mailVars, countVars>>

\* markEmailAsConfirmed updates by e-mail, whoever has it by now.
markEmailAsConfirmed(q) ==
  /\ req[q].op = "confirm"
  /\ confirmed' = confirmed \union {u \in users : Email[u] = req[q].email}
  /\ Goon(q, Idle)
  /\ UNCHANGED <<pc, users, parts, resetting, password, inserting, mailVars, countVars>>

resendConfirmationLink(u) ==
  /\ u \in users \ confirmed
  /\ verifyLinks' = verifyLinks \union {Email[u]}
  /\ UNCHANGED <<pc, accountVars, inserting, req, recoveryLinks, mailed, countVars>>

-----------------------------------------------------------------------------
(* recovery and recoveryPassword                                           *)

recoveryRead(q, u) ==
  /\ req[q] = Idle /\ u \in users
  /\ Goon(q, [op |-> "ask", user |-> u, flag |-> u \in resetting, seen |-> attempts[u]])
  /\ UNCHANGED <<pc, accountVars, inserting, mailVars, countVars>>

\* Fault: the flag is set on the object and never saved.
recoverySave_Forgotten(q) ==
  /\ req[q].op = "ask"
  /\ Goon(q, [req[q] EXCEPT !.op = "askMail"])
  /\ UNCHANGED <<pc, accountVars, inserting, mailVars, countVars>>

\* save writes the columns that changed: none if the flag was set when read.
recoverySave(q) ==
  LET u == req[q].user IN
  /\ req[q].op = "ask"
  /\ resetting' = IF req[q].flag THEN resetting ELSE resetting \union ({u} \intersect users)
  /\ Goon(q, [req[q] EXCEPT !.op = "askMail"])
  /\ UNCHANGED <<pc, users, parts, confirmed, password, inserting, mailVars, countVars>>

sendRecoveryLink(q) ==
  /\ req[q].op = "askMail"
  /\ recoveryLinks' = recoveryLinks \union {Email[req[q].user]}
  /\ Goon(q, Idle)
  /\ UNCHANGED <<pc, accountVars, inserting, verifyLinks, mailed, countVars>>

\* The link is opened: without the flag, 'Temporary password was already sended'.
recoveryPasswordRead(q, u) ==
  /\ req[q] = Idle
  /\ u \in resetting /\ Email[u] \in recoveryLinks
  /\ Goon(q, [op |-> "clear", user |-> u])
  /\ UNCHANGED <<pc, accountVars, inserting, mailVars, countVars>>

\* The flag is saved before the password is made.
clearFlag(q) ==
  LET u == req[q].user IN
  /\ req[q].op = "clear" /\ clicks < MaxClicks
  /\ resetting' = resetting \ {u}
  /\ clicks' = clicks + 1
  /\ Goon(q, [op |-> "set", user |-> u, temporary |-> clicks + 1])
  /\ UNCHANGED <<pc, users, parts, confirmed, password, inserting, mailVars, attempts, faults, died>>

setNewUserPassword(q) ==
  LET u == req[q].user IN
  /\ req[q].op = "set"
  /\ password' = IF u \in users THEN [password EXCEPT ![u] = req[q].temporary] ELSE password
  /\ attempts' = [attempts EXCEPT ![u] = @ + 1]
  /\ Goon(q, [req[q] EXCEPT !.op = "mail"])
  /\ UNCHANGED <<pc, users, parts, confirmed, resetting, inserting, mailVars, clicks, faults, died>>

\* Fault: who was mailed a password before is not mailed another one.
mailPassword_Once(q) ==
  LET u == req[q].user IN
  /\ req[q].op = "mail"
  /\ mailed' = IF mailed[u] = {} THEN [mailed EXCEPT ![u] = {req[q].temporary}] ELSE mailed
  /\ Goon(q, Idle)
  /\ UNCHANGED <<pc, accountVars, inserting, verifyLinks, recoveryLinks, countVars>>

mailPassword(q) ==
  LET u == req[q].user IN
  /\ req[q].op = "mail"
  /\ mailed' = [mailed EXCEPT ![u] = @ \union {req[q].temporary}]
  /\ Goon(q, Idle)
  /\ UNCHANGED <<pc, accountVars, inserting, verifyLinks, recoveryLinks, countVars>>

-----------------------------------------------------------------------------
(* The signed-in user                                                      *)

\* EmailGuard and RolesGuard.
Admitted(u) == u \in confirmed /\ "role" \in parts[u]

updateUserPassword(u) ==
  /\ u \in users /\ Admitted(u)
  /\ password' = [password EXCEPT ![u] = 0]
  /\ UNCHANGED <<pc, users, parts, confirmed, resetting, inserting, req, mailVars, countVars>>

\* destroy; the rows of the user go with it (ON DELETE CASCADE).
delete(u) ==
  /\ u \in users /\ Admitted(u)
  /\ users' = users \ {u}
  /\ parts' = [parts EXCEPT ![u] = {}]
  /\ confirmed' = confirmed \ {u}
  /\ resetting' = resetting \ {u}
  /\ UNCHANGED <<pc, password, inserting, req, mailVars, countVars>>

-----------------------------------------------------------------------------
(* Faults                                                                  *)

\* A statement or a mail is rejected, and the handler answers an error.
failRegistration(r) ==
  /\ pc[r] \notin Ended \union {"idle"} /\ faults < MaxFaults
  /\ faults' = faults + 1
  /\ Goto(r, "error")
  /\ UNCHANGED <<accountVars, inserting, req, mailVars, attempts, clicks, died>>

failRequest(q) ==
  /\ req[q] # Idle /\ faults < MaxFaults
  /\ faults' = faults + 1
  /\ attempts' = IF req[q].op = "set" THEN [attempts EXCEPT ![req[q].user] = @ + 1] ELSE attempts
  /\ Goon(q, Idle)
  /\ UNCHANGED <<pc, accountVars, inserting, mailVars, clicks, died>>

\* Handlers in flight and inserts nobody waits for are gone.
Death ==
  /\ died' = TRUE
  /\ pc' = [r \in Regs |-> IF pc[r] \in Ended \union {"idle"} THEN pc[r] ELSE "lost"]
  /\ req' = [q \in Requests |-> Idle]
  /\ inserting' = {}
  /\ UNCHANGED <<accountVars, mailVars, attempts, clicks>>

crash == faults < MaxFaults /\ faults' = faults + 1 /\ Death

\* The insert of a wallet for a deleted user is rejected: nothing handles the
\* rejection, and Node ends the process.
unhandledRejection(r) == r \in inserting \ users /\ Death /\ UNCHANGED faults

-----------------------------------------------------------------------------
Init ==
  /\ pc = [r \in Regs |-> "idle"]
  /\ users = {} /\ confirmed = {} /\ resetting = {} /\ inserting = {}
  /\ parts = [r \in Regs |-> {}]
  /\ password = [r \in Regs |-> 0]
  /\ req = [q \in Requests |-> Idle]
  /\ verifyLinks = {} /\ recoveryLinks = {}
  /\ mailed = [r \in Regs |-> {}]
  /\ attempts = [r \in Regs |-> 0]
  /\ clicks = 0 /\ faults = 0 /\ died = FALSE

Next ==
  \/ \E r \in Regs : registering(r) \/ failRegistration(r) \/ unhandledRejection(r)
  \/ \E q \in Requests :
       \/ \E u \in Regs :
            confirmEmailRead(q, u) \/ recoveryRead(q, u) \/ recoveryPasswordRead(q, u)
       \/ markEmailAsConfirmed(q) \/ recoverySave(q) \/ sendRecoveryLink(q)
       \/ clearFlag(q) \/ setNewUserPassword(q) \/ mailPassword(q)
       \/ failRequest(q)
  \/ \E u \in Regs : resendConfirmationLink(u) \/ updateUserPassword(u) \/ delete(u)
  \/ crash

Spec == Init /\ [][Next]_vars

-----------------------------------------------------------------------------
(* Properties                                                              *)

Continuations ==
  {Idle}
  \union [op : {"confirm"}, email : Emails]
  \union [op : {"ask", "askMail"}, user : Regs, flag : BOOLEAN, seen : Nat]
  \union [op : {"clear"}, user : Regs]
  \union [op : {"set", "mail"}, user : Regs, temporary : Temporary]

TypeOK ==
  /\ pc \in [Regs -> {"idle", "create", "role", "data", "tokens", "mail"} \union Ended]
  /\ users \subseteq Regs /\ inserting \subseteq Regs
  /\ parts \in [Regs -> SUBSET Parts]
  /\ confirmed \subseteq users /\ resetting \subseteq users
  /\ password \in [Regs -> {0} \union Temporary]
  /\ req \in [Requests -> Continuations]
  /\ verifyLinks \subseteq Emails /\ recoveryLinks \subseteq Emails
  /\ mailed \in [Regs -> SUBSET Temporary]
  /\ attempts \in [Regs -> Nat]
  /\ clicks \in 0..MaxClicks /\ faults \in 0..MaxFaults /\ died \in BOOLEAN

\* Without a transaction around createUser: the account of a registration that
\* was answered has its role, data and tokens; and if no statement failed and the
\* process lived, no account at all is left half-made, its wallet included.
AccountsAreComplete ==
  \A r \in users :
    /\ pc[r] = "done" => {"role", "data", "tokens"} \subseteq parts[r]
    /\ pc[r] \in Ended /\ faults = 0 /\ ~died => parts[r] = Parts \/ r \in inserting

\* However many recoveries of one account overlap, with each other and with a
\* change of the password: the password that lets the user in is one he chose, or
\* was mailed, or is being mailed, unless something failed (recoveryPassword).
PasswordIsKnown ==
  faults = 0 /\ ~died =>
    \A u \in users :
      \/ password[u] = 0
      \/ password[u] \in mailed[u]
      \/ \E q \in Requests : req[q].op = "mail" /\ req[q].user = u /\ req[q].temporary = password[u]

\* The flag is cleared and the password not made yet.
Making(u) == \E q \in Requests : req[q].op = "set" /\ req[q].user = u

\* A recovery link that is about to be mailed works, although the flag is written
\* only when it was not set at the time of the read; or else, after that read, an
\* opening of an earlier link has made a password, or is making it, or failed
\* between the two statements that clear the flag and store the password, and that
\* failure alone (recovery, recoveryPassword).
RecoveryLinkIsOpen ==
  \A q \in Requests :
    req[q].op = "askMail" /\ req[q].user \in users =>
      \/ req[q].user \in resetting
      \/ Making(req[q].user)
      \/ attempts[req[q].user] > req[q].seen
=============================================================================

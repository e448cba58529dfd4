-------------------------------- MODULE Book --------------------------------
(***************************************************************************)
(* Book: what users keep and what is listed for them - wallets, contacts,  *)
(* transfers, swaps, payments, notifications.  Rows are numbered in the    *)
(* order of their creation.  A handler finds a row in one statement and    *)
(* changes it in another; a list is read page by page, each page anew.     *)
(***************************************************************************)
EXTENDS Integers, FiniteSets, Sequences

CONSTANTS
  Users, Addresses,
  Lists,       \* tables rows are made in
  Donated,     \* tokens of the list, those that are donated
  Requests,    \* requests in flight at once
  Queries,     \* what a client may page through
  Limit,       \* rows of a page
  MaxRows,     \* bound: rows ever made
  None         \* no user, no wallet

Kinds == {"wallets", "contacts", "transfers", "swaps", "payments", "notifications"}

\* A query of a user: the rows of one table with a user ("whose": filter is spread
\* over the condition, so a userId in it takes the place of the user who asks), the
\* address of a wallet and a status ("any": no filter).
ASSUME BookAssumption ==
  /\ Lists \subseteq Kinds
  /\ Queries \subseteq [list : Kinds, user : Users, whose : Users, address : Addresses, status : STRING]
  /\ Limit \in Nat \ {0} /\ MaxRows \in Nat /\ None \notin Users

VARIABLES
  users,   \* rows of table users
  rows,    \* rows of the tables, in the order of their creation
  req,     \* per request: the continuation of its handler
  walk,    \* a client that reads a list page by page
  asked    \* history: addresses a user asked to delete

vars == <<users, rows, req, walk, asked>>

\* Tokens whose donations a history adds up.
Summed == {"MATIC", "CHAT"}

Idle == [op |-> "idle"]
NoWalk == [on |-> FALSE]
Rows == DOMAIN rows
Goon(q, k) == req' = [req EXCEPT ![q] = k]

-----------------------------------------------------------------------------
(* Lists                                                                   *)

\* The rows of table list of user u that are there.
Of(rs, list, u) == {i \in DOMAIN rs : rs[i].alive /\ rs[i].list = list /\ rs[i].user = u}
WalletRows(u, a) == {i \in Of(rows, "wallets", u) : rows[i].address = a}

Passes(row, query) == query.status = "any" \/ row.status = query.status

\* And the same for swaps (getAllUserSwapsWithFilter).
getAllUserTransfersWithFilter(rs, f) ==
  {i \in Of(rs, f.list, f.whose) : rs[i].address = f.address /\ Passes(rs[i], f)}
\* Payments refer to the row of a wallet of the one who asks.
getAllUserPaymentsWithFilter(rs, f, w) ==
  {i \in Of(rs, "payments", f.whose) : rs[i].wallet = w /\ Passes(rs[i], f)}
getAllUserNotificationsWithFilter(rs, f) == Of(rs, "notifications", f.user)
getAllContacts(rs, f) == Of(rs, "contacts", f.user)

\* w: the row of the wallet a list of payments was asked for.
Listed(rs, f, w) ==
  CASE f.list \in {"transfers", "swaps"} -> getAllUserTransfersWithFilter(rs, f)
    [] f.list = "payments"              -> getAllUserPaymentsWithFilter(rs, f, w)
    [] f.list = "notifications"         -> getAllUserNotificationsWithFilter(rs, f)
    [] OTHER                            -> getAllContacts(rs, f)

\* Fault: the first page is skipped.
Page_FromZero(S, page) == {i \in S : Cardinality({j \in S : j > i}) \div Limit = page}

\* offset and limit, the newest row first (createdAt DESC).
Page(S, page) == {i \in S : Cardinality({j \in S : j > i}) \div Limit = page - 1}

\* What happens to the list a client is paging through: rows that left it, rows that
\* joined it, and those that were in it all the time.
Watched(rs) ==
  IF ~walk.on THEN walk
  ELSE LET before == Listed(rows, walk.query, walk.wallet)
           after == Listed(rs, walk.query, walk.wallet) IN
       [walk EXCEPT !.left = @ \/ before \ after # {},
                    !.joined = @ \/ after \ before # {},
                    !.stay = @ \intersect after]

Write(rs) == rows' = rs /\ walk' = Watched(rs)

-----------------------------------------------------------------------------
(* Rows are made                                                           *)

Row(list, u, a) ==
  [list |-> list, user |-> u, address |-> a, wallet |-> None, kind |-> "plain",
   status |-> "initial", alive |-> TRUE]

\* Rows as they are inserted: those that have a user from the start, and those that
\* get one later.
UserWallet(u, a) == Row("wallets", u, a)
Contact(u, a) == Row("contacts", u, a)
Swap(u, a) == Row("swaps", u, a)
Transfer(a, kind) == [Row("transfers", None, a) EXCEPT !.kind = kind]
Payment(a) == Row("payments", None, a)
Notification == Row("notifications", None, None)

Insert(row) == Len(rows) < MaxRows /\ row.list \in Lists /\ Write(Append(rows, row))

\* An address nobody has (createNewAccount) or any other; nothing asks whether the
\* user has it already.
addUserAddress(u, a) ==
  /\ u \in users
  /\ Insert(UserWallet(u, a))
  /\ UNCHANGED <<users, req, asked>>

\* The address of a contact is unique, whoever's contact it is.
addNewContact(u, a) ==
  /\ u \in users
  /\ \A i \in Rows : rows[i].list = "contacts" /\ rows[i].alive => rows[i].address # a
  /\ Insert(Contact(u, a))
  /\ UNCHANGED <<users, req, asked>>

\* A transfer or a donation from one of the user's wallets: the row has no user
\* until $add.  Any token of the list can be donated; the kind of a row says which.
createTransfer(q, u, a, kind) ==
  /\ req[q] = Idle /\ u \in users /\ WalletRows(u, a) # {}
  /\ Insert(Transfer(a, kind))
  /\ Goon(q, [op |-> "attach", row |-> Len(rows) + 1, user |-> u, wallet |-> None])
  /\ UNCHANGED <<users, asked>>

createSwap(u, a) ==
  /\ u \in users /\ WalletRows(u, a) # {}
  /\ Insert(Swap(u, a))
  /\ UNCHANGED <<users, req, asked>>

createPayment(q, u, a) ==
  /\ req[q] = Idle /\ u \in users
  /\ \E w \in WalletRows(u, a) :
       Goon(q, [op |-> "attach", row |-> Len(rows) + 1, user |-> u, wallet |-> w])
  /\ Insert(Payment(a))
  /\ UNCHANGED <<users, asked>>

sendNotification(q, u) ==
  /\ req[q] = Idle /\ u \in users
  /\ Insert(Notification)
  /\ Goon(q, [op |-> "attach", row |-> Len(rows) + 1, user |-> u, wallet |-> None])
  /\ UNCHANGED <<users, asked>>

\* $add, $set: the foreign keys refuse a user and a wallet that are gone.
attach(q) ==
  LET k == req[q] IN
  /\ k.op = "attach"
  /\ IF k.user \in users /\ (k.wallet = None \/ rows[k.wallet].alive)
     THEN Write([rows EXCEPT ![k.row].user = k.user, ![k.row].wallet = k.wallet])
     ELSE UNCHANGED <<rows, walk>>
  /\ Goon(q, Idle)
  /\ UNCHANGED <<users, asked>>

Later(s) == CASE s = "initial" -> {"pending"}
              [] s = "pending" -> {"settled"}
              [] OTHER         -> {}

\* A report, a receipt, a callback; success and failure are the same here.
updateStatus(i) ==
  /\ rows[i].list \in {"transfers", "swaps", "payments"} /\ rows[i].alive /\ rows[i].user # None
  /\ \E s \in Later(rows[i].status) : Write([rows EXCEPT ![i].status = s])
  /\ UNCHANGED <<users, req, asked>>

-----------------------------------------------------------------------------
(* Rows are looked up, and changed                                         *)

\* findOne by user and address.
Find(q, u, i, op) ==
  /\ req[q] = Idle /\ u \in users
  /\ Goon(q, [op |-> op, row |-> i])
  /\ UNCHANGED <<users, rows, walk>>

deleteAdressFind(q, u, a) ==
  /\ \E i \in WalletRows(u, a) : Find(q, u, i, "deleteAdress")
  /\ asked' = asked \union {<<u, a>>}
updateLabelFind(q, u, a) ==
  (\E i \in WalletRows(u, a) : Find(q, u, i, "update")) /\ UNCHANGED asked
contactFind(q, u, op) ==
  (\E i \in Of(rows, "contacts", u) : Find(q, u, i, op)) /\ UNCHANGED asked

\* Rows and what refers to them: a payment keeps no wallet that is gone.
Destroyed(S) ==
  [i \in Rows |-> [rows[i] EXCEPT !.alive = @ /\ i \notin S,
                                  !.wallet = IF @ \in S THEN None ELSE @]]

\* Fault: the wallet is deleted by its address.
deleteAdress_ByAddress(q) ==
  /\ req[q].op = "deleteAdress"
  /\ Write(Destroyed({i \in Rows : rows[i].list = "wallets"
                                     /\ rows[i].address = rows[req[q].row].address}))
  /\ Goon(q, Idle)
  /\ UNCHANGED <<users, asked>>

\* destroy, by the id found.
deleteAdress(q) ==
  /\ req[q].op = "deleteAdress"
  /\ Write(Destroyed({req[q].row}))
  /\ Goon(q, Idle)
  /\ UNCHANGED <<users, asked>>

\* updateLabel, updateContact: the row found is written by its id, in columns no list is
\* filtered or ordered by, and is not there again if it is gone by now.
update(q) ==
  /\ req[q].op = "update"
  /\ Goon(q, Idle)
  /\ UNCHANGED <<users, rows, walk, asked>>

\* The wallet with the id of the contact, which no wallet has, is destroyed.
deleteContact(q) ==
  /\ req[q].op = "deleteContact"
  /\ Write(Destroyed({i \in Rows : i = req[q].row /\ rows[i].list = "wallets"}))
  /\ Goon(q, Idle)
  /\ UNCHANGED <<users, asked>>

\* ON DELETE CASCADE; notifications lose their user.
deleteUser(u) ==
  LET gone == {i \in Rows : rows[i].user = u /\ rows[i].list # "notifications"} IN
  /\ u \in users /\ users' = users \ {u}
  /\ Write([i \in Rows |->
       IF rows[i].user = u /\ i \notin gone THEN [rows[i] EXCEPT !.user = None]
       ELSE Destroyed(gone)[i]])
  /\ UNCHANGED <<req, asked>>

\* The process dies, and with it every handler.
crash ==
  /\ \E q \in Requests : req[q] # Idle
  /\ req' = [q \in Requests |-> Idle]
  /\ UNCHANGED <<users, rows, walk, asked>>

-----------------------------------------------------------------------------
(* Reading                                                                 *)

Donations(u, a) ==
  {i \in Of(rows, "transfers", u) : rows[i].address = a /\ rows[i].kind \in Donated}

\* A history of transfers: the donations among its rows, of the user who asks or of
\* the one named by filter.userId ...
historyRows(q, u, whose, a) ==
  /\ req[q] = Idle /\ u \in users
  /\ Goon(q, [op |-> "total", token |-> "MATIC", user |-> u, whose |-> whose,
              address |-> a, rows |-> Donations(whose, a), total |-> {}])
  /\ UNCHANGED <<users, rows, walk, asked>>

\* The donations of a token that are added up, of any status and always of the user
\* who asks.
Sum(k) == {i \in Donations(k.user, k.address) : rows[i].kind = k.token}

\* Fault: the second sum is taken of the token of the first.
historyTotal_Twice(q) ==
  LET k == req[q] IN
  /\ k.op = "total"
  /\ Goon(q, [k EXCEPT !.op = IF k.token = "MATIC" THEN @ ELSE "answer",
                       !.token = "CHAT",
                       !.total = @ \union Sum([k EXCEPT !.token = "MATIC"])])
  /\ UNCHANGED <<users, rows, walk, asked>>

\* ... and, in statements of their own, the sum for MATIC and then the one for CHAT.
historyTotal(q) ==
  LET k == req[q] IN
  /\ k.op = "total"
  /\ Goon(q, [k EXCEPT !.op = IF k.token = "MATIC" THEN @ ELSE "answer",
                       !.token = "CHAT", !.total = @ \union Sum(k)])
  /\ UNCHANGED <<users, rows, walk, asked>>

answer(q) ==
  /\ req[q].op = "answer"
  /\ Goon(q, Idle)
  /\ UNCHANGED <<users, rows, walk, asked>>

\* A client begins with page 1.  Payments are those of a wallet, looked up by its
\* address for every page.
startWalk(f) ==
  /\ walk = NoWalk /\ f.user \in users
  /\ \E w \in IF f.list = "payments" THEN WalletRows(f.user, f.address) ELSE {None} :
       walk' = [on |-> TRUE, query |-> f, wallet |-> w, page |-> 1, done |-> FALSE,
                seen |-> {}, twice |-> {}, left |-> FALSE, joined |-> FALSE,
                stay |-> Listed(rows, f, w)]
  /\ UNCHANGED <<users, rows, req, asked>>

\* A page with fewer rows than it has room for is the last one.
nextPage ==
  LET got == Page(Listed(rows, walk.query, walk.wallet), walk.page) IN
  /\ walk.on /\ ~walk.done
  /\ walk' = [walk EXCEPT !.page = @ + 1, !.seen = @ \union got,
                          !.twice = @ \union (walk.seen \intersect got),
                          !.done = Cardinality(got) < Limit]
  /\ UNCHANGED <<users, rows, req, asked>>

-----------------------------------------------------------------------------
Init ==
  /\ users = Users /\ rows = <<>>
  /\ req = [q \in Requests |-> Idle]
  /\ walk = NoWalk /\ asked = {}

Next ==
  \/ \E u \in Users, a \in Addresses :
       \/ addUserAddress(u, a) \/ addNewContact(u, a) \/ createSwap(u, a)
       \/ \E q \in Requests :
            \/ \E kind \in Donated \union {"transfer"} : createTransfer(q, u, a, kind)
            \/ createPayment(q, u, a)
            \/ deleteAdressFind(q, u, a) \/ updateLabelFind(q, u, a)
            \/ \E whose \in Users : historyRows(q, u, whose, a)
  \/ \E q \in Requests :
       \/ \E u \in Users :
            sendNotification(q, u) \/ contactFind(q, u, "update") \/ contactFind(q, u, "deleteContact")
       \/ attach(q) \/ deleteAdress(q) \/ update(q) \/ deleteContact(q)
       \/ historyTotal(q) \/ answer(q)
  \/ \E i \in Rows : updateStatus(i)
  \/ \E u \in Users : deleteUser(u)
  \/ \E f \in Queries : startWalk(f)
  \/ nextPage \/ crash

Spec == Init /\ [][Next]_vars

-----------------------------------------------------------------------------
(* Properties                                                              *)

\* Pages are read at different times and rows come and go in between: a row that was
\* in the list all the time is missed only if another left the list meanwhile, and
\* shown twice only if another joined it (offset and limit, createdAt DESC).
PagesAreExact ==
  walk.on /\ walk.done =>
    /\ walk.stay \subseteq walk.seen \/ walk.left
    /\ walk.twice = {} \/ walk.joined

\* Of the donations a history shows of the user who asked for it, those in MATIC and
\* in CHAT are in its totals, although the rows and the two sums are read one after
\* the other while rows come, change and go (getAllUserTransfersWithFilter).
ListedAreCounted ==
  \A q \in Requests :
    LET k == req[q] IN
    k.op = "answer" /\ k.user \in users /\ k.whose = k.user =>
      \A i \in k.rows : rows[i].kind \in Summed => i \in k.total

\* A wallet is gone only because its own user asked for that, or is gone himself,
\* whoever else has the same address (deleteAdress).
WalletsLeaveByOwner ==
  \A i \in Rows :
    rows[i].list = "wallets" /\ ~rows[i].alive =>
      rows[i].user \notin users \/ <<rows[i].user, rows[i].address>> \in asked
=============================================================================

------------------------------- MODULE Access -------------------------------
(***************************************************************************)
(* Access: sessions, roles and the guards of the routes.  A device logs    *)
(* its user in, refreshes the access token, sends requests and logs out;   *)
(* of a user the backend keeps one refresh-token hash, whatever the number *)
(* of devices.  Guards read the user once, and the handler runs later.     *)
(***************************************************************************)
EXTENDS Integers, FiniteSets, Routes

CONSTANTS
  Users,         \* accounts, those of Supers are made by POST /auth/super
  Supers,
  Devices, Owner, \* Owner[d]: the account device d signs in to
  Values,        \* role values that requests name
  MaxInFlight    \* bound: requests of devices in flight at once

ASSUME AccessAssumption ==
  /\ Supers \subseteq Users
  /\ Owner \in [Devices -> Users]
  /\ MaxInFlight \in Nat

VARIABLES
  users,      \* rows of table users
  confirmed,  \* column isEmailConfirmed
  status,     \* column status
  grants,     \* per user: values of his rows in users_roles
  tokens,     \* users that have a row in users_tokens
  hash,       \* per user: the devices whose refresh token its refresh_token matches
  cookies,    \* per device: cookies it holds
  req,        \* per device: the continuation of its request
  pc,         \* per registration of a super administrator
  stored,     \* history: devices whose hash was stored, and no log-out since
  rivals      \* history: registrations that were under way at the check of another

vars == <<users, confirmed, status, grants, tokens, hash, cookies, req, pc,
          stored, rivals>>
userVars == <<users, confirmed, status>>
tokenVars == <<tokens, hash, stored>>
superVars == <<pc, rivals>>

Roles == {"USER", "SUPERADMIN"} \union Values
Idle == [op |-> "idle"]

\* Another request of the device, if there is room for one.
Begin(d, k) ==
  /\ req[d] = Idle
  /\ Cardinality({e \in Devices : req[e] # Idle}) < MaxInFlight
  /\ req' = [req EXCEPT ![d] = k]
Goon(d, k) == req' = [req EXCEPT ![d] = k]
At(d, op) == req[d].op = op

-----------------------------------------------------------------------------
(* Log-in, refresh                                                         *)

\* getByEmail and verifyPassword.
verifyPassword(d) ==
  /\ Owner[d] \in users
  /\ Begin(d, [op |-> "verified"])
  /\ UNCHANGED <<userVars, grants, tokenVars, cookies, superVars>>

\* getUserById: null, if the account was deleted meanwhile, and the strategy
\* answers 401.
getAuthenticatedUser(d) ==
  /\ At(d, "verified")
  /\ Goon(d, IF Owner[d] \in users THEN [op |-> "login"] ELSE Idle)
  /\ UNCHANGED <<userVars, grants, tokenVars, cookies, superVars>>

\* Fault: the hash matches the token of one device only.
Matching_One(d) == {d}

\* bcrypt looks at the first 72 bytes of a token, which are those of its header
\* and of the id of the user: the hash of one token matches all of the user's.
Matching(d) == {e \in Devices : Owner[e] = Owner[d]}

\* An update by the id of the user: without a row nothing is stored.
setCurrentRefreshToken(d) ==
  /\ At(d, "login")
  /\ IF Owner[d] \in tokens
     THEN /\ hash' = [hash EXCEPT ![Owner[d]] = Matching(d)]
          /\ stored' = stored \union {d}
     ELSE UNCHANGED <<hash, stored>>
  /\ Goon(d, [op |-> "welcome"])
  /\ UNCHANGED <<userVars, grants, tokens, cookies, superVars>>

\* The answer carries both cookies.
logIn(d) ==
  /\ At(d, "welcome")
  /\ cookies' = [cookies EXCEPT ![d] = {"access", "refresh"}]
  /\ Goon(d, Idle)
  /\ UNCHANGED <<userVars, grants, tokenVars, superVars>>

\* The hash is compared; no row or no hash is an error, and a token it does not
\* match is refused.
getUserIfRefreshTokenMatches(d) ==
  /\ "refresh" \in cookies[d]
  /\ Owner[d] \in tokens /\ d \in hash[Owner[d]]
  /\ Begin(d, [op |-> "renew"])
  /\ UNCHANGED <<userVars, grants, tokenVars, cookies, superVars>>

refresh(d) ==
  /\ At(d, "renew")
  /\ cookies' = IF Owner[d] \in users THEN [cookies EXCEPT ![d] = @ \union {"access"}] ELSE cookies
  /\ Goon(d, Idle)
  /\ UNCHANGED <<userVars, grants, tokenVars, superVars>>

\* Max-Age of a cookie.
expire(d, c) ==
  /\ c \in cookies[d]
  /\ cookies' = [cookies EXCEPT ![d] = @ \ {c}]
  /\ UNCHANGED <<userVars, grants, tokenVars, req, superVars>>

-----------------------------------------------------------------------------
(* Guards                                                                  *)

EmailGuard(need, u) == need.email => u \in confirmed

RolesGuard(need, u) == need.roles # {} => grants[u] \intersect need.roles # {}

\* What a handler does here; the others leave accounts and sessions alone.
Does(name) ==
  IF name \in {"logOut", "delete", "blockUser", "activateUser", "setRole", "unsetRole"}
  THEN name ELSE "other"

\* Rows of table roles are inserted when they are looked for (findOrCreate), and
\* are left out: a role is its value.
Requests == {[op |-> "admitted", need |-> r.need, does |-> Does(r.name)] : r \in AllRoutes}

\* JwtStrategy reads the user anew, with the roles of now; the guards check him.
canActivate(d, r) ==
  /\ "access" \in cookies[d] /\ Owner[d] \in users
  /\ EmailGuard(r.need, Owner[d]) /\ RolesGuard(r.need, Owner[d])
  /\ Begin(d, r)
  /\ UNCHANGED <<userVars, grants, tokenVars, cookies, superVars>>

Admitted(d, does) == At(d, "admitted") /\ req[d].does = does

-----------------------------------------------------------------------------
(* Handlers                                                                *)

\* A handler that changes nothing of this module.
other(d) ==
  /\ Admitted(d, "other")
  /\ Goon(d, Idle)
  /\ UNCHANGED <<userVars, grants, tokenVars, cookies, superVars>>

removeRefreshToken(d) ==
  /\ Admitted(d, "logOut")
  /\ hash' = [hash EXCEPT ![Owner[d]] = {}]
  /\ stored' = {e \in stored : Owner[e] # Owner[d]}
  /\ Goon(d, [op |-> "bye"])
  /\ UNCHANGED <<userVars, grants, tokens, cookies, superVars>>

logOut(d) ==
  /\ At(d, "bye")
  /\ cookies' = [cookies EXCEPT ![d] = {}]
  /\ Goon(d, Idle)
  /\ UNCHANGED <<userVars, grants, tokenVars, superVars>>

\* Both routes call setRole, the one that is named for taking a role away as well:
\* getUserById, and getRoleByValue, which inserts the role when there is none.
setRole(d, u, value) ==
  /\ Admitted(d, "setRole") \/ Admitted(d, "unsetRole")
  /\ Goon(d, IF u \in users THEN [op |-> "grant", user |-> u, value |-> value] ELSE Idle)
  /\ UNCHANGED <<userVars, grants, tokenVars, cookies, superVars>>

\* Fault: users_roles has no foreign key.
addRole_Unkeyed(d) ==
  LET u == req[d].user IN
  /\ At(d, "grant")
  /\ grants' = [grants EXCEPT ![u] = @ \union {req[d].value}]
  /\ Goon(d, Idle)
  /\ UNCHANGED <<userVars, tokenVars, cookies, superVars>>

\* $add: the foreign key refuses it when the user is gone.
addRole(d) ==
  LET u == req[d].user IN
  /\ At(d, "grant")
  /\ grants' = IF u \in users THEN [grants EXCEPT ![u] = @ \union {req[d].value}] ELSE grants
  /\ Goon(d, Idle)
  /\ UNCHANGED <<userVars, tokenVars, cookies, superVars>>

\* blockUser and activateUser call update with the name of a column for an
\* object of columns: the row stays as it was.
updateStatus(d, u) ==
  /\ Admitted(d, "blockUser") \/ Admitted(d, "activateUser")
  /\ u \in Users
  /\ Goon(d, Idle)
  /\ UNCHANGED <<userVars, grants, tokenVars, cookies, superVars>>

\* destroy; the rows of the account go with it (ON DELETE CASCADE).
delete(d) ==
  LET u == Owner[d] IN
  /\ Admitted(d, "delete")
  /\ users' = users \ {u} /\ confirmed' = confirmed \ {u} /\ tokens' = tokens \ {u}
  /\ status' = [status EXCEPT ![u] = "NEW"]
  /\ grants' = [grants EXCEPT ![u] = {}]
  /\ hash' = [hash EXCEPT ![u] = {}]
  /\ Goon(d, Idle)
  /\ UNCHANGED <<cookies, stored, superVars>>

\* The link of the confirmation mail.
markEmailAsConfirmed(u) ==
  /\ u \in users \ confirmed
  /\ confirmed' = confirmed \union {u}
  /\ status' = [status EXCEPT ![u] = "ACTIVE"]
  /\ UNCHANGED <<users, grants, tokenVars, cookies, req, superVars>>

-----------------------------------------------------------------------------
(* registerAdmin                                                           *)

Supreme == {u \in users : "SUPERADMIN" \in grants[u]}
UnderWay == {r \in Supers : pc[r] \in {"create", "role"}}

\* Fault: the role is looked for with the one who registers.
getSuperAdminRole_Own(r) ==
  /\ pc[r] = "idle"
  /\ pc' = [pc EXCEPT ![r] = IF grants[r] # {} THEN "refused" ELSE "create"]
  /\ rivals' = [rivals EXCEPT ![r] = UnderWay]
  /\ UNCHANGED <<userVars, grants, tokenVars, cookies, req>>

\* The role is found or made, and looked for in users_roles.
getSuperAdminRole(r) ==
  /\ pc[r] = "idle"
  /\ pc' = [pc EXCEPT ![r] = IF Supreme # {} THEN "refused" ELSE "create"]
  /\ rivals' = [rivals EXCEPT ![r] = UnderWay]
  /\ UNCHANGED <<userVars, grants, tokenVars, cookies, req>>

createAdmin(r) ==
  /\ pc[r] = "create"
  /\ users' = users \union {r}
  /\ pc' = [pc EXCEPT ![r] = "role"]
  /\ UNCHANGED <<confirmed, status, grants, tokenVars, cookies, req, rivals>>

\* The foreign keys refuse the rows of an account that is gone.
addSuperRole(r) ==
  /\ pc[r] = "role"
  /\ IF r \in users
     THEN /\ grants' = [grants EXCEPT ![r] = @ \union {"SUPERADMIN"}]
          /\ pc' = [pc EXCEPT ![r] = "tokens"]
     ELSE pc' = [pc EXCEPT ![r] = "refused"] /\ UNCHANGED grants
  /\ UNCHANGED <<userVars, tokenVars, cookies, req, rivals>>

\* $set of user_tokens; a user who is gone by now has the registration fail.
setTokens(r) ==
  /\ pc[r] = "tokens"
  /\ tokens' = tokens \union ({r} \intersect users)
  /\ pc' = [pc EXCEPT ![r] = IF r \in users THEN "done" ELSE "refused"]
  /\ UNCHANGED <<userVars, grants, hash, stored, cookies, req, rivals>>

-----------------------------------------------------------------------------
\* Users who registered before, and the role that register gave them.
Init ==
  /\ users = Users \ Supers /\ confirmed = {}
  /\ status = [u \in Users |-> "NEW"]
  /\ grants = [u \in Users |-> IF u \in Supers THEN {} ELSE {"USER"}]
  /\ tokens = Users \ Supers
  /\ hash = [u \in Users |-> {}]
  /\ cookies = [d \in Devices |-> {}]
  /\ req = [d \in Devices |-> Idle]
  /\ pc = [r \in Supers |-> "idle"]
  /\ stored = {}
  /\ rivals = [r \in Supers |-> {}]

session(d) ==
  \/ verifyPassword(d) \/ getAuthenticatedUser(d) \/ setCurrentRefreshToken(d) \/ logIn(d)
  \/ getUserIfRefreshTokenMatches(d) \/ refresh(d)
  \/ removeRefreshToken(d) \/ logOut(d)
  \/ \E c \in {"access", "refresh"} : expire(d, c)

handler(d) ==
  \/ \E r \in Requests : canActivate(d, r)
  \/ other(d) \/ delete(d) \/ addRole(d)
  \/ \E u \in Users : updateStatus(d, u) \/ \E value \in Values : setRole(d, u, value)

registering(r) ==
  getSuperAdminRole(r) \/ createAdmin(r) \/ addSuperRole(r) \/ setTokens(r)

Next ==
  \/ \E d \in Devices : session(d) \/ handler(d)
  \/ \E u \in Users : markEmailAsConfirmed(u)
  \/ \E r \in Supers : registering(r)

Spec == Init /\ [][Next]_vars

-----------------------------------------------------------------------------
(* Properties                                                              *)

Continuations ==
  {Idle} \union [op : {"verified", "login", "welcome", "renew", "bye"}]
  \union Requests
  \union [op : {"grant"}, user : Users, value : Values]

TypeOK ==
  /\ users \subseteq Users /\ confirmed \subseteq users /\ tokens \subseteq users
  /\ status \in [Users -> {"NEW", "ACTIVE"}]
  /\ grants \in [Users -> SUBSET Roles]
  /\ hash \in [Users -> SUBSET Devices] /\ stored \subseteq Devices
  /\ cookies \in [Devices -> SUBSET {"access", "refresh"}]
  /\ req \in [Devices -> Continuations]
  /\ pc \in [Supers -> {"idle", "create", "role", "tokens", "done", "refused"}]
  /\ rivals \in [Supers -> SUBSET Supers]

\* Of two devices of one user, or more, none is logged out by the log-in of
\* another, although users_tokens has room for one hash: a device whose log-in
\* stored it, with no log-out of the user since, can refresh.
SignedInDevicesRefresh ==
  \A d \in stored :
    "refresh" \in cookies[d] /\ Owner[d] \in users => d \in hash[Owner[d]]

\* Of two super administrators that registered, each as the first one, one was
\* being registered when the other was checked (registerAdmin).
SuperAdminsOverlap ==
  \A r, s \in Supers :
    r # s /\ {pc[r], pc[s]} \subseteq {"role", "tokens", "done"} /\ {r, s} \subseteq users =>
      r \in rivals[s] \/ s \in rivals[r]

\* Of an account that was deleted no role and no refresh-token hash is left or comes
\* back, although a log-in, or the grant of a super administrator, that read the
\* account before stores its part several awaits later (setCurrentRefreshToken,
\* setRole, delete).
DeletedLeaveNothing ==
  \A u \in Users \ users : grants[u] = {} /\ hash[u] = {}
=============================================================================

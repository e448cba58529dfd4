--------------------------- MODULE Access_proofs ----------------------------
(* Proofs of the safety properties of Access, for any accounts and devices. *)
EXTENDS Access, TLAPS

Past == {"create", "role", "tokens", "done"}

\* Nothing refers to the account of a registration before it is made.
FreshInv ==
  \A r \in Supers :
    pc[r] \in {"idle", "create"} =>
      /\ r \notin users
      /\ \A d \in Devices : Owner[d] = r => req[d] = Idle /\ d \notin stored

\* The cookie plays no part: the hash is there for every device counted as stored.
StoredInv == \A d \in stored : Owner[d] \in users => d \in hash[Owner[d]]

\* A registration that got beyond the grant of its role left a super
\* administrator, unless the account is gone.
RoleInv ==
  \A r \in Supers :
    pc[r] \in {"tokens", "done"} /\ r \in users => "SUPERADMIN" \in grants[r]

\* Registrations that passed the check overlapped, or the account of the earlier
\* one was gone by the time of the later one.
Gone(r) == pc[r] \in {"tokens", "done"} /\ r \notin users
OverlapInv ==
  \A r, s \in Supers :
    r # s /\ pc[r] \in Past /\ pc[s] \in Past =>
      r \in rivals[s] \/ s \in rivals[r] \/ Gone(r) \/ Gone(s)

IInv ==
  /\ TypeOK /\ FreshInv /\ StoredInv
  /\ RoleInv /\ OverlapInv /\ DeletedLeaveNothing

-----------------------------------------------------------------------------
\* The operation of a continuation tells which kind it is.
LEMMA Shapes ==
  /\ Idle \in Continuations /\ Idle.op = "idle"
  /\ \A r \in Requests : r.op = "admitted" /\ r \in Continuations
  /\ \A k \in Continuations : k.op = "admitted" => k \in Requests
  /\ \A k \in Continuations : k.op = "grant" => k.user \in Users /\ k.value \in Values
  /\ \A o \in {"verified", "login", "welcome", "renew", "bye"} : [op |-> o] \in Continuations
  /\ \A u \in Users, v \in Values : [op |-> "grant", user |-> u, value |-> v] \in Continuations
BY DEF Continuations, Idle, Requests

\* A request that ends or goes on in a continuation that is not an admission
\* disturbs nothing; neither do the cookies.
LEMMA Moves ==
  ASSUME IInv, NEW d \in Devices, NEW k \in Continuations,
         k.op # "admitted", req[d] # Idle, req' = [req EXCEPT ![d] = k],
         UNCHANGED <<userVars, grants, tokenVars, superVars>>,
         cookies' \in [Devices -> SUBSET {"access", "refresh"}]
  PROVE  IInv'
<1>1. TypeOK'
  BY DEF IInv, TypeOK, userVars, tokenVars, superVars
<1>2. FreshInv'
  BY DEF IInv, TypeOK, FreshInv, userVars, tokenVars, superVars
<1>4. StoredInv' /\ RoleInv' /\ OverlapInv' /\ DeletedLeaveNothing'
  BY DEF IInv, StoredInv, RoleInv, OverlapInv, Gone, DeletedLeaveNothing, userVars, tokenVars, superVars
<1> QED  BY <1>1, <1>2, <1>4 DEF IInv

\* A new request of an account that is there.
LEMMA Begins ==
  ASSUME IInv, NEW d \in Devices, NEW k \in Continuations, Owner[d] \in users,
         Begin(d, k), UNCHANGED <<userVars, grants, tokenVars, cookies, superVars>>
  PROVE  IInv'
<1>1. TypeOK'
  BY DEF IInv, TypeOK, Begin, userVars, tokenVars, superVars
<1>2. FreshInv'
  BY DEF IInv, TypeOK, FreshInv, Begin, userVars, tokenVars, superVars
<1>4. StoredInv' /\ RoleInv' /\ OverlapInv' /\ DeletedLeaveNothing'
  BY DEF IInv, StoredInv, RoleInv, OverlapInv, Gone, DeletedLeaveNothing, userVars, tokenVars, superVars
<1> QED  BY <1>1, <1>2, <1>4 DEF IInv

-----------------------------------------------------------------------------
LEMMA SessionStep ==
  ASSUME IInv, NEW d \in Devices, session(d)
  PROVE  IInv'
<1> USE AccessAssumption
<1>1. CASE verifyPassword(d)
  BY <1>1, Shapes, Begins DEF verifyPassword
<1>2. CASE getAuthenticatedUser(d)
  BY <1>2, Shapes, Moves DEF getAuthenticatedUser, At, Goon, Idle, IInv, TypeOK
<1>3. CASE setCurrentRefreshToken(d)
  <2>1. req[d].op = "login" /\ req' = [req EXCEPT ![d] = [op |-> "welcome"]]
        /\ UNCHANGED <<users, confirmed, status, grants, tokens, cookies, pc, rivals>>
    BY <1>3 DEF setCurrentRefreshToken, At, Goon, userVars, superVars
  <2>2. \/ Owner[d] \in tokens /\ hash' = [hash EXCEPT ![Owner[d]] = Matching(d)]
           /\ stored' = stored \union {d}
        \/ UNCHANGED <<hash, stored>>
    BY <1>3 DEF setCurrentRefreshToken
  <2>3. TypeOK'
    BY <2>1, <2>2, Shapes DEF IInv, TypeOK, Matching
  <2>4. FreshInv'
    BY <2>1, <2>2 DEF IInv, TypeOK, FreshInv, Idle
  <2>5. StoredInv'
    BY <2>1, <2>2 DEF IInv, TypeOK, StoredInv, Matching
  <2>7. DeletedLeaveNothing'
    BY <2>1, <2>2 DEF IInv, TypeOK, DeletedLeaveNothing
  <2>8. RoleInv' /\ OverlapInv'
    BY <2>1 DEF IInv, RoleInv, OverlapInv, Gone
  <2> QED  BY <2>3, <2>4, <2>5, <2>7, <2>8 DEF IInv
<1>4. CASE logIn(d)
  BY <1>4, Shapes, Moves DEF logIn, At, Goon, Idle, IInv, TypeOK
<1>5. CASE getUserIfRefreshTokenMatches(d)
  <2>1. Owner[d] \in users
    BY <1>5 DEF getUserIfRefreshTokenMatches, IInv, TypeOK
  <2> QED  BY <1>5, <2>1, Shapes, Begins DEF getUserIfRefreshTokenMatches
<1>6. CASE refresh(d)
  <2>1. cookies' \in [Devices -> SUBSET {"access", "refresh"}]
    BY <1>6 DEF refresh, IInv, TypeOK
  <2> QED  BY <1>6, <2>1, Shapes, Moves DEF refresh, At, Goon, Idle
<1>7. CASE removeRefreshToken(d)
  <2>1. /\ req[d].op = "admitted" /\ req' = [req EXCEPT ![d] = [op |-> "bye"]]
        /\ hash' = [hash EXCEPT ![Owner[d]] = {}]
        /\ stored' = {e \in stored : Owner[e] # Owner[d]}
        /\ UNCHANGED <<users, confirmed, status, grants, tokens, cookies, pc, rivals>>
    BY <1>7 DEF removeRefreshToken, Admitted, At, Goon, userVars, superVars
  <2>2. TypeOK'
    BY <2>1, Shapes DEF IInv, TypeOK
  <2>3. FreshInv'
    BY <2>1 DEF IInv, TypeOK, FreshInv, Idle
  <2>5. StoredInv' /\ DeletedLeaveNothing'
    BY <2>1 DEF IInv, TypeOK, StoredInv, DeletedLeaveNothing
  <2>6. RoleInv' /\ OverlapInv'
    BY <2>1 DEF IInv, RoleInv, OverlapInv, Gone
  <2> QED  BY <2>2, <2>3, <2>5, <2>6 DEF IInv
<1>8. CASE logOut(d)
  BY <1>8, Shapes, Moves DEF logOut, At, Goon, Idle, IInv, TypeOK
<1>9. CASE \E c \in {"access", "refresh"} : expire(d, c)
  <2>1. cookies' \in [Devices -> SUBSET {"access", "refresh"}]
        /\ UNCHANGED <<users, confirmed, status, grants, tokens, hash, stored, req, pc, rivals>>
    BY <1>9 DEF expire, IInv, TypeOK, userVars, tokenVars, superVars
  <2> QED
    BY <2>1 DEF IInv, TypeOK, FreshInv, StoredInv,
       RoleInv, OverlapInv, Gone, DeletedLeaveNothing
<1> QED  BY <1>1, <1>2, <1>3, <1>4, <1>5, <1>6, <1>7, <1>8, <1>9 DEF session

LEMMA HandlerStep ==
  ASSUME IInv, NEW d \in Devices, handler(d)
  PROVE  IInv'
<1> USE AccessAssumption
<1>1. CASE \E r \in Requests : canActivate(d, r)
  BY <1>1, Shapes, Begins DEF canActivate
<1>2. CASE other(d)
  BY <1>2, Shapes, Moves DEF other, Admitted, At, Goon, Idle, IInv, TypeOK
<1>3. CASE delete(d)
  <2> DEFINE u == Owner[d]
  <2>1. /\ req[d].op = "admitted" /\ req' = [req EXCEPT ![d] = Idle]
        /\ users' = users \ {u} /\ confirmed' = confirmed \ {u} /\ tokens' = tokens \ {u}
        /\ status' = [status EXCEPT ![u] = "NEW"]
        /\ grants' = [grants EXCEPT ![u] = {}] /\ hash' = [hash EXCEPT ![u] = {}]
        /\ UNCHANGED <<cookies, stored, pc, rivals>>
    BY <1>3 DEF delete, Admitted, At, Goon, superVars
  <2>2. TypeOK'
    BY <2>1, Shapes DEF IInv, TypeOK
  <2>3. FreshInv'
    BY <2>1 DEF IInv, TypeOK, FreshInv
  <2>5. StoredInv' /\ DeletedLeaveNothing'
    BY <2>1 DEF IInv, TypeOK, StoredInv, DeletedLeaveNothing
  <2>6. RoleInv' /\ OverlapInv'
    BY <2>1 DEF IInv, TypeOK, RoleInv, OverlapInv, Gone
  <2> QED  BY <2>2, <2>3, <2>5, <2>6 DEF IInv
<1>4. CASE addRole(d)
  <2> DEFINE u == req[d].user
  <2>1. /\ req[d].op = "grant" /\ req' = [req EXCEPT ![d] = Idle]
        /\ grants' = IF u \in users THEN [grants EXCEPT ![u] = @ \union {req[d].value}] ELSE grants
        /\ UNCHANGED <<users, confirmed, status, tokens, hash, stored, cookies, pc, rivals>>
    BY <1>4 DEF addRole, At, Goon, userVars, tokenVars, superVars
  <2>2. u \in Users /\ req[d].value \in Roles
    BY <2>1, Shapes DEF IInv, TypeOK, Roles
  <2>3. TypeOK'
    BY <2>1, <2>2, Shapes DEF IInv, TypeOK
  <2>4. \A v \in Users : grants[v] \subseteq grants'[v]
    BY <2>1 DEF IInv, TypeOK
  <2>6. FreshInv' /\ StoredInv' /\ OverlapInv'
    BY <2>1 DEF IInv, TypeOK, FreshInv, StoredInv, OverlapInv, Gone
  <2>7. RoleInv'
    BY <2>1, <2>4 DEF IInv, RoleInv
  <2>8. DeletedLeaveNothing'
    BY <2>1 DEF IInv, TypeOK, DeletedLeaveNothing
  <2> QED  BY <2>3, <2>6, <2>7, <2>8 DEF IInv
<1>5. CASE \E u \in Users : updateStatus(d, u)
  <2>1. /\ req[d].op = "admitted" /\ req' = [req EXCEPT ![d] = Idle]
        /\ UNCHANGED <<userVars, grants, tokenVars, cookies, superVars>>
    BY <1>5 DEF updateStatus, Admitted, At, Goon
  <2> QED  BY <2>1, Shapes, Moves DEF Idle, IInv, TypeOK
<1>6. CASE \E u \in Users : \E value \in Values : setRole(d, u, value)
  <2>1. PICK u \in Users, value \in Values : setRole(d, u, value)
    BY <1>6
  <2> DEFINE k == IF u \in users THEN [op |-> "grant", user |-> u, value |-> value] ELSE Idle
  <2>2. k \in Continuations /\ k.op # "admitted"
    BY Shapes DEF Idle
  <2>3. req[d].op = "admitted" /\ req' = [req EXCEPT ![d] = k]
        /\ UNCHANGED <<userVars, grants, tokenVars, cookies, superVars>>
    BY <2>1 DEF setRole, Admitted, At, Goon
  <2>4. req[d] # Idle /\ cookies' \in [Devices -> SUBSET {"access", "refresh"}]
    BY <2>3 DEF Idle, IInv, TypeOK
  <2> QED  BY <2>2, <2>3, <2>4, Moves
<1> QED  BY <1>1, <1>2, <1>3, <1>4, <1>5, <1>6 DEF handler

LEMMA ConfirmStep ==
  ASSUME IInv, NEW u \in Users, markEmailAsConfirmed(u)
  PROVE  IInv'
<1>1. /\ u \in users /\ confirmed' = confirmed \union {u}
      /\ status' = [status EXCEPT ![u] = "ACTIVE"]
      /\ UNCHANGED <<users, grants, tokens, hash, stored, cookies, req, pc, rivals>>
  BY DEF markEmailAsConfirmed, tokenVars, superVars
<1>2. TypeOK'
  BY <1>1 DEF IInv, TypeOK
<1>3. FreshInv' /\ StoredInv' /\ RoleInv' /\ OverlapInv' /\ DeletedLeaveNothing'
  BY <1>1 DEF IInv, TypeOK, FreshInv, StoredInv, RoleInv, OverlapInv, Gone, DeletedLeaveNothing
<1> QED  BY <1>2, <1>3 DEF IInv

LEMMA RegisterStep ==
  ASSUME IInv, NEW r \in Supers, registering(r)
  PROVE  IInv'
<1> USE AccessAssumption
<1>1. CASE getSuperAdminRole(r)
  <2>1. /\ pc[r] = "idle"
        /\ pc' = [pc EXCEPT ![r] = IF Supreme # {} THEN "refused" ELSE "create"]
        /\ rivals' = [rivals EXCEPT ![r] = UnderWay]
        /\ UNCHANGED <<users, confirmed, status, grants, tokens, hash, stored, cookies, req>>
    BY <1>1 DEF getSuperAdminRole, userVars, tokenVars
  <2>2. TypeOK'
    BY <2>1 DEF IInv, TypeOK, UnderWay
  <2>3. FreshInv' /\ RoleInv'
    BY <2>1 DEF IInv, TypeOK, FreshInv, RoleInv
  <2>4. OverlapInv'
    <3> SUFFICES ASSUME NEW s \in Supers, s # r, pc'[r] \in Past, pc'[s] \in Past
                 PROVE  s \in rivals'[r] \/ Gone(s)'
      BY <2>1 DEF IInv, TypeOK, OverlapInv, Gone
    <3>1. Supreme = {} /\ pc'[s] = pc[s] /\ rivals'[r] = UnderWay
      BY <2>1 DEF IInv, TypeOK, Past
    <3>2. CASE pc[s] \in {"create", "role"}
      BY <3>1, <3>2 DEF UnderWay
    <3>3. CASE pc[s] \in {"tokens", "done"}
      BY <2>1, <3>1, <3>3 DEF IInv, RoleInv, Supreme, Gone
    <3> QED  BY <3>1, <3>2, <3>3 DEF Past
  <2>5. StoredInv' /\ DeletedLeaveNothing'
    BY <2>1 DEF IInv, StoredInv, DeletedLeaveNothing
  <2> QED  BY <2>2, <2>3, <2>4, <2>5 DEF IInv
<1>2. CASE createAdmin(r)
  <2>1. /\ pc[r] = "create" /\ users' = users \union {r} /\ pc' = [pc EXCEPT ![r] = "role"]
        /\ UNCHANGED <<confirmed, status, grants, tokens, hash, stored, cookies, req, rivals>>
    BY <1>2 DEF createAdmin, tokenVars
  <2>2. /\ r \notin users
        /\ \A d \in Devices : Owner[d] = r => req[d] = Idle /\ d \notin stored
    BY <2>1 DEF IInv, FreshInv
  <2>3. TypeOK'
    BY <2>1 DEF IInv, TypeOK
  <2>4. FreshInv' /\ RoleInv'
    BY <2>1 DEF IInv, TypeOK, FreshInv, RoleInv
  <2>5. OverlapInv'
    BY <2>1 DEF IInv, TypeOK, OverlapInv, Gone, Past
  <2>6. StoredInv' /\ DeletedLeaveNothing'
    BY <2>1, <2>2 DEF IInv, TypeOK, StoredInv, DeletedLeaveNothing
  <2> QED  BY <2>3, <2>4, <2>5, <2>6 DEF IInv
<1>3. CASE addSuperRole(r)
  <2>1. /\ pc[r] = "role"
        /\ \/ /\ r \in users /\ grants' = [grants EXCEPT ![r] = @ \union {"SUPERADMIN"}]
              /\ pc' = [pc EXCEPT ![r] = "tokens"]
           \/ r \notin users /\ pc' = [pc EXCEPT ![r] = "refused"] /\ UNCHANGED grants
        /\ UNCHANGED <<users, confirmed, status, tokens, hash, stored, cookies, req, rivals>>
    BY <1>3 DEF addSuperRole, userVars, tokenVars
  <2>2. TypeOK'
    BY <2>1 DEF IInv, TypeOK, Roles
  <2>3. \A v \in Users : grants[v] \subseteq grants'[v]
    BY <2>1 DEF IInv, TypeOK
  <2>5. FreshInv' /\ RoleInv'
    BY <2>1, <2>3 DEF IInv, TypeOK, FreshInv, RoleInv
  <2>6. OverlapInv'
    BY <2>1 DEF IInv, TypeOK, OverlapInv, Gone, Past
  <2>7. StoredInv' /\ DeletedLeaveNothing'
    BY <2>1 DEF IInv, TypeOK, StoredInv, DeletedLeaveNothing
  <2> QED  BY <2>2, <2>5, <2>6, <2>7 DEF IInv
<1>4. CASE setTokens(r)
  <2>1. /\ pc[r] = "tokens" /\ tokens' = tokens \union ({r} \intersect users)
        /\ pc' = [pc EXCEPT ![r] = IF r \in users THEN "done" ELSE "refused"]
        /\ UNCHANGED <<users, confirmed, status, grants, hash, stored, cookies, req, rivals>>
    BY <1>4 DEF setTokens, userVars
  <2>2. TypeOK'
    BY <2>1 DEF IInv, TypeOK
  <2>3. FreshInv' /\ RoleInv'
    BY <2>1 DEF IInv, TypeOK, FreshInv, RoleInv
  <2>4. OverlapInv'
    BY <2>1 DEF IInv, TypeOK, OverlapInv, Gone, Past
  <2>5. StoredInv' /\ DeletedLeaveNothing'
    BY <2>1 DEF IInv, StoredInv, DeletedLeaveNothing
  <2> QED  BY <2>2, <2>3, <2>4, <2>5 DEF IInv
<1> QED  BY <1>1, <1>2, <1>3, <1>4 DEF registering

-----------------------------------------------------------------------------
LEMMA Initial == Init => IInv
<1> SUFFICES ASSUME Init  PROVE IInv  OBVIOUS
<1> USE AccessAssumption DEF Init
<1>1. TypeOK
  BY Shapes DEF TypeOK, Roles
<1>2. FreshInv /\ StoredInv /\ RoleInv /\ OverlapInv
  BY DEF FreshInv, StoredInv, RoleInv, OverlapInv, Past
<1>3. DeletedLeaveNothing
  BY DEF At, Idle, DeletedLeaveNothing
<1> QED  BY <1>1, <1>2, <1>3 DEF IInv

LEMMA Inductive == IInv /\ [Next]_vars => IInv'
<1> SUFFICES ASSUME IInv, [Next]_vars  PROVE IInv'  OBVIOUS
<1>1. CASE Next
  BY <1>1, SessionStep, HandlerStep, ConfirmStep, RegisterStep DEF Next
<1>2. CASE UNCHANGED vars
  BY <1>2 DEF vars, IInv, TypeOK, FreshInv, StoredInv, RoleInv, OverlapInv, Gone, DeletedLeaveNothing
<1> QED  BY <1>1, <1>2

LEMMA Invariant == Spec => []IInv
BY Initial, Inductive, PTL DEF Spec

\* Rows, cookies and requests have their types.
THEOREM TypeCorrect == Spec => []TypeOK
<1>1. IInv => TypeOK  BY DEF IInv
<1> QED  BY <1>1, Invariant, PTL

\* However many devices a user has, none is signed out by the log-in of another.
THEOREM DevicesRefresh == Spec => []SignedInDevicesRefresh
<1>1. IInv => SignedInDevicesRefresh  BY DEF IInv, StoredInv, SignedInDevicesRefresh
<1> QED  BY <1>1, Invariant, PTL

\* Two first super administrators can only come from overlapping registrations.
THEOREM FirstOverlap == Spec => []SuperAdminsOverlap
<1>1. IInv => SuperAdminsOverlap
  BY DEF IInv, OverlapInv, Gone, Past, SuperAdminsOverlap
<1> QED  BY <1>1, Invariant, PTL

\* No role and no hash outlives its account.
THEOREM NothingLeft == Spec => []DeletedLeaveNothing
<1>1. IInv => DeletedLeaveNothing  BY DEF IInv
<1> QED  BY <1>1, Invariant, PTL

=============================================================================

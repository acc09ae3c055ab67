-------------------------- MODULE AdminUsersProofs --------------------------
(***************************************************************************)
(* The safety of AdminUsers for any number of users, names, requests and   *)
(* tokens.  The invariant says what an update knows: it has exactly the    *)
(* rows locked that it has read, a prefix of the table, and as nobody else *)
(* writes those, what it remembers of them is what they are.               *)
(***************************************************************************)
EXTENDS AdminUsers, FiniteSetTheorems, TLAPS

Updating(q) == At(q, "locking") \/ At(q, "scanned")

Knows(q) ==
  /\ req[q].done = {u \in Rows : lock[u] = q}
  /\ \A u \in req[q].done, v \in Rows : v < u => v \in req[q].done
  /\ req[q].active = req[q].done \cap Active
  /\ req[q].row = IF req[q].user \in req[q].done THEN user[req[q].user] ELSE NoRow
  /\ ~Updating(q) => req[q].done = {}
  /\ At(q, "scanned") => req[q].row # NoRow /\ ~LastActiveUser(q)

OnlyRowsAreLocked == \A u \in User : lock[u] # NoOne => u \in Rows

LockInv == OnlyRowsAreLocked /\ \A q \in Request : Knows(q)

LogoutInv == \A t \in loggedOut : session[t] = "deleted"

AdminInv == AdminTypeOK /\ LockInv /\ LogoutInv

Place == {"idle", "starting", "verified", "recorded", "presented", "in", "locking", "scanned"}
ReqType == [at : Place, token : Token \cup {NoToken}, user : User \cup {0}, patch : Patch,
             done : SUBSET User, active : SUBSET User, row : Row \cup {NoRow}]

LEMMA IdleIsTyped == Idle \in ReqType
BY DEF Idle, ReqType, Place, NoPatch, Patch

LEMMA RowsAreUsers ==
  ASSUME AdminTypeOK
  PROVE  Rows \subseteq User /\ count \in Nat /\ User \subseteq Nat
BY RowsAreCounted DEF AdminTypeOK, Rows, User

LEMMA RowIsNew == NoRow \notin Row
BY DEF NoRow, Row, Status

LEMMA InsertTyped ==
  ASSUME AdminTypeOK, NEW n \in Name, NEW status \in Status, Insert(n, status)
  PROVE  /\ count' \in 0..MaxUsers
         /\ user' \in [User -> Row \cup {NoRow}]
         /\ \A u \in User : user'[u] # NoRow <=> u <= count'
<1> DEFINE r == [status |-> status, name |-> n]
<1>1. r \in Row /\ r # NoRow
  BY RowIsNew DEF Row
<1>2. count + 1 \in User /\ count' = count + 1 /\ count \in Nat
  BY RowsAreCounted DEF AdminTypeOK, Insert, User
<1>3. user' = [user EXCEPT ![count + 1] = r]
  BY DEF Insert
<1> HIDE DEF r
<1>4. user' \in [User -> Row \cup {NoRow}]
  BY <1>1, <1>2, <1>3 DEF AdminTypeOK
<1>5. \A u \in User : user'[u] # NoRow <=> u <= count'
  <2>1. \A u \in User : u \in Nat /\ (user[u] # NoRow <=> u <= count)
    BY RowsAreUsers DEF AdminTypeOK
  <2>2. user'[count + 1] = r /\ \A u \in User \ {count + 1} : user'[u] = user[u]
    BY <1>2, <1>3 DEF AdminTypeOK
  <2>3. \A u \in User : u = count + 1 \/ (u <= count' <=> u <= count)
    BY <1>2, <2>1
  <2> QED BY <1>1, <1>2, <2>1, <2>2, <2>3
<1>6. count' \in 0..MaxUsers
  BY <1>2, RowsAreCounted DEF Insert
<1> QED BY <1>4, <1>5, <1>6

LEMMA TypeStep == AdminInv /\ [ANext]_avars => AdminTypeOK'
<1> SUFFICES ASSUME AdminInv, [ANext]_avars PROVE AdminTypeOK'
  OBVIOUS
<1> USE DEF AdminInv, table, sessions, avars
<1>0. AdminTypeOK OBVIOUS
<1>r. req \in [Request -> ReqType]
  BY DEF AdminTypeOK, ReqType, Place
<1>i. ASSUME NEW q \in Request, Returns(q) PROVE req' \in [Request -> ReqType]
  BY <1>i, <1>r, IdleIsTyped DEF Returns
<1>u. ASSUME NEW q \in Request, Unlock(q) PROVE lock' \in [User -> Request \cup {NoOne}]
  BY <1>u DEF Unlock, AdminTypeOK
<1>f. ASSUME req' \in [Request -> ReqType], UNCHANGED <<table, lock, sessions>>
      PROVE  AdminTypeOK'
  BY <1>f DEF AdminTypeOK, ReqType, Place
<1>1. ASSUME NEW q \in Request, EnsureAdminUser(q) PROVE AdminTypeOK'
  <2>1. req' \in [Request -> ReqType]
    BY <1>1, <1>r DEF EnsureAdminUser, ReqType, Place
  <2> QED BY <1>1, <2>1, <1>f DEF EnsureAdminUser
<1>2. ASSUME NEW q \in Request, CreateAdminUser(q) PROVE AdminTypeOK'
  <2>1. /\ count' \in 0..MaxUsers /\ user' \in [User -> Row \cup {NoRow}]
        /\ \A u \in User : user'[u] # NoRow <=> u <= count'
    <3>1. CASE Insert(AdminName, "active")
      BY <3>1, AdminIsNamed, InsertTyped DEF Status
    <3>2. CASE UNCHANGED table
      BY <3>2 DEF AdminTypeOK
    <3> QED BY <1>2, <3>1, <3>2 DEF CreateAdminUser
  <2>2. req' \in [Request -> ReqType]
    BY <1>2, <1>i DEF CreateAdminUser
  <2> QED BY <1>2, <2>1, <2>2 DEF CreateAdminUser, AdminTypeOK, ReqType, Place
<1>3. ASSUME NEW q \in Request, NEW u \in User, VerifyLogin(q, u) PROVE AdminTypeOK'
  <2>0. req[q] \in ReqType
    BY <1>r
  <2>1. req' \in [Request -> ReqType]
    <3>1. [req[q] EXCEPT !.at = "verified", !.user = u] \in ReqType
      BY <2>0 DEF ReqType, Place
    <3>2. req' = [req EXCEPT ![q] = [req[q] EXCEPT !.at = "verified", !.user = u]]
      BY <1>3, <1>r DEF VerifyLogin
    <3> QED BY <1>r, <3>1, <3>2
  <2> QED BY <1>3, <2>1, <1>f DEF VerifyLogin
<1>4. ASSUME NEW q \in Request, NEW u \in User, LockRow(q, u) PROVE AdminTypeOK'
  <2>1. user[u] \in Row \cup {NoRow}
    BY DEF AdminTypeOK
  <2>2. req' \in [Request -> ReqType]
    <3> DEFINE r == [req[q] EXCEPT !.done = @ \cup {u},
                                   !.active = IF u \in Active THEN @ \cup {u} ELSE @,
                                   !.row = IF u = req[q].user THEN user[u] ELSE @]
    <3>0. req[q] \in ReqType
      BY <1>r
    <3>1. r \in ReqType
      BY <2>1, <3>0 DEF ReqType
    <3>2. req' = [req EXCEPT ![q] = r]
      BY <1>4, <1>r DEF LockRow
    <3> HIDE DEF r
    <3> QED BY <1>r, <3>1, <3>2
  <2>3. lock' \in [User -> Request \cup {NoOne}]
    BY <1>4 DEF LockRow, AdminTypeOK
  <2> QED BY <1>4, <2>2, <2>3 DEF LockRow, AdminTypeOK, ReqType, Place
<1>5. ASSUME NEW q \in Request, NEW t \in Token, CreateSession(q, t) PROVE AdminTypeOK'
  <2>1. req' \in [Request -> ReqType]
    BY <1>5, <1>i DEF CreateSession
  <2>2. req[q].user \in User \cup {0}
    BY <1>r DEF ReqType
  <2>3. /\ session' \in [Token -> {"absent", "valid", "expired", "deleted"}]
        /\ holder' \in [Token -> User \cup {0}]
    BY <1>5, <2>2 DEF CreateSession, AdminTypeOK
  <2> QED BY <1>5, <2>1, <2>3 DEF CreateSession, AdminTypeOK, ReqType, Place
<1>6. ASSUME NEW q \in Request, NEW t \in Token, ReadSession(q, t) PROVE AdminTypeOK'
  <2>0. req[q] \in ReqType
    BY <1>r
  <2>1. req' \in [Request -> ReqType]
    <3>1. [req[q] EXCEPT !.at = "presented", !.token = t] \in ReqType
      BY <2>0 DEF ReqType, Place
    <3>2. req' = [req EXCEPT ![q] = [req[q] EXCEPT !.at = "presented", !.token = t]]
      BY <1>6, <1>r DEF ReadSession
    <3> QED BY <1>r, <3>1, <3>2
  <2> QED BY <1>6, <2>1, <1>f DEF ReadSession
<1>7. ASSUME NEW q \in Request, NEW t \in Token, ReadExpiredSession(q, t) PROVE AdminTypeOK'
  BY <1>7 DEF ReadExpiredSession, AdminTypeOK
<1>8. ASSUME NEW q \in Request, NEW t \in Token, Logout(q, t) PROVE AdminTypeOK'
  BY <1>8 DEF Logout, AdminTypeOK
<1>9. ASSUME NEW q \in Request, RecordLogin(q) PROVE AdminTypeOK'
  <2>1. req' \in [Request -> ReqType]
    BY <1>9, <1>r DEF RecordLogin, ReqType, Place
  <2> QED BY <1>9, <2>1, <1>f DEF RecordLogin
<1>10. ASSUME NEW q \in Request, RecordSeen(q) PROVE AdminTypeOK'
  <2>1. req' \in [Request -> ReqType]
    BY <1>10, <1>r DEF RecordSeen, ReqType, Place
  <2> QED BY <1>10, <2>1, <1>f DEF RecordSeen, Seen
<1>11. ASSUME NEW q \in Request, VerifyBearer(q) PROVE AdminTypeOK'
  <2>1. req' \in [Request -> ReqType]
    BY <1>11, <1>r DEF VerifyBearer, ReqType, Place
  <2> QED BY <1>11, <2>1, <1>f DEF VerifyBearer
<1>12. ASSUME NEW q \in Request, NEW n \in Name, NEW status \in Status, CreateUser(q, n, status)
       PROVE  AdminTypeOK'
  <2>1. /\ count' \in 0..MaxUsers /\ user' \in [User -> Row \cup {NoRow}]
        /\ \A u \in User : user'[u] # NoRow <=> u <= count'
    BY <1>12, InsertTyped DEF CreateUser
  <2>2. req' \in [Request -> ReqType]
    BY <1>12, <1>i DEF CreateUser
  <2> QED BY <1>12, <2>1, <2>2 DEF CreateUser, AdminTypeOK, ReqType, Place
<1>13. ASSUME NEW q \in Request, NEW u \in User, NEW patch \in Patch, UpdateAdminUser(q, u, patch)
       PROVE  AdminTypeOK'
  <2>1. [Idle EXCEPT !.at = "locking", !.user = u, !.patch = patch] \in ReqType
    BY IdleIsTyped DEF ReqType, Place
  <2>2. req' \in [Request -> ReqType]
    BY <1>13, <1>r, <2>1 DEF UpdateAdminUser
  <2> QED BY <1>13, <2>2, <1>f DEF UpdateAdminUser
<1>14. ASSUME NEW q \in Request, ScanEnds(q) PROVE AdminTypeOK'
  <2>1. req' \in [Request -> ReqType]
    BY <1>14, <1>r DEF ScanEnds, ReqType, Place
  <2> QED BY <1>14, <2>1, <1>f DEF ScanEnds
<1>15. ASSUME NEW q \in Request, Commit(q) PROVE AdminTypeOK'
  <2>1. req' \in [Request -> ReqType] /\ lock' \in [User -> Request \cup {NoOne}]
    BY <1>15, <1>i, <1>u DEF Commit
  <2>2. req[q].row \in Row /\ req[q].patch \in Patch
    BY <1>15, <1>r DEF Commit, LockInv, Knows, ReqType
  <2>3. Patched(q) \in Row
    BY <2>2 DEF Patched, Row, Patch
  <2>4. req[q].user \in Rows
    BY <1>15 DEF Commit, LockInv, Knows
  <2>5. Patched(q) # NoRow
    BY <2>3, RowIsNew
  <2>6. user' \in [User -> Row \cup {NoRow}] /\ \A w \in User : user'[w] # NoRow <=> w <= count
    BY <1>15, <2>3, <2>4, <2>5 DEF Commit, AdminTypeOK, Rows
  <2> QED BY <1>15, <2>1, <2>6 DEF Commit, AdminTypeOK, ReqType, Place
<1>16. ASSUME NEW q \in Request, GiveUp(q) PROVE AdminTypeOK'
  <2>1. req' \in [Request -> ReqType] /\ lock' \in [User -> Request \cup {NoOne}]
    BY <1>16, <1>i, <1>u DEF GiveUp
  <2> QED BY <1>16, <2>1 DEF GiveUp, AdminTypeOK, ReqType, Place
<1>17. ASSUME NEW t \in Token, SessionExpires(t) PROVE AdminTypeOK'
  BY <1>17 DEF SessionExpires, AdminTypeOK
<1>18. ASSUME UNCHANGED avars PROVE AdminTypeOK'
  BY <1>18 DEF AdminTypeOK
<1> QED
  BY <1>1, <1>2, <1>3, <1>4, <1>5, <1>6, <1>7, <1>8, <1>9, <1>10, <1>11, <1>12, <1>13, <1>14,
     <1>15, <1>16, <1>17, <1>18 DEF ANext

-----------------------------------------------------------------------------
(* What updates know.                                                      *)

(* A step that leaves rows and locks alone, and what a request has read,   *)
(* keeps what updates know, if a request that was no update has nothing.   *)
LEMMA Elsewhere ==
  ASSUME AdminInv, UNCHANGED <<table, lock>>, NEW q \in Request, NEW r \in ReqType,
         req' = [req EXCEPT ![q] = r], ~Updating(q),
         r.done = {}, r.active = {}, r.row = NoRow, r.at # "scanned"
  PROVE  LockInv'
<1>1. req \in [Request -> ReqType]
  BY DEF AdminInv, AdminTypeOK, ReqType, Place
<1>2. ASSUME NEW p \in Request PROVE Knows(p)'
  <2>1. CASE p = q
    <3>1. {u \in Rows : lock[u] = q} = {}
      BY DEF AdminInv, LockInv, Knows
    <3> QED BY <1>1, <2>1, <3>1 DEF Knows, Rows, Active, table, At, Updating
  <2>2. CASE p # q
    <3>1. Knows(p) /\ req'[p] = req[p]
      BY <1>1, <2>2 DEF AdminInv, LockInv
    <3> QED BY <3>1 DEF Knows, Rows, Active, table, At, Updating, LastActiveUser
  <2> QED BY <2>1, <2>2
<1> QED BY <1>2 DEF AdminInv, LockInv, OnlyRowsAreLocked, Rows, table

(* The same when a row has been added, which nobody has locked.            *)
LEMMA Inserted ==
  ASSUME AdminInv, NEW n \in Name, NEW status \in Status, Insert(n, status),
         UNCHANGED lock, NEW q \in Request, Returns(q), ~Updating(q)
  PROVE  LockInv'
<1>1. req \in [Request -> ReqType]
  BY DEF AdminInv, AdminTypeOK, ReqType, Place
<1>2. count \in Nat /\ count' = count + 1 /\ count + 1 \in User
  BY RowsAreCounted DEF AdminInv, AdminTypeOK, Insert, User
<1>3. \A u \in Rows : user'[u] = user[u]
  BY <1>2 DEF AdminInv, AdminTypeOK, Insert, Rows, User
<1>4. Rows' = Rows \cup {count + 1} /\ count + 1 \notin Rows
  BY <1>2 DEF Rows
<1>5. lock[count + 1] = NoOne
  BY <1>2, <1>4 DEF AdminInv, LockInv, OnlyRowsAreLocked
<1>6. ASSUME NEW p \in Request PROVE Knows(p)'
  <2>1. {u \in Rows' : lock'[u] = p} = {u \in Rows : lock[u] = p}
    BY <1>4, <1>5, NoOneIsNew
  <2>2. CASE p = q
    <3>1. {u \in Rows : lock[u] = q} = {}
      BY DEF AdminInv, LockInv, Knows
    <3>2. req'[p] = Idle
      BY <1>1, <2>2 DEF Returns
    <3> QED BY <2>1, <2>2, <3>1, <3>2 DEF Knows, Idle, At, Updating
  <2>3. CASE p # q
    <3>1. Knows(p) /\ req'[p] = req[p]
      BY <1>1, <2>3 DEF AdminInv, LockInv, Returns
    <3>2. req[p].done \subseteq Rows
      BY <3>1 DEF Knows
    <3>3. req[p].done \cap Active' = req[p].done \cap Active
      BY <1>3, <1>4, <3>2 DEF Active
    <3>4. \A u \in req[p].done : ~(count + 1 < u)
      BY <1>2, <3>2 DEF Rows
    <3>5. \A u \in req[p].done, v \in Rows' : v < u => v \in req[p].done
      BY <1>4, <3>1, <3>4 DEF Knows
    <3>6. req[p].row = IF req[p].user \in req[p].done THEN user'[req[p].user] ELSE NoRow
      BY <1>3, <3>1, <3>2 DEF Knows
    <3> QED BY <2>1, <3>1, <3>3, <3>5, <3>6 DEF Knows, At, Updating, LastActiveUser
  <2> QED BY <2>2, <2>3
<1>7. OnlyRowsAreLocked'
  BY <1>4 DEF AdminInv, LockInv, OnlyRowsAreLocked
<1> QED BY <1>6, <1>7 DEF LockInv

(* An update that ends lets go of its rows; nobody else has locked them.   *)
LEMMA Ended ==
  ASSUME AdminInv, NEW q \in Request, Unlock(q), Returns(q), UNCHANGED count,
         \A u \in Rows : lock[u] # q => user'[u] = user[u]
  PROVE  LockInv'
<1>1. req \in [Request -> ReqType]
  BY DEF AdminInv, AdminTypeOK, ReqType, Place
<1>0. Rows \subseteq User /\ Rows' = Rows
  BY RowsAreUsers DEF AdminInv, Rows
<1>2. \A u \in User : lock'[u] = IF lock[u] = q THEN NoOne ELSE lock[u]
  BY DEF Unlock
<1>3. ASSUME NEW p \in Request PROVE Knows(p)'
  <2>1. CASE p = q
    <3>1. {u \in Rows' : lock'[u] = q} = {}
      BY <1>0, <1>2, NoOneIsNew
    <3>2. req'[p] = Idle
      BY <1>1, <2>1 DEF Returns
    <3> QED BY <2>1, <3>1, <3>2 DEF Knows, Idle, At, Updating
  <2>2. CASE p # q
    <3>1. Knows(p) /\ req'[p] = req[p]
      BY <1>1, <2>2 DEF AdminInv, LockInv, Returns
    <3>2. {u \in Rows' : lock'[u] = p} = {u \in Rows : lock[u] = p}
      BY <1>0, <1>2, <2>2, NoOneIsNew
    <3>3. \A u \in req[p].done : u \in Rows /\ user'[u] = user[u]
      BY <2>2, <3>1 DEF Knows
    <3>4. req[p].done \cap Active' = req[p].done \cap Active
      BY <1>0, <3>3 DEF Active
    <3>5. req[p].row = IF req[p].user \in req[p].done THEN user'[req[p].user] ELSE NoRow
      BY <3>1, <3>3 DEF Knows
    <3> QED BY <1>0, <3>1, <3>2, <3>4, <3>5 DEF Knows, At, Updating, LastActiveUser
  <2> QED BY <2>1, <2>2
<1>4. OnlyRowsAreLocked'
  BY <1>0, <1>2 DEF AdminInv, LockInv, OnlyRowsAreLocked
<1> QED BY <1>3, <1>4 DEF LockInv

LEMMA Locked ==
  ASSUME AdminInv, NEW q \in Request, NEW u \in User, LockRow(q, u)
  PROVE  LockInv'
<1>1. req \in [Request -> ReqType]
  BY DEF AdminInv, AdminTypeOK, ReqType, Place
<1>2. u \in Rows /\ lock[u] = NoOne /\ UNCHANGED <<count, user>>
  BY DEF LockRow, Free, table
<1>3. lock' = [lock EXCEPT ![u] = q] /\ lock \in [User -> Request \cup {NoOne}]
  BY DEF LockRow, AdminInv, AdminTypeOK
<1>4. Rows' = Rows /\ Active' = Active
  BY <1>2 DEF Rows, Active
<1>5. ASSUME NEW p \in Request PROVE Knows(p)'
  <2>1. CASE p = q
    <3>0. req[q] \in ReqType
      BY <1>1
    <3>1. /\ req'[q].done = req[q].done \cup {u}
          /\ req'[q].active = IF u \in Active THEN req[q].active \cup {u} ELSE req[q].active
          /\ req'[q].row = IF u = req[q].user THEN user[u] ELSE req[q].row
          /\ req'[q].at = "locking" /\ req'[q].user = req[q].user
      BY <1>1, <3>0 DEF LockRow, At, ReqType
    <3>2. Knows(q)
      BY DEF AdminInv, LockInv
    <3>3. {w \in Rows : lock'[w] = q} = {w \in Rows : lock[w] = q} \cup {u}
      BY <1>2, <1>3, RowsAreUsers DEF AdminInv
    <3>4. \A w \in req'[q].done, v \in Rows : v < w => v \in req'[q].done
      <4>1. \A v \in Rows : v < u => v \in req[q].done
        BY <1>2, RowsAreUsers DEF LockRow, InOrder, AdminInv
      <4> QED BY <3>1, <3>2, <4>1 DEF Knows
    <3>5. req'[q].active = req'[q].done \cap Active
      BY <3>1, <3>2 DEF Knows
    <3>6. req'[q].row = IF req[q].user \in req'[q].done THEN user[req[q].user] ELSE NoRow
      BY <3>1, <3>2 DEF Knows
    <3> QED BY <1>2, <1>4, <2>1, <3>1, <3>2, <3>3, <3>4, <3>5, <3>6 DEF Knows, At, Updating
  <2>2. CASE p # q
    <3>1. Knows(p) /\ req'[p] = req[p]
      BY <1>1, <2>2 DEF AdminInv, LockInv, LockRow
    <3>2. {w \in Rows : lock'[w] = p} = {w \in Rows : lock[w] = p}
      BY <1>2, <1>3, <2>2, NoOneIsNew, RowsAreUsers DEF AdminInv
    <3> QED BY <1>2, <1>4, <3>1, <3>2 DEF Knows, At, Updating, LastActiveUser
  <2> QED BY <2>1, <2>2
<1>6. OnlyRowsAreLocked'
  BY <1>2, <1>3, <1>4 DEF AdminInv, LockInv, OnlyRowsAreLocked
<1> QED BY <1>5, <1>6 DEF LockInv

LEMMA LockStep == AdminInv /\ [ANext]_avars => LockInv'
<1> SUFFICES ASSUME AdminInv, [ANext]_avars PROVE LockInv'
  OBVIOUS
<1>r. req \in [Request -> ReqType]
  BY DEF AdminInv, AdminTypeOK, ReqType, Place
<1>t. ASSUME NEW q \in Request, ~Updating(q)
      PROVE  req[q] \in ReqType /\ req[q].done = {} /\ req[q].active = {} /\ req[q].row = NoRow
  BY <1>r, <1>t DEF AdminInv, LockInv, Knows
<1>m. ASSUME NEW q \in Request, NEW place \in Place \ {"scanned"}, ~Updating(q),
             UNCHANGED <<table, lock>>, req' = [req EXCEPT ![q].at = place]
      PROVE  LockInv'
  <2>1. [req[q] EXCEPT !.at = place] \in ReqType
    BY <1>m, <1>t DEF ReqType
  <2>2. req' = [req EXCEPT ![q] = [req[q] EXCEPT !.at = place]]
    BY <1>m, <1>r
  <2> QED BY <1>m, <1>t, <2>1, <2>2, Elsewhere DEF ReqType
<1>i. ASSUME NEW q \in Request, ~Updating(q), UNCHANGED <<table, lock>>, Returns(q)
      PROVE  LockInv'
  <2>1. /\ Idle \in ReqType /\ Idle.done = {} /\ Idle.active = {}
        /\ Idle.row = NoRow /\ Idle.at # "scanned"
    BY IdleIsTyped DEF Idle
  <2>2. req' = [req EXCEPT ![q] = Idle]
    BY <1>i DEF Returns
  <2> QED BY <1>i, <2>1, <2>2, Elsewhere
<1>0. ASSUME UNCHANGED <<table, lock, req>> PROVE LockInv'
  BY <1>0 DEF AdminInv, LockInv, OnlyRowsAreLocked, Knows, Updating, At, LastActiveUser,
              Rows, Active, table
<1>1. ASSUME NEW q \in Request, EnsureAdminUser(q) PROVE LockInv'
  BY <1>1, <1>m DEF EnsureAdminUser, Updating, At, Place
<1>2. ASSUME NEW q \in Request, CreateAdminUser(q) PROVE LockInv'
  <2>1. ~Updating(q) /\ UNCHANGED lock /\ Returns(q)
    BY <1>2 DEF CreateAdminUser, Updating, At
  <2>2. CASE Insert(AdminName, "active")
    BY <2>1, <2>2, Inserted, AdminIsNamed DEF Status
  <2>3. CASE UNCHANGED table
    BY <2>1, <2>3, <1>i
  <2> QED BY <1>2, <2>2, <2>3 DEF CreateAdminUser
<1>3. ASSUME NEW q \in Request, NEW u \in User, VerifyLogin(q, u) PROVE LockInv'
  <2> DEFINE r == [req[q] EXCEPT !.at = "verified", !.user = u]
  <2>1. ~Updating(q) /\ UNCHANGED <<table, lock>>
    BY <1>3 DEF VerifyLogin, Updating, At
  <2>2. req' = [req EXCEPT ![q] = r]
    BY <1>3, <1>r DEF VerifyLogin
  <2>3. r \in ReqType /\ r.done = {} /\ r.active = {} /\ r.row = NoRow /\ r.at # "scanned"
    BY <1>t, <2>1 DEF ReqType, Place
  <2> HIDE DEF r
  <2> QED BY <2>1, <2>2, <2>3, Elsewhere
<1>4. ASSUME NEW q \in Request, NEW u \in User, LockRow(q, u) PROVE LockInv'
  BY <1>4, Locked
<1>5. ASSUME NEW q \in Request, NEW t \in Token, CreateSession(q, t) PROVE LockInv'
  BY <1>5, <1>i DEF CreateSession, Updating, At
<1>6. ASSUME NEW q \in Request, NEW t \in Token, ReadSession(q, t) PROVE LockInv'
  <2> DEFINE r == [req[q] EXCEPT !.at = "presented", !.token = t]
  <2>1. ~Updating(q) /\ UNCHANGED <<table, lock>>
    BY <1>6 DEF ReadSession, Updating, At
  <2>2. req' = [req EXCEPT ![q] = r]
    BY <1>6, <1>r DEF ReadSession
  <2>3. r \in ReqType /\ r.done = {} /\ r.active = {} /\ r.row = NoRow /\ r.at # "scanned"
    BY <1>t, <2>1 DEF ReqType, Place
  <2> HIDE DEF r
  <2> QED BY <2>1, <2>2, <2>3, Elsewhere
<1>7. ASSUME NEW q \in Request, NEW t \in Token, ReadExpiredSession(q, t) \/ Logout(q, t)
      PROVE  LockInv'
  BY <1>7, <1>0 DEF ReadExpiredSession, Logout
<1>9. ASSUME NEW q \in Request, RecordLogin(q) PROVE LockInv'
  BY <1>9, <1>m DEF RecordLogin, Updating, At, Place
<1>10. ASSUME NEW q \in Request, RecordSeen(q) PROVE LockInv'
  BY <1>10, <1>m DEF RecordSeen, Updating, At, Place
<1>11. ASSUME NEW q \in Request, VerifyBearer(q) PROVE LockInv'
  BY <1>11, <1>m DEF VerifyBearer, Updating, At, Place
<1>12. ASSUME NEW q \in Request, NEW n \in Name, NEW status \in Status, CreateUser(q, n, status)
       PROVE  LockInv'
  BY <1>12, Inserted DEF CreateUser, Updating, At
<1>13. ASSUME NEW q \in Request, NEW u \in User, NEW patch \in Patch, UpdateAdminUser(q, u, patch)
       PROVE  LockInv'
  <2> DEFINE r == [Idle EXCEPT !.at = "locking", !.user = u, !.patch = patch]
  <2>1. ~Updating(q) /\ UNCHANGED <<table, lock>> /\ req' = [req EXCEPT ![q] = r]
    BY <1>13 DEF UpdateAdminUser, Updating, At
  <2>2. r \in ReqType
    BY IdleIsTyped DEF ReqType, Place
  <2>3. r.done = {} /\ r.active = {} /\ r.row = NoRow /\ r.at # "scanned"
    BY DEF Idle
  <2> HIDE DEF r
  <2> QED BY <2>1, <2>2, <2>3, Elsewhere
<1>14. ASSUME NEW q \in Request, ScanEnds(q) PROVE LockInv'
  <2>1. req' = [req EXCEPT ![q].at = "scanned"] /\ UNCHANGED <<count, user, lock>>
    BY <1>14 DEF ScanEnds, table
  <2>2. ASSUME NEW p \in Request PROVE Knows(p)'
    <3>0. Knows(p) /\ req[p] \in ReqType
      BY <1>r DEF AdminInv, LockInv
    <3>1. /\ req'[p].done = req[p].done /\ req'[p].active = req[p].active
          /\ req'[p].row = req[p].row /\ req'[p].user = req[p].user
          /\ req'[p].patch = req[p].patch
          /\ req'[p].at = IF p = q THEN "scanned" ELSE req[p].at
      BY <1>r, <2>1, <3>0 DEF ReqType
    <3>2. Rows' = Rows /\ Active' = Active
      BY <2>1 DEF Rows, Active
    <3>3. Updating(p)' <=> Updating(p)
      BY <1>14, <3>1 DEF ScanEnds, Updating, At
    <3>4. LastActiveUser(p)' <=> LastActiveUser(p)
      BY <3>1 DEF LastActiveUser
    <3>5. At(p, "scanned")' => req[p].row # NoRow /\ ~LastActiveUser(p)
      BY <1>14, <3>0, <3>1 DEF ScanEnds, Knows, At
    <3> QED BY <2>1, <3>0, <3>1, <3>2, <3>3, <3>4, <3>5 DEF Knows
  <2>3. OnlyRowsAreLocked'
    BY <2>1 DEF AdminInv, LockInv, OnlyRowsAreLocked, Rows
  <2> QED BY <2>2, <2>3 DEF LockInv
<1>15. ASSUME NEW q \in Request, Commit(q) PROVE LockInv'
  <2>1. Unlock(q) /\ Returns(q) /\ UNCHANGED count
    BY <1>15 DEF Commit
  <2>2. lock[req[q].user] = q
    BY <1>15 DEF Commit, AdminInv, LockInv, Knows
  <2>3. \A u \in Rows : lock[u] # q => user'[u] = user[u]
    BY <1>15, <2>2, RowsAreUsers DEF Commit, AdminInv, AdminTypeOK
  <2> QED BY <2>1, <2>3, Ended
<1>16. ASSUME NEW q \in Request, GiveUp(q) PROVE LockInv'
  BY <1>16, Ended DEF GiveUp, table
<1>17. ASSUME NEW t \in Token, SessionExpires(t) PROVE LockInv'
  BY <1>17, <1>0 DEF SessionExpires
<1>18. ASSUME UNCHANGED avars PROVE LockInv'
  BY <1>18, <1>0 DEF avars
<1> QED
  BY <1>1, <1>2, <1>3, <1>4, <1>5, <1>6, <1>7, <1>9, <1>10, <1>11, <1>12, <1>13, <1>14,
     <1>15, <1>16, <1>17, <1>18 DEF ANext

(* A session that a logout has deleted is never touched again.             *)
LEMMA LogoutStep == AdminInv /\ [ANext]_avars => LogoutInv'
<1> SUFFICES ASSUME AdminInv, [ANext]_avars, NEW t \in loggedOut' PROVE session'[t] = "deleted"
  BY DEF LogoutInv
<1> USE DEF AdminInv, LogoutInv, AdminTypeOK, sessions
<1>1. ASSUME NEW q \in Request, NEW w \in Token, Logout(q, w) PROVE session'[t] = "deleted"
  BY <1>1 DEF Logout
<1>2. ASSUME UNCHANGED sessions PROVE session'[t] = "deleted"
  BY <1>2
<1>3. ASSUME NEW q \in Request, NEW w \in Token,
             CreateSession(q, w) \/ ReadExpiredSession(q, w)
      PROVE  session'[t] = "deleted"
  BY <1>3 DEF CreateSession, ReadExpiredSession
<1>4. ASSUME NEW w \in Token, SessionExpires(w) PROVE session'[t] = "deleted"
  BY <1>4 DEF SessionExpires
<1>5. ASSUME NEW q \in Request, RecordSeen(q) PROVE session'[t] = "deleted"
  BY <1>5 DEF RecordSeen, Seen
<1> QED
  BY <1>1, <1>2, <1>3, <1>4, <1>5
  DEF ANext, avars, EnsureAdminUser, CreateAdminUser, VerifyLogin, LockRow, ReadSession,
      RecordLogin, VerifyBearer, CreateUser, UpdateAdminUser, ScanEnds, Commit, GiveUp

LEMMA Initially == AInit => AdminInv
<1> SUFFICES ASSUME AInit PROVE AdminInv
  OBVIOUS
<1>1. req \in [Request -> ReqType]
  BY IdleIsTyped DEF AInit
<1>2. \A u \in User : user[u] = NoRow /\ ~(u <= count)
  BY DEF AInit, User
<1>3. AdminTypeOK
  BY <1>1, <1>2, RowsAreCounted DEF AInit, AdminTypeOK, ReqType, Place
<1>4. \A q \in Request : Knows(q)
  BY DEF AInit, Knows, Idle, Updating, At, Rows
<1>5. OnlyRowsAreLocked /\ LogoutInv
  BY DEF AInit, OnlyRowsAreLocked, LogoutInv
<1> QED BY <1>3, <1>4, <1>5 DEF AdminInv, LockInv

THEOREM AdminInvariant == ASpec => []AdminInv
<1>1. AdminInv /\ [ANext]_avars => AdminInv'
  BY TypeStep, LockStep, LogoutStep DEF AdminInv
<1> QED BY <1>1, Initially, PTL DEF ASpec

-----------------------------------------------------------------------------
(* The properties.                                                         *)

(* Rows, locks, sessions and requests keep their types, and rows are       *)
(* numbered without gaps.                                                  *)
THEOREM AdminsTypeCorrect == ASpec => []AdminTypeOK
<1>1. AdminInv => AdminTypeOK
  BY DEF AdminInv
<1> QED BY <1>1, AdminInvariant, PTL

(* Two updates that wait for each other would each have a row locked that  *)
(* comes after the one it waits for, although it takes rows in order.      *)
THEOREM UpdatesDoNotDeadlock == ASpec => []NoDeadlock
<1>1. AdminInv => NoDeadlock
  <2> SUFFICES ASSUME AdminInv, NEW q \in Request, NEW r \in Request,
                      WaitsFor(q, r), WaitsFor(r, q)
               PROVE  FALSE
    BY DEF NoDeadlock
  <2>1. PICK u \in Rows \ req[q].done : lock[u] = r
    BY DEF WaitsFor
  <2>2. PICK v \in Rows \ req[r].done : lock[v] = q
    BY DEF WaitsFor
  <2>3. u \in req[r].done /\ v \in req[q].done
    BY <2>1, <2>2 DEF AdminInv, LockInv, Knows
  <2>4. u \in Nat /\ v \in Nat
    BY <2>1, <2>2, RowsAreUsers DEF AdminInv
  <2>5. ~(u < v) /\ ~(v < u)
    BY <2>1, <2>2, <2>3 DEF AdminInv, LockInv, Knows
  <2> QED BY <2>1, <2>3, <2>4, <2>5
<1> QED BY <1>1, AdminInvariant, PTL

(* More than one element is one more than any of them.                     *)
LEMMA AnotherOne ==
  ASSUME NEW S, NEW e \in S, ~(Cardinality(S) <= 1)
  PROVE  \E f \in S : f # e
<1> SUFFICES ASSUME \A f \in S : f = e PROVE FALSE
  OBVIOUS
<1>1. S = {e}
  OBVIOUS
<1>2. Cardinality(S) = 1
  BY <1>1, FS_Singleton
<1> QED BY <1>2

(* Who commits a row has read it, and it is what it read.                  *)
LEMMA WhatIsCommitted ==
  ASSUME AdminInv, NEW q \in Request, Commit(q)
  PROVE  /\ req[q].user \in Rows /\ req[q].row = user[req[q].user]
         /\ ~LastActiveUser(q)
         /\ req[q].active \subseteq Active
         /\ user' = [user EXCEPT ![req[q].user] = Patched(q)]
         /\ Rows' = Rows
BY DEF Commit, AdminInv, LockInv, Knows, Rows

(* Steps that write rows, and what they leave.                             *)
LEMMA Writers ==
  ASSUME AdminInv, [ANext]_avars
  PROVE  \/ \E q \in Request : Commit(q)
         \/ \A u \in Rows : u \in Rows' /\ user'[u] = user[u]
<1>1. ASSUME NEW n \in Name, NEW status \in Status, Insert(n, status)
      PROVE  \A u \in Rows : u \in Rows' /\ user'[u] = user[u]
  <2>1. count \in Nat /\ count' = count + 1
    BY <1>1, RowsAreUsers DEF AdminInv, Insert
  <2>2. \A u \in Rows : u \in User /\ u # count + 1 /\ u \in 1..(count + 1)
    BY <2>1, RowsAreUsers DEF AdminInv, Rows
  <2> QED BY <1>1, <2>1, <2>2 DEF Insert, AdminInv, AdminTypeOK, Rows
<1>2. ASSUME UNCHANGED table PROVE \A u \in Rows : u \in Rows' /\ user'[u] = user[u]
  BY <1>2 DEF table, Rows
<1>3. ASSUME NEW q \in Request, CreateAdminUser(q)
      PROVE  \A u \in Rows : u \in Rows' /\ user'[u] = user[u]
  BY <1>1, <1>2, <1>3, AdminIsNamed DEF CreateAdminUser, Status
<1>4. ASSUME NEW q \in Request, NEW n \in Name, NEW status \in Status, CreateUser(q, n, status)
      PROVE  \A u \in Rows : u \in Rows' /\ user'[u] = user[u]
  BY <1>1, <1>4 DEF CreateUser
<1> QED
  BY <1>2, <1>3, <1>4
  DEF ANext, avars, EnsureAdminUser, VerifyLogin, LockRow, CreateSession, ReadSession,
      ReadExpiredSession, Logout, RecordLogin, RecordSeen, VerifyBearer, UpdateAdminUser,
      ScanEnds, GiveUp, SessionExpires

(* Whoever disables a user has another active one locked until it is done. *)
THEOREM SomebodyStays == ASpec => NobodyIsLockedOut
<1>1. ASSUME AdminInv, [ANext]_avars, Active # {} PROVE Active' # {}
  <2>1. CASE \A u \in Rows : u \in Rows' /\ user'[u] = user[u]
    BY <1>1, <2>1 DEF Active
  <2>2. ASSUME NEW q \in Request, Commit(q) PROVE Active' # {}
    <3> DEFINE u == req[q].user
    <3>0. user \in [User -> Row \cup {NoRow}] /\ Rows \subseteq User
      BY <1>1, RowsAreUsers DEF AdminInv, AdminTypeOK
    <3>1. /\ u \in Rows /\ req[q].row = user[u] /\ ~LastActiveUser(q)
          /\ req[q].active \subseteq Active
          /\ user' = [user EXCEPT ![u] = Patched(q)] /\ Rows' = Rows
      BY <1>1, <2>2, WhatIsCommitted
    <3>2. ASSUME NEW w \in Active, w # u PROVE w \in Active'
      BY <3>0, <3>1, <3>2 DEF Active
    <3>3. CASE user[u].status = "active" /\ Patched(q).status # "active"
      <4>1. req[q].patch.status = "disabled"
        <5>1. req[q].patch.status \in Status \cup {Keep}
          BY <1>1 DEF AdminInv, AdminTypeOK, Patch
        <5> QED BY <3>1, <3>3, <5>1 DEF Patched, Status
      <4>2. ~(Cardinality(req[q].active) <= 1)
        BY <3>1, <3>3, <4>1 DEF LastActiveUser
      <4>3. u \in req[q].active
        BY <1>1, <2>2, <3>1, <3>3 DEF AdminInv, LockInv, Knows, Commit, Active
      <4> QED BY <3>1, <3>2, <4>2, <4>3, AnotherOne
    <3>4. CASE user[u].status # "active"
      BY <1>1, <3>2, <3>4 DEF Active
    <3>5. CASE Patched(q).status = "active"
      BY <3>0, <3>1, <3>5 DEF Active
    <3> QED BY <3>3, <3>4, <3>5
  <2> QED BY <1>1, <2>1, <2>2, Writers
<1> QED BY <1>1, AdminInvariant, PTL DEF ASpec, NobodyIsLockedOut

(* The row an update writes back is the one in the table but for the patch. *)
THEOREM NothingIsUndone == ASpec => OnlyWhatWasAsked
<1>1. ASSUME AdminInv, [ANext]_avars, NEW u \in Rows
      PROVE  user'[u] = user[u] \/ \E q \in Request : Asked(q, u)
  <2>1. ASSUME NEW q \in Request, Commit(q) PROVE user'[u] = user[u] \/ Asked(q, u)
    <3>1. /\ req[q].row = user[req[q].user]
          /\ user' = [user EXCEPT ![req[q].user] = Patched(q)]
      BY <1>1, <2>1, WhatIsCommitted
    <3>2. user \in [User -> Row \cup {NoRow}] /\ u \in User
      BY <1>1, RowsAreUsers DEF AdminInv, AdminTypeOK
    <3> QED BY <2>1, <3>1, <3>2 DEF Asked, Patched, Commit
  <2> QED BY <1>1, <2>1, Writers
<1>2. AdminInv /\ [ANext]_avars =>
        \A u \in Rows : user'[u] = user[u] \/ \E q \in Request : Asked(q, u)
  BY <1>1
<1> QED BY <1>2, AdminInvariant, PTL DEF ASpec, OnlyWhatWasAsked

(* A session that was logged out stays deleted, and only a valid one is    *)
(* accepted.                                                               *)
THEOREM LogoutIsFinal == ASpec => LoggedOutStaysOut
<1>1. ASSUME AdminInv, [ANext]_avars, NEW q \in Request, At(q, "idle"), req'[q].at = "presented"
      PROVE  req'[q].token \notin loggedOut
  <2>r. req \in [Request -> ReqType] /\ req[q] \in ReqType
    BY <1>1 DEF AdminInv, AdminTypeOK, ReqType, Place
  <2>1. PICK t \in Token : ReadSession(q, t)
    <3>1. ASSUME NEW p \in Request, Returns(p) PROVE FALSE
      BY <1>1, <2>r, <3>1 DEF Returns, Idle, At
    <3>2. ASSUME req' = req PROVE FALSE
      BY <1>1, <3>2 DEF At
    <3>3. ASSUME NEW p \in Request, NEW place \in Place \ {"presented"},
                 req' = [req EXCEPT ![p].at = place]
          PROVE  FALSE
      BY <1>1, <2>r, <3>3 DEF At, ReqType
    <3>4. ASSUME NEW p \in Request, NEW u \in User, VerifyLogin(p, u) \/ LockRow(p, u) PROVE FALSE
      BY <1>1, <2>r, <3>4 DEF At, ReqType, VerifyLogin, LockRow
    <3>5. ASSUME NEW p \in Request, NEW u \in User, NEW patch \in Patch,
                 UpdateAdminUser(p, u, patch)
          PROVE  FALSE
      BY <1>1, <2>r, <3>5 DEF At, Idle, UpdateAdminUser
    <3>6. ASSUME NEW p \in Request, NEW t \in Token, ReadSession(p, t) PROVE ReadSession(q, t)
      <4>1. CASE p # q
        BY <1>1, <2>r, <3>6, <4>1 DEF At, ReadSession
      <4> QED BY <3>6, <4>1
    <3>7. ASSUME NEW p \in Request,
                 EnsureAdminUser(p) \/ RecordLogin(p) \/ RecordSeen(p) \/ VerifyBearer(p) \/ ScanEnds(p)
          PROVE  FALSE
      BY <3>3, <3>7 DEF EnsureAdminUser, RecordLogin, RecordSeen, VerifyBearer, ScanEnds, Place
    <3> QED
      BY <1>1, <3>1, <3>2, <3>4, <3>5, <3>6, <3>7
      DEF ANext, avars, CreateAdminUser, CreateSession, ReadExpiredSession, Logout, CreateUser,
          Commit, GiveUp, SessionExpires
  <2>2. req'[q].token = t /\ session[t] = "valid"
    BY <2>r, <2>1 DEF ReadSession, ReqType
  <2> QED BY <1>1, <2>2 DEF AdminInv, LogoutInv
<1>2. AdminInv /\ [ANext]_avars =>
        \A q \in Request : At(q, "idle") /\ req'[q].at = "presented"
          => req'[q].token \notin loggedOut
  BY <1>1
<1> QED BY <1>2, AdminInvariant, PTL DEF ASpec, LoggedOutStaysOut
=============================================================================

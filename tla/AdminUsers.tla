----------------------------- MODULE AdminUsers -----------------------------
(***************************************************************************)
(* The local administrators and their sessions.  Administrators create,    *)
(* rename, disable and reactivate each other; an update locks all rows in  *)
(* the order of their ids (SELECT ... ORDER BY id FOR UPDATE), counts the  *)
(* active ones and writes back the whole row it read.  Relays that start   *)
(* make sure that the configured administrator exists.                     *)
(*                                                                         *)
(* Every statement outside a transaction is a step of its own.  A locking  *)
(* read takes one row after the other and sees committed rows.  With       *)
(* SQLite a transaction is alone, which is one of these interleavings.     *)
(* Passwords are left out: whether one matches is a choice.                *)
(***************************************************************************)
EXTENDS Naturals, FiniteSets

CONSTANTS
  MaxUsers,    \* bound of the rows: ids are counted from 1
  Name,        \* normalised user names
  AdminName,   \* the configured one
  Request,     \* requests, and starting relays, that can be under way at once
  Token,       \* random session tokens
  Keep,        \* what a patch leaves alone
  NoOne, NoToken

ASSUME RowsAreCounted == MaxUsers \in Nat
ASSUME AdminIsNamed == AdminName \in Name
ASSUME KeepIsNew == Keep \notin Name \cup {"active", "disabled"}
ASSUME NoOneIsNew == NoOne \notin Request

VARIABLES
  count,       \* rows of admin_users
  user,        \* the rows by id
  lock,        \* the transaction that has a row locked
  session,     \* admin_sessions by token: absent, valid, expired or deleted
  holder,      \* the user_id of a session
  req,         \* requests under way
  loggedOut    \* history: tokens whose session a logout has deleted

table == <<count, user>>
sessions == <<session, holder, loggedOut>>
avars == <<table, lock, sessions, req>>

User == 1..MaxUsers
Status == {"active", "disabled"}
Row == [status : Status, name : Name]
NoRow == [status |-> "none", name |-> Keep]
Patch == [status : Status \cup {Keep}, name : Name \cup {Keep}]
NoPatch == [status |-> Keep, name |-> Keep]

At(q, place) == req[q].at = place
Idle == [at |-> "idle", token |-> NoToken, user |-> 0, patch |-> NoPatch,
         done |-> {}, active |-> {}, row |-> NoRow]
Returns(q) == req' = [req EXCEPT ![q] = Idle]

AInit ==
  /\ count = 0 /\ user = [u \in User |-> NoRow] /\ lock = [u \in User |-> NoOne]
  /\ session = [t \in Token |-> "absent"] /\ holder = [t \in Token |-> 0]
  /\ req = [q \in Request |-> Idle] /\ loggedOut = {}

(* Mutant: reading does not lock. *)
NeverLocked(u) == TRUE

Rows == 1..count
Active == {u \in Rows : user[u].status = "active"}
Taken(n) == \E u \in Rows : user[u].name = n
Free(u) == lock[u] = NoOne

Insert(n, status) ==
  /\ ~Taken(n)
  /\ count < MaxUsers
  /\ count' = count + 1
  /\ user' = [user EXCEPT ![count + 1] = [status |-> status, name |-> n]]

-----------------------------------------------------------------------------
(* A relay that starts looks the administrator up, and creates it when it  *)
(* is not there: by then another relay may have done so.                   *)

EnsureAdminUser(q) ==
  /\ At(q, "idle") /\ ~Taken(AdminName)
  /\ req' = [req EXCEPT ![q].at = "starting"]
  /\ UNCHANGED <<table, lock, sessions>>

CreateAdminUser(q) ==
  /\ At(q, "starting")
  /\ Insert(AdminName, "active") \/ (Taken(AdminName) /\ UNCHANGED table)
  /\ Returns(q)
  /\ UNCHANGED <<lock, sessions>>

-----------------------------------------------------------------------------
(* Sessions.                                                               *)

(* The password is that of the user. *)
VerifyLogin(q, u) ==
  /\ At(q, "idle") /\ u \in Active
  /\ req' = [req EXCEPT ![q].at = "verified", ![q].user = u]
  /\ UNCHANGED <<table, lock, sessions>>

(* Writing last_login_at waits for the row. *)
RecordLogin(q) ==
  /\ At(q, "verified") /\ Free(req[q].user)
  /\ req' = [req EXCEPT ![q].at = "recorded"]
  /\ UNCHANGED <<table, lock, sessions>>

CreateSession(q, t) ==
  /\ At(q, "recorded") /\ session[t] = "absent"
  /\ session' = [session EXCEPT ![t] = "valid"]
  /\ holder' = [holder EXCEPT ![t] = req[q].user]
  /\ Returns(q)
  /\ UNCHANGED <<table, lock, loggedOut>>

SessionExpires(t) ==
  /\ session[t] = "valid"
  /\ session' = [session EXCEPT ![t] = "expired"]
  /\ UNCHANGED <<table, lock, holder, req, loggedOut>>

ReadSession(q, t) ==
  /\ At(q, "idle") /\ session[t] = "valid" /\ holder[t] \in Active
  /\ req' = [req EXCEPT ![q].at = "presented", ![q].token = t]
  /\ UNCHANGED <<table, lock, sessions>>

ReadExpiredSession(q, t) ==
  /\ At(q, "idle") /\ session[t] = "expired"
  /\ session' = [session EXCEPT ![t] = "deleted"]
  /\ UNCHANGED <<table, lock, holder, loggedOut, req>>

(* Writing last_seen_at changes a session that is still there. *)
Seen(t) == UNCHANGED session

RecordSeen(q) ==
  /\ At(q, "presented")
  /\ Seen(req[q].token)
  /\ req' = [req EXCEPT ![q].at = "in"]
  /\ UNCHANGED <<table, lock, holder, loggedOut>>

(* An administrator of the platform needs no session. *)
VerifyBearer(q) ==
  /\ At(q, "idle")
  /\ req' = [req EXCEPT ![q].at = "in"]
  /\ UNCHANGED <<table, lock, sessions>>

(* Whoever has the cookie can log out, disabled or not. *)
Logout(q, t) ==
  /\ At(q, "idle") /\ session[t] # "absent"
  /\ session' = [session EXCEPT ![t] = "deleted"]
  /\ loggedOut' = loggedOut \cup {t}
  /\ UNCHANGED <<table, lock, holder, req>>

-----------------------------------------------------------------------------
(* Users.                                                                  *)

CreateUser(q, n, status) ==
  /\ At(q, "in")
  /\ Insert(n, status)
  /\ Returns(q)
  /\ UNCHANGED <<lock, sessions>>

UpdateAdminUser(q, u, patch) ==
  /\ At(q, "in")
  /\ req' = [req EXCEPT ![q] = [Idle EXCEPT !.at = "locking", !.user = u, !.patch = patch]]
  /\ UNCHANGED <<table, lock, sessions>>

(* Mutant: the rows are taken in any order. *)
AnyOrder(q, u) == TRUE

(* The locking read goes by id. *)
InOrder(q, u) == \A v \in Rows \ req[q].done : u <= v

(* Mutant: the one who disables counts as the other. *)
NobodyLeft(q) ==
  /\ req[q].row.status = "active" /\ req[q].patch.status = "disabled"
  /\ Cardinality(req[q].active) < 1

LockRow(q, u) ==
  /\ At(q, "locking")
  /\ u \in Rows \ req[q].done /\ InOrder(q, u)
  /\ Free(u)
  /\ lock' = [lock EXCEPT ![u] = q]
  /\ req' = [req EXCEPT ![q].done = @ \cup {u},
                        ![q].active = IF u \in Active THEN @ \cup {u} ELSE @,
                        ![q].row = IF u = req[q].user THEN user[u] ELSE @]
  /\ UNCHANGED <<table, sessions>>

LastActiveUser(q) ==
  /\ req[q].row.status = "active" /\ req[q].patch.status = "disabled"
  /\ Cardinality(req[q].active) <= 1

ScanEnds(q) ==
  /\ At(q, "locking") /\ Rows \subseteq req[q].done
  /\ req[q].row # NoRow /\ ~LastActiveUser(q)
  /\ req' = [req EXCEPT ![q].at = "scanned"]
  /\ UNCHANGED <<table, lock, sessions>>

Patched(q) ==
  [status |-> IF req[q].patch.status = Keep THEN req[q].row.status ELSE req[q].patch.status,
   name   |-> IF req[q].patch.name = Keep THEN req[q].row.name ELSE req[q].patch.name]

Unlock(q) == lock' = [u \in User |-> IF lock[u] = q THEN NoOne ELSE lock[u]]

Commit(q) ==
  /\ At(q, "scanned")
  /\ \A u \in Rows \ {req[q].user} : user[u].name # Patched(q).name
  /\ user' = [user EXCEPT ![req[q].user] = Patched(q)]
  /\ Unlock(q)
  /\ Returns(q)
  /\ UNCHANGED <<count, sessions>>

(* A refusal, an error, a client that went away, a wait that took too long:  *)
(* the transaction is rolled back.                                           *)
GiveUp(q) ==
  /\ ~At(q, "idle")
  /\ Unlock(q)
  /\ Returns(q)
  /\ UNCHANGED <<table, sessions>>

-----------------------------------------------------------------------------

ANext ==
  \/ \E q \in Request :
       \/ EnsureAdminUser(q) \/ CreateAdminUser(q)
       \/ \E u \in User : VerifyLogin(q, u) \/ LockRow(q, u)
       \/ \E t \in Token :
            CreateSession(q, t) \/ ReadSession(q, t) \/ ReadExpiredSession(q, t) \/ Logout(q, t)
       \/ RecordLogin(q) \/ RecordSeen(q) \/ VerifyBearer(q)
       \/ \E n \in Name, status \in Status : CreateUser(q, n, status)
       \/ \E u \in User, patch \in Patch : UpdateAdminUser(q, u, patch)
       \/ ScanEnds(q) \/ Commit(q) \/ GiveUp(q)
  \/ \E t \in Token : SessionExpires(t)

ASpec == AInit /\ [][ANext]_avars

-----------------------------------------------------------------------------
(* Variables keep their types, and rows are numbered without gaps. *)
AdminTypeOK ==
  /\ count \in 0..MaxUsers
  /\ user \in [User -> Row \cup {NoRow}]
  /\ \A u \in User : user[u] # NoRow <=> u <= count
  /\ lock \in [User -> Request \cup {NoOne}]
  /\ session \in [Token -> {"absent", "valid", "expired", "deleted"}]
  /\ holder \in [Token -> User \cup {0}]
  /\ loggedOut \subseteq Token
  /\ req \in [Request ->
       [at : {"idle", "starting", "verified", "recorded", "presented", "in", "locking", "scanned"},
        token : Token \cup {NoToken}, user : User \cup {0}, patch : Patch,
        done : SUBSET User, active : SUBSET User, row : Row \cup {NoRow}]]

(* Once somebody can log in, somebody can: administrators who disable each *)
(* other at the same time do not lock everybody out (the count of          *)
(* UpdateAdminUser).                                                       *)
NobodyIsLockedOut == [][Active # {} => Active' # {}]_avars

(* A row is written back whole, but an update changes only what it was     *)
(* asked to change: renaming a user does not undo that somebody else has   *)
(* disabled it in the meantime (UpdateAdminUser's patch of the row read).  *)
Asked(q, u) ==
  /\ At(q, "scanned") /\ req[q].user = u
  /\ user'[u].status \in {user[u].status, req[q].patch.status}
  /\ user'[u].name \in {user[u].name, req[q].patch.name}

OnlyWhatWasAsked ==
  [][\A u \in Rows : user'[u] = user[u] \/ \E q \in Request : Asked(q, u)]_avars

(* No two updates wait for each other, which the order of the locks is for *)
(* (the comment and the ORDER BY of UpdateAdminUser).                      *)
WaitsFor(q, r) ==
  /\ At(q, "locking")
  /\ \E u \in Rows \ req[q].done : InOrder(q, u) /\ lock[u] = r

NoDeadlock == \A q, r \in Request : ~(WaitsFor(q, r) /\ WaitsFor(r, q))

(* A session that was logged out lets nobody in again, not even after a    *)
(* request that was let in just before has recorded its visit              *)
(* (AuthenticateAdminSession reads first and writes later).                *)
LoggedOutStaysOut ==
  [][\A q \in Request : At(q, "idle") /\ req'[q].at = "presented"
       => req'[q].token \notin loggedOut]_avars

=============================================================================

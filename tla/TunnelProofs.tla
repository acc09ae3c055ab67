---------------------------- MODULE TunnelProofs ----------------------------
(***************************************************************************)
(* Proofs about TunnelSessions and TunnelCredentials, for any sets of      *)
(* sessions, keys, revokers, updaters, requests, cookies and local         *)
(* devices, and any length of time.                                        *)
(*                                                                         *)
(* The sessions come first, and speak of the actions of TunnelSessions     *)
(* alone.  Then every step of TunnelCredentials is shown to be one of them *)
(* or none, so that what was proved of sessions holds there; on top of it  *)
(* the inductive invariant CredInv says which tunnel what is in a jar      *)
(* belongs to, and which one a forwarded request runs on.                  *)
(***************************************************************************)
EXTENDS TunnelCredentials, FiniteSetTheorems, TLAPS

(* The actions, as one list: every step of Next is one of them. *)
LEMMA NextCases ==
  ASSUME Next
  PROVE  \/ \E s \in Session, a \in Agent : AuthorizeAgent(s, a)
         \/ \E s \in Session, d \in Desktop : AuthorizeDesktop(s, d)
         \/ \E s \in Session : CreateSession(s)
         \/ \E s \in Session : OpenResponseFails(s)
         \/ \E s \in Session : StartServing(s)
         \/ \E s \in Session : SetActive(s)
         \/ \E s \in Session : CloseReplaced(s)
         \/ \E s \in Session : RecheckDevice(s)
         \/ \E s \in Session : CloseReturns(s)
         \/ \E s \in Session : ConnectionFails(s) \/ IdentityExpires(s)
         \/ \E s \in Session : AdminCloseSession(s)
         \/ \E s \in Session : ClearSession(s)
         \/ \E s \in Session : FinishSession(s)
         \/ \E a \in Agent : DeactivateToken(a)
         \/ \E d \in Desktop : RestoreDesktop(d)
         \/ \E r \in Revoker, d \in Desktop : RevokeLookup(r, d)
         \/ \E r \in Revoker : RevokeWrite(r)
         \/ \E r \in Revoker : RevokeFindSession(r)
         \/ \E r \in Revoker : RevokeCloseSession(r)
         \/ Crash
BY DEF Next, Alive, SessionStep, RevokerStep, Environment

-----------------------------------------------------------------------------

(* What a position of a goroutine says about its local variables. *)
LocalsOK ==
  /\ \A s \in Session : pc[s] \in Running => key[s] \in Key
  /\ \A s \in Session : pc[s] = "replacing" => old[s] \in Session
  /\ \A r \in Revoker : rpc[r] # "idle" => rdev[r] \in Desktop
  /\ \A r \in Revoker : rpc[r] = "closing" => target[r] \in Session

TypeInv == TypeOK /\ LocalsOK

(* No goroutine has begun.                                                 *)
LEMMA TypeInit == Init => TypeInv
BY KeysDisjoint DEF Init, TypeInv, TypeOK, LocalsOK, Running, Handshaking,
   Registered, Key

(* Every step keeps the types, and the local variables of every handler.   *)
LEMMA TypeStep == TypeInv /\ [Next]_vars => TypeInv'
<1> SUFFICES ASSUME TypeInv, [Next]_vars PROVE TypeInv'
  OBVIOUS
<1> USE DEF TypeInv, TypeOK, LocalsOK, Running, Handshaking, Registered, Key
<1>1. ASSUME NEW s \in Session, NEW a \in Agent, AuthorizeAgent(s, a)
      PROVE TypeInv'
  BY <1>1 DEF AuthorizeAgent, dbVars, managerVars, revokerVars
<1>2. ASSUME NEW s \in Session, NEW d \in Desktop, AuthorizeDesktop(s, d)
      PROVE TypeInv'
  BY <1>2 DEF AuthorizeDesktop, dbVars, managerVars, revokerVars
<1>3. ASSUME NEW s \in Session, CreateSession(s) PROVE TypeInv'
  BY <1>3 DEF CreateSession, managerVars, revokerVars
<1>4. ASSUME NEW s \in Session, OpenResponseFails(s) PROVE TypeInv'
  BY <1>4 DEF OpenResponseFails, EndSession, managerVars, revokerVars
<1>5. ASSUME NEW s \in Session, StartServing(s) PROVE TypeInv'
  BY <1>5 DEF StartServing, dbVars, managerVars, revokerVars
<1>6. ASSUME NEW s \in Session, SetActive(s) PROVE TypeInv'
  BY <1>6 DEF SetActive, IndexWith, AfterSetActive, AfterRegistration, dbVars,
     revokerVars
<1>7. ASSUME NEW s \in Session, CloseReplaced(s) PROVE TypeInv'
  BY <1>7 DEF CloseReplaced, AfterRegistration, dbVars, managerVars,
     revokerVars
<1>8. ASSUME NEW s \in Session, RecheckDevice(s) \/ CloseReturns(s) PROVE TypeInv'
  BY <1>8 DEF RecheckDevice, CloseReturns, AfterRegistration, dbVars, managerVars,
     revokerVars
<1>9. ASSUME NEW s \in Session, ConnectionFails(s) \/ IdentityExpires(s)
      PROVE TypeInv'
  BY <1>9 DEF ConnectionFails, IdentityExpires, dbVars, managerVars,
     revokerVars
<1>10. ASSUME NEW s \in Session, AdminCloseSession(s) PROVE TypeInv'
  BY <1>10 DEF AdminCloseSession, ClosableBy, dbVars, managerVars,
     revokerVars
<1>11. ASSUME NEW s \in Session, ClearSession(s) PROVE TypeInv'
  BY <1>11 DEF ClearSession, ActiveWithout, dbVars, revokerVars
<1>12. ASSUME NEW s \in Session, FinishSession(s) PROVE TypeInv'
  BY <1>12 DEF FinishSession, EndSession, managerVars, revokerVars
<1>13. ASSUME NEW a \in Agent, DeactivateToken(a) PROVE TypeInv'
  BY <1>13 DEF DeactivateToken, sessionVars, managerVars, revokerVars
<1>14. ASSUME NEW d \in Desktop, RestoreDesktop(d) PROVE TypeInv'
  BY <1>14 DEF RestoreDesktop, sessionVars, managerVars, revokerVars
<1>15. ASSUME NEW r \in Revoker, NEW d \in Desktop, RevokeLookup(r, d)
       PROVE TypeInv'
  BY <1>15 DEF RevokeLookup, dbVars, sessionVars, managerVars
<1>16. ASSUME NEW r \in Revoker, RevokeWrite(r) PROVE TypeInv'
  <2>1. UNCHANGED <<tokens, row, sessionVars, managerVars>>
    BY <1>16 DEF RevokeWrite
  <2>2. revoked' \in [Desktop -> BOOLEAN]
    BY <1>16, Zenon DEF RevokeWrite
  <2>3. /\ rpc' \in [Revoker -> {"idle", "resolved", "revoked", "closing"}]
        /\ rdev' \in [Revoker -> Desktop \cup {NoKey}]
        /\ target' \in [Revoker -> Session \cup {NoSession}]
    BY <1>16 DEF RevokeWrite, RevokerReturns
  <2>4. /\ \A q \in Revoker : rpc'[q] # "idle" => rdev'[q] \in Desktop
        /\ \A q \in Revoker : rpc'[q] = "closing" => target'[q] \in Session
    BY <1>16 DEF RevokeWrite, RevokerReturns
  <2>5. QED
    BY <2>1, <2>2, <2>3, <2>4 DEF sessionVars, managerVars
<1>17. ASSUME NEW r \in Revoker, RevokeFindSession(r) PROVE TypeInv'
  BY <1>17 DEF RevokeFindSession, RevokerReturns, dbVars, sessionVars,
     managerVars
<1>18. ASSUME NEW r \in Revoker, RevokeCloseSession(r) PROVE TypeInv'
  BY <1>18 DEF RevokeCloseSession, RevokerReturns, ClosableBy, dbVars,
     managerVars
<1>19. CASE Crash
  BY <1>19 DEF Crash, dbVars
<1>20. CASE UNCHANGED vars
  BY <1>20 DEF vars, dbVars, sessionVars, managerVars, revokerVars
<1>21. QED
  BY <1>1, <1>2, <1>3, <1>4, <1>5, <1>6, <1>7, <1>8, <1>9, <1>10, <1>11,
     <1>12, <1>13, <1>14, <1>15, <1>16, <1>17, <1>18, <1>19, <1>20, NextCases

(* Type correctness of the session and revocation handlers and of the      *)
(* Manager's maps.                                                         *)
THEOREM TypeCorrect == Spec => []TypeOK
<1>1. Init => TypeInv BY TypeInit
<1>2. TypeInv /\ [Next]_vars => TypeInv' BY TypeStep
<1>3. TypeInv => TypeOK BY DEF TypeInv
<1>4. QED BY <1>1, <1>2, <1>3, PTL DEF Spec

-----------------------------------------------------------------------------
(* The maps of the Manager.                                                *)

(* A tunnel on the map belongs to the key it is under, and its handler is  *)
(* past SetActive and not yet past Clear.                                  *)
ActiveOwner ==
  \A k \in Key : active[k] # NoSession =>
    key[active[k]] = k /\ pc[active[k]] \in Registered

MapInv == ActiveOwner /\ IndexConsistent

(* Steps that leave the maps alone, the keys of the sessions too, and take *)
(* no registered handler back out of the registered positions.             *)
LEMMA MapFrame ==
  ASSUME TypeInv, MapInv, UNCHANGED managerVars,
         \A s \in Session : pc[s] \in Registered =>
           pc'[s] \in Registered /\ key'[s] = key[s]
  PROVE  MapInv'
BY NoSessionFresh
   DEF TypeInv, TypeOK, MapInv, ActiveOwner, IndexConsistent, managerVars

(* The displaced id leaves keyBySession in the step that adds the new one. *)
LEMMA MapSetActive ==
  ASSUME TypeInv, MapInv, NEW s \in Session, SetActive(s)
  PROVE  MapInv'
<1> USE DEF TypeInv, TypeOK, LocalsOK, SetActive
<1>1. key[s] \in Key
  BY DEF Running, Handshaking
<1>2. \A k \in Key : active[k] # s
  BY NoSessionFresh DEF MapInv, ActiveOwner, Registered
<1>3. pc'[s] \in Registered /\ key' = key
  BY DEF AfterSetActive, AfterRegistration, Registered
<1>4. ActiveOwner'
  BY <1>1, <1>2, <1>3, NoSessionFresh DEF MapInv, ActiveOwner
<1>5. ASSUME NEW t \in Session, NEW k \in Key
      PROVE  keyBySession'[t] = k <=> active'[k] = t
  <2>1. keyBySession[t] = k <=> active[k] = t
    BY DEF MapInv, IndexConsistent
  <2>2. keyBySession[t] = key[s] <=> active[key[s]] = t
    BY <1>1 DEF MapInv, IndexConsistent
  <2>3. NoKey \notin Key
    BY NoKeyFresh DEF Key
  <2>4. active'[k] = IF k = key[s] THEN s ELSE active[k]
    BY <1>1
  <2>5. keyBySession'[t] = IF t = s THEN key[s]
                           ELSE IF t = active[key[s]] THEN NoKey
                           ELSE keyBySession[t]
    BY DEF IndexWith
  <2>6. QED
    BY <1>1, <1>2, <2>1, <2>2, <2>3, <2>4, <2>5
<1>6. QED
  BY <1>4, <1>5 DEF MapInv, IndexConsistent

(* Clear takes an id off both maps, or off neither.                        *)
LEMMA MapClear ==
  ASSUME TypeInv, MapInv, NEW s \in Session, ClearSession(s)
  PROVE  MapInv'
<1> USE DEF TypeInv, TypeOK, ClearSession, ActiveWithout
<1>1. \A k \in Key : active'[k] # s
  BY NoSessionFresh DEF MapInv, IndexConsistent
<1>2. ActiveOwner'
  BY <1>1, NoSessionFresh DEF MapInv, ActiveOwner
<1>3. IndexConsistent'
  BY <1>1, NoSessionFresh, NoKeyFresh DEF MapInv, IndexConsistent, Key
<1>4. QED
  BY <1>2, <1>3 DEF MapInv

(* Every step keeps the two maps inverse to each other.                    *)
LEMMA MapStep == TypeInv /\ MapInv /\ [Next]_vars => MapInv'
<1> SUFFICES ASSUME TypeInv, MapInv, [Next]_vars PROVE MapInv'
  OBVIOUS
<1> DEFINE Frame == /\ UNCHANGED managerVars
                    /\ \A s \in Session : pc[s] \in Registered =>
                         pc'[s] \in Registered /\ key'[s] = key[s]
<1>1. ASSUME NEW s \in Session, NEW k \in Key,
             AuthorizeAgent(s, k) \/ AuthorizeDesktop(s, k)
      PROVE  Frame
  BY <1>1 DEF AuthorizeAgent, AuthorizeDesktop, TypeInv, TypeOK, Registered
<1>2. ASSUME NEW s \in Session,
             CreateSession(s) \/ OpenResponseFails(s) \/ StartServing(s)
               \/ FinishSession(s)
      PROVE  Frame
  BY <1>2 DEF CreateSession, OpenResponseFails, StartServing, FinishSession,
     TypeInv, TypeOK, Registered
<1>3. ASSUME NEW s \in Session,
             CloseReplaced(s) \/ RecheckDevice(s) \/ CloseReturns(s)
               \/ ConnectionFails(s) \/ IdentityExpires(s) \/ AdminCloseSession(s)
      PROVE  Frame
  BY <1>3 DEF CloseReplaced, AfterRegistration, RecheckDevice, CloseReturns,
     ConnectionFails, IdentityExpires, AdminCloseSession, TypeInv, TypeOK,
     Registered
<1>4. ASSUME NEW r \in Revoker,
             \/ \E d \in Desktop : RevokeLookup(r, d)
             \/ RevokeWrite(r) \/ RevokeFindSession(r)
             \/ RevokeCloseSession(r)
      PROVE  Frame
  BY <1>4 DEF RevokeLookup, RevokeWrite, RevokeFindSession,
     RevokeCloseSession, sessionVars, managerVars
<1>5. CASE (\E a \in Agent : DeactivateToken(a))
             \/ (\E d \in Desktop : RestoreDesktop(d)) \/ UNCHANGED vars
  <2>1. Frame
    BY <1>5 DEF DeactivateToken, RestoreDesktop, vars, sessionVars
  <2>2. QED BY <2>1, MapFrame
<1>6. CASE Crash
  BY <1>6, NoSessionFresh, NoKeyFresh
     DEF Crash, MapInv, ActiveOwner, IndexConsistent, Key
<1>7. QED
  BY <1>1, <1>2, <1>3, <1>4, <1>5, <1>6, NextCases, MapFrame, MapSetActive,
     MapClear DEF Key

(* The two maps of the Manager stay inverse to each other. *)
THEOREM IndexIsConsistent == Spec => []IndexConsistent
<1>1. Init => TypeInv /\ MapInv
  BY TypeInit, NoSessionFresh, NoKeyFresh
     DEF Init, MapInv, ActiveOwner, IndexConsistent, Key
<1>2. TypeInv /\ MapInv /\ [Next]_vars => (TypeInv /\ MapInv)'
  BY TypeStep, MapStep
<1>3. MapInv => IndexConsistent
  BY DEF MapInv
<1>4. QED BY <1>1, <1>2, <1>3, PTL DEF Spec

-----------------------------------------------------------------------------
(* No connection is lost sight of.                                         *)

(* Steps that change no map and only move handlers on lose no session.     *)
LEMMA OrphanFrame ==
  ASSUME NoOrphanTunnel, TypeInv, closed \subseteq closed',
         UNCHANGED active,
         \A s \in Session : pc'[s] \in Registered =>
           pc[s] \in Registered /\ key'[s] = key[s],
         \A t \in Session : pc[t] = "replacing" =>
           (pc'[t] = "replacing" /\ old'[t] = old[t]) \/ old[t] \in closed'
  PROVE  NoOrphanTunnel'
BY DEF NoOrphanTunnel

(* No step loses sight of an open session.                                 *)
LEMMA OrphanStep ==
  TypeInv /\ MapInv /\ NoOrphanTunnel /\ [Next]_vars => NoOrphanTunnel'
<1> SUFFICES ASSUME TypeInv, MapInv, NoOrphanTunnel, [Next]_vars
             PROVE  NoOrphanTunnel'
  OBVIOUS
<1> DEFINE Frame ==
      /\ closed \subseteq closed'
      /\ UNCHANGED active
      /\ \A s \in Session : pc'[s] \in Registered =>
           pc[s] \in Registered /\ key'[s] = key[s]
      /\ \A t \in Session : pc[t] = "replacing" =>
           (pc'[t] = "replacing" /\ old'[t] = old[t]) \/ old[t] \in closed'
<1>1. ASSUME NEW s \in Session, NEW k \in Key,
             AuthorizeAgent(s, k) \/ AuthorizeDesktop(s, k)
      PROVE  Frame
  BY <1>1 DEF AuthorizeAgent, AuthorizeDesktop, TypeInv, TypeOK, Registered,
     managerVars
<1>2. ASSUME NEW s \in Session,
             CreateSession(s) \/ OpenResponseFails(s) \/ StartServing(s)
               \/ FinishSession(s)
      PROVE  Frame
  BY <1>2 DEF CreateSession, OpenResponseFails, StartServing, FinishSession,
     TypeInv, TypeOK, Registered, managerVars
<1>3. ASSUME NEW s \in Session,
             CloseReplaced(s) \/ RecheckDevice(s) \/ CloseReturns(s)
               \/ ConnectionFails(s) \/ IdentityExpires(s) \/ AdminCloseSession(s)
      PROVE  Frame
  BY <1>3 DEF CloseReplaced, AfterRegistration, RecheckDevice, CloseReturns,
     ConnectionFails, IdentityExpires, AdminCloseSession, TypeInv, TypeOK,
     Registered, managerVars
<1>4. ASSUME NEW r \in Revoker,
             \/ \E d \in Desktop : RevokeLookup(r, d)
             \/ RevokeWrite(r) \/ RevokeFindSession(r)
             \/ RevokeCloseSession(r)
      PROVE  Frame
  BY <1>4 DEF RevokeLookup, RevokeWrite, RevokeFindSession,
     RevokeCloseSession, sessionVars, managerVars
<1>5. CASE (\E a \in Agent : DeactivateToken(a))
             \/ (\E d \in Desktop : RestoreDesktop(d)) \/ UNCHANGED vars
  <2>1. Frame
    BY <1>5 DEF DeactivateToken, RestoreDesktop, vars, sessionVars,
       managerVars
  <2>2. QED BY <2>1, OrphanFrame
<1>6. CASE Crash
  BY <1>6 DEF Crash, NoOrphanTunnel, TypeInv, TypeOK, Running, Registered
<1>7. ASSUME NEW s \in Session, SetActive(s)
      PROVE  NoOrphanTunnel'
  <2> SUFFICES ASSUME NEW x \in Session, pc'[x] \in Registered, x \notin closed
               PROVE  \/ active'[key[x]] = x
                      \/ \E t \in Session : pc'[t] = "replacing" /\ old'[t] = x
    BY <1>7 DEF NoOrphanTunnel, SetActive
  <2>1. key[s] \in Key /\ key[x] \in Key
    BY <1>7 DEF SetActive, TypeInv, TypeOK, LocalsOK, Running, Handshaking,
       Registered
  <2>2. CASE x = s
    BY <1>7, <2>1, <2>2 DEF SetActive, TypeInv, TypeOK
  <2>3. CASE x # s /\ active[key[s]] = x
    BY <1>7, <2>1, <2>3, NoSessionFresh
       DEF SetActive, AfterSetActive, TypeInv, TypeOK
  <2>4. CASE x # s /\ active[key[s]] # x /\ active[key[x]] = x
    BY <1>7, <2>1, <2>4 DEF SetActive, TypeInv, TypeOK
  <2>5. CASE x # s /\ active[key[x]] # x
    <3>1. PICK t \in Session : pc[t] = "replacing" /\ old[t] = x
      BY <1>7, <2>5 DEF NoOrphanTunnel, SetActive, TypeInv, TypeOK
    <3>2. QED
      BY <1>7, <3>1 DEF SetActive, TypeInv, TypeOK
  <2>6. QED BY <2>2, <2>3, <2>4, <2>5
<1>8. ASSUME NEW s \in Session, ClearSession(s)
      PROVE  NoOrphanTunnel'
  BY <1>8 DEF ClearSession, ActiveWithout, NoOrphanTunnel, TypeInv, TypeOK,
     LocalsOK, Registered, Running
<1>9. QED
  BY <1>1, <1>2, <1>3, <1>4, <1>5, <1>6, <1>7, <1>8, NextCases, OrphanFrame
     DEF Key

(* Every open connection that reached the Manager can be found through it, *)
(* or is being closed by the one that replaced it.                         *)
THEOREM NoTunnelIsOrphaned == Spec => []NoOrphanTunnel
<1>1. Init => TypeInv /\ MapInv /\ NoOrphanTunnel
  BY TypeInit, NoSessionFresh, NoKeyFresh
     DEF Init, MapInv, ActiveOwner, IndexConsistent, Key, NoOrphanTunnel,
         Registered
<1>2. TypeInv /\ MapInv /\ NoOrphanTunnel /\ [Next]_vars
        => (TypeInv /\ MapInv /\ NoOrphanTunnel)'
  BY TypeStep, MapStep, OrphanStep
<1>3. QED BY <1>1, <1>2, PTL DEF Spec

-----------------------------------------------------------------------------
(* A key goes offline only together with its session.                      *)

(* Only Clear and a crash empty a key, and its session is closed by then.  *)
LEMMA OfflineStep ==
  ASSUME TypeInv, MapInv, [Next]_vars,
         NEW k \in Key, active[k] # NoSession, active'[k] = NoSession
  PROVE  active[k] \in closed'
<1>1. ASSUME NEW s \in Session, SetActive(s) PROVE FALSE
  BY <1>1, NoSessionFresh
     DEF SetActive, TypeInv, TypeOK, LocalsOK, Running, Handshaking
<1>2. ASSUME NEW s \in Session, ClearSession(s) PROVE active[k] \in closed'
  BY <1>2 DEF ClearSession, ActiveWithout, TypeInv, TypeOK
<1>3. CASE Crash
  BY <1>3 DEF Crash, MapInv, ActiveOwner, Connected, TypeInv, TypeOK
<1>4. CASE UNCHANGED managerVars
  BY <1>4 DEF managerVars
<1>5. \/ UNCHANGED managerVars \/ Crash
      \/ \E s \in Session : SetActive(s) \/ ClearSession(s)
  BY NextCases DEF AuthorizeAgent, AuthorizeDesktop, CreateSession,
     OpenResponseFails, StartServing, CloseReplaced, RecheckDevice,
     CloseReturns, ConnectionFails, IdentityExpires, AdminCloseSession, FinishSession,
     DeactivateToken, RestoreDesktop, RevokeLookup, RevokeWrite,
     RevokeFindSession, RevokeCloseSession, vars, managerVars
<1>6. QED
  BY <1>1, <1>2, <1>3, <1>4, <1>5

(* Types and maps, in every reachable state.                               *)
LEMMA MapsAlways == Spec => [](TypeInv /\ MapInv)
<1>1. Init => TypeInv /\ MapInv
  BY TypeInit, NoSessionFresh, NoKeyFresh
     DEF Init, MapInv, ActiveOwner, IndexConsistent, Key
<1>2. TypeInv /\ MapInv /\ [Next]_vars => (TypeInv /\ MapInv)'
  BY TypeStep, MapStep
<1>3. QED BY <1>1, <1>2, PTL DEF Spec

(* The late Clear of a replaced session never takes its successor off the  *)
(* map, and no step drops an open tunnel.                                  *)
THEOREM NeverDroppedWhileOpen == Spec => OfflineOnlyWhenClosed
<1>1. TypeInv /\ MapInv /\ [Next]_vars
        => [\A k \in Key : active[k] # NoSession /\ active'[k] = NoSession
                             => active[k] \in closed']_vars
  BY OfflineStep
<1>2. QED BY <1>1, MapsAlways, PTL DEF Spec, OfflineOnlyWhenClosed

-----------------------------------------------------------------------------
(* The row of a session is ended after the Manager has forgotten it.       *)

RowInv == \A s \in Session : row[s] = "ended" => pc[s] = "done"

(* Only the last step of a handler, and a failed handshake, end a row.     *)
LEMMA RowStep == TypeInv /\ RowInv /\ [Next]_vars => RowInv'
<1> SUFFICES ASSUME TypeInv, RowInv, [Next]_vars PROVE RowInv'
  OBVIOUS
<1> USE DEF RowInv, TypeInv, TypeOK
<1>1. ASSUME NEW s \in Session, NEW k \in Key,
             AuthorizeAgent(s, k) \/ AuthorizeDesktop(s, k)
      PROVE  RowInv'
  BY <1>1 DEF AuthorizeAgent, AuthorizeDesktop, dbVars
<1>2. ASSUME NEW s \in Session, CreateSession(s) \/ OpenResponseFails(s)
      PROVE  RowInv'
  BY <1>2 DEF CreateSession, OpenResponseFails, EndSession
<1>3. ASSUME NEW s \in Session,
             StartServing(s) \/ SetActive(s) \/ CloseReplaced(s)
               \/ RecheckDevice(s) \/ CloseReturns(s) \/ ClearSession(s)
               \/ FinishSession(s)
      PROVE  RowInv'
  BY <1>3 DEF StartServing, SetActive, CloseReplaced, RecheckDevice, CloseReturns,
     ClearSession, FinishSession, EndSession, dbVars
<1>4. ASSUME NEW s \in Session,
             ConnectionFails(s) \/ IdentityExpires(s) \/ AdminCloseSession(s)
      PROVE  RowInv'
  BY <1>4 DEF ConnectionFails, IdentityExpires, AdminCloseSession, dbVars
<1>5. ASSUME NEW r \in Revoker,
             \/ \E d \in Desktop : RevokeLookup(r, d)
             \/ RevokeWrite(r) \/ RevokeFindSession(r)
             \/ RevokeCloseSession(r)
      PROVE  RowInv'
  BY <1>5 DEF RevokeLookup, RevokeWrite, RevokeFindSession,
     RevokeCloseSession, sessionVars, dbVars
<1>6. CASE (\E a \in Agent : DeactivateToken(a))
             \/ (\E d \in Desktop : RestoreDesktop(d)) \/ UNCHANGED vars
  BY <1>6 DEF DeactivateToken, RestoreDesktop, vars, sessionVars, dbVars
<1>7. CASE Crash
  BY <1>7 DEF Crash, dbVars, Running, Handshaking, Registered
<1>8. QED
  BY <1>1, <1>2, <1>3, <1>4, <1>5, <1>6, <1>7, NextCases DEF Key

(* A session whose row says disconnected is not on the map.                *)
THEOREM EndedRowsUnreachable == Spec => []EndedRowIsUnreachable
<1>1. Init => RowInv
  BY DEF Init, RowInv
<1>2. TypeInv /\ RowInv /\ [Next]_vars => RowInv'
  BY RowStep
<1>3. TypeInv /\ MapInv /\ RowInv => EndedRowIsUnreachable
  BY NoSessionFresh DEF MapInv, ActiveOwner, RowInv, EndedRowIsUnreachable,
     Registered, TypeInv, TypeOK
<1>4. QED BY <1>1, <1>2, <1>3, MapsAlways, PTL DEF Spec

-----------------------------------------------------------------------------
(* Revocation closes the tunnel.                                           *)

(* Steps that revoke nothing, open nothing and keep the rechecks to come.  *)
LEMMA DoomedFrame ==
  ASSUME TypeInv, MapInv, RevokedTunnelIsDoomed,
         closed \subseteq closed',
         \A d \in Desktop : revoked'[d] => revoked[d],
         \A d \in Desktop : active'[d] # NoSession => active'[d] = active[d],
         UNCHANGED revokerVars,
         \A s \in Session : pc[s] \in {"replacing", "closing", "rechecking"} =>
           pc'[s] \in {"replacing", "closing", "rechecking"}
  PROVE  RevokedTunnelIsDoomed'
BY DEF RevokedTunnelIsDoomed, Doomed, revokerVars, TypeInv, TypeOK, Key

(* Every step leaves somebody on the way to the tunnel of a revoked Desktop. *)
LEMMA DoomedStep ==
  ASSUME ~AmbiguousRevoke, TypeInv, MapInv, RevokedTunnelIsDoomed, [Next]_vars
  PROVE  RevokedTunnelIsDoomed'
<1> DEFINE Frame ==
      /\ closed \subseteq closed'
      /\ \A d \in Desktop : revoked'[d] => revoked[d]
      /\ \A d \in Desktop : active'[d] # NoSession => active'[d] = active[d]
      /\ UNCHANGED revokerVars
      /\ \A s \in Session : pc[s] \in {"replacing", "closing", "rechecking"} =>
           pc'[s] \in {"replacing", "closing", "rechecking"}
<1>1. ASSUME NEW s \in Session, NEW k \in Key,
             AuthorizeAgent(s, k) \/ AuthorizeDesktop(s, k)
      PROVE  Frame
  BY <1>1 DEF AuthorizeAgent, AuthorizeDesktop, TypeInv, TypeOK, dbVars,
     managerVars
<1>2. ASSUME NEW s \in Session,
             CreateSession(s) \/ OpenResponseFails(s) \/ StartServing(s)
               \/ FinishSession(s) \/ ClearSession(s)
      PROVE  Frame
  BY <1>2 DEF CreateSession, OpenResponseFails, StartServing, FinishSession,
     ClearSession, ActiveWithout, TypeInv, TypeOK, dbVars, managerVars, Key
<1>3. ASSUME NEW s \in Session,
             ConnectionFails(s) \/ IdentityExpires(s) \/ AdminCloseSession(s)
      PROVE  Frame
  BY <1>3 DEF ConnectionFails, IdentityExpires, AdminCloseSession, dbVars,
     managerVars
<1>4. CASE (\E a \in Agent : DeactivateToken(a))
             \/ (\E d \in Desktop : RestoreDesktop(d)) \/ UNCHANGED vars
  <2>1. Frame
    BY <1>4 DEF DeactivateToken, RestoreDesktop, vars, sessionVars,
       managerVars, dbVars, TypeInv, TypeOK
  <2>2. QED BY <2>1, DoomedFrame
<1>5. CASE Crash
  BY <1>5 DEF Crash, RevokedTunnelIsDoomed, Key
<1>6. ASSUME NEW s \in Session, SetActive(s)
      PROVE  RevokedTunnelIsDoomed'
  <2> SUFFICES ASSUME NEW d \in Desktop, revoked[d], active'[d] # NoSession,
                      active'[d] \notin closed
               PROVE  Doomed(d, active[d])'
    BY <1>6 DEF RevokedTunnelIsDoomed, Doomed, SetActive, dbVars
  <2>1. CASE key[s] = d
    <3>1. active'[d] = s
      BY <1>6, <2>1 DEF SetActive, TypeInv, TypeOK, Key
    <3>2. pc'[s] \in {"replacing", "closing", "rechecking"}
      BY <1>6, <2>1
         DEF SetActive, AfterSetActive, AfterRegistration, TypeInv, TypeOK
    <3>3. QED BY <3>1, <3>2 DEF Doomed
  <2>2. CASE key[s] # d
    <3>1. active'[d] = active[d]
      BY <1>6, <2>2 DEF SetActive, TypeInv, TypeOK, Key
    <3>2. active[d] # s /\ active[d] \in Session
      BY <3>1, <1>6 DEF MapInv, ActiveOwner, SetActive, Registered, Key,
         TypeInv, TypeOK
    <3>3. pc'[active[d]] = pc[active[d]]
      BY <1>6, <3>2 DEF SetActive, TypeInv, TypeOK
    <3>4. Doomed(d, active[d])
      BY <3>1 DEF RevokedTunnelIsDoomed, Doomed
    <3>5. QED
      BY <1>6, <3>1, <3>3, <3>4 DEF Doomed, SetActive, revokerVars
  <2>3. QED BY <2>1, <2>2
<1>7. ASSUME NEW s \in Session,
             CloseReplaced(s) \/ RecheckDevice(s) \/ CloseReturns(s)
      PROVE  RevokedTunnelIsDoomed'
  <2> SUFFICES ASSUME NEW d \in Desktop, revoked[d], active[d] # NoSession,
                      active[d] \notin closed'
               PROVE  Doomed(d, active[d])'
    BY <1>7 DEF RevokedTunnelIsDoomed, Doomed, CloseReplaced, RecheckDevice, CloseReturns,
       dbVars, managerVars
  <2>1. active[d] \in Session /\ key[active[d]] = d
    BY DEF MapInv, ActiveOwner, TypeInv, TypeOK, Key
  <2>2. Doomed(d, active[d])
    BY <1>7 DEF RevokedTunnelIsDoomed, Doomed, CloseReplaced, RecheckDevice, CloseReturns
  <2>3. CASE active[d] = s
    BY <1>7, <2>1, <2>2, <2>3 DEF Doomed, CloseReplaced, RecheckDevice, CloseReturns,
       AfterRegistration, TypeInv, TypeOK, managerVars, revokerVars
  <2>4. CASE active[d] # s
    BY <1>7, <2>1, <2>2, <2>4 DEF Doomed, CloseReplaced, RecheckDevice, CloseReturns,
       TypeInv, TypeOK, managerVars, revokerVars
  <2>5. QED BY <2>3, <2>4
<1>8. ASSUME NEW r \in Revoker, NEW d \in Desktop, RevokeLookup(r, d)
      PROVE  RevokedTunnelIsDoomed'
  BY <1>8 DEF RevokeLookup, RevokedTunnelIsDoomed, Doomed, dbVars, sessionVars,
     managerVars, TypeInv, TypeOK
<1>9. ASSUME NEW r \in Revoker, RevokeWrite(r)
      PROVE  RevokedTunnelIsDoomed'
  BY <1>9 DEF RevokeWrite, RevokerReturns, RevokedTunnelIsDoomed, Doomed,
     sessionVars, managerVars, TypeInv, TypeOK
<1>10. ASSUME NEW r \in Revoker, RevokeFindSession(r)
       PROVE  RevokedTunnelIsDoomed'
  BY <1>10 DEF RevokeFindSession, RevokerReturns, RevokedTunnelIsDoomed, Doomed,
     dbVars, sessionVars, managerVars, TypeInv, TypeOK
<1>11. ASSUME NEW r \in Revoker, RevokeCloseSession(r)
       PROVE  RevokedTunnelIsDoomed'
  <2> SUFFICES ASSUME NEW d \in Desktop, revoked[d], active[d] # NoSession,
                      active[d] \notin closed'
               PROVE  Doomed(d, active[d])'
    BY <1>11 DEF RevokedTunnelIsDoomed, Doomed, RevokeCloseSession, dbVars,
       managerVars
  <2>1. active[d] \in Session /\ keyBySession[active[d]] = d
    BY DEF MapInv, IndexConsistent, TypeInv, TypeOK, Key
  <2>2. target[r] # active[d]
    BY <1>11, <2>1, NoKeyFresh DEF RevokeCloseSession, ClosableBy
  <2>3. Doomed(d, active[d])
    BY <1>11 DEF RevokedTunnelIsDoomed, Doomed, RevokeCloseSession
  <2>4. QED
    BY <1>11, <2>2, <2>3 DEF Doomed, RevokeCloseSession, RevokerReturns,
       managerVars, TypeInv, TypeOK
<1>12. QED
  BY <1>1, <1>2, <1>3, <1>4, <1>5, <1>6, <1>7, <1>8, <1>9, <1>10, <1>11,
     NextCases, DoomedFrame DEF Key

(* If the revoking UPDATE reports what it did, a live tunnel of a revoked  *)
(* Desktop is about to be closed by its own recheck or by a revocation     *)
(* still under way, however handshakes, replacements, registrations and    *)
(* revocations interleave.                                                 *)
THEOREM RevokedTunnelsAreDoomed ==
  ASSUME ~AmbiguousRevoke
  PROVE  Spec => []RevokedTunnelIsDoomed
<1>1. Init => RevokedTunnelIsDoomed
  BY DEF Init, RevokedTunnelIsDoomed
<1>2. TypeInv /\ MapInv /\ RevokedTunnelIsDoomed /\ [Next]_vars
        => RevokedTunnelIsDoomed'
  BY DoomedStep
<1>3. QED BY <1>1, <1>2, MapsAlways, PTL DEF Spec

-----------------------------------------------------------------------------
(* The Manager implements TunnelPresence.                                  *)

(* The first state of the sessions is one of the abstract specification.   *)
LEMMA PresenceInit == Init => Presence!Init
BY DEF Init, Presence!Init, Spent, Registered

(* Every step of the sessions is one of the abstract specification, or none. *)
LEMMA PresenceStep ==
  ASSUME TypeInv, MapInv, [Next]_vars
  PROVE  [Presence!Next]_(Presence!vars)
<1> USE DEF TypeInv, TypeOK, Spent, Registered
<1> DEFINE Skip == UNCHANGED <<active, Spent, closed>>
           Dying == /\ UNCHANGED <<active, Spent>>
                    /\ \E S \in SUBSET Session : closed' = closed \cup S
<1>1. ASSUME NEW s \in Session, NEW k \in Key,
             AuthorizeAgent(s, k) \/ AuthorizeDesktop(s, k)
      PROVE  Skip
  BY <1>1 DEF AuthorizeAgent, AuthorizeDesktop, managerVars
<1>2. ASSUME NEW s \in Session, StartServing(s) \/ FinishSession(s)
      PROVE  Skip
  BY <1>2 DEF StartServing, FinishSession, managerVars
<1>3. ASSUME NEW s \in Session, CreateSession(s) \/ OpenResponseFails(s)
      PROVE  Skip \/ Presence!GiveUp(s)
  BY <1>3 DEF CreateSession, OpenResponseFails, managerVars, Presence!GiveUp
<1>4. ASSUME NEW s \in Session, SetActive(s)
      PROVE  \E k \in Key : Presence!Present(s, k)
  <2>1. PICK k \in Key : key[s] = k
    BY <1>4 DEF SetActive, LocalsOK, Running, Handshaking
  <2>2. Presence!Present(s, k)
    BY <1>4, <2>1 DEF SetActive, AfterSetActive, AfterRegistration,
       Presence!Present
  <2>3. QED BY <2>2
<1>5. ASSUME NEW s \in Session, CloseReplaced(s)
      PROVE  Dying
  <2>1. closed' = closed \cup {old[s]} /\ {old[s]} \in SUBSET Session
    BY <1>5 DEF CloseReplaced, LocalsOK
  <2>2. UNCHANGED <<active, Spent>>
    BY <1>5 DEF CloseReplaced, AfterRegistration, managerVars
  <2>3. QED BY <2>1, <2>2
<1>6. ASSUME NEW s \in Session,
             \/ RecheckDevice(s) \/ CloseReturns(s)
             \/ ConnectionFails(s) \/ IdentityExpires(s)
      PROVE  Dying
  <2>1. closed' = closed \cup {s} \/ closed' = closed \cup {}
    BY <1>6 DEF RecheckDevice, CloseReturns, ConnectionFails, IdentityExpires
  <2>2. UNCHANGED <<active, Spent>>
    BY <1>6 DEF RecheckDevice, CloseReturns, AfterRegistration, ConnectionFails,
       IdentityExpires, managerVars
  <2>3. QED BY <2>1, <2>2
<1>7. ASSUME NEW s \in Session, AdminCloseSession(s)
      PROVE  Dying
  BY <1>7 DEF AdminCloseSession, ClosableBy, managerVars
<1>8. ASSUME NEW s \in Session, ClearSession(s)
      PROVE  Skip \/ \E k \in Key : Presence!Withdraw(k)
  <2>1. UNCHANGED <<Spent, closed>>
    BY <1>8 DEF ClearSession
  <2>2. CASE keyBySession[s] \in Key
    <3>0. active[keyBySession[s]] = s
      BY <2>2 DEF MapInv, IndexConsistent
    <3>1. active' = [active EXCEPT ![keyBySession[s]] = NoSession]
      BY <1>8, <2>2, <3>0 DEF ClearSession, ActiveWithout
    <3>2. PICK k \in Key : k = keyBySession[s]
      BY <2>2
    <3>3. Presence!Withdraw(k)
      BY <1>8, <2>1, <3>0, <3>1, <3>2 DEF ClearSession, Presence!Withdraw
    <3>4. QED BY <3>3
  <2>3. CASE keyBySession[s] \notin Key
    BY <1>8, <2>1, <2>3 DEF ClearSession, ActiveWithout
  <2>4. QED BY <2>2, <2>3
<1>9. ASSUME NEW r \in Revoker,
             \/ \E d \in Desktop : RevokeLookup(r, d)
             \/ RevokeWrite(r) \/ RevokeFindSession(r)
      PROVE  Skip
  BY <1>9 DEF RevokeLookup, RevokeWrite, RevokeFindSession, sessionVars,
     managerVars
<1>10. ASSUME NEW r \in Revoker, RevokeCloseSession(r)
       PROVE  Dying
  BY <1>10 DEF RevokeCloseSession, ClosableBy, managerVars
<1>11. CASE (\E a \in Agent : DeactivateToken(a))
             \/ (\E d \in Desktop : RestoreDesktop(d)) \/ UNCHANGED vars
  <2>1. Skip
    BY <1>11 DEF DeactivateToken, RestoreDesktop, vars, sessionVars,
       managerVars
  <2>2. QED BY <2>1 DEF Presence!vars
<1>12. CASE Crash
  <2>1. PICK S \in SUBSET Session : S = {s \in Session : pc[s] \in Connected}
    OBVIOUS
  <2>2. \A k \in Key : active[k] # NoSession => active[k] \in closed \cup S
    BY <2>1 DEF MapInv, ActiveOwner, Connected
  <2>3. Spent \subseteq Spent' /\ Spent' \subseteq Session
    BY <1>12 DEF Crash
  <2>4. Presence!Restart(S)
    BY <1>12, <2>1, <2>2, <2>3 DEF Crash, Presence!Restart
  <2>5. QED BY <2>4, Zenon DEF Presence!Next
<1>13. Dying => Presence!Next
  BY DEF Presence!Next, Presence!Die
<1>14. Skip => UNCHANGED Presence!vars
  BY DEF Presence!vars
<1>15. /\ \A s \in Session, k \in Key : Presence!Present(s, k) => Presence!Next
       /\ \A k \in Key : Presence!Withdraw(k) => Presence!Next
       /\ \A s \in Session : Presence!GiveUp(s) => Presence!Next
  BY Zenon DEF Presence!Next
<1> HIDE DEF Skip, Dying
<1>16. ASSUME NEW s \in Session,
              \/ CreateSession(s) \/ OpenResponseFails(s) \/ StartServing(s)
              \/ SetActive(s) \/ CloseReplaced(s) \/ RecheckDevice(s)
              \/ CloseReturns(s) \/ ConnectionFails(s) \/ IdentityExpires(s)
              \/ AdminCloseSession(s) \/ ClearSession(s) \/ FinishSession(s)
       PROVE  Presence!Next \/ Skip
  <2>1. CASE SetActive(s)
    BY <2>1, <1>4, <1>15
  <2>2. CASE ClearSession(s)
    BY <2>2, <1>8, <1>15
  <2>3. CASE CreateSession(s) \/ OpenResponseFails(s)
    BY <2>3, <1>3, <1>15
  <2>4. CASE CloseReplaced(s) \/ AdminCloseSession(s)
    BY <2>4, <1>5, <1>7, <1>13
  <2>5. CASE \/ RecheckDevice(s) \/ CloseReturns(s)
             \/ ConnectionFails(s) \/ IdentityExpires(s)
    BY <2>5, <1>6, <1>13
  <2>6. QED BY <1>2, <1>16, <2>1, <2>2, <2>3, <2>4, <2>5
<1>17. ASSUME NEW r \in Revoker,
              \/ \E d \in Desktop : RevokeLookup(r, d)
              \/ RevokeWrite(r) \/ RevokeFindSession(r)
              \/ RevokeCloseSession(r)
       PROVE  Presence!Next \/ Skip
  BY <1>9, <1>10, <1>13, <1>17
<1>18. QED
  BY <1>1, <1>11, <1>12, <1>14, <1>16, <1>17, NextCases DEF Key

(* Whoever looks tunnels up by key sees TunnelPresence.                    *)
THEOREM ManagerKeepsPresence == Spec => PresentedOnce
<1>1. Init => Presence!Init
  BY PresenceInit
<1>2. TypeInv /\ MapInv /\ [Next]_vars => [Presence!Next]_(Presence!vars)
  BY PresenceStep
<1>3. QED
  BY <1>1, <1>2, MapsAlways, PTL DEF Spec, PresentedOnce, Presence!Spec

-----------------------------------------------------------------------------
(* Credentials and cookies: what they leave alone.                         *)

(* A close by id closes the tunnel of that id, if it is registered.        *)
LEMMA ClosableIsRegistered ==
  ASSUME TypeInv, MapInv, NEW sid \in Session
  PROVE  /\ ClosableBy(sid) \subseteq {sid}
         /\ ClosableBy(sid) # {} => pc[sid] \in Registered
<1> USE DEF TypeInv, TypeOK
<1> SUFFICES ASSUME NEW s \in ClosableBy(sid)
             PROVE  s = sid /\ pc[sid] \in Registered
  OBVIOUS
<1>1. /\ s \in Session /\ keyBySession[sid] \in Key
      /\ active[keyBySession[sid]] = s
  BY DEF ClosableBy
<1>2. active[keyBySession[sid]] = sid
  BY <1>1 DEF MapInv, IndexConsistent
<1> QED BY <1>1, <1>2, NoSessionFresh DEF MapInv, ActiveOwner

(* Credentials and cookies add nothing to what sessions can do. *)
LEMMA SessionsStep ==
  ASSUME TypeInv, MapInv, [CredNext]_allVars,
         \A u \in Updater : upc[u] # "idle" => usid[u] \in Session
  PROVE  [Next]_vars
<1>1. CASE TunnelStep
  BY <1>1 DEF TunnelStep, Next
<1>2. ASSUME NEW s \in Session, NEW d \in Desktop, NEW c \in Credential,
             AuthorizeWithCredential(s, d, c)
      PROVE  Next
  BY <1>2 DEF AuthorizeWithCredential, Next, Alive, Environment
<1>3. CASE Tick
  BY <1>3 DEF Tick
<1>4. CASE CrashAll
  BY <1>4 DEF CrashAll, Next
<1>5. ASSUME NEW u \in Updater, UpdaterStep(u) PROVE [Next]_vars
  <2>1. CASE UpdateCloses(u)
    <3>1. /\ closed' = closed \cup ClosableBy(usid[u])
          /\ UNCHANGED <<dbVars, pc, key, old, managerVars, revokerVars>>
          /\ usid[u] \in Session
      BY <2>1 DEF UpdateCloses
    <3>2. CASE ClosableBy(usid[u]) = {} \/ usid[u] \in closed
      <4>1. closed' = closed
        BY <3>1, <3>2, ClosableIsRegistered
      <4> QED BY <3>1, <4>1 DEF vars, sessionVars
    <3>3. CASE ClosableBy(usid[u]) # {} /\ usid[u] \notin closed
      <4>1. ClosableBy(usid[u]) = {usid[u]} /\ IsLive(usid[u])
        BY <3>1, <3>3, ClosableIsRegistered DEF IsLive, Connected
      <4>2. ConnectionFails(usid[u])
        BY <3>1, <4>1 DEF ConnectionFails
      <4> QED BY <3>1, <4>2 DEF Next, Alive, Environment
    <3> QED BY <3>2, <3>3
  <2>2. CASE ~UpdateCloses(u)
    BY <1>5, <2>2 DEF UpdaterStep, UpdateLookup, UpdateReplace, UpdateRecheck
  <2> QED BY <2>1, <2>2
<1>6. ASSUME NEW q \in Request, RequestStep(q) PROVE UNCHANGED vars
  BY <1>6 DEF RequestStep, BootstrapLookup, CreateCookie, PageLookup, Logout, CheckCookie,
              OpenStream, FinishRequest
<1>7. CASE UNCHANGED allVars
  BY <1>7 DEF allVars
<1> QED BY <1>1, <1>2, <1>3, <1>4, <1>5, <1>6, <1>7 DEF CredNext

-----------------------------------------------------------------------------
(* What the handlers hold, and whose a cookie is.                          *)

UpdaterLocals ==
  \A u \in Updater : upc[u] # "idle" =>
    udev[u] \in Desktop /\ usid[u] \in Session /\ ucred[u] \in Credential

RequestLocals ==
  \A q \in Request :
    /\ qpc[q] # "idle" => qdev[q] \in Desktop
    /\ qpc[q] = "bootstrap" => qproof[q] \in 1..(MaxTime + 1)

(* A jar belongs to a tunnel that was registered, and only its cookies are *)
(* in it.                                                                  *)
JarsOwnCookies ==
  \A s \in Session :
    /\ pc[s] = "idle" => jar[s] = {}
    /\ \A k \in jar[s] : cookie[k] \in CookieSession /\ cookie[k].tunnel = s

(* A stream runs on a tunnel of the Desktop the request is for. *)
StreamsOnTunnels ==
  \A q \in Request : qpc[q] = "forwarding" =>
    /\ qsess[q] \in Session /\ key[qsess[q]] = qdev[q]
    /\ pc[qsess[q]] \in Registered \cup {"finishing", "done"}
    /\ qsess[q] \notin closed => pc[qsess[q]] \in Registered

CredInv ==
  /\ TypeInv /\ MapInv
  /\ CredTypeOK /\ UpdaterLocals /\ RequestLocals
  /\ JarsOwnCookies /\ CookieWithinCredential /\ StreamsOnTunnels

(* The part of CredInv that is about credentials. *)
MemoryInv ==
  /\ CredTypeOK /\ UpdaterLocals /\ RequestLocals
  /\ JarsOwnCookies /\ CookieWithinCredential

LEMMA LiveIsRegistered ==
  ASSUME TypeInv, MapInv, NEW d \in Desktop, NEW s \in LiveTunnel(d)
  PROVE  s \in Session /\ pc[s] \in Registered /\ key[s] = d /\ s \notin closed
BY NoSessionFresh DEF LiveTunnel, TypeInv, TypeOK, MapInv, ActiveOwner, Key

(* A jar that only loses cookies keeps within the limit. *)
LEMMA SmallerJar ==
  ASSUME CredTypeOK, NEW s \in Session, NEW J \in SUBSET jar[s]
  PROVE  /\ IsFiniteSet(J) /\ Cardinality(J) \in Nat
         /\ Cardinality(J) <= Cardinality(jar[s]) /\ Cardinality(J) <= MaxCookies
<1>1. IsFiniteSet(jar[s])
  <2>1. jar[s] \in SUBSET Secret
    BY DEF CredTypeOK
  <2> QED BY <2>1, SecretsFinite, FS_Subset
<1>2. IsFiniteSet(J) /\ Cardinality(J) <= Cardinality(jar[s])
  BY <1>1, FS_Subset
<1>3. Cardinality(J) \in Nat /\ Cardinality(jar[s]) \in Nat
  BY <1>1, <1>2, FS_CardinalityType
<1>4. Cardinality(jar[s]) <= MaxCookies
  BY DEF CredTypeOK
<1> QED BY <1>2, <1>3, <1>4, MaxCookiesIsNat

(* Nobody goes back to the beginning, so that steps of the sessions leave  *)
(* everything about credentials as it is.                                  *)
LEMMA NeverIdleAgain ==
  ASSUME TypeInv, [Next]_vars, NEW s \in Session
  PROVE  /\ pc[s] # "idle" => pc'[s] # "idle" /\ key'[s] = key[s]
         /\ pc[s] \in Registered \cup {"finishing", "done"} =>
              pc'[s] \in Registered \cup {"finishing", "done"}
         /\ pc[s] \in Registered /\ s \notin closed' => pc'[s] \in Registered
         /\ closed \subseteq closed'
<1> USE DEF TypeInv, TypeOK, Registered
<1>1. ASSUME NEW x \in Session, NEW k \in Key,
             AuthorizeAgent(x, k) \/ AuthorizeDesktop(x, k)
      PROVE  UNCHANGED closed /\ pc[x] = "idle" /\ pc'[x] = "authorized"
             /\ \A y \in Session : y # x => pc'[y] = pc[y] /\ key'[y] = key[y]
  BY <1>1 DEF AuthorizeAgent, AuthorizeDesktop
<1>2. ASSUME NEW x \in Session, SessionStep(x) \/ CloseReturns(x)
      PROVE  /\ UNCHANGED key /\ closed \subseteq closed'
             /\ \A y \in Session : y # x => pc'[y] = pc[y]
             /\ \/ /\ pc[x] \in {"authorized", "recorded", "serving"}
                   /\ pc'[x] \in {"recorded", "serving", "done"} \cup Registered
                \/ pc[x] \in Registered /\ pc'[x] \in Registered
                \/ pc[x] = "waiting" /\ x \in closed /\ pc'[x] = "finishing"
                \/ pc[x] = "finishing" /\ pc'[x] = "done"
  BY <1>2 DEF SessionStep, CreateSession, OpenResponseFails, StartServing, SetActive,
       CloseReplaced, RecheckDevice, CloseReturns, ClearSession, FinishSession, AfterSetActive,
       AfterRegistration
<1>3. ASSUME \/ \E x \in Session :
                  ConnectionFails(x) \/ IdentityExpires(x) \/ AdminCloseSession(x)
             \/ \E a \in Agent : DeactivateToken(a)
             \/ \E d \in Desktop : RestoreDesktop(d)
             \/ \E r \in Revoker, d \in Desktop : RevokeLookup(r, d)
             \/ \E r \in Revoker : RevokerStep(r)
             \/ UNCHANGED vars
      PROVE  UNCHANGED <<pc, key>> /\ closed \subseteq closed'
  BY <1>3 DEF ConnectionFails, IdentityExpires, AdminCloseSession, DeactivateToken,
       RestoreDesktop, RevokeLookup, RevokerStep, RevokeWrite, RevokeFindSession,
       RevokeCloseSession, vars, sessionVars
<1>4. CASE Crash
  BY <1>4 DEF Crash, Running, Connected, Handshaking
<1>5. \/ \E x \in Session, k \in Key : AuthorizeAgent(x, k) \/ AuthorizeDesktop(x, k)
      \/ \E x \in Session : SessionStep(x) \/ CloseReturns(x)
      \/ \/ \E x \in Session :
              ConnectionFails(x) \/ IdentityExpires(x) \/ AdminCloseSession(x)
         \/ \E a \in Agent : DeactivateToken(a)
         \/ \E d \in Desktop : RestoreDesktop(d)
         \/ \E r \in Revoker, d \in Desktop : RevokeLookup(r, d)
         \/ \E r \in Revoker : RevokerStep(r)
         \/ UNCHANGED vars
      \/ Crash
  BY DEF Next, Alive, Environment, Key
<1> QED BY <1>1, <1>2, <1>3, <1>4, <1>5

-----------------------------------------------------------------------------
(* The step of each action.                                                *)

(* Steps that leave what tunnels hold alone. *)
LEMMA MemoryFrame ==
  ASSUME CredInv, UNCHANGED memoryVars, now' \in Time,
         \A s \in Session : pc'[s] = "idle" => pc[s] = "idle",
         /\ upc' \in [Updater -> {"idle", "resolved", "replaced", "closing"}]
         /\ udev' \in [Updater -> Desktop \cup {NoKey}]
         /\ usid' \in [Updater -> Session \cup {NoSession}]
         /\ ucred' \in [Updater -> Credential \cup {NoCredential}],
         /\ qpc' \in [Request -> {"idle", "bootstrap", "page", "granted", "forwarding"}]
         /\ qdev' \in [Request -> Desktop \cup {NoKey}]
         /\ qsecret' \in [Request -> Secret \cup {NoSecret}]
         /\ qproof' \in [Request -> 0..(MaxTime + 1)]
         /\ qsess' \in [Request -> Session \cup {NoSession}],
         UpdaterLocals', RequestLocals'
  PROVE  MemoryInv'
<1> USE DEF memoryVars
<1>1. CredTypeOK'
  BY DEF CredInv, CredTypeOK
<1>2. JarsOwnCookies' /\ CookieWithinCredential'
  BY DEF CredInv, JarsOwnCookies, CookieWithinCredential
<1> QED BY <1>1, <1>2 DEF MemoryInv

LEMMA SessionSteps ==
  ASSUME CredInv, [Next]_vars, TunnelStep \/ Tick \/ UNCHANGED allVars
  PROVE  MemoryInv'
<1> USE DEF credVars, memoryVars, updaterVars, requestVars
<1>1. UNCHANGED <<memoryVars, updaterVars, requestVars>>
  BY DEF TunnelStep, Tick, allVars
<1>2. now' \in Time
  BY MaxTimeIsNat DEF TunnelStep, Tick, allVars, Time, CredInv, CredTypeOK
<1>3. \A s \in Session : pc'[s] = "idle" => pc[s] = "idle"
  BY NeverIdleAgain DEF CredInv
<1>4. UpdaterLocals' /\ RequestLocals'
  BY <1>1 DEF CredInv, UpdaterLocals, RequestLocals
<1> QED BY <1>1, <1>2, <1>3, <1>4, MemoryFrame DEF CredInv, CredTypeOK

(* A new tunnel brings a credential and has no cookies yet. *)
LEMMA AuthorizeStep ==
  ASSUME CredInv, NEW s \in Session, NEW d \in Desktop, NEW c \in Credential,
         AuthorizeWithCredential(s, d, c)
  PROVE  MemoryInv'
<1> USE DEF AuthorizeWithCredential, updaterVars, requestVars
<1>1. jar[s] = {} /\ cred' = [cred EXCEPT ![s] = c]
  BY DEF AuthorizeDesktop, CredInv, JarsOwnCookies
<1>2. CredTypeOK'
  BY <1>1 DEF CredInv, CredTypeOK
<1>3. UpdaterLocals' /\ RequestLocals'
  BY DEF CredInv, UpdaterLocals, RequestLocals
<1>4. JarsOwnCookies'
  BY DEF AuthorizeDesktop, CredInv, TypeInv, TypeOK, JarsOwnCookies
<1>5. CookieWithinCredential'
  BY <1>1 DEF CredInv, CredTypeOK, CookieWithinCredential
<1> QED BY <1>2, <1>3, <1>4, <1>5 DEF MemoryInv

LEMMA CrashStep ==
  ASSUME CredInv, CrashAll
  PROVE  MemoryInv'
<1> USE DEF CrashAll
<1>1. CredTypeOK'
  <2>1. \A s \in Session : Cardinality(jar'[s]) <= MaxCookies
    BY FS_EmptySet, MaxCookiesIsNat
  <2>2. 0 \in 0..(MaxTime + 1)
    BY MaxTimeIsNat
  <2> QED BY <2>1, <2>2 DEF CredInv, CredTypeOK
<1>2. UpdaterLocals' /\ RequestLocals' /\ JarsOwnCookies' /\ CookieWithinCredential'
  BY DEF UpdaterLocals, RequestLocals, JarsOwnCookies, CookieWithinCredential
<1> QED BY <1>1, <1>2 DEF MemoryInv

(* An update that fits keeps the cookies of the tunnel within it. *)
LEMMA UpdaterSteps ==
  ASSUME CredInv, NEW u \in Updater, UpdaterStep(u)
  PROVE  MemoryInv'
<1> USE DEF memoryVars, requestVars
<1>1. ASSUME NEW d \in Desktop, NEW sid \in Session, NEW c \in Credential,
             UpdateLookup(u, d, sid, c)
      PROVE  MemoryInv'
  <2> USE <1>1 DEF UpdateLookup
  <2>1. UpdaterLocals' /\ RequestLocals'
    BY DEF CredInv, CredTypeOK, UpdaterLocals, RequestLocals
  <2> QED BY <2>1, MemoryFrame DEF CredInv, CredTypeOK, vars, sessionVars
<1>2. CASE UpdateReplace(u)
  <2> DEFINE c == ucred[u]
             ok == {s \in NamedTunnel(udev[u], usid[u]) : Valid(c) /\ Fits(cred[s], c)}
  <2>1. CASE ok = {}
    <3>1. UpdaterReturns(u) /\ UNCHANGED <<vars, now, memoryVars, requestVars>>
      BY <1>2, <2>1 DEF UpdateReplace
    <3>2. UpdaterLocals' /\ RequestLocals'
      BY <3>1 DEF UpdaterReturns, CredInv, CredTypeOK, UpdaterLocals, RequestLocals
    <3> QED BY <3>1, <3>2, MemoryFrame DEF UpdaterReturns, CredInv, CredTypeOK, vars,
               sessionVars
  <2>2. CASE ok # {}
    <3>1. /\ upc[u] = "resolved" /\ upc' = [upc EXCEPT ![u] = "replaced"]
          /\ cred' = [s \in Session |-> IF s \in ok THEN c ELSE cred[s]]
          /\ UNCHANGED <<vars, now, jar, cookie, udev, usid, ucred, requestVars>>
      BY <1>2, <2>2 DEF UpdateReplace
    <3>2. c \in Credential
      BY <3>1 DEF CredInv, UpdaterLocals
    <3> HIDE DEF c
    <3>3. \A s \in ok : cred[s] # NoCredential =>
            c.device = cred[s].device /\ c.expires >= cred[s].expires
      BY DEF Fits
    <3> HIDE DEF ok
    <3>4. CredTypeOK'
      BY <3>1, <3>2 DEF CredInv, CredTypeOK
    <3>5. UpdaterLocals' /\ RequestLocals' /\ JarsOwnCookies'
      BY <3>1 DEF CredInv, CredTypeOK, UpdaterLocals, RequestLocals, JarsOwnCookies, vars,
         sessionVars
    <3>6. CookieWithinCredential'
      <4> SUFFICES ASSUME NEW s \in Session, NEW k \in jar[s]
                   PROVE  /\ cred'[s] # NoCredential
                          /\ cookie[k].expires <= cred'[s].expires
                          /\ cookie[k].token.device = cred'[s].device
        BY <3>1 DEF CookieWithinCredential
      <4>1. /\ cred[s] # NoCredential
            /\ cookie[k].expires <= cred[s].expires
            /\ cookie[k].token.device = cred[s].device
        BY DEF CredInv, CookieWithinCredential
      <4>2. cookie[k].expires \in Nat /\ cred[s].expires \in Nat /\ c.expires \in Nat
        BY <3>2, <4>1, MaxTimeIsNat
           DEF CredInv, CredTypeOK, JarsOwnCookies, CookieSession, Credential
      <4> QED BY <3>1, <3>2, <3>3, <4>1, <4>2, NoCredentialFresh
    <3> QED BY <3>4, <3>5, <3>6 DEF MemoryInv
  <2> QED BY <2>1, <2>2
<1>3. CASE UpdateRecheck(u) \/ UpdateCloses(u)
  <2>1. /\ UNCHANGED <<now, memoryVars, requestVars, pc>> /\ upc[u] # "idle"
        /\ \/ UpdaterReturns(u)
           \/ upc' = [upc EXCEPT ![u] = "closing"] /\ UNCHANGED <<udev, usid, ucred>>
    BY <1>3 DEF UpdateRecheck, UpdateCloses, vars, sessionVars
  <2>2. UpdaterLocals' /\ RequestLocals'
    BY <2>1 DEF UpdaterReturns, CredInv, CredTypeOK, UpdaterLocals, RequestLocals
  <2> QED BY <2>1, <2>2, MemoryFrame DEF UpdaterReturns, CredInv, CredTypeOK
<1> QED BY <1>1, <1>2, <1>3 DEF UpdaterStep

(* Requests that change no jar. *)
LEMMA LookingSteps ==
  ASSUME CredInv, NEW q \in Request,
         \/ \E d \in Desktop, proof \in 1..(MaxTime + 1) : BootstrapLookup(q, d, proof)
         \/ \E d \in Desktop, k \in Secret : PageLookup(q, d, k)
         \/ CheckCookie(q) \/ OpenStream(q) \/ FinishRequest(q)
  PROVE  MemoryInv'
<1> USE DEF vars, sessionVars, updaterVars
<1>1. /\ UNCHANGED <<vars, now, memoryVars, updaterVars>>
      /\ \/ \E d \in Desktop, proof \in 1..(MaxTime + 1) :
              /\ qpc' = [qpc EXCEPT ![q] = "bootstrap"]
              /\ qdev' = [qdev EXCEPT ![q] = d]
              /\ qproof' = [qproof EXCEPT ![q] = proof]
              /\ UNCHANGED <<qsecret, qsess>>
         \/ \E d \in Desktop, k \in Secret :
              /\ qpc' = [qpc EXCEPT ![q] = "page"]
              /\ qdev' = [qdev EXCEPT ![q] = d]
              /\ qsecret' = [qsecret EXCEPT ![q] = k]
              /\ UNCHANGED <<qproof, qsess>>
         \/ /\ qpc[q] = "page" /\ qpc' = [qpc EXCEPT ![q] = "granted"]
            /\ UNCHANGED <<qdev, qsecret, qproof, qsess>>
         \/ \E s \in Session :
              /\ qpc[q] = "granted" /\ qpc' = [qpc EXCEPT ![q] = "forwarding"]
              /\ qsess' = [qsess EXCEPT ![q] = s]
              /\ UNCHANGED <<qdev, qsecret, qproof>>
         \/ RequestReturns(q)
  BY DEF BootstrapLookup, PageLookup, CheckCookie, OpenStream, FinishRequest, LiveTunnel
<1>2. /\ qpc' \in [Request -> {"idle", "bootstrap", "page", "granted", "forwarding"}]
      /\ qdev' \in [Request -> Desktop \cup {NoKey}]
      /\ qsecret' \in [Request -> Secret \cup {NoSecret}]
      /\ qproof' \in [Request -> 0..(MaxTime + 1)]
      /\ qsess' \in [Request -> Session \cup {NoSession}]
  BY <1>1, MaxTimeIsNat DEF CredInv, CredTypeOK, RequestReturns
<1>3. RequestLocals' /\ UpdaterLocals'
  BY <1>1 DEF CredInv, CredTypeOK, RequestReturns, RequestLocals, UpdaterLocals
<1> QED BY <1>1, <1>2, <1>3, MemoryFrame DEF CredInv, CredTypeOK

(* What a request leaves when it returns. *)
LEMMA Returning ==
  ASSUME CredInv, NEW q \in Request, RequestReturns(q), UNCHANGED updaterVars
  PROVE  /\ UpdaterLocals' /\ RequestLocals'
         /\ qpc' \in [Request -> {"idle", "bootstrap", "page", "granted", "forwarding"}]
         /\ qdev' \in [Request -> Desktop \cup {NoKey}]
         /\ qsecret' \in [Request -> Secret \cup {NoSecret}]
         /\ qproof' \in [Request -> 0..(MaxTime + 1)]
         /\ qsess' \in [Request -> Session \cup {NoSession}]
BY MaxTimeIsNat DEF updaterVars, RequestReturns, CredInv, CredTypeOK, UpdaterLocals,
                    RequestLocals

LEMMA LogoutStep ==
  ASSUME CredInv, NEW q \in Request, Logout(q)
  PROVE  MemoryInv'
<1> USE DEF Logout
<1>1. UpdaterLocals' /\ RequestLocals'
  BY Returning
<1>2. \A s \in Session : jar'[s] \subseteq jar[s]
  OBVIOUS
<1>3. CredTypeOK'
  <2>1. \A s \in Session : Cardinality(jar'[s]) <= MaxCookies
    BY <1>2, SmallerJar DEF CredInv
  <2>2. jar' \in [Session -> SUBSET Secret]
    BY DEF CredInv, CredTypeOK
  <2> QED BY <2>1, <2>2, Returning DEF CredInv, CredTypeOK, updaterVars
<1>4. JarsOwnCookies' /\ CookieWithinCredential'
  BY <1>2 DEF CredInv, JarsOwnCookies, CookieWithinCredential, vars, sessionVars
<1> QED BY <1>1, <1>3, <1>4 DEF MemoryInv

(* A new cookie is put into the jar of a live tunnel, in the place of the  *)
(* expired ones, and ends with the credential.                             *)
LEMMA CreateStep ==
  ASSUME CredInv, NEW q \in Request, NEW k \in Secret, NEW token \in Credential,
         CreateCookie(q, k, token)
  PROVE  MemoryInv'
<1>1. /\ qpc[q] = "bootstrap" /\ cookie[k] = NoCookie
      /\ RequestReturns(q) /\ UNCHANGED <<vars, now, cred, updaterVars>>
      /\ qdev[q] \in Desktop /\ qproof[q] \in 1..(MaxTime + 1)
  BY DEF CreateCookie, CredInv, RequestLocals
<1>2. UpdaterLocals' /\ RequestLocals'
  BY <1>1, Returning
<1>3. ASSUME /\ \A s \in Session : jar'[s] \subseteq jar[s]
             /\ jar' \in [Session -> SUBSET Secret] /\ UNCHANGED cookie
      PROVE  MemoryInv'
  <2>1. \A s \in Session : Cardinality(jar'[s]) <= MaxCookies
    BY <1>3, SmallerJar DEF CredInv
  <2>2. CredTypeOK'
    BY <1>1, <1>3, <2>1, Returning DEF CredInv, CredTypeOK, updaterVars
  <2>3. JarsOwnCookies' /\ CookieWithinCredential'
    BY <1>1, <1>3 DEF CredInv, JarsOwnCookies, CookieWithinCredential, vars, sessionVars
  <2> QED BY <1>2, <2>2, <2>3 DEF MemoryInv
<1>4. ASSUME NEW s \in Readable(qdev[q]), cred[s] = token, IssueCookie(s, q, k, token)
      PROVE  MemoryInv'
  <2>1. s \in Session /\ pc[s] # "idle"
    BY <1>1, LiveIsRegistered DEF Readable, CredInv, Registered
  <2>2. Unexpired(s) \subseteq jar[s] /\ jar[s] \subseteq Secret
    BY <2>1 DEF Unexpired, CredInv, CredTypeOK
  <2>3. CASE Cardinality(Unexpired(s)) < MaxCookies
    <3> DEFINE new == [tunnel |-> s, token |-> token,
                       expires |-> CookieExpiry(s, qproof[q])]
    <3>1. /\ jar' = [jar EXCEPT ![s] = Unexpired(s) \cup {k}]
          /\ cookie' = [cookie EXCEPT ![k] = new]
      BY <1>4, <2>3 DEF IssueCookie
    <3>2. /\ token.expires \in 1..(MaxTime + 1) /\ qproof[q] \in 1..(MaxTime + 1)
          /\ token \in Credential
      BY <1>1 DEF Credential
    <3>3. /\ CookieExpiry(s, qproof[q]) \in 1..(MaxTime + 1)
          /\ CookieExpiry(s, qproof[q]) <= token.expires
      BY <1>4, <3>2, MaxTimeIsNat DEF CookieExpiry
    <3>4. /\ new \in CookieSession /\ new.tunnel = s /\ new.token = token
          /\ new.expires <= token.expires
      BY <2>1, <3>2, <3>3 DEF CookieSession
    <3> HIDE DEF new
    <3>5. \A x \in Session : k \notin jar[x]
      BY <1>1, NoCookieFresh DEF CredInv, JarsOwnCookies
    <3>6. /\ jar'[s] = Unexpired(s) \cup {k} /\ cookie'[k] = new
          /\ \A x \in Session : x # s => jar'[x] = jar[x]
          /\ \A y \in Secret : y # k => cookie'[y] = cookie[y]
      BY <2>1, <3>1 DEF CredInv, CredTypeOK
    <3>7. ASSUME NEW x \in Session PROVE Cardinality(jar'[x]) <= MaxCookies
      <4>1. /\ IsFiniteSet(Unexpired(s)) /\ Cardinality(Unexpired(s)) \in Nat
        BY <2>1, <2>2, SmallerJar DEF CredInv
      <4> DEFINE n == Cardinality(Unexpired(s))
      <4>2. Cardinality(Unexpired(s) \cup {k}) \in {n, n + 1}
        BY <4>1, FS_AddElement
      <4>3. n \in Nat /\ n < MaxCookies
        BY <2>3, <4>1
      <4> HIDE DEF n
      <4>4. CASE x = s
        <5>1. Cardinality(jar'[x]) \in {n, n + 1}
          BY <3>6, <4>2, <4>4
        <5> QED BY <4>3, <5>1, MaxCookiesIsNat
      <4>5. CASE x # s
        BY <3>6, <4>5 DEF CredInv, CredTypeOK
      <4> QED BY <4>4, <4>5
    <3>8. /\ jar' \in [Session -> SUBSET Secret]
          /\ cookie' \in [Secret -> CookieSession \cup {NoCookie}]
      BY <2>2, <3>1, <3>4 DEF CredInv, CredTypeOK
    <3>9. CredTypeOK'
      BY <1>1, <3>7, <3>8, Returning DEF CredInv, CredTypeOK, updaterVars
    <3>10. JarsOwnCookies'
      BY <1>1, <2>1, <2>2, <3>4, <3>5, <3>6, <3>8
         DEF CredInv, CredTypeOK, JarsOwnCookies, vars, sessionVars
    <3>11. CookieWithinCredential'
      <4> SUFFICES ASSUME NEW x \in Session, NEW y \in jar'[x]
                   PROVE  /\ cred[x] # NoCredential
                          /\ cookie'[y].expires <= cred[x].expires
                          /\ cookie'[y].token.device = cred[x].device
        BY <1>1 DEF CookieWithinCredential
      <4>1. CASE y = k
        <5>1. x = s
          BY <3>5, <3>6, <4>1
        <5> QED BY <1>4, <3>2, <3>4, <3>6, <4>1, <5>1, NoCredentialFresh
      <4>2. CASE y # k
        <5>1. y \in jar[x] /\ y \in Secret
          BY <2>2, <3>6, <3>8, <4>2
        <5> QED BY <3>6, <4>2, <5>1 DEF CredInv, CookieWithinCredential
      <4> QED BY <4>1, <4>2
    <3> QED BY <1>2, <3>9, <3>10, <3>11 DEF MemoryInv
  <2>4. CASE ~(Cardinality(Unexpired(s)) < MaxCookies)
    <3>1. jar' = [jar EXCEPT ![s] = Unexpired(s)] /\ UNCHANGED cookie
      BY <1>4, <2>4 DEF IssueCookie
    <3>2. /\ \A x \in Session : jar'[x] \subseteq jar[x]
          /\ jar' \in [Session -> SUBSET Secret]
      BY <2>1, <2>2, <3>1 DEF CredInv, CredTypeOK
    <3> QED BY <1>3, <3>1, <3>2
  <2> QED BY <2>3, <2>4
<1>5. CASE UNCHANGED <<jar, cookie>>
  BY <1>3, <1>5 DEF CredInv, CredTypeOK
<1> QED BY <1>4, <1>5 DEF CreateCookie

LEMMA RequestSteps ==
  ASSUME CredInv, NEW q \in Request, RequestStep(q)
  PROVE  MemoryInv'
BY LookingSteps, LogoutStep, CreateStep DEF RequestStep

(* A stream stays on its tunnel until the request ends. *)
LEMMA StreamsStep ==
  ASSUME CredInv, [CredNext]_allVars, [Next]_vars
  PROVE  StreamsOnTunnels'
<1> SUFFICES ASSUME NEW q \in Request, qpc'[q] = "forwarding"
             PROVE  /\ qsess'[q] \in Session /\ key'[qsess'[q]] = qdev'[q]
                    /\ pc'[qsess'[q]] \in Registered \cup {"finishing", "done"}
                    /\ qsess'[q] \notin closed' => pc'[qsess'[q]] \in Registered
  BY DEF StreamsOnTunnels
<1> USE DEF Registered
<1>1. CASE qpc[q] = "forwarding" /\ qsess'[q] = qsess[q] /\ qdev'[q] = qdev[q]
  <2>1. /\ qsess[q] \in Session /\ key[qsess[q]] = qdev[q]
        /\ pc[qsess[q]] \in Registered \cup {"finishing", "done"}
        /\ qsess[q] \notin closed => pc[qsess[q]] \in Registered
    BY <1>1 DEF CredInv, StreamsOnTunnels
  <2>2. TypeInv
    BY DEF CredInv
  <2> QED BY <1>1, <2>1, <2>2, NeverIdleAgain
<1>2. ASSUME NEW s \in LiveTunnel(qdev[q]), UNCHANGED vars, qdev[q] \in Desktop,
             qsess'[q] = s, qdev'[q] = qdev[q]
      PROVE  /\ qsess'[q] \in Session /\ key'[qsess'[q]] = qdev'[q]
             /\ pc'[qsess'[q]] \in Registered
  BY <1>2, LiveIsRegistered DEF CredInv, vars, sessionVars
<1>3. \/ qpc[q] = "forwarding" /\ qsess'[q] = qsess[q] /\ qdev'[q] = qdev[q]
      \/ \E s \in LiveTunnel(qdev[q]) :
           UNCHANGED vars /\ qdev[q] \in Desktop /\ qsess'[q] = s /\ qdev'[q] = qdev[q]
  <2>1. CASE UNCHANGED requestVars
    BY <2>1 DEF requestVars
  <2>2. CASE CrashAll
    BY <2>2 DEF CrashAll
  <2>3. ASSUME NEW x \in Request, RequestStep(x), x # q
        PROVE  qpc'[q] = qpc[q] /\ qsess'[q] = qsess[q] /\ qdev'[q] = qdev[q]
    BY <2>3 DEF RequestStep, BootstrapLookup, CreateCookie, PageLookup, Logout, CheckCookie,
         OpenStream, FinishRequest, RequestReturns, CredInv, CredTypeOK
  <2>4. CASE RequestStep(q)
    <3>1. CASE OpenStream(q)
      <4>1. PICK s \in LiveTunnel(qdev[q]) :
              qsess' = [qsess EXCEPT ![q] = s] /\ UNCHANGED <<vars, qdev>>
        BY <3>1 DEF OpenStream, RequestReturns, CredInv, CredTypeOK
      <4>2. qdev[q] \in Desktop
        BY <3>1 DEF OpenStream, CredInv, RequestLocals
      <4> QED BY <4>1, <4>2 DEF CredInv, CredTypeOK
    <3>2. CASE ~OpenStream(q)
      BY <2>4, <3>2 DEF RequestStep, BootstrapLookup, CreateCookie, PageLookup, Logout,
           CheckCookie, FinishRequest, RequestReturns, CredInv, CredTypeOK
    <3> QED BY <3>1, <3>2
  <2>5. \/ UNCHANGED requestVars \/ CrashAll \/ \E x \in Request : RequestStep(x)
    BY DEF CredNext, TunnelStep, AuthorizeWithCredential, Tick, UpdaterStep, UpdateLookup,
         UpdateReplace, UpdateRecheck, UpdateCloses, allVars, credVars
  <2> QED BY <2>1, <2>2, <2>3, <2>4, <2>5
<1> QED BY <1>1, <1>2, <1>3

-----------------------------------------------------------------------------
(* The theorems.                                                           *)

LEMMA CredInitInv == CredInit => CredInv
<1> SUFFICES ASSUME CredInit PROVE CredInv
  OBVIOUS
<1>1. TypeInv /\ MapInv
  BY TypeInit, NoSessionFresh, NoKeyFresh
     DEF CredInit, Init, MapInv, ActiveOwner, IndexConsistent, Key
<1>2. CredTypeOK
  <2>1. \A s \in Session : Cardinality(jar[s]) <= MaxCookies
    <3>1. \A s \in Session : jar[s] = {}
      BY DEF CredInit
    <3>2. Cardinality({}) <= MaxCookies
      BY FS_EmptySet, MaxCookiesIsNat
    <3> QED BY <3>1, <3>2
  <2>2. 0 \in Time /\ 0 \in 0..(MaxTime + 1)
    BY MaxTimeIsNat DEF Time
  <2> QED BY <2>1, <2>2 DEF CredInit, CredTypeOK
<1>3. /\ UpdaterLocals /\ RequestLocals /\ JarsOwnCookies /\ CookieWithinCredential
      /\ StreamsOnTunnels
  BY DEF CredInit, UpdaterLocals, RequestLocals, JarsOwnCookies, CookieWithinCredential,
     StreamsOnTunnels
<1> QED BY <1>1, <1>2, <1>3 DEF CredInv

LEMMA CredStep == CredInv /\ [CredNext]_allVars => CredInv' /\ [Next]_vars
<1> SUFFICES ASSUME CredInv, [CredNext]_allVars PROVE CredInv' /\ [Next]_vars
  OBVIOUS
<1>1. [Next]_vars
  BY SessionsStep DEF CredInv, UpdaterLocals
<1>2. TypeInv' /\ MapInv'
  BY <1>1, TypeStep, MapStep DEF CredInv
<1>3. MemoryInv'
  <2>1. CASE TunnelStep \/ Tick \/ UNCHANGED allVars
    BY <1>1, <2>1, SessionSteps
  <2>2. CASE \E s \in Session, d \in Desktop, c \in Credential :
               AuthorizeWithCredential(s, d, c)
    BY <2>2, AuthorizeStep
  <2>3. CASE CrashAll
    BY <2>3, CrashStep
  <2>4. CASE \E u \in Updater : UpdaterStep(u)
    BY <2>4, UpdaterSteps
  <2>5. CASE \E q \in Request : RequestStep(q)
    BY <2>5, RequestSteps
  <2> QED BY <2>1, <2>2, <2>3, <2>4, <2>5 DEF CredNext
<1>4. StreamsOnTunnels'
  BY <1>1, StreamsStep
<1> QED BY <1>1, <1>2, <1>3, <1>4 DEF CredInv, MemoryInv

LEMMA CredAlways == CredSpec => []CredInv
BY CredInitInv, CredStep, PTL DEF CredSpec

(* The credential handlers are no more to the sessions than stuttering and *)
(* the close of a connection: TunnelSessions is implemented, and what is   *)
(* proved of it holds here.                                                *)
THEOREM SessionsAreUnaffected == CredSpec => TunnelsUnaffected
<1>1. CredInit => Init
  BY DEF CredInit
<1>2. CredInv /\ [CredNext]_allVars => [Next]_vars
  BY CredStep
<1> QED BY <1>1, <1>2, CredAlways, PTL DEF CredSpec, TunnelsUnaffected, Spec

(* Types, and never more cookies in a jar than the limit, for any limit.   *)
THEOREM CredTypeCorrect == CredSpec => []CredTypeOK
<1>1. CredInv => CredTypeOK
  BY DEF CredInv
<1> QED BY <1>1, CredAlways, PTL

(* A cookie never outlives the credential of its tunnel, nor is it good    *)
(* for another local device, however updates, bootstraps, logouts and      *)
(* replacements of the tunnel follow each other.                           *)
THEOREM CookiesWithinCredential == CredSpec => []CookieWithinCredential
<1>1. CredInv => CookieWithinCredential
  BY DEF CredInv
<1> QED BY <1>1, CredAlways, PTL

(* A credential that changes under a registered tunnel was brought by an   *)
(* update that named this tunnel, and the tunnel was open.                 *)
THEOREM UpdatesStayWithTunnel == CredSpec => UpdateStaysWithTunnel
<1> DEFINE Stays ==
      \A s \in Session :
        pc[s] \in Registered /\ cred'[s] \notin {cred[s], NoCredential} =>
          s \notin closed /\ \E u \in Updater : usid[u] = s /\ ucred[u] = cred'[s]
<1>1. CredInv /\ [CredNext]_allVars => [Stays]_allVars
  <2> SUFFICES ASSUME CredInv, CredNext, NEW s \in Session, pc[s] \in Registered,
                      cred'[s] # cred[s], cred'[s] # NoCredential
               PROVE  s \notin closed /\ \E u \in Updater : usid[u] = s /\ ucred[u] = cred'[s]
    OBVIOUS
  <2>1. cred \in [Session -> Credential \cup {NoCredential}]
    BY DEF CredInv, CredTypeOK
  <2>2. ~(\E x \in Session, d \in Desktop, c \in Credential : AuthorizeWithCredential(x, d, c))
    BY <2>1 DEF AuthorizeWithCredential, AuthorizeDesktop, Registered
  <2>3. ~TunnelStep /\ ~Tick /\ ~CrashAll /\ ~(\E q \in Request : RequestStep(q))
    BY DEF TunnelStep, Tick, CrashAll, RequestStep, BootstrapLookup, CreateCookie, PageLookup,
       Logout, CheckCookie, OpenStream, FinishRequest, credVars, memoryVars
  <2>4. PICK u \in Updater : UpdateReplace(u)
    BY <2>2, <2>3 DEF CredNext, UpdaterStep, UpdateLookup, UpdateRecheck, UpdateCloses,
       memoryVars
  <2>5. s \in NamedTunnel(udev[u], usid[u]) /\ cred'[s] = ucred[u]
    BY <2>1, <2>4 DEF UpdateReplace
  <2> QED BY <2>5 DEF NamedTunnel, LiveTunnel
<1> QED BY <1>1, CredAlways, PTL DEF CredSpec, UpdateStaysWithTunnel

(* A request that is being forwarded when its Desktop is revoked loses its *)
(* tunnel, also when this has been replaced meanwhile.                     *)
THEOREM RevokedStreamsAreDoomed ==
  ASSUME ~AmbiguousRevoke
  PROVE  CredSpec => []RevokedStreamIsDoomed
<1>1. CredInv /\ NoOrphanTunnel /\ RevokedTunnelIsDoomed => RevokedStreamIsDoomed
  <2> SUFFICES ASSUME CredInv, NoOrphanTunnel, RevokedTunnelIsDoomed,
                      NEW q \in Request, qpc[q] = "forwarding", revoked[qdev[q]],
                      qsess[q] \notin closed
               PROVE  \/ Doomed(qdev[q], qsess[q])
                      \/ \E t \in Session : pc[t] = "replacing" /\ old[t] = qsess[q]
    BY DEF RevokedStreamIsDoomed
  <2>1. /\ qsess[q] \in Session /\ key[qsess[q]] = qdev[q] /\ qdev[q] \in Desktop
        /\ pc[qsess[q]] \in Registered
    BY DEF CredInv, StreamsOnTunnels, RequestLocals
  <2>2. \/ active[qdev[q]] = qsess[q]
        \/ \E t \in Session : pc[t] = "replacing" /\ old[t] = qsess[q]
    BY <2>1 DEF NoOrphanTunnel
  <2> QED BY <2>1, <2>2, NoSessionFresh DEF RevokedTunnelIsDoomed
<1>2. CredSpec => Spec
  BY SessionsAreUnaffected DEF TunnelsUnaffected
<1> QED BY <1>1, <1>2, CredAlways, NoTunnelIsOrphaned, RevokedTunnelsAreDoomed, PTL

=============================================================================

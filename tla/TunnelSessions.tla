--------------------------- MODULE TunnelSessions ---------------------------
(***************************************************************************)
(* The life of a tunnel session in the relay process: the handshake of an  *)
(* agent or of a Desktop, its registration with the connection Manager,    *)
(* its replacement by a newer connection of the same key, the revocation   *)
(* of a Desktop from the account API, and the teardown of the session.     *)
(*                                                                         *)
(* A session is one call of Relay.HandleTunnel: a goroutine of its own     *)
(* whose position is pc[s].  A revoker is one call of revokeAccountDesktop,*)
(* at position rpc[r].  The steps of these goroutines interleave at every  *)
(* database call and at every acquisition of Manager.mu; one action is one *)
(* database call, one critical section or one close of a session.          *)
(*                                                                         *)
(* The yamux session behind a tunnel is only open or closed here: closed   *)
(* is the set of sessions whose Session.closed channel has been closed.    *)
(* Session.Close does that first and may then wait for ever (module Yamux  *)
(* shows how).  A HandleTunnel call in the middle of such a Close has a    *)
(* position of its own and may stay there; the other callers of Close do   *)
(* nothing afterwards that matters here.                                   *)
(***************************************************************************)
EXTENDS Naturals

CONSTANTS
  Session,         \* tunnel session ids, each used by one handshake
  Desktop,         \* connection keys of the kind "desktop" (device keys)
  Agent,           \* connection keys of the kind "agent" (token ids)
  Revoker,         \* concurrent calls of the revocation handler
  NoSession,       \* a nil *ActiveTunnel
  NoKey,           \* an absent entry of keyBySession
  AmbiguousRevoke  \* may the revoking UPDATE commit and yet report an error?

ASSUME KeysDisjoint    == Desktop \cap Agent = {}
ASSUME NoSessionFresh  == NoSession \notin Session
ASSUME NoKeyFresh      == NoKey \notin Desktop \cup Agent
ASSUME AmbiguousIsBool == AmbiguousRevoke \in BOOLEAN

Key == Desktop \cup Agent

VARIABLES
  revoked,       \* Desktop -> is revoked_at of its record set?
  tokens,        \* the agent tokens that are active in the database
  row,           \* Session -> its row in agent_sessions / desktop_sessions
  pc,            \* Session -> position of its HandleTunnel call
  key,           \* Session -> the connection key it authenticated as
  closed,        \* the sessions whose yamux session is closed
  active,        \* Manager.active
  keyBySession,  \* Manager.keyBySession
  old,           \* Session -> the session its SetActive replaced
  rpc,           \* Revoker -> position of the revocation handler
  rdev,          \* Revoker -> the Desktop it revokes
  target         \* Revoker -> the session id ActiveFor returned to it

dbVars      == <<revoked, tokens, row>>
sessionVars == <<pc, key, closed, old>>
managerVars == <<active, keyBySession>>
revokerVars == <<rpc, rdev, target>>
vars == <<dbVars, sessionVars, managerVars, revokerVars>>

-----------------------------------------------------------------------------

(* Positions of a HandleTunnel call, in the order it goes through them:    *)
(*   authorized  the credentials were verified, the database row is next   *)
(*   recorded    the row exists, the success frame is next                 *)
(*   serving     yamux runs, SetActive is next                             *)
(*   replacing   SetActive released the lock, the old session is to close  *)
(*   closing     in the Close of the old session                           *)
(*   rechecking  a Desktop, IsDesktopDeviceActive is next                  *)
(*   dropping    in the Close of its own session, after the recheck        *)
(*   waiting     blocked on session.CloseChan()                            *)
(*   finishing   cleared from the Manager, the row is to be ended          *)
Handshaking == {"authorized", "recorded", "serving"}
Registered  == {"replacing", "closing", "rechecking", "dropping", "waiting"}
Connected   == {"serving"} \cup Registered
Running     == Handshaking \cup Registered \cup {"finishing"}

IsLive(s) == pc[s] \in Connected /\ s \notin closed

(* The session CloseSession(sid) closes: the active tunnel of the key the  *)
(* id maps to, none when the id is unknown.  The tunnel is looked up under *)
(* the read lock and closed after its release; no later change of the maps *)
(* changes which one, so that the two are one step here.                   *)
ClosableBy(sid) ==
  {s \in Session : /\ sid \in Session
                   /\ keyBySession[sid] # NoKey
                   /\ active[keyBySession[sid]] = s}

Init ==
  /\ revoked = [d \in Desktop |-> FALSE]
  /\ tokens = Agent
  /\ row = [s \in Session |-> "none"]
  /\ pc = [s \in Session |-> "idle"]
  /\ key = [s \in Session |-> NoKey]
  /\ closed = {}
  /\ active = [k \in Key |-> NoSession]
  /\ keyBySession = [s \in Session |-> NoKey]
  /\ old = [s \in Session |-> NoSession]
  /\ rpc = [r \in Revoker |-> "idle"]
  /\ rdev = [r \in Revoker |-> NoKey]
  /\ target = [r \in Revoker |-> NoSession]

-----------------------------------------------------------------------------
(* The handshake.                                                          *)

(* The Authorization header names an active token. *)
AuthorizeAgent(s, a) ==
  /\ pc[s] = "idle"
  /\ a \in tokens
  /\ pc' = [pc EXCEPT ![s] = "authorized"]
  /\ key' = [key EXCEPT ![s] = a]
  /\ UNCHANGED <<dbVars, closed, old, managerVars, revokerVars>>

(* The tunnel.open frame carries a valid identity and names a device whose *)
(* record is not revoked.  A rejected handshake leaves nothing behind.     *)
AuthorizeDesktop(s, d) ==
  /\ pc[s] = "idle"
  /\ ~revoked[d]
  /\ pc' = [pc EXCEPT ![s] = "authorized"]
  /\ key' = [key EXCEPT ![s] = d]
  /\ UNCHANGED <<dbVars, closed, old, managerVars, revokerVars>>

(* CreateAgentSession / CreateDesktopSession inserts the row.  An error    *)
(* ends the handshake, the insert may have committed all the same.         *)
CreateSession(s) ==
  /\ pc[s] = "authorized"
  /\ \/ /\ row' = [row EXCEPT ![s] = "open"]
        /\ pc' = [pc EXCEPT ![s] = "recorded"]
     \/ /\ row' \in {row, [row EXCEPT ![s] = "open"]}
        /\ pc' = [pc EXCEPT ![s] = "done"]
  /\ UNCHANGED <<revoked, tokens, key, closed, old, managerVars, revokerVars>>

(* EndAgentSession / EndDesktopSession, whose error nobody looks at. *)
EndSession(s) == row' \in {row, [row EXCEPT ![s] = "ended"]}

(* The success frame of a Desktop cannot be written: its row is ended. *)
OpenResponseFails(s) ==
  /\ pc[s] = "recorded"
  /\ key[s] \in Desktop
  /\ EndSession(s)
  /\ pc' = [pc EXCEPT ![s] = "done"]
  /\ UNCHANGED <<revoked, tokens, key, closed, old, managerVars, revokerVars>>

(* yamux.Server takes the connection over and the expiry timer is armed. *)
StartServing(s) ==
  /\ pc[s] = "recorded"
  /\ pc' = [pc EXCEPT ![s] = "serving"]
  /\ UNCHANGED <<dbVars, key, closed, old, managerVars, revokerVars>>

(* Mutant: no session reads its record again. *)
NeverRecheck(s) == "waiting"

(* A Desktop rechecks its record once SetActive has returned. *)
AfterRegistration(s) ==
  IF key[s] \in Desktop THEN "rechecking" ELSE "waiting"

(* Mutant: SetActive returns without closing the session it replaced. *)
ForgetReplaced(s) == AfterRegistration(s)

AfterSetActive(s) ==
  IF active[key[s]] = NoSession THEN AfterRegistration(s) ELSE "replacing"

(* Mutant: the id of the replaced session stays in the index. *)
IndexKeepingOld(s) == [keyBySession EXCEPT ![s] = key[s]]

(* The id of s leads to its key, the id that key led to leads nowhere. *)
IndexWith(s) ==
  [t \in Session |-> IF t = s THEN key[s]
                     ELSE IF t = active[key[s]] THEN NoKey
                     ELSE keyBySession[t]]

(* Manager.SetActive, its critical section. *)
SetActive(s) ==
  /\ pc[s] = "serving"
  /\ active' = [active EXCEPT ![key[s]] = s]
  /\ keyBySession' = IndexWith(s)
  /\ old' = [old EXCEPT ![s] = active[key[s]]]
  /\ pc' = [pc EXCEPT ![s] = AfterSetActive(s)]
  /\ UNCHANGED <<dbVars, key, closed, revokerVars>>

(* The end of SetActive, after the lock is released: close the old one,    *)
(* unless it is closed already.                                            *)
CloseReplaced(s) ==
  /\ pc[s] = "replacing"
  /\ closed' = closed \cup {old[s]}
  /\ old' = [old EXCEPT ![s] = NoSession]
  /\ pc' = [pc EXCEPT ![s] = IF old[s] \in closed THEN AfterRegistration(s)
                                                  ELSE "closing"]
  /\ UNCHANGED <<dbVars, key, managerVars, revokerVars>>

(* A registered Desktop reads its record again.  A revoked record, or a    *)
(* database error, closes the session.                                     *)
RecheckDevice(s) ==
  /\ pc[s] = "rechecking"
  /\ \/ /\ closed' = closed \cup {s}
        /\ pc' = [pc EXCEPT ![s] = "dropping"]
     \/ /\ ~revoked[key[s]]
        /\ pc' = [pc EXCEPT ![s] = "waiting"]
        /\ UNCHANGED closed
  /\ UNCHANGED <<dbVars, key, old, managerVars, revokerVars>>

(* The Close of the old session, or of the own one, returns. *)
CloseReturns(s) ==
  /\ \/ /\ pc[s] = "closing"
        /\ pc' = [pc EXCEPT ![s] = AfterRegistration(s)]
     \/ /\ pc[s] = "dropping"
        /\ pc' = [pc EXCEPT ![s] = "waiting"]
  /\ UNCHANGED <<dbVars, key, closed, old, managerVars, revokerVars>>

-----------------------------------------------------------------------------
(* The end of a session.                                                   *)

(* The read loop sees the connection fail, or a heartbeat cannot be        *)
(* written: Session.Close.                                                 *)
ConnectionFails(s) ==
  /\ IsLive(s)
  /\ closed' = closed \cup {s}
  /\ UNCHANGED <<dbVars, pc, key, old, managerVars, revokerVars>>

(* The expiry timer of a Desktop's identity token fires. *)
IdentityExpires(s) ==
  /\ IsLive(s)
  /\ key[s] \in Desktop
  /\ closed' = closed \cup {s}
  /\ UNCHANGED <<dbVars, pc, key, old, managerVars, revokerVars>>

(* An administrator closes a session whose row is still open. *)
AdminCloseSession(s) ==
  /\ row[s] = "open"
  /\ closed' = closed \cup ClosableBy(s)
  /\ UNCHANGED <<dbVars, pc, key, old, managerVars, revokerVars>>

(* Mutant: Clear goes by the key of the session, not by its id. *)
ActiveWithoutKey(s) ==
  [k \in Key |-> IF k = key[s] THEN NoSession ELSE active[k]]

(* The key the id leads to loses its tunnel, if that is still this one. *)
ActiveWithout(s) ==
  [k \in Key |-> IF k = keyBySession[s] /\ active[k] = s THEN NoSession
                 ELSE active[k]]

(* Manager.Clear, once the close of the session wakes the handler. *)
ClearSession(s) ==
  /\ pc[s] = "waiting"
  /\ s \in closed
  /\ keyBySession' = [keyBySession EXCEPT ![s] = NoKey]
  /\ active' = ActiveWithout(s)
  /\ pc' = [pc EXCEPT ![s] = "finishing"]
  /\ UNCHANGED <<dbVars, key, closed, old, revokerVars>>

(* finish(), the end of the handler. *)
FinishSession(s) ==
  /\ pc[s] = "finishing"
  /\ EndSession(s)
  /\ pc' = [pc EXCEPT ![s] = "done"]
  /\ UNCHANGED <<revoked, tokens, key, closed, old, managerVars, revokerVars>>

-----------------------------------------------------------------------------
(* The records the handshakes depend on.                                   *)

DeactivateToken(a) ==
  /\ a \in tokens
  /\ tokens' = tokens \ {a}
  /\ UNCHANGED <<revoked, row, sessionVars, managerVars, revokerVars>>

(* A registration from a login newer than the revocation restores the      *)
(* record; any other registration leaves revoked_at as it is.              *)
RestoreDesktop(d) ==
  /\ revoked[d]
  /\ revoked' = [revoked EXCEPT ![d] = FALSE]
  /\ UNCHANGED <<tokens, row, sessionVars, managerVars, revokerVars>>

(* revokeAccountDesktop: resolve the device ... *)
RevokeLookup(r, d) ==
  /\ rpc[r] = "idle"
  /\ ~revoked[d]
  /\ rpc' = [rpc EXCEPT ![r] = "resolved"]
  /\ rdev' = [rdev EXCEPT ![r] = d]
  /\ UNCHANGED <<dbVars, sessionVars, managerVars, target>>

RevokerReturns(r) ==
  /\ rpc' = [rpc EXCEPT ![r] = "idle"]
  /\ rdev' = [rdev EXCEPT ![r] = NoKey]
  /\ target' = [target EXCEPT ![r] = NoSession]

(* ... set revoked_at.  A record that is revoked already answers 404, and  *)
(* every error ends the handler too.  With AmbiguousRevoke the UPDATE may  *)
(* also commit although the call reports an error (the request was         *)
(* cancelled, or the connection lost, while the statement ran).            *)
RevokeWrite(r) ==
  LET d == rdev[r]
  IN /\ rpc[r] = "resolved"
     /\ \/ /\ ~revoked[d]
           /\ revoked' = [revoked EXCEPT ![d] = TRUE]
           /\ \/ /\ rpc' = [rpc EXCEPT ![r] = "revoked"]
                 /\ UNCHANGED <<rdev, target>>
              \/ AmbiguousRevoke /\ RevokerReturns(r)
        \/ RevokerReturns(r) /\ UNCHANGED revoked
     /\ UNCHANGED <<tokens, row, sessionVars, managerVars>>

(* ... ask the Manager for the live session of the device ... *)
RevokeFindSession(r) ==
  LET s == active[rdev[r]]
  IN /\ rpc[r] = "revoked"
     /\ IF s # NoSession /\ s \notin closed
        THEN /\ target' = [target EXCEPT ![r] = s]
             /\ rpc' = [rpc EXCEPT ![r] = "closing"]
             /\ UNCHANGED rdev
        ELSE RevokerReturns(r)
     /\ UNCHANGED <<dbVars, sessionVars, managerVars>>

(* ... and close it, by its id. *)
RevokeCloseSession(r) ==
  /\ rpc[r] = "closing"
  /\ closed' = closed \cup ClosableBy(target[r])
  /\ RevokerReturns(r)
  /\ UNCHANGED <<dbVars, pc, key, old, managerVars>>

(* The relay process dies: the database outlives it, its connections and   *)
(* its memory do not.  The next process starts with an empty Manager.      *)
Crash ==
  /\ pc' = [s \in Session |-> IF pc[s] \in Running THEN "done" ELSE pc[s]]
  /\ closed' = closed \cup {s \in Session : pc[s] \in Connected}
  /\ active' = [k \in Key |-> NoSession]
  /\ keyBySession' = [s \in Session |-> NoKey]
  /\ old' = [s \in Session |-> NoSession]
  /\ rpc' = [r \in Revoker |-> "idle"]
  /\ rdev' = [r \in Revoker |-> NoKey]
  /\ target' = [r \in Revoker |-> NoSession]
  /\ UNCHANGED <<dbVars, key>>

-----------------------------------------------------------------------------

(* What the goroutine of a session does by itself.  That the Close it is   *)
(* in returns is not among it.                                             *)
SessionStep(s) ==
  \/ CreateSession(s)
  \/ OpenResponseFails(s)
  \/ StartServing(s)
  \/ SetActive(s)
  \/ CloseReplaced(s)
  \/ RecheckDevice(s)
  \/ ClearSession(s)
  \/ FinishSession(s)

RevokerStep(r) ==
  \/ RevokeWrite(r)
  \/ RevokeFindSession(r)
  \/ RevokeCloseSession(r)

Environment ==
  \/ \E s \in Session : \E a \in Agent : AuthorizeAgent(s, a)
  \/ \E s \in Session : \E d \in Desktop : AuthorizeDesktop(s, d)
  \/ \E s \in Session : ConnectionFails(s)
  \/ \E s \in Session : IdentityExpires(s)
  \/ \E s \in Session : AdminCloseSession(s)
  \/ \E a \in Agent : DeactivateToken(a)
  \/ \E d \in Desktop : RestoreDesktop(d)
  \/ \E r \in Revoker : \E d \in Desktop : RevokeLookup(r, d)

(* The steps of one life of the relay process. *)
Alive ==
  \/ \E s \in Session : SessionStep(s) \/ CloseReturns(s)
  \/ \E r \in Revoker : RevokerStep(r)
  \/ Environment

Next == Alive \/ Crash

Spec == Init /\ [][Next]_vars

(* The Go scheduler runs every goroutine that can run; nobody has to       *)
(* connect, to revoke or to fail, and no Close has to return.              *)
Fairness ==
  /\ \A s \in Session : WF_vars(SessionStep(s))
  /\ \A r \in Revoker : WF_vars(RevokerStep(r))

FairSpec == Spec /\ Fairness

-----------------------------------------------------------------------------
(* Properties.                                                             *)

TypeOK ==
  /\ revoked \in [Desktop -> BOOLEAN]
  /\ tokens \subseteq Agent
  /\ row \in [Session -> {"none", "open", "ended"}]
  /\ pc \in [Session -> {"idle", "done"} \cup Running]
  /\ key \in [Session -> Key \cup {NoKey}]
  /\ closed \subseteq Session
  /\ active \in [Key -> Session \cup {NoSession}]
  /\ keyBySession \in [Session -> Key \cup {NoKey}]
  /\ old \in [Session -> Session \cup {NoSession}]
  /\ rpc \in [Revoker -> {"idle", "resolved", "revoked", "closing"}]
  /\ rdev \in [Revoker -> Desktop \cup {NoKey}]
  /\ target \in [Revoker -> Session \cup {NoSession}]

(* The two maps of the Manager are inverse to each other: an id leads to a *)
(* key exactly when that key leads to a tunnel with that id.               *)
IndexConsistent ==
  \A s \in Session, k \in Key : keyBySession[s] = k <=> active[k] = s

(* No connection is lost sight of: a session that went through SetActive   *)
(* and is still open can be reached through its key, or the SetActive that *)
(* took its place is about to close it.  (Otherwise nothing but its own    *)
(* failure could ever end it: CloseSession and revocation go by the maps.) *)
NoOrphanTunnel ==
  \A s \in Session :
    pc[s] \in Registered /\ s \notin closed =>
      \/ active[key[s]] = s
      \/ \E t \in Session : pc[t] = "replacing" /\ old[t] = s

(* Somebody is on the way to close session s of the revoked Desktop d: the *)
(* session's own recheck, or a revocation that has not run to its end.     *)
(* The recheck comes after the Close of the session that s replaced: as    *)
(* long as that Close does not return, neither does s lose its tunnel.     *)
Doomed(d, s) ==
  \/ pc[s] \in {"replacing", "closing", "rechecking"}
  \/ \E r \in Revoker : /\ rdev[r] = d
                        /\ \/ rpc[r] = "revoked"
                           \/ rpc[r] = "closing" /\ target[r] = s

(* Revocation closes the tunnel: while a revoked Desktop has a live        *)
(* session, somebody is on the way to close it.                            *)
RevokedTunnelIsDoomed ==
  \A d \in Desktop :
    revoked[d] /\ active[d] # NoSession /\ active[d] \notin closed =>
      Doomed(d, active[d])

(* A session whose row says disconnected serves no request any more. *)
EndedRowIsUnreachable ==
  \A s \in Session : row[s] = "ended" => \A k \in Key : active[k] # s

(* A key goes offline only together with its session: the late Clear of a  *)
(* replaced session never takes its successor off the map.                 *)
OfflineOnlyWhenClosed ==
  [][\A k \in Key : active[k] # NoSession /\ active'[k] = NoSession
                      => active[k] \in closed']_vars

Spent == {s \in Session : pc[s] \in Registered \cup {"finishing", "done"}}

Presence == INSTANCE TunnelPresence
              WITH current <- active, spent <- Spent, dead <- closed

(* The Manager keeps its promise to those who look tunnels up: no          *)
(* displaced or withdrawn tunnel comes back under any key, and only dead   *)
(* tunnels are withdrawn without a successor (TunnelPresence).             *)
PresentedOnce == Presence!Spec

(* Once the device is revoked each of its tunnels goes away, unless the    *)
(* device is registered again meanwhile, or the tunnel's handler never     *)
(* comes back from closing the tunnel it replaced.  (It is in that Close   *)
(* at most once: had it come back, the tunnel would have to go.)           *)
RevocationTakesEffect ==
  \A d \in Desktop, s \in Session :
    revoked[d] /\ key[s] = d ~>
      ~revoked[d] \/ ~IsLive(s) \/ pc[s] = "closing"

(* A handshake that was under way while its device was revoked does not    *)
(* end up serving, whatever happens to the record afterwards.              *)
RacedHandshakeIsClosed ==
  \A s \in Session :
    [](pc[s] \in Handshaking /\ key[s] \in Desktop /\ revoked[key[s]]
         => [](pc[s] = "waiting" => s \in closed))
=============================================================================

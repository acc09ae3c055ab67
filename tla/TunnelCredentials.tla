------------------------- MODULE TunnelCredentials --------------------------
(***************************************************************************)
(* What a Desktop tunnel holds in memory: the Platform credential that the *)
(* Desktop uploaded, and the cookie sessions of its mobile WebApp pages.   *)
(* Both live in the ActiveTunnel of a session and go with it.              *)
(*                                                                         *)
(* TunnelSessions supplies the sessions; this module adds the two things,  *)
(* a clock, the handler that replaces a credential (an updater is one call *)
(* of handleRegister with a credential) and the requests to the mobile     *)
(* hosts of a Desktop (one call of handleMobileWebAppPublic each).         *)
(*                                                                         *)
(* A token states its device and its expiry and is valid only with both,   *)
(* so that a credential is that pair.  Every secret is drawn once.         *)
(***************************************************************************)
EXTENDS TunnelSessions, FiniteSets

CONSTANTS
  Updater,         \* concurrent credential updates
  Request,         \* concurrent requests to the mobile hosts
  PlatformDevice,  \* device ids of the local Platform
  Secret,          \* cookie values
  MaxTime,         \* the clock runs from 0 to MaxTime
  MaxCookies,      \* the limit of cookie sessions per tunnel (64)
  NoCredential,    \* a nil *PlatformCredential
  NoCookie,        \* a secret nobody has drawn
  NoSecret         \* a request without a cookie

ASSUME MaxTimeIsNat    == MaxTime \in Nat
ASSUME MaxCookiesIsNat == MaxCookies \in Nat
ASSUME SecretsFinite   == IsFiniteSet(Secret)
ASSUME NoSecretFresh   == NoSecret \notin Secret

Time == 0..MaxTime

(* Credentials may outlive the clock. *)
Credential == [device : PlatformDevice, expires : 1..(MaxTime + 1)]

(* The tunnel that issued it, the business token it stands for, its expiry. *)
CookieSession ==
  [tunnel : Session, token : Credential, expires : 1..(MaxTime + 1)]

ASSUME NoCredentialFresh == NoCredential \notin Credential
ASSUME NoCookieFresh     == NoCookie \notin CookieSession

VARIABLES
  now,      \* the clock
  cred,     \* Session -> ActiveTunnel.PlatformCredential
  jar,      \* Session -> the secrets in ActiveTunnel.mobileWebAppSessions
  cookie,   \* Secret -> what it stood for when it was drawn
  upc,      \* Updater -> position of its handler
  udev,     \* Updater -> the Desktop it found
  usid,     \* Updater -> the tunnel session it names
  ucred,    \* Updater -> the credential it brings
  qpc,      \* Request -> position of its handler
  qdev,     \* Request -> the Desktop of its host
  qsecret,  \* Request -> its cookie
  qproof,   \* Request -> expiry of its account proof
  qsess     \* Request -> the session its stream runs on

memoryVars  == <<cred, jar, cookie>>
updaterVars == <<upc, udev, usid, ucred>>
requestVars == <<qpc, qdev, qsecret, qproof, qsess>>
credVars    == <<now, memoryVars, updaterVars, requestVars>>
allVars     == <<vars, credVars>>

CredInit ==
  /\ Init
  /\ now = 0
  /\ cred = [s \in Session |-> NoCredential]
  /\ jar = [s \in Session |-> {}]
  /\ cookie = [k \in Secret |-> NoCookie]
  /\ upc = [u \in Updater |-> "idle"]
  /\ udev = [u \in Updater |-> NoKey]
  /\ usid = [u \in Updater |-> NoSession]
  /\ ucred = [u \in Updater |-> NoCredential]
  /\ qpc = [q \in Request |-> "idle"]
  /\ qdev = [q \in Request |-> NoKey]
  /\ qsecret = [q \in Request |-> NoSecret]
  /\ qproof = [q \in Request |-> 0]
  /\ qsess = [q \in Request |-> NoSession]

-----------------------------------------------------------------------------

(* The steps of the sessions, the revocations and their environment. *)
TunnelStep == Alive /\ UNCHANGED credVars

Valid(c) == c.expires > now

(* The tunnel.open frame brings a credential, which ends up in the         *)
(* ActiveTunnel of the session.  (Without one, AuthorizeDesktop is alone.) *)
AuthorizeWithCredential(s, d, c) ==
  /\ AuthorizeDesktop(s, d)
  /\ Valid(c)
  /\ cred' = [cred EXCEPT ![s] = c]
  /\ UNCHANGED <<now, jar, cookie, updaterVars, requestVars>>

Tick ==
  /\ now < MaxTime
  /\ now' = now + 1
  /\ UNCHANGED <<vars, memoryVars, updaterVars, requestVars>>

(* The relay dies with all that the tunnels held and all handlers. *)
CrashAll ==
  /\ Crash
  /\ cred' = [s \in Session |-> NoCredential]
  /\ jar' = [s \in Session |-> {}]
  /\ upc' = [u \in Updater |-> "idle"]
  /\ udev' = [u \in Updater |-> NoKey]
  /\ usid' = [u \in Updater |-> NoSession]
  /\ ucred' = [u \in Updater |-> NoCredential]
  /\ qpc' = [q \in Request |-> "idle"]
  /\ qdev' = [q \in Request |-> NoKey]
  /\ qsecret' = [q \in Request |-> NoSecret]
  /\ qproof' = [q \in Request |-> 0]
  /\ qsess' = [q \in Request |-> NoSession]
  /\ UNCHANGED <<now, cookie>>

-----------------------------------------------------------------------------
(* Reading and replacing a credential, under the Manager's lock.           *)

(* The usable tunnel of d, as every such operation looks for it. *)
LiveTunnel(d) == {s \in Session : active[d] = s /\ s \notin closed}

(* Mutant: the update goes to the tunnel of the device, whichever it is. *)
AnyTunnel(d, sid) == LiveTunnel(d)

(* The tunnel an update may change: the one it names, while it is live. *)
NamedTunnel(d, sid) == LiveTunnel(d) \cap {sid}

(* Mutant: whatever the Desktop says last is right. *)
AlwaysFits(old_, c) == TRUE

(* A credential is replaced by one of the same Platform device that does   *)
(* not expire earlier.                                                     *)
Fits(old_, c) ==
  old_ # NoCredential => /\ c.device = old_.device
                         /\ c.expires >= old_.expires

(* PlatformCredentialFor: what a route-credential request can read. *)
Readable(d) ==
  {s \in LiveTunnel(d) : cred[s] # NoCredential /\ Valid(cred[s])}

UpdaterReturns(u) ==
  /\ upc' = [upc EXCEPT ![u] = "idle"]
  /\ udev' = [udev EXCEPT ![u] = NoKey]
  /\ usid' = [usid EXCEPT ![u] = NoSession]
  /\ ucred' = [ucred EXCEPT ![u] = NoCredential]

(* handleRegister with a credential: find the device ... *)
UpdateLookup(u, d, sid, c) ==
  /\ upc[u] = "idle"
  /\ Valid(c)
  /\ ~revoked[d]
  /\ upc' = [upc EXCEPT ![u] = "resolved"]
  /\ udev' = [udev EXCEPT ![u] = d]
  /\ usid' = [usid EXCEPT ![u] = sid]
  /\ ucred' = [ucred EXCEPT ![u] = c]
  /\ UNCHANGED <<vars, now, memoryVars, requestVars>>

(* ... UpdatePlatformCredential ... *)
UpdateReplace(u) ==
  LET c == ucred[u]
      ok == {s \in NamedTunnel(udev[u], usid[u]) : Valid(c) /\ Fits(cred[s], c)}
  IN /\ upc[u] = "resolved"
     /\ \/ /\ ok # {}
           /\ cred' = [s \in Session |-> IF s \in ok THEN c ELSE cred[s]]
           /\ upc' = [upc EXCEPT ![u] = "replaced"]
           /\ UNCHANGED <<udev, usid, ucred>>
        \/ /\ ok = {}
           /\ UpdaterReturns(u)
           /\ UNCHANGED cred
     /\ UNCHANGED <<vars, now, jar, cookie, requestVars>>

(* ... read the record again.  Revoked, or not readable: close. *)
UpdateRecheck(u) ==
  /\ upc[u] = "replaced"
  /\ \/ /\ upc' = [upc EXCEPT ![u] = "closing"]
        /\ UNCHANGED <<udev, usid, ucred>>
     \/ /\ ~revoked[udev[u]]
        /\ UpdaterReturns(u)
  /\ UNCHANGED <<vars, now, memoryVars, requestVars>>

UpdateCloses(u) ==
  /\ upc[u] = "closing"
  /\ closed' = closed \cup ClosableBy(usid[u])
  /\ UpdaterReturns(u)
  /\ UNCHANGED <<dbVars, pc, key, old, managerVars, revokerVars, now,
                 memoryVars, requestVars>>

-----------------------------------------------------------------------------
(* The mobile hosts of a Desktop.                                          *)

RequestReturns(q) ==
  /\ qpc' = [qpc EXCEPT ![q] = "idle"]
  /\ qdev' = [qdev EXCEPT ![q] = NoKey]
  /\ qsecret' = [qsecret EXCEPT ![q] = NoSecret]
  /\ qproof' = [qproof EXCEPT ![q] = 0]
  /\ qsess' = [qsess EXCEPT ![q] = NoSession]

(* POST /api/mobile-session: the device is found, the account proof is     *)
(* valid and the tunnel is up ...  (All of it is looked at again below.)   *)
BootstrapLookup(q, d, proof) ==
  /\ qpc[q] = "idle"
  /\ ~revoked[d]
  /\ proof > now
  /\ LiveTunnel(d) # {}
  /\ qpc' = [qpc EXCEPT ![q] = "bootstrap"]
  /\ qdev' = [qdev EXCEPT ![q] = d]
  /\ qproof' = [qproof EXCEPT ![q] = proof]
  /\ UNCHANGED <<vars, now, memoryVars, updaterVars, qsecret, qsess>>

(* A cookie lives no longer than the credential and the account proof. *)
CookieExpiry(s, proof) ==
  IF proof < cred[s].expires THEN proof ELSE cred[s].expires

(* The cookies of s that have not expired: the others are dropped first. *)
Unexpired(s) == {k \in jar[s] : cookie[k].expires > now}

(* ... createMobileWebAppSession, under the lock: for the bearer of the    *)
(* credential that is current, while the jar has room.                     *)
IssueCookie(s, q, k, token) ==
  IF Cardinality(Unexpired(s)) < MaxCookies
  THEN /\ jar' = [jar EXCEPT ![s] = Unexpired(s) \cup {k}]
       /\ cookie' = [cookie EXCEPT
            ![k] = [tunnel |-> s, token |-> token,
                    expires |-> CookieExpiry(s, qproof[q])]]
  ELSE /\ jar' = [jar EXCEPT ![s] = Unexpired(s)]
       /\ UNCHANGED cookie

CreateCookie(q, k, token) ==
  LET granting == {s \in Readable(qdev[q]) : cred[s] = token}
  IN /\ qpc[q] = "bootstrap"
     /\ cookie[k] = NoCookie
     /\ \/ \E s \in granting : IssueCookie(s, q, k, token)
        \/ granting = {} /\ UNCHANGED <<jar, cookie>>
     /\ RequestReturns(q)
     /\ UNCHANGED <<vars, now, cred, updaterVars>>

(* Any other path: the device is found, the request has a cookie ... *)
PageLookup(q, d, k) ==
  /\ qpc[q] = "idle"
  /\ ~revoked[d]
  /\ qpc' = [qpc EXCEPT ![q] = "page"]
  /\ qdev' = [qdev EXCEPT ![q] = d]
  /\ qsecret' = [qsecret EXCEPT ![q] = k]
  /\ UNCHANGED <<vars, now, memoryVars, updaterVars, qproof, qsess>>

(* ... which is a logout: revokeMobileWebAppSession ... *)
Logout(q) ==
  /\ qpc[q] = "page"
  /\ jar' = [s \in Session |->
               IF active[qdev[q]] = s THEN jar[s] \ {qsecret[q]} ELSE jar[s]]
  /\ RequestReturns(q)
  /\ UNCHANGED <<vars, now, cred, cookie, updaterVars>>

(* The tunnels that accept the cookie of q: mobileWebAppSessionFor. *)
Accepting(q) ==
  {s \in LiveTunnel(qdev[q]) :
     qsecret[q] \in jar[s] /\ cookie[qsecret[q]].expires > now}

(* ... or a page: the cookie is accepted by the tunnel, or refused ... *)
CheckCookie(q) ==
  /\ qpc[q] = "page"
  /\ IF Accepting(q) # {}
     THEN /\ qpc' = [qpc EXCEPT ![q] = "granted"]
          /\ UNCHANGED <<qdev, qsecret, qproof, qsess>>
     ELSE RequestReturns(q)
  /\ UNCHANGED <<vars, now, memoryVars, updaterVars>>

(* ... and its token goes down a stream on the tunnel of the device. *)
OpenStream(q) ==
  /\ qpc[q] = "granted"
  /\ \/ \E s \in LiveTunnel(qdev[q]) :
          /\ qpc' = [qpc EXCEPT ![q] = "forwarding"]
          /\ qsess' = [qsess EXCEPT ![q] = s]
          /\ UNCHANGED <<qdev, qsecret, qproof>>
     \/ RequestReturns(q)
  /\ UNCHANGED <<vars, now, memoryVars, updaterVars>>

FinishRequest(q) ==
  /\ qpc[q] = "forwarding"
  /\ RequestReturns(q)
  /\ UNCHANGED <<vars, now, memoryVars, updaterVars>>

-----------------------------------------------------------------------------

UpdaterStep(u) ==
  \/ \E d \in Desktop, sid \in Session, c \in Credential :
       UpdateLookup(u, d, sid, c)
  \/ UpdateReplace(u)
  \/ UpdateRecheck(u)
  \/ UpdateCloses(u)

RequestStep(q) ==
  \/ \E d \in Desktop, proof \in 1..(MaxTime + 1) :
       BootstrapLookup(q, d, proof)
  \/ \E k \in Secret, token \in Credential : CreateCookie(q, k, token)
  \/ \E d \in Desktop, k \in Secret : PageLookup(q, d, k)
  \/ Logout(q)
  \/ CheckCookie(q)
  \/ OpenStream(q)
  \/ FinishRequest(q)

CredNext ==
  \/ TunnelStep
  \/ \E s \in Session, d \in Desktop, c \in Credential :
       AuthorizeWithCredential(s, d, c)
  \/ Tick
  \/ CrashAll
  \/ \E u \in Updater : UpdaterStep(u)
  \/ \E q \in Request : RequestStep(q)

CredSpec == CredInit /\ [][CredNext]_allVars

-----------------------------------------------------------------------------
(* Properties.                                                             *)

(* Types, and the limit of what a tunnel keeps of cookies, however         *)
(* bootstraps, logouts and expiries alternate.                             *)
CredTypeOK ==
  /\ now \in Time
  /\ cred \in [Session -> Credential \cup {NoCredential}]
  /\ jar \in [Session -> SUBSET Secret]
  /\ \A s \in Session : Cardinality(jar[s]) <= MaxCookies
  /\ cookie \in [Secret -> CookieSession \cup {NoCookie}]
  /\ upc \in [Updater -> {"idle", "resolved", "replaced", "closing"}]
  /\ udev \in [Updater -> Desktop \cup {NoKey}]
  /\ usid \in [Updater -> Session \cup {NoSession}]
  /\ ucred \in [Updater -> Credential \cup {NoCredential}]
  /\ qpc \in [Request -> {"idle", "bootstrap", "page", "granted", "forwarding"}]
  /\ qdev \in [Request -> Desktop \cup {NoKey}]
  /\ qsecret \in [Request -> Secret \cup {NoSecret}]
  /\ qproof \in [Request -> 0..(MaxTime + 1)]
  /\ qsess \in [Request -> Session \cup {NoSession}]

(* The cookies of a tunnel never outlive its credential, and never are     *)
(* good for another local device, whatever updates came after them.        *)
CookieWithinCredential ==
  \A s \in Session : \A k \in jar[s] :
    /\ cred[s] # NoCredential
    /\ cookie[k].expires <= cred[s].expires
    /\ cookie[k].token.device = cred[s].device

(* An update changes the tunnel it names or none: neither a tunnel that    *)
(* has taken the place of it nor one that is closed.                       *)
UpdateStaysWithTunnel ==
  [][\A s \in Session :
       pc[s] \in Registered /\ cred'[s] \notin {cred[s], NoCredential} =>
         s \notin closed /\ \E u \in Updater : usid[u] = s /\ ucred[u] = cred'[s]]_allVars

(* A request that is being forwarded to a revoked Desktop is about to be   *)
(* cut off: its tunnel is closed or somebody is on the way to close it.    *)
RevokedStreamIsDoomed ==
  \A q \in Request :
    qpc[q] = "forwarding" /\ revoked[qdev[q]] /\ qsess[q] \notin closed =>
      \/ Doomed(qdev[q], qsess[q])
      \/ \E t \in Session : pc[t] = "replacing" /\ old[t] = qsess[q]

(* Credentials, cookies and the handlers that deal with them are invisible *)
(* to the sessions: what holds of TunnelSessions holds here.               *)
TunnelsUnaffected == Spec

=============================================================================

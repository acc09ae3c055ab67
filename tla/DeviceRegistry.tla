--------------------------- MODULE DeviceRegistry ----------------------------
(***************************************************************************)
(* The registry of devices, WebApps and routes.  A Desktop registers       *)
(* itself, and its WebApps, in a transaction that locks the row of the     *)
(* device; a row that does not exist cannot be locked, so two first        *)
(* registrations race and the loser finds out by a duplicate key.  Public  *)
(* hosts are drawn at random and drawn again on a conflict.  Meanwhile the *)
(* account's owner renames and revokes devices, and an administrator edits *)
(* routes.                                                                 *)
(*                                                                         *)
(* A transaction reads committed rows (READ COMMITTED; with SQLite nothing *)
(* runs in between at all) and its writes, which lock what they touch, are *)
(* one step with its commit.                                               *)
(***************************************************************************)
EXTENDS Naturals, Sequences

CONSTANTS
  Device,       \* an owner together with a display id
  App,          \* a device together with the name of a WebApp
  Home,         \* App -> its device
  DesktopHost,  \* labels under the Desktop base domain
  AppHost,      \* labels of the form <label>-wa under the WebApp base domain
  Client,       \* registrations that can be under way at once
  Attempts,     \* publicHostRetryLimit
  MaxTime,      \* bound of the clock
  MaxEdits,     \* bound of the administrator's edits
  Given,        \* names Desktops call themselves
  NoHost,
  NoOne

ASSUME HomeIsDevice    == Home \in [App -> Device]
ASSUME BoundsAreNat    == {Attempts, MaxTime} \subseteq Nat \ {0} /\ MaxEdits \in Nat
ASSUME KindsAreApart   == Device \cap App = {} /\ DesktopHost \cap AppHost = {}
ASSUME NothingIsNoHost == NoHost \notin DesktopHost \cup AppHost
ASSUME NoOneIsFresh    == NoOne \notin Device \cup App \cup Client
ASSUME HubNamesDiffer  == "hub" \notin Given

VARIABLES
  device,  \* desktop_devices: host, name, revoked (0 for NULL)
  app,     \* desktop_webapps: host, active, route
  route,   \* routes, in the order of insertion: host, token (has one), active
  lock,    \* Device -> the transaction that holds its row, or NoOne
  call,    \* Client -> its registration
  told,    \* <<device or WebApp, host>> pairs of every success answered
  now,     \* the clock, and what revoked_at and a login's start are read from
  edits

rows  == <<device, app, route>>
rvars == <<rows, lock, call, told, now, edits>>

Host   == DesktopHost \cup AppHost
NoRow  == [host |-> NoHost, name |-> "", revoked |-> 0]
NoApp  == [host |-> NoHost, active |-> FALSE, route |-> 0]
NoCall == [at |-> "idle", for |-> NoOne, started |-> 0, host |-> NoHost, tries |-> 0,
           seen |-> NoRow]

Deleted == [host |-> NoHost, token |-> FALSE, active |-> FALSE]

RInit ==
  /\ device = [d \in Device |-> NoRow]
  /\ app = [a \in App |-> NoApp]
  /\ route = << >>
  /\ lock = [d \in Device |-> NoOne]
  /\ call = [c \in Client |-> NoCall]
  /\ told = {}
  /\ now = 1
  /\ edits = 0

Known(d)      == device[d].host # NoHost
Published(a)  == app[a].host # NoHost
RoutesAt(h)   == {i \in DOMAIN route : route[i].host = h}
Target(c)     == IF call[c].for \in App THEN Home[call[c].for] ELSE call[c].for
At(c, place)  == call[c].at = place

-----------------------------------------------------------------------------
(* One call of registerDesktopDevice or registerDesktopWebApp.             *)

Releases(c) == lock' = [d \in Device |-> IF lock[d] = c THEN NoOne ELSE lock[d]]

(* Commit or rollback, and the answer.                                     *)
Ends(c) == call' = [call EXCEPT ![c] = NoCall] /\ Releases(c)

(* The answer may get lost on its way; that a client has it is the worse   *)
(* case.                                                                   *)
Tells(who, h) == told' = told \cup {<<who, h>>}

LastAttempt(c) == call[c].tries = Attempts

Anew(c) == [call[c] EXCEPT !.at = "begun", !.host = NoHost, !.seen = NoRow,
                           !.tries = call[c].tries + 1]

(* ErrDesktopDeviceHostConflict: the transaction is rolled back, and the   *)
(* next attempt draws another host.                                        *)
TryAgain(c) == IF LastAttempt(c) THEN Ends(c)
               ELSE call' = [call EXCEPT ![c] = Anew(c)] /\ Releases(c)

BeginDevice(c, d) ==
  /\ At(c, "idle")
  /\ \E start \in 1..now :
       call' = [call EXCEPT ![c] = [NoCall EXCEPT !.at = "begun", !.for = d,
                                                  !.started = start, !.tries = 1]]
  /\ UNCHANGED <<rows, lock, told, now, edits>>

BeginApp(c, a) ==
  /\ At(c, "idle")
  /\ call' = [call EXCEPT ![c] = [NoCall EXCEPT !.at = "begun", !.for = a, !.tries = 1]]
  /\ UNCHANGED <<rows, lock, told, now, edits>>

(* Mutant: no FOR UPDATE, on a database that runs transactions at once. *)
NeverWaits(d) == TRUE

Unlocked(d) == lock[d] = NoOne

(* SELECT ... FOR UPDATE by owner and display id.                          *)
LockDevice(c) ==
  /\ At(c, "begun")
  /\ Known(Target(c))
  /\ Unlocked(Target(c))
  /\ lock' = [lock EXCEPT ![Target(c)] = c]
  /\ call' = [call EXCEPT ![c].at = "locked", ![c].seen = device[Target(c)]]
  /\ UNCHANGED <<rows, told, now, edits>>

(* There is no such row: a WebApp ends with 404.                           *)
FindNoDevice(c) ==
  /\ At(c, "begun")
  /\ ~Known(Target(c))
  /\ IF call[c].for \in App THEN Ends(c)
     ELSE call' = [call EXCEPT ![c].at = "absent"] /\ UNCHANGED lock
  /\ UNCHANGED <<rows, told, now, edits>>

(* Mutant: a login as old as the revocation is let in. *)
NotOlder(c) == call[c].started >= call[c].seen.revoked

NewerLogin(c) == call[c].started > call[c].seen.revoked

Admitted(c) ==
  IF call[c].for \in App THEN call[c].seen.revoked = 0
  ELSE call[c].seen.revoked = 0 \/ NewerLogin(c)

RefuseRevoked(c) ==
  /\ At(c, "locked")
  /\ ~Admitted(c)
  /\ Ends(c)
  /\ UNCHANGED <<rows, told, now, edits>>

(* What updateDesktopDeviceTx leaves: the host and a name that is set stay.*)
Updated(c, name) ==
  [host    |-> call[c].seen.host,
   revoked |-> IF call[c].seen.revoked # 0 THEN 0 ELSE device[call[c].for].revoked,
   name    |-> IF call[c].seen.name # "" THEN call[c].seen.name ELSE name]

UpdateDevice(c) ==
  /\ At(c, "locked")
  /\ call[c].for \in Device
  /\ Admitted(c)
  /\ \E name \in Given :
       /\ device' = [device EXCEPT ![call[c].for] = Updated(c, name)]
       /\ Tells(call[c].for, Updated(c, name).host)
  /\ Ends(c)
  /\ UNCHANGED <<app, route, now, edits>>

(* Lookups by host do not see revoked devices.                             *)
DesktopAt(h) == {d \in Device : device[d].host = h /\ device[d].revoked = 0}

Available(h) == RoutesAt(h) = {} /\ DesktopAt(h) = {}

(* The host is drawn when the attempt begins; nothing looks at it before.  *)
CheckHost(c) ==
  /\ \/ At(c, "absent")
     \/ At(c, "locked") /\ call[c].for \in App /\ Admitted(c) /\ ~Published(call[c].for)
  /\ \E h \in IF call[c].for \in App THEN AppHost ELSE DesktopHost :
       IF Available(h)
       THEN call' = [call EXCEPT ![c].at = "checked", ![c].host = h] /\ UNCHANGED lock
       ELSE TryAgain(c)
  /\ UNCHANGED <<rows, told, now, edits>>

(* Mutant: hosts are not unique in the table of devices. *)
RowExists(c) == Known(call[c].for)

(* The device has a row, or some device, revoked or not, has the host.     *)
DuplicateDevice(c) ==
  Known(call[c].for) \/ \E d \in Device : device[d].host = call[c].host

InsertDevice(c) ==
  /\ At(c, "checked")
  /\ call[c].for \in Device
  /\ IF DuplicateDevice(c)
     THEN /\ call' = [call EXCEPT ![c].at = "lost"]
          /\ UNCHANGED <<device, lock, told>>
     ELSE /\ \E name \in Given :
               device' = [device EXCEPT ![call[c].for] =
                            [host |-> call[c].host, name |-> name, revoked |-> 0]]
          /\ Tells(call[c].for, call[c].host)
          /\ Ends(c)
  /\ UNCHANGED <<app, route, now, edits>>

(* Outside the failed transaction; a row revoked by now is not found.      *)
ReadWinner(c) ==
  /\ At(c, "lost")
  /\ IF Known(call[c].for) /\ device[call[c].for].revoked = 0
     THEN Ends(c) /\ Tells(call[c].for, device[call[c].for].host)
     ELSE TryAgain(c) /\ UNCHANGED told
  /\ UNCHANGED <<rows, now, edits>>

AppTaken(h) == \E a \in App : app[a].host = h

(* The route, then the WebApp; in one transaction, so both or neither.     *)
InsertApp(c) ==
  /\ At(c, "checked")
  /\ call[c].for \in App
  /\ RoutesAt(call[c].host) = {}
  /\ ~AppTaken(call[c].host)
  /\ \E on \in BOOLEAN :
       /\ route' = Append(route, [host |-> call[c].host, token |-> FALSE, active |-> on])
       /\ app' = [app EXCEPT ![call[c].for] =
                    [host |-> call[c].host, active |-> on, route |-> Len(route) + 1]]
  /\ Tells(call[c].for, call[c].host)
  /\ Ends(c)
  /\ UNCHANGED <<device, now, edits>>

(* Mutant: the route was inserted outside the transaction. *)
RouteStays(c) ==
  IF RoutesAt(call[c].host) = {}
  THEN route' = Append(route, [host |-> call[c].host, token |-> FALSE, active |-> TRUE])
  ELSE UNCHANGED route

RolledBack(c) == UNCHANGED route

(* A duplicate key of either insert; desktopHostError.                     *)
InsertAppFails(c) ==
  /\ At(c, "checked")
  /\ call[c].for \in App
  /\ RoutesAt(call[c].host) # {} \/ AppTaken(call[c].host)
  /\ RolledBack(c)
  /\ TryAgain(c)
  /\ UNCHANGED <<device, app, told, now, edits>>

Copied(a, on) == [app[a] EXCEPT !.active = on]

(* The route is given back the WebApp's host and loses an administrator's  *)
(* token.                                                                  *)
UpdateApp(c) ==
  /\ At(c, "locked")
  /\ call[c].for \in App
  /\ Admitted(c)
  /\ Published(call[c].for)
  /\ LET a == call[c].for IN
     /\ RoutesAt(app[a].host) \subseteq {app[a].route}
     /\ \E on \in BOOLEAN :
          /\ route' = [route EXCEPT ![app[a].route] =
                         [host |-> app[a].host, token |-> FALSE, active |-> on]]
          /\ app' = [app EXCEPT ![a] = Copied(a, on)]
     /\ Tells(a, app[a].host)
  /\ Ends(c)
  /\ UNCHANGED <<device, now, edits>>

(* Another route has that host by now: a duplicate key, but no conflict to *)
(* be tried again.                                                         *)
UpdateAppFails(c) ==
  /\ At(c, "locked")
  /\ call[c].for \in App
  /\ Admitted(c)
  /\ Published(call[c].for)
  /\ ~(RoutesAt(app[call[c].for].host) \subseteq {app[call[c].for].route})
  /\ Ends(c)
  /\ UNCHANGED <<rows, told, now, edits>>

(* Any statement may fail, and with it the transaction.                    *)
RegistrationFails(c) ==
  /\ ~At(c, "idle")
  /\ Ends(c)
  /\ UNCHANGED <<rows, told, now, edits>>

-----------------------------------------------------------------------------
(* The account's owner.                                                    *)

RenameAccountDesktop(d) ==
  /\ Known(d)
  /\ device[d].revoked = 0
  /\ Unlocked(d)
  /\ device' = [device EXCEPT ![d].name = "hub"]
  /\ UNCHANGED <<app, route, lock, call, told, now, edits>>

RevokeAccountDesktop(d) ==
  /\ Known(d)
  /\ device[d].revoked = 0
  /\ Unlocked(d)
  /\ device' = [device EXCEPT ![d].revoked = now]
  /\ UNCHANGED <<app, route, lock, call, told, now, edits>>

Tick ==
  /\ now < MaxTime
  /\ now' = now + 1
  /\ UNCHANGED <<rows, lock, call, told, edits>>

-----------------------------------------------------------------------------
(* The administrator, whose routes always have a token.  Publishing a      *)
(* service is one of these, after a lookup of the route by host.  Whether  *)
(* a route that is nobody's WebApp is switched on matters to nothing here. *)

Edits == edits < MaxEdits /\ edits' = edits + 1

CreateRoute(h) ==
  /\ Edits
  /\ RoutesAt(h) = {}
  /\ route' = Append(route, [host |-> h, token |-> TRUE, active |-> TRUE])
  /\ UNCHANGED <<device, app, lock, call, told, now>>

(* Of any route, those of WebApps included.                                *)
UpdateRoute(i, h, on) ==
  /\ Edits
  /\ route[i].host # NoHost
  /\ RoutesAt(h) \subseteq {i}
  /\ route' = [route EXCEPT ![i] = [host |-> h, token |-> TRUE, active |-> on]]
  /\ UNCHANGED <<device, app, lock, call, told, now>>

(* Refused by the foreign key when the route is a WebApp's.                *)
DeleteRoute(i) ==
  /\ Edits
  /\ route[i].host # NoHost
  /\ \A a \in App : app[a].route # i
  /\ route' = [route EXCEPT ![i] = Deleted]
  /\ UNCHANGED <<device, app, lock, call, told, now>>

-----------------------------------------------------------------------------
ClientStep(c) ==
  \/ FindNoDevice(c)
  \/ RefuseRevoked(c)
  \/ UpdateDevice(c)
  \/ CheckHost(c)
  \/ InsertDevice(c)
  \/ ReadWinner(c)
  \/ InsertApp(c)
  \/ InsertAppFails(c)
  \/ UpdateApp(c)
  \/ UpdateAppFails(c)

RNext ==
  \/ \E c \in Client :
       \/ \E d \in Device : BeginDevice(c, d)
       \/ \E a \in App : BeginApp(c, a)
       \/ LockDevice(c)
       \/ ClientStep(c)
       \/ RegistrationFails(c)
  \/ \E d \in Device : RenameAccountDesktop(d) \/ RevokeAccountDesktop(d)
  \/ Tick
  \/ \E h \in Host : CreateRoute(h)
  \/ \E i \in DOMAIN route, h \in Host, on \in BOOLEAN : UpdateRoute(i, h, on)
  \/ \E i \in DOMAIN route : DeleteRoute(i)

RSpec == RInit /\ [][RNext]_rvars

-----------------------------------------------------------------------------
RowType   == [host : DesktopHost \cup {NoHost}, name : Given \cup {"", "hub"}, revoked : 0..MaxTime]
AppType   == [host : AppHost \cup {NoHost}, active : BOOLEAN, route : Nat]
RouteType == [host : Host \cup {NoHost}, token : BOOLEAN, active : BOOLEAN]
CallType  == [at : {"idle", "begun", "absent", "locked", "checked", "lost"},
              for : Device \cup App \cup {NoOne}, started : 0..MaxTime,
              host : Host \cup {NoHost}, tries : 0..Attempts, seen : RowType]

RTypeOK ==
  /\ device \in [Device -> RowType]
  /\ app \in [App -> AppType]
  /\ route \in Seq(RouteType)
  /\ lock \in [Device -> Client \cup {NoOne}]
  /\ call \in [Client -> CallType]
  /\ told \subseteq (Device \cup App) \X Host
  /\ now \in 1..MaxTime
  /\ edits \in 0..MaxEdits

WebAppAt(h) ==
  {a \in App : /\ app[a].host = h
               /\ app[a].active
               /\ route[app[a].route].active
               /\ device[Home[a]].revoked = 0}

(* Where HandlePublic sends a request to a Desktop's or a WebApp's host.   *)
Answering(h) == DesktopAt(h) \cup WebAppAt(h)

HostOf(who) == IF who \in Device THEN device[who].host ELSE app[who].host

(* An address given to a client stays its device's or WebApp's: it is what *)
(* the registry still holds, and nobody else ever answers there -- through *)
(* lost races, redrawn hosts, revocations and an administrator's edits.    *)
AddressesHold ==
  \A t \in told : HostOf(t[1]) = t[2] /\ Answering(t[2]) \subseteq {t[1]}

(* The routes of WebApps and the WebApps themselves come and stay together:*)
(* a WebApp's route exists and is its own, a route without a token, which  *)
(* no agent serves, is some WebApp's, and the two copies of host and switch *)
(* agree unless an administrator's edit has left a token.                  *)
RoutesHaveApps ==
  /\ \A a \in App : Published(a) =>
       /\ app[a].route \in DOMAIN route
       /\ route[app[a].route].host # NoHost
       /\ \A b \in App : Published(b) /\ app[b].route = app[a].route => a = b
       /\ ~route[app[a].route].token =>
            /\ route[app[a].route].host = app[a].host
            /\ route[app[a].route].active = app[a].active
  /\ \A i \in DOMAIN route : route[i].host # NoHost /\ ~route[i].token =>
       \E a \in App : Published(a) /\ app[a].route = i

NeedsLock(c) == At(c, "locked") \/ (At(c, "checked") /\ call[c].for \in App)

(* A row is locked for nobody but a registration under way, which needs no *)
(* other lock to go on: nobody waits for ever.  The holder's view of the   *)
(* row is the row.                                                         *)
LocksAreHeld ==
  \A d \in Device, c \in Client :
    lock[d] = c => NeedsLock(c) /\ Target(c) = d /\ call[c].seen = device[d]

(* A revoked device comes back only by a login that began after that very  *)
(* revocation, whatever the registration had read before it.               *)
OldLoginStaysOut ==
  [][\A d \in Device : device[d].revoked # 0 /\ device'[d].revoked = 0 =>
       \E c \in Client : /\ call[c].for = d
                         /\ call'[c] = NoCall
                         /\ call[c].started > device[d].revoked]_rvars

(* A reconnecting Desktop never undoes a rename in the Hub.                *)
RenameStays ==
  [][\A d \in Device : device[d].name = "hub" => device'[d].name = "hub"]_rvars

=============================================================================

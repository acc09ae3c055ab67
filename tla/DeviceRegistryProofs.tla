------------------------ MODULE DeviceRegistryProofs -------------------------
(***************************************************************************)
(* Proofs about DeviceRegistry, for any number of devices, WebApps, hosts  *)
(* and registrations.                                                      *)
(***************************************************************************)
EXTENDS DeviceRegistry, TLAPS

(* What the position of a registration says about it.                      *)
Positions ==
  \A c \in Client :
    /\ ~At(c, "idle") => call[c].for \in Device \cup App
    /\ At(c, "absent") \/ At(c, "lost") => call[c].for \in Device
    /\ At(c, "checked") =>
         call[c].host \in IF call[c].for \in App THEN AppHost ELSE DesktopHost

(* A registration that relies on the row has it locked.                    *)
HasLock ==
  \A c \in Client : NeedsLock(c) => lock[Target(c)] = c

(* A device without a row has no lock, and nothing else either.            *)
NothingUnknown ==
  \A d \in Device : ~Known(d) => device[d] = NoRow /\ lock[d] = NoOne

LockInv == Positions /\ HasLock /\ NothingUnknown /\ LocksAreHeld

-----------------------------------------------------------------------------
(* The records written down in the actions are of their types.             *)

LEMMA BlankTypes == NoRow \in RowType /\ NoApp \in AppType /\ Deleted \in RouteType
  BY BoundsAreNat DEF NoRow, NoApp, Deleted, RowType, AppType, RouteType

LEMMA NoCallType == NoCall \in CallType
  BY BlankTypes, BoundsAreNat DEF NoCall, CallType

(* Numbers that the actions write are within the bounds.                   *)
LEMMA InBounds == 0 \in 0..MaxTime /\ 1 \in 0..Attempts /\ 1..MaxTime \subseteq 0..MaxTime
  BY BoundsAreNat

(* Replacing an element, or nothing, of a sequence.                        *)
LEMMA Replaced ==
  ASSUME NEW S, NEW s \in Seq(S), NEW i, NEW e \in S
  PROVE  [s EXCEPT ![i] = e] \in Seq(S)
  <1>1. CASE i \in DOMAIN s
    BY <1>1
  <1>2. CASE i \notin DOMAIN s
    <2>1. [s EXCEPT ![i] = e] = s
      BY <1>2
    <2>2. QED BY <2>1
  <1>3. QED BY <1>1, <1>2

(* Whether a registration ends or tries again, types are kept.             *)
LEMMA LeavesTyped ==
  ASSUME NEW c \in Client, RTypeOK, Ends(c) \/ TryAgain(c)
  PROVE  lock' \in [Device -> Client \cup {NoOne}] /\ call' \in [Client -> CallType]
  <1>1. lock' \in [Device -> Client \cup {NoOne}]
    BY DEF Ends, TryAgain, Releases, RTypeOK
  <1>2. CASE Ends(c)
    BY <1>1, <1>2, NoCallType DEF Ends, RTypeOK
  <1>3. CASE TryAgain(c) /\ ~LastAttempt(c)
    <2>1. call[c] \in CallType
      BY DEF RTypeOK
    <2>2. call[c].tries + 1 \in 0..Attempts
      BY <1>3, <2>1, BoundsAreNat DEF LastAttempt, CallType
    <2>3. Anew(c) \in CallType
      BY <2>1, <2>2, BlankTypes DEF CallType, Anew
    <2>4. QED BY <1>1, <1>3, <2>3 DEF RTypeOK, TryAgain
  <1>4. QED BY <1>2, <1>3 DEF TryAgain

-----------------------------------------------------------------------------
(* Every action keeps types, given what the positions say.                 *)

IInv == RTypeOK /\ LockInv

(* A registration that has locked its row knows it.                        *)
LEMMA HolderKnows ==
  ASSUME IInv, NEW c \in Client, NeedsLock(c)
  PROVE  /\ Target(c) \in Device
         /\ lock[Target(c)] = c
         /\ Known(Target(c))
         /\ call[c].seen = device[Target(c)]
         /\ call[c].seen.host \in DesktopHost
  <1>1. call[c].for \in Device \cup App
    BY DEF IInv, LockInv, Positions, At, NeedsLock
  <1>2. Target(c) \in Device
    BY <1>1, HomeIsDevice DEF Target
  <1>3. lock[Target(c)] = c /\ c # NoOne
    BY NoOneIsFresh DEF IInv, LockInv, HasLock
  <1>4. Known(Target(c)) /\ call[c].seen = device[Target(c)]
    BY <1>2, <1>3 DEF IInv, LockInv, NothingUnknown, LocksAreHeld
  <1>5. device[Target(c)].host \in DesktopHost
    BY <1>2, <1>4 DEF IInv, RTypeOK, RowType, Known
  <1>6. QED BY <1>2, <1>3, <1>4, <1>5

LEMMA TypeStep == IInv /\ [RNext]_rvars => RTypeOK'
  <1> SUFFICES ASSUME IInv, [RNext]_rvars PROVE RTypeOK'
    OBVIOUS
  <1> USE DEF IInv
  <1>1. ASSUME NEW c \in Client, NEW d \in Device, BeginDevice(c, d) PROVE RTypeOK'
    <2>1. PICK start \in 1..now :
            call' = [call EXCEPT ![c] = [NoCall EXCEPT !.at = "begun", !.for = d,
                                                       !.started = start, !.tries = 1]]
      BY <1>1 DEF BeginDevice
    <2>2. [NoCall EXCEPT !.at = "begun", !.for = d, !.started = start, !.tries = 1] \in CallType
      <3>1. start \in 0..MaxTime
        BY InBounds, BoundsAreNat DEF RTypeOK
      <3>2. QED BY <3>1, NoCallType, InBounds DEF CallType
    <2>3. QED BY <1>1, <2>1, <2>2 DEF BeginDevice, RTypeOK, rows
  <1>2. ASSUME NEW c \in Client, NEW a \in App, BeginApp(c, a) PROVE RTypeOK'
    <2>1. [NoCall EXCEPT !.at = "begun", !.for = a, !.tries = 1] \in CallType
      BY NoCallType, InBounds DEF CallType
    <2>2. QED BY <1>2, <2>1 DEF BeginApp, RTypeOK, rows
  <1>3. ASSUME NEW c \in Client, LockDevice(c) PROVE RTypeOK'
    <2>1. call[c] \in CallType /\ Target(c) \in Device
      BY <1>3, HomeIsDevice DEF RTypeOK, LockDevice, LockInv, Positions, Target, At
    <2>2. [call[c] EXCEPT !.at = "locked", !.seen = device[Target(c)]] \in CallType
      BY <2>1 DEF RTypeOK, CallType
    <2>3. call' = [call EXCEPT ![c] = [call[c] EXCEPT !.at = "locked", !.seen = device[Target(c)]]]
      BY <1>3, <2>1 DEF LockDevice, RTypeOK
    <2>4. QED BY <1>3, <2>1, <2>2, <2>3 DEF LockDevice, RTypeOK, rows
  <1>4. ASSUME NEW c \in Client, FindNoDevice(c) PROVE RTypeOK'
    <2>1. CASE Ends(c)
      BY <1>4, <2>1, LeavesTyped DEF FindNoDevice, RTypeOK, rows
    <2>2. CASE call' = [call EXCEPT ![c].at = "absent"] /\ UNCHANGED lock
      <3>1. [call[c] EXCEPT !.at = "absent"] \in CallType
        BY DEF RTypeOK, CallType
      <3>2. call' = [call EXCEPT ![c] = [call[c] EXCEPT !.at = "absent"]]
        BY <2>2 DEF RTypeOK
      <3>3. QED BY <1>4, <2>2, <3>1, <3>2 DEF FindNoDevice, RTypeOK, rows
    <2>3. QED BY <1>4, <2>1, <2>2 DEF FindNoDevice
  <1>5. ASSUME NEW c \in Client, RefuseRevoked(c) \/ UpdateAppFails(c) \/ RegistrationFails(c)
        PROVE  RTypeOK'
    BY <1>5, LeavesTyped DEF RefuseRevoked, UpdateAppFails, RegistrationFails, RTypeOK, rows
  <1>6. ASSUME NEW c \in Client, UpdateDevice(c) PROVE RTypeOK'
    <2>1. PICK name \in Given : /\ device' = [device EXCEPT ![call[c].for] = Updated(c, name)]
                                /\ Tells(call[c].for, Updated(c, name).host)
      BY <1>6 DEF UpdateDevice
    <2>2. call[c] \in CallType /\ call[c].for \in Device
      BY <1>6 DEF UpdateDevice, RTypeOK
    <2>3. Updated(c, name) \in RowType
      <3>1. call[c].seen \in RowType /\ device[call[c].for] \in RowType
        BY <2>2 DEF RTypeOK, CallType
      <3>2. QED BY <3>1, InBounds DEF Updated, RowType
    <2>4. <<call[c].for, Updated(c, name).host>> \in (Device \cup App) \X Host
      BY <1>6, <2>2, HolderKnows DEF UpdateDevice, NeedsLock, Updated, Host
    <2>5. QED BY <1>6, <2>1, <2>2, <2>3, <2>4, LeavesTyped DEF UpdateDevice, Tells, RTypeOK, rows
  <1>7. ASSUME NEW c \in Client, CheckHost(c) PROVE RTypeOK'
    <2>1. CASE TryAgain(c)
      BY <1>7, <2>1, LeavesTyped DEF CheckHost, RTypeOK, rows
    <2>2. ASSUME NEW h \in Host, call' = [call EXCEPT ![c].at = "checked", ![c].host = h],
                 UNCHANGED lock
          PROVE  RTypeOK'
      <3>1. [call[c] EXCEPT !.at = "checked", !.host = h] \in CallType
        BY DEF RTypeOK, CallType
      <3>2. call' = [call EXCEPT ![c] = [call[c] EXCEPT !.at = "checked", !.host = h]]
        BY <2>2 DEF RTypeOK
      <3>3. QED BY <1>7, <2>2, <3>1, <3>2 DEF CheckHost, RTypeOK, rows
    <2>3. QED BY <1>7, <2>1, <2>2 DEF CheckHost, Host
  <1>8. ASSUME NEW c \in Client, InsertDevice(c) PROVE RTypeOK'
    <2>1. call[c].for \in Device /\ call[c].host \in DesktopHost
      BY <1>8, KindsAreApart DEF InsertDevice, LockInv, Positions
    <2>2. CASE call' = [call EXCEPT ![c].at = "lost"] /\ UNCHANGED <<device, lock, told>>
      <3>1. [call[c] EXCEPT !.at = "lost"] \in CallType
        BY DEF RTypeOK, CallType
      <3>2. call' = [call EXCEPT ![c] = [call[c] EXCEPT !.at = "lost"]]
        BY <2>2 DEF RTypeOK
      <3>3. QED BY <1>8, <2>2, <3>1, <3>2 DEF InsertDevice, RTypeOK
    <2>3. ASSUME NEW name \in Given, Ends(c), Tells(call[c].for, call[c].host),
                 device' = [device EXCEPT ![call[c].for] =
                              [host |-> call[c].host, name |-> name, revoked |-> 0]]
          PROVE  RTypeOK'
      <3>1. [host |-> call[c].host, name |-> name, revoked |-> 0] \in RowType
        BY <2>1, InBounds DEF RowType
      <3>2. QED BY <1>8, <2>1, <2>3, <3>1, LeavesTyped DEF InsertDevice, Tells, RTypeOK, Host
    <2>4. QED BY <1>8, <2>2, <2>3 DEF InsertDevice
  <1>9. ASSUME NEW c \in Client, ReadWinner(c) PROVE RTypeOK'
    <2>1. call[c].for \in Device
      BY <1>9 DEF ReadWinner, LockInv, Positions
    <2>2. Known(call[c].for) => <<call[c].for, device[call[c].for].host>> \in (Device \cup App) \X Host
      BY <2>1 DEF Known, RTypeOK, RowType, Host
    <2>3. told' \subseteq (Device \cup App) \X Host
      BY <1>9, <2>2 DEF ReadWinner, Tells, RTypeOK
    <2>4. QED BY <1>9, <2>3, LeavesTyped DEF ReadWinner, RTypeOK, rows
  <1>10. ASSUME NEW c \in Client, InsertApp(c) PROVE RTypeOK'
    <2>1. call[c].for \in App /\ call[c].host \in AppHost
      BY <1>10 DEF InsertApp, LockInv, Positions
    <2>2. PICK on \in BOOLEAN :
            /\ route' = Append(route, [host |-> call[c].host, token |-> FALSE, active |-> on])
            /\ app' = [app EXCEPT ![call[c].for] =
                         [host |-> call[c].host, active |-> on, route |-> Len(route) + 1]]
      BY <1>10 DEF InsertApp
    <2>3. [host |-> call[c].host, token |-> FALSE, active |-> on] \in RouteType
      BY <2>1 DEF RouteType, Host
    <2>4. [host |-> call[c].host, active |-> on, route |-> Len(route) + 1] \in AppType
      BY <2>1 DEF AppType, RTypeOK
    <2>5. route' \in Seq(RouteType) /\ app' \in [App -> AppType]
      <3>1. route' \in Seq(RouteType)
        BY <2>2, <2>3 DEF RTypeOK
      <3>2. app' \in [App -> AppType]
        BY <2>2, <2>4 DEF RTypeOK
      <3>3. QED BY <3>1, <3>2
    <2>6. told' \subseteq (Device \cup App) \X Host
      BY <1>10, <2>1 DEF InsertApp, Tells, RTypeOK, Host
    <2>7. QED BY <1>10, <2>5, <2>6, LeavesTyped DEF InsertApp, RTypeOK
  <1>11. ASSUME NEW c \in Client, InsertAppFails(c) PROVE RTypeOK'
    BY <1>11, LeavesTyped DEF InsertAppFails, RolledBack, RTypeOK
  <1>12. ASSUME NEW c \in Client, UpdateApp(c) PROVE RTypeOK'
    <2> DEFINE a == call[c].for
    <2>1. PICK on \in BOOLEAN :
            /\ route' = [route EXCEPT ![app[a].route] =
                           [host |-> app[a].host, token |-> FALSE, active |-> on]]
            /\ app' = [app EXCEPT ![a] = Copied(a, on)]
      BY <1>12 DEF UpdateApp
    <2>2. a \in App /\ app[a] \in AppType /\ app[a].host \in AppHost
      BY <1>12 DEF UpdateApp, RTypeOK, Published, AppType
    <2>3. [host |-> app[a].host, token |-> FALSE, active |-> on] \in RouteType
      BY <2>2 DEF RouteType, Host
    <2>4. Copied(a, on) \in AppType
      BY <2>2 DEF Copied, AppType
    <2>5. route' \in Seq(RouteType) /\ app' \in [App -> AppType]
      BY <2>1, <2>2, <2>3, <2>4, Replaced DEF RTypeOK
    <2>6. told' \subseteq (Device \cup App) \X Host
      BY <1>12, <2>2 DEF UpdateApp, Tells, RTypeOK, Host
    <2>7. QED BY <1>12, <2>5, <2>6, LeavesTyped DEF UpdateApp, RTypeOK
  <1>13. ASSUME NEW d \in Device, RenameAccountDesktop(d) PROVE RTypeOK'
    BY <1>13 DEF RenameAccountDesktop, RTypeOK, RowType
  <1>14. ASSUME NEW d \in Device, RevokeAccountDesktop(d) PROVE RTypeOK'
    <2>1. now \in 0..MaxTime /\ device[d] \in RowType
      BY InBounds DEF RTypeOK
    <2>2. [device[d] EXCEPT !.revoked = now] \in RowType
      BY <2>1 DEF RowType
    <2>3. device' = [device EXCEPT ![d] = [device[d] EXCEPT !.revoked = now]]
      BY <1>14 DEF RevokeAccountDesktop
    <2>4. QED BY <1>14, <2>2, <2>3 DEF RevokeAccountDesktop, RTypeOK
  <1>15. CASE Tick
    BY <1>15, BoundsAreNat DEF Tick, RTypeOK, rows
  <1>16. ASSUME NEW h \in Host, CreateRoute(h) PROVE RTypeOK'
    <2>1. [host |-> h, token |-> TRUE, active |-> TRUE] \in RouteType
      BY DEF RouteType
    <2>2. route' \in Seq(RouteType)
      BY <1>16, <2>1 DEF CreateRoute, RTypeOK
    <2>3. QED BY <1>16, <2>2, BoundsAreNat DEF CreateRoute, Edits, RTypeOK
  <1>17. ASSUME NEW i \in DOMAIN route, NEW h \in Host, NEW on \in BOOLEAN, UpdateRoute(i, h, on)
         PROVE  RTypeOK'
    <2>1. [host |-> h, token |-> TRUE, active |-> on] \in RouteType
      BY DEF RouteType
    <2>2. route' \in Seq(RouteType)
      BY <1>17, <2>1 DEF UpdateRoute, RTypeOK
    <2>3. QED BY <1>17, <2>2, BoundsAreNat DEF UpdateRoute, Edits, RTypeOK
  <1>18. ASSUME NEW i \in DOMAIN route, DeleteRoute(i) PROVE RTypeOK'
    <2>1. route' \in Seq(RouteType)
      BY <1>18, BlankTypes DEF DeleteRoute, RTypeOK
    <2>2. QED BY <1>18, <2>1, BoundsAreNat DEF DeleteRoute, Edits, RTypeOK
  <1>19. CASE UNCHANGED rvars
    BY <1>19 DEF rvars, rows, RTypeOK
  <1>20. QED BY <1>1, <1>2, <1>3, <1>4, <1>5, <1>6, <1>7, <1>8, <1>9, <1>10, <1>11, <1>12,
                <1>13, <1>14, <1>15, <1>16, <1>17, <1>18, <1>19 DEF RNext, ClientStep

-----------------------------------------------------------------------------
(* Every action keeps what is known of locks and positions.                *)

(* A registration that ends or tries again has no lock any more; rows it   *)
(* wrote are rows nobody has locked.                                       *)
LEMMA LeavesUnlocked ==
  ASSUME IInv, NEW c \in Client, ~At(c, "idle"), Ends(c) \/ TryAgain(c),
         \A d \in Device : device'[d] = device[d] \/ (lock'[d] = NoOne /\ device'[d].host # NoHost)
  PROVE  LockInv'
  <1> USE DEF IInv
  <1>1. /\ lock' = [d \in Device |-> IF lock[d] = c THEN NoOne ELSE lock[d]]
        /\ \A e \in Client \ {c} : call'[e] = call[e]
        /\ call'[c].at = "idle" \/ (call'[c].at = "begun" /\ call'[c].for = call[c].for)
    <2>1. CASE Ends(c)
      BY <2>1 DEF Ends, Releases, NoCall, RTypeOK
    <2>2. CASE TryAgain(c) /\ ~Ends(c)
      <3>1. call' = [call EXCEPT ![c] = Anew(c)] /\ Releases(c)
        BY <2>2 DEF TryAgain
      <3>2. call[c] \in CallType
        BY DEF RTypeOK
      <3>3. Anew(c).at = "begun" /\ Anew(c).for = call[c].for
        BY <3>2 DEF Anew, CallType
      <3>4. QED BY <3>1, <3>3 DEF Releases, RTypeOK
    <2>3. QED BY <2>1, <2>2
  <1>2. \A e \in Client \ {c} : Target(e)' = Target(e)
    BY <1>1 DEF Target
  <1>3. Positions'
    BY <1>1 DEF LockInv, Positions, At
  <1>4. HasLock'
    <2> SUFFICES ASSUME NEW e \in Client,
                        NeedsLock(e)'
                 PROVE  lock'[Target(e)'] = e
      BY DEF HasLock
    <2>1. e # c
      BY <1>1 DEF At, NeedsLock
    <2>2. lock[Target(e)] = e /\ Target(e) \in Device
      BY <1>1, <2>1, HolderKnows DEF At, NeedsLock
    <2>3. QED BY <1>1, <1>2, <2>1, <2>2
  <1>5. NothingUnknown'
    BY <1>1 DEF LockInv, NothingUnknown, Known
  <1>6. LocksAreHeld'
    <2> SUFFICES ASSUME NEW d \in Device, NEW e \in Client, lock'[d] = e
                 PROVE  (NeedsLock(e) /\ Target(e) = d /\ call[e].seen = device[d])'
      BY DEF LocksAreHeld
    <2>1. e # c /\ lock[d] = e /\ e # NoOne
      BY <1>1, NoOneIsFresh
    <2>2. QED BY <1>1, <1>2, <2>1 DEF LockInv, LocksAreHeld, NeedsLock, At
  <1>7. QED BY <1>3, <1>4, <1>5, <1>6 DEF LockInv

(* Nothing changes for a registration that is not the one that acts.       *)
LEMMA OthersKeep ==
  ASSUME IInv, NEW c \in Client, NEW r, call' = [call EXCEPT ![c] = r],
         \A d \in Device : lock'[d] = lock[d] \/ (lock'[d] = c /\ lock[d] = NoOne),
         UNCHANGED device
  PROVE  \A e \in Client \ {c} :
           /\ call'[e] = call[e]
           /\ Target(e)' = Target(e)
           /\ \A d \in Device : lock'[d] = e <=> lock[d] = e
  BY NoOneIsFresh DEF IInv, RTypeOK, Target

(* A registration moves on, and with it neither rows nor locks change: it   *)
(* relies on its lock afterwards just when it did before.                  *)
LEMMA OneMoves ==
  ASSUME IInv, NEW c \in Client, NEW r, call' = [call EXCEPT ![c] = r], UNCHANGED <<device, lock>>,
         r.at # "idle" => r.for \in Device \cup App,
         r.at \in {"absent", "lost"} => r.for \in Device,
         r.at = "checked" => r.host \in IF r.for \in App THEN AppHost ELSE DesktopHost,
         r.at = "locked" \/ (r.at = "checked" /\ r.for \in App) <=> NeedsLock(c),
         NeedsLock(c) => r.for = call[c].for /\ r.seen = call[c].seen
  PROVE  LockInv'
  <1> USE DEF IInv, LockInv
  <1>1. /\ call'[c] = r
        /\ \A e \in Client \ {c} : call'[e] = call[e]
    BY DEF RTypeOK
  <1>2. NeedsLock(c)' <=> NeedsLock(c)
    BY <1>1 DEF NeedsLock, At
  <1>3. NeedsLock(c) => Target(c)' = Target(c)
    BY <1>1 DEF Target
  <1>4. \A e \in Client \ {c} : (NeedsLock(e)' <=> NeedsLock(e)) /\ Target(e)' = Target(e)
    BY <1>1 DEF NeedsLock, At, Target
  <1>5. Positions'
    <2> SUFFICES ASSUME NEW e \in Client
                 PROVE  (/\ ~At(e, "idle") => call[e].for \in Device \cup App
                         /\ At(e, "absent") \/ At(e, "lost") => call[e].for \in Device
                         /\ At(e, "checked") =>
                              call[e].host \in IF call[e].for \in App THEN AppHost ELSE DesktopHost)'
      BY DEF Positions
    <2>1. CASE e = c
      BY <1>1, <2>1 DEF At
    <2>2. CASE e # c
      BY <1>1, <2>2 DEF At, Positions
    <2>3. QED BY <2>1, <2>2
  <1>6. HasLock'
    BY <1>2, <1>3, <1>4 DEF HasLock
  <1>7. NothingUnknown'
    BY DEF NothingUnknown, Known
  <1>8. LocksAreHeld'
    BY <1>1, <1>2, <1>3, <1>4 DEF LocksAreHeld
  <1>9. QED BY <1>5, <1>6, <1>7, <1>8

LEMMA LockStep == IInv /\ [RNext]_rvars => LockInv'
  <1> SUFFICES ASSUME IInv, [RNext]_rvars PROVE LockInv'
    OBVIOUS
  <1>a. \A c \in Client, d \in Device : lock[d] = c => NeedsLock(c)
    BY DEF IInv, LockInv, LocksAreHeld
  <1>1. ASSUME NEW c \in Client, At(c, "idle"), NEW r, call' = [call EXCEPT ![c] = r],
               r.at = "begun", r.for \in Device \cup App, UNCHANGED <<device, lock>>
        PROVE  LockInv'
    BY <1>1, OneMoves DEF NeedsLock, At
  <1>2. ASSUME NEW c \in Client, NEW d \in Device, BeginDevice(c, d) PROVE LockInv'
    <2>1. PICK start \in 1..now :
            call' = [call EXCEPT ![c] = [NoCall EXCEPT !.at = "begun", !.for = d,
                                                       !.started = start, !.tries = 1]]
      BY <1>2 DEF BeginDevice
    <2> DEFINE r == [NoCall EXCEPT !.at = "begun", !.for = d, !.started = start, !.tries = 1]
    <2>2. r.at = "begun" /\ r.for = d
      BY DEF NoCall
    <2> HIDE DEF r
    <2>3. call' = [call EXCEPT ![c] = r] /\ At(c, "idle") /\ UNCHANGED <<device, lock>>
      BY <1>2, <2>1 DEF BeginDevice, rows, r
    <2>4. QED BY <1>1, <2>2, <2>3
  <1>3. ASSUME NEW c \in Client, NEW a \in App, BeginApp(c, a) PROVE LockInv'
    <2> DEFINE r == [NoCall EXCEPT !.at = "begun", !.for = a, !.tries = 1]
    <2>1. r.at = "begun" /\ r.for = a
      BY DEF NoCall
    <2>2. call' = [call EXCEPT ![c] = r] /\ At(c, "idle") /\ UNCHANGED <<device, lock>>
      BY <1>3 DEF BeginApp, rows
    <2> HIDE DEF r
    <2>3. QED BY <1>1, <2>1, <2>2
  <1>4. ASSUME NEW c \in Client, LockDevice(c) PROVE LockInv'
    <2> DEFINE d == Target(c)
    <2>1. d \in Device /\ call[c].for \in Device \cup App
      BY <1>4, HomeIsDevice DEF LockDevice, IInv, LockInv, Positions, Target, At
    <2>2. /\ call' = [call EXCEPT ![c] = [call[c] EXCEPT !.at = "locked", !.seen = device[d]]]
          /\ lock' = [lock EXCEPT ![d] = c]
          /\ lock[d] = NoOne /\ Known(d) /\ UNCHANGED device
      BY <1>4 DEF LockDevice, IInv, RTypeOK, Unlocked, rows
    <2>3. /\ call'[c] = [call[c] EXCEPT !.at = "locked", !.seen = device[d]]
          /\ lock'[d] = c
          /\ \A e \in Device \ {d} : lock'[e] = lock[e]
      BY <2>1, <2>2 DEF IInv, RTypeOK
    <2>4. call[c] \in CallType /\ \A e \in Device : lock[e] # c
      BY <1>4, <1>a DEF LockDevice, At, NeedsLock, IInv, RTypeOK
    <2>5. call'[c].at = "locked" /\ call'[c].seen = device[d] /\ call'[c].for = call[c].for
      BY <2>3, <2>4 DEF CallType
    <2>6. Target(c)' = d
      BY <2>5 DEF Target
    <2>7. \A e \in Client \ {c} : /\ call'[e] = call[e]
                                  /\ Target(e)' = Target(e)
                                  /\ \A f \in Device : lock'[f] = e <=> lock[f] = e
      BY <2>1, <2>2, <2>3, OthersKeep
    <2>8. Positions' /\ NothingUnknown'
      BY <2>1, <2>2, <2>3, <2>5, <2>7 DEF IInv, LockInv, Positions, NothingUnknown, At, Known
    <2>9. HasLock'
      <3> SUFFICES ASSUME NEW e \in Client,
                          NeedsLock(e)'
                   PROVE  lock'[Target(e)'] = e
        BY DEF HasLock
      <3>1. CASE e = c
        BY <2>3, <2>6, <3>1
      <3>2. CASE e # c
        BY <2>7, <3>2, HolderKnows DEF At, NeedsLock
      <3>3. QED BY <3>1, <3>2
    <2>10. LocksAreHeld'
      BY <2>1, <2>2, <2>3, <2>4, <2>5, <2>6, <2>7 DEF IInv, LockInv, LocksAreHeld, NeedsLock, At
    <2>11. QED BY <2>8, <2>9, <2>10 DEF LockInv
  <1>5. ASSUME NEW c \in Client, NEW place \in {"absent", "lost"}, call[c].for \in Device,
               At(c, "begun") \/ At(c, "checked"),
               call' = [call EXCEPT ![c].at = place], UNCHANGED <<device, lock>>
        PROVE  LockInv'
    <2> DEFINE r == [call[c] EXCEPT !.at = place]
    <2>1. r.at = place /\ r.for = call[c].for
      BY DEF IInv, RTypeOK, CallType
    <2>2. call' = [call EXCEPT ![c] = r]
      BY <1>5 DEF IInv, RTypeOK
    <2>3. ~NeedsLock(c) /\ call[c].for \notin App
      BY <1>5, KindsAreApart DEF NeedsLock, At
    <2> HIDE DEF r
    <2>4. QED BY <1>5, <2>1, <2>2, <2>3, OneMoves
  <1>6. ASSUME NEW c \in Client, FindNoDevice(c) PROVE LockInv'
    <2>1. CASE Ends(c)
      BY <1>6, <2>1, LeavesUnlocked DEF FindNoDevice, At, rows
    <2>2. CASE ~Ends(c)
      BY <1>5, <1>6, <2>2 DEF FindNoDevice, IInv, LockInv, Positions, At, rows
    <2>3. QED BY <2>1, <2>2
  <1>7. ASSUME NEW c \in Client,
               \/ RefuseRevoked(c) \/ ReadWinner(c) \/ InsertApp(c) \/ InsertAppFails(c)
               \/ UpdateApp(c) \/ UpdateAppFails(c) \/ RegistrationFails(c)
        PROVE  LockInv'
    <2>1. ~At(c, "idle") /\ (Ends(c) \/ TryAgain(c)) /\ UNCHANGED device
      BY <1>7 DEF RefuseRevoked, ReadWinner, InsertApp, InsertAppFails, UpdateApp,
                  UpdateAppFails, RegistrationFails, At, rows
    <2>2. QED BY <2>1, LeavesUnlocked
  <1>8. ASSUME NEW c \in Client, UpdateDevice(c) PROVE LockInv'
    <2> DEFINE d == call[c].for
    <2>1. PICK name \in Given : device' = [device EXCEPT ![d] = Updated(c, name)]
      BY <1>8 DEF UpdateDevice
    <2>2. At(c, "locked") /\ d \in Device /\ Ends(c)
      BY <1>8 DEF UpdateDevice
    <2>3. Target(c) = d
      BY <2>2, KindsAreApart DEF Target
    <2>4. lock[d] = c /\ call[c].seen.host \in DesktopHost
      BY <2>2, <2>3, HolderKnows DEF NeedsLock
    <2>5. lock'[d] = NoOne
      BY <2>2, <2>4 DEF Ends, Releases
    <2>6. device'[d].host # NoHost
      BY <2>1, <2>2, <2>4, NothingIsNoHost DEF Updated, IInv, RTypeOK
    <2>7. \A e \in Device \ {d} : device'[e] = device[e]
      BY <2>1 DEF IInv, RTypeOK
    <2>8. QED BY <2>2, <2>5, <2>6, <2>7, LeavesUnlocked DEF At
  <1>9. ASSUME NEW c \in Client, CheckHost(c) PROVE LockInv'
    <2>1. CASE Ends(c) \/ TryAgain(c)
      BY <1>9, <2>1, LeavesUnlocked DEF CheckHost, At, rows
    <2>2. ASSUME NEW h \in IF call[c].for \in App THEN AppHost ELSE DesktopHost,
                 call' = [call EXCEPT ![c].at = "checked", ![c].host = h], UNCHANGED lock
          PROVE  LockInv'
      <3> DEFINE r == [call[c] EXCEPT !.at = "checked", !.host = h]
      <3>1. r.at = "checked" /\ r.for = call[c].for /\ r.host = h /\ r.seen = call[c].seen
        BY DEF IInv, RTypeOK, CallType
      <3>2. call' = [call EXCEPT ![c] = r] /\ UNCHANGED <<device, lock>>
        BY <1>9, <2>2 DEF CheckHost, rows, IInv, RTypeOK
      <3>3. call[c].for \in Device \cup App
        BY <1>9 DEF CheckHost, IInv, LockInv, Positions, At
      <3>4. call[c].for \in App <=> NeedsLock(c)
        BY <1>9, KindsAreApart DEF CheckHost, NeedsLock, At, IInv, LockInv, Positions
      <3> HIDE DEF r
      <3>5. QED BY <2>2, <3>1, <3>2, <3>3, <3>4, OneMoves
    <2>3. QED BY <1>9, <2>1, <2>2 DEF CheckHost
  <1>10. ASSUME NEW c \in Client, InsertDevice(c) PROVE LockInv'
    <2> DEFINE d == call[c].for
    <2>1. At(c, "checked") /\ d \in Device
      BY <1>10 DEF InsertDevice
    <2>2. CASE call' = [call EXCEPT ![c].at = "lost"] /\ UNCHANGED <<device, lock>>
      BY <1>5, <2>1, <2>2
    <2>3. ASSUME NEW name \in Given, Ends(c), ~Known(d),
                 device' = [device EXCEPT ![d] = [host |-> call[c].host, name |-> name, revoked |-> 0]]
          PROVE  LockInv'
      <3>1. lock'[d] = NoOne
        BY <2>1, <2>3 DEF Ends, Releases, IInv, LockInv, NothingUnknown
      <3>2. device'[d].host # NoHost
        BY <2>1, <2>3, KindsAreApart, NothingIsNoHost DEF IInv, LockInv, Positions, RTypeOK
      <3>3. \A e \in Device \ {d} : device'[e] = device[e]
        BY <2>3 DEF IInv, RTypeOK
      <3>4. QED BY <2>1, <2>3, <3>1, <3>2, <3>3, LeavesUnlocked DEF At
    <2>4. QED BY <1>10, <2>2, <2>3 DEF InsertDevice, DuplicateDevice
  <1>11. ASSUME NEW d \in Device, Unlocked(d), Known(d), UNCHANGED <<lock, call>>,
                NEW row, row.host = device[d].host, device' = [device EXCEPT ![d] = row]
         PROVE  LockInv'
    <2>1. device'[d] = row /\ \A e \in Device \ {d} : device'[e] = device[e]
      BY <1>11 DEF IInv, RTypeOK
    <2>2. Positions' /\ HasLock'
      BY <1>11 DEF IInv, LockInv, Positions, HasLock, NeedsLock, At, Target
    <2>3. NothingUnknown'
      BY <1>11, <2>1 DEF IInv, LockInv, NothingUnknown, Known
    <2>4. LocksAreHeld'
      BY <1>11, <2>1, NoOneIsFresh DEF IInv, LockInv, LocksAreHeld, NeedsLock, At, Target, Unlocked
    <2>5. QED BY <2>2, <2>3, <2>4 DEF LockInv
  <1>12. ASSUME NEW d \in Device, RenameAccountDesktop(d) PROVE LockInv'
    <2>1. device' = [device EXCEPT ![d] = [device[d] EXCEPT !.name = "hub"]]
      BY <1>12 DEF RenameAccountDesktop
    <2>2. [device[d] EXCEPT !.name = "hub"].host = device[d].host
      BY DEF IInv, RTypeOK, RowType
    <2>3. QED BY <1>11, <1>12, <2>1, <2>2 DEF RenameAccountDesktop
  <1>13. ASSUME NEW d \in Device, RevokeAccountDesktop(d) PROVE LockInv'
    <2>1. device' = [device EXCEPT ![d] = [device[d] EXCEPT !.revoked = now]]
      BY <1>13 DEF RevokeAccountDesktop
    <2>2. [device[d] EXCEPT !.revoked = now].host = device[d].host
      BY DEF IInv, RTypeOK, RowType
    <2>3. QED BY <1>11, <1>13, <2>1, <2>2 DEF RevokeAccountDesktop
  <1>14. ASSUME UNCHANGED <<device, lock, call>> PROVE LockInv'
    BY <1>14 DEF IInv, LockInv, Positions, HasLock, NothingUnknown, LocksAreHeld, NeedsLock,
                 Known, At, Target
  <1>15. QED
    BY <1>2, <1>3, <1>4, <1>6, <1>7, <1>8, <1>9, <1>10, <1>12, <1>13, <1>14
    DEF RNext, ClientStep, Tick, CreateRoute, UpdateRoute, DeleteRoute, rvars, rows

-----------------------------------------------------------------------------
(* The invariant holds at the beginning.                                   *)
LEMMA InitInv == RInit => IInv
  BY BlankTypes, NoCallType, BoundsAreNat, NoOneIsFresh
  DEF RInit, IInv, RTypeOK, LockInv, Positions, HasLock, NothingUnknown, LocksAreHeld, NeedsLock,
      Known, At, NoCall

(* The invariant from which the theorems follow.                           *)
THEOREM Inductive == RSpec => []IInv
  <1>1. IInv /\ [RNext]_rvars => IInv'
    BY TypeStep, LockStep DEF IInv
  <1>2. QED BY InitInv, <1>1, PTL DEF RSpec

(* Every value the registry ever holds is of its type.                     *)
THEOREM RegistryTypeCorrect == RSpec => []RTypeOK
  <1>1. IInv => RTypeOK
    BY DEF IInv
  <1>2. QED BY Inductive, <1>1, PTL

(* A row's lock is always that of a registration under way which needs     *)
(* none other, and what that registration has read is what the row holds.  *)
THEOREM LocksAreAlwaysHeld == RSpec => []LocksAreHeld
  <1>1. IInv => LocksAreHeld
    BY DEF IInv, LockInv
  <1>2. QED BY Inductive, <1>1, PTL

-----------------------------------------------------------------------------
(* Who writes the row of a device, and what.                               *)

(* Four actions write rows of devices.                                     *)
LEMMA DeviceWriters ==
  ASSUME [RNext]_rvars
  PROVE  \/ UNCHANGED device
         \/ \E c \in Client : UpdateDevice(c) \/ InsertDevice(c)
         \/ \E d \in Device : RenameAccountDesktop(d) \/ RevokeAccountDesktop(d)
  BY DEF RNext, ClientStep, BeginDevice, BeginApp, LockDevice, FindNoDevice, RefuseRevoked,
         CheckHost, ReadWinner, InsertApp, InsertAppFails, UpdateApp, UpdateAppFails,
         RegistrationFails, Tick, CreateRoute, UpdateRoute, DeleteRoute, rvars, rows

(* An update keeps the host, and a name that is set; it lets a revoked     *)
(* device in only for a login that began after the revocation.             *)
LEMMA Updates ==
  ASSUME IInv, NEW c \in Client, UpdateDevice(c)
  PROVE  LET d == call[c].for IN
         /\ d \in Device /\ Known(d)
         /\ device'[d].host = device[d].host
         /\ device[d].name = "hub" => device'[d].name = "hub"
         /\ device[d].revoked = 0 \/ call[c].started > device[d].revoked
         /\ call'[c] = NoCall
         /\ \A e \in Device \ {d} : device'[e] = device[e]
  <1> DEFINE d == call[c].for
  <1>1. d \in Device /\ At(c, "locked") /\ Admitted(c) /\ Ends(c)
    BY DEF UpdateDevice
  <1>2. Target(c) = d
    BY <1>1, KindsAreApart DEF Target
  <1>3. Known(d) /\ call[c].seen = device[d]
    BY <1>1, <1>2, HolderKnows DEF NeedsLock
  <1>4. PICK name \in Given : device' = [device EXCEPT ![d] = Updated(c, name)]
    BY DEF UpdateDevice
  <1>5. device'[d] = Updated(c, name) /\ \A e \in Device \ {d} : device'[e] = device[e]
    BY <1>1, <1>4 DEF IInv, RTypeOK
  <1>6. device[d].revoked = 0 \/ call[c].started > device[d].revoked
    BY <1>1, <1>3, KindsAreApart DEF Admitted, NewerLogin
  <1>7. call'[c] = NoCall
    BY <1>1 DEF Ends, IInv, RTypeOK
  <1>8. device'[d].host = device[d].host
    <2>1. Updated(c, name).host = call[c].seen.host
      BY DEF Updated
    <2>2. QED BY <1>3, <1>5, <2>1
  <1>9. ASSUME device[d].name = "hub" PROVE device'[d].name = "hub"
    <2>1. call[c].seen.name = "hub" /\ "hub" # ""
      BY <1>3, <1>9
    <2>2. QED BY <1>5, <2>1 DEF Updated
  <1>10. QED BY <1>1, <1>3, <1>5, <1>6, <1>7, <1>8, <1>9

(* An insertion writes only a row that was not there, with a host no other *)
(* device has.                                                             *)
LEMMA Inserts ==
  ASSUME IInv, NEW c \in Client, InsertDevice(c), ~UNCHANGED device
  PROVE  LET d == call[c].for IN
         /\ d \in Device
         /\ ~Known(d) /\ device[d].name = "" /\ device[d].revoked = 0
         /\ device'[d].host = call[c].host
         /\ call[c].host # NoHost
         /\ \A e \in Device : device[e].host # call[c].host
         /\ \A e \in Device \ {d} : device'[e] = device[e]
  <1> DEFINE d == call[c].for
  <1>1. d \in Device /\ At(c, "checked") /\ ~DuplicateDevice(c)
    BY DEF InsertDevice
  <1>2. ~Known(d) /\ \A e \in Device : device[e].host # call[c].host
    BY <1>1 DEF DuplicateDevice
  <1>2a. device[d].name = "" /\ device[d].revoked = 0
    <2>1. device[d] = NoRow
      BY <1>1, <1>2 DEF IInv, LockInv, NothingUnknown
    <2>2. NoRow.name = "" /\ NoRow.revoked = 0
      BY DEF NoRow
    <2>3. QED BY <2>1, <2>2
  <1>3. call[c].host # NoHost
    BY <1>1, KindsAreApart, NothingIsNoHost DEF IInv, LockInv, Positions
  <1>4. PICK name \in Given :
          device' = [device EXCEPT ![d] = [host |-> call[c].host, name |-> name, revoked |-> 0]]
    BY <1>1 DEF InsertDevice
  <1>5. device'[d].host = call[c].host /\ \A e \in Device \ {d} : device'[e] = device[e]
    BY <1>1, <1>4 DEF IInv, RTypeOK
  <1>6. QED BY <1>1, <1>2, <1>2a, <1>3, <1>5

(* The owner's actions write the name, or the time of the revocation.      *)
LEMMA OwnerWrites ==
  ASSUME IInv, NEW d \in Device, RenameAccountDesktop(d) \/ RevokeAccountDesktop(d)
  PROVE  /\ device[d].revoked = 0
         /\ device'[d].host = device[d].host
         /\ device[d].name = "hub" => device'[d].name = "hub"
         /\ \A e \in Device \ {d} : device'[e] = device[e]
  <1>1. device[d] \in RowType
    BY DEF IInv, RTypeOK
  <1>2. CASE RenameAccountDesktop(d)
    <2>1. device' = [device EXCEPT ![d] = [device[d] EXCEPT !.name = "hub"]] /\ device[d].revoked = 0
      BY <1>2 DEF RenameAccountDesktop
    <2>2. QED BY <1>1, <2>1 DEF IInv, RTypeOK, RowType
  <1>3. CASE RevokeAccountDesktop(d)
    <2>1. device' = [device EXCEPT ![d] = [device[d] EXCEPT !.revoked = now]] /\ device[d].revoked = 0
      BY <1>3 DEF RevokeAccountDesktop
    <2>2. QED BY <1>1, <2>1 DEF IInv, RTypeOK, RowType
  <1>4. QED BY <1>2, <1>3

(* A revoked device comes back only through a registration whose login     *)
(* began after that revocation: README's promise that an older login can   *)
(* not restore the device.                                                 *)
THEOREM OldLoginsStayOut == RSpec => OldLoginStaysOut
  <1> DEFINE Step == \A d \in Device : device[d].revoked # 0 /\ device'[d].revoked = 0 =>
                       \E c \in Client : /\ call[c].for = d
                                         /\ call'[c] = NoCall
                                         /\ call[c].started > device[d].revoked
  <1>1. IInv /\ [RNext]_rvars => Step
    <2> SUFFICES ASSUME IInv, [RNext]_rvars, NEW d \in Device,
                        device[d].revoked # 0, device'[d].revoked = 0
                 PROVE  \E c \in Client : /\ call[c].for = d
                                         /\ call'[c] = NoCall
                                         /\ call[c].started > device[d].revoked
      OBVIOUS
    <2>1. ASSUME NEW c \in Client, UpdateDevice(c)
          PROVE  call[c].for = d /\ call'[c] = NoCall /\ call[c].started > device[d].revoked
      BY <2>1, Updates
    <2>2. ASSUME NEW c \in Client, InsertDevice(c), ~UNCHANGED device PROVE FALSE
      BY <2>2, Inserts
    <2>3. ASSUME NEW e \in Device, RenameAccountDesktop(e) \/ RevokeAccountDesktop(e) PROVE FALSE
      BY <2>3, OwnerWrites
    <2>4. QED BY <2>1, <2>2, <2>3, DeviceWriters
  <1>2. QED BY <1>1, Inductive, PTL DEF RSpec, OldLoginStaysOut

(* A registration never undoes a rename in the Hub.                        *)
THEOREM RenamesStay == RSpec => RenameStays
  <1>1. IInv /\ [RNext]_rvars => \A d \in Device : device[d].name = "hub" => device'[d].name = "hub"
    <2> SUFFICES ASSUME IInv, [RNext]_rvars, NEW d \in Device, device[d].name = "hub"
                 PROVE  device'[d].name = "hub"
      OBVIOUS
    <2>1. ASSUME NEW c \in Client, UpdateDevice(c) PROVE device'[d].name = "hub"
      BY <2>1, Updates
    <2>2. ASSUME NEW c \in Client, InsertDevice(c), ~UNCHANGED device PROVE device'[d].name = "hub"
      BY <2>2, Inserts
    <2>3. ASSUME NEW e \in Device, RenameAccountDesktop(e) \/ RevokeAccountDesktop(e)
          PROVE  device'[d].name = "hub"
      BY <2>3, OwnerWrites
    <2>4. QED BY <2>1, <2>2, <2>3, DeviceWriters
  <1>2. QED BY <1>1, Inductive, PTL DEF RSpec, RenameStays

-----------------------------------------------------------------------------
(* The addresses: no two devices and no two WebApps have the same, and     *)
(* those answered to clients are never given up.  A WebApp about to be     *)
(* inserted has none yet, for its registration has its device locked.      *)

DevicesApart == \A d, e \in Device : Known(d) /\ device[d].host = device[e].host => d = e

AppsApart == \A a, b \in App : Published(a) /\ app[a].host = app[b].host => a = b

NotYet == \A c \in Client : At(c, "checked") /\ call[c].for \in App => ~Published(call[c].for)

ToldKept == \A t \in told : HostOf(t[1]) = t[2]

AInv == IInv /\ DevicesApart /\ AppsApart /\ NotYet /\ ToldKept

(* Addresses that are apart answer for one device or WebApp each.          *)
LEMMA ApartIsEnough == AInv => AddressesHold
  <1> SUFFICES ASSUME AInv, NEW t \in told, NEW x \in Answering(t[2])
               PROVE  HostOf(t[1]) = t[2] /\ x = t[1]
    BY DEF AddressesHold, AInv, ToldKept
  <1> USE DEF AInv, IInv
  <1>1. t[1] \in Device \cup App /\ t[2] \in Host /\ t[2] # NoHost /\ HostOf(t[1]) = t[2]
    BY NothingIsNoHost DEF RTypeOK, Host, ToldKept
  <1>2. /\ \A d \in Device : device[d].host \in DesktopHost \cup {NoHost}
        /\ \A a \in App : app[a].host \in AppHost \cup {NoHost}
    BY DEF RTypeOK, RowType, AppType
  <1>3. \/ x \in Device /\ device[x].host = t[2]
        \/ x \in App /\ app[x].host = t[2]
    BY DEF Answering, DesktopAt, WebAppAt
  <1>4. CASE t[1] \in Device
    <2>1. device[t[1]].host = t[2]
      BY <1>1, <1>4 DEF HostOf
    <2>2. x \in Device
      BY <1>1, <1>2, <1>3, <1>4, <2>1, KindsAreApart
    <2>3. QED BY <1>1, <1>3, <1>4, <2>1, <2>2, KindsAreApart DEF DevicesApart, Known
  <1>5. CASE t[1] \in App
    <2>1. app[t[1]].host = t[2]
      BY <1>1, <1>5, KindsAreApart DEF HostOf
    <2>2. x \in App
      BY <1>1, <1>2, <1>3, <1>5, <2>1, KindsAreApart
    <2>3. QED BY <1>1, <1>3, <1>5, <2>1, <2>2, KindsAreApart DEF AppsApart, Published
  <1>6. QED BY <1>1, <1>4, <1>5

(* No step takes a device's host away, or gives it to another device.      *)
LEMMA DeviceHostStep ==
  ASSUME IInv, DevicesApart, [RNext]_rvars
  PROVE  /\ DevicesApart'
         /\ \A d \in Device : Known(d) => device'[d].host = device[d].host
  <1>1. ASSUME \A d \in Device : device'[d].host = device[d].host
        PROVE  DevicesApart'
    BY <1>1 DEF DevicesApart, Known
  <1>2. ASSUME NEW c \in Client, UpdateDevice(c)
        PROVE  \A d \in Device : device'[d].host = device[d].host
    BY <1>2, Updates
  <1>3. ASSUME NEW e \in Device, RenameAccountDesktop(e) \/ RevokeAccountDesktop(e)
        PROVE  \A d \in Device : device'[d].host = device[d].host
    BY <1>3, OwnerWrites
  <1>4. ASSUME NEW c \in Client, InsertDevice(c), ~UNCHANGED device
        PROVE  DevicesApart' /\ \A d \in Device : Known(d) => device'[d].host = device[d].host
    <2> DEFINE i == call[c].for
    <2>1. /\ i \in Device /\ ~Known(i)
          /\ device'[i].host = call[c].host
          /\ \A e \in Device : device[e].host # call[c].host
          /\ \A e \in Device \ {i} : device'[e] = device[e]
      BY <1>4, Inserts
    <2>2. QED BY <2>1 DEF DevicesApart, Known
  <1>5. QED BY <1>1, <1>2, <1>3, <1>4, DeviceWriters DEF Known

(* Two actions write WebApps.                                              *)
LEMMA AppWriters ==
  ASSUME [RNext]_rvars
  PROVE  UNCHANGED app \/ \E c \in Client : InsertApp(c) \/ UpdateApp(c)
  BY DEF RNext, ClientStep, BeginDevice, BeginApp, LockDevice, FindNoDevice, RefuseRevoked,
         CheckHost, ReadWinner, UpdateDevice, InsertDevice, InsertAppFails,
         UpdateAppFails, RegistrationFails, RenameAccountDesktop, RevokeAccountDesktop,
         Tick, CreateRoute, UpdateRoute, DeleteRoute, rvars, rows

(* An update of a WebApp keeps its host.                                   *)
LEMMA AppUpdates ==
  ASSUME IInv, NEW c \in Client, UpdateApp(c)
  PROVE  \A a \in App : app'[a].host = app[a].host
  <1>1. PICK on \in BOOLEAN : app' = [app EXCEPT ![call[c].for] = Copied(call[c].for, on)]
    BY DEF UpdateApp
  <1>2. call[c].for \in App /\ app[call[c].for] \in AppType
    BY DEF UpdateApp, IInv, RTypeOK
  <1>3. Copied(call[c].for, on).host = app[call[c].for].host
    BY <1>2 DEF Copied, AppType
  <1>4. QED BY <1>1, <1>2, <1>3 DEF IInv, RTypeOK

(* An insertion publishes a WebApp under a host no other has.              *)
LEMMA AppInserts ==
  ASSUME IInv, NEW c \in Client, InsertApp(c)
  PROVE  LET a == call[c].for IN
         /\ a \in App /\ At(c, "checked")
         /\ app'[a].host = call[c].host
         /\ \A b \in App : app[b].host # call[c].host
         /\ \A b \in App \ {a} : app'[b] = app[b]
         /\ call'[c] = NoCall /\ \A e \in Client \ {c} : call'[e] = call[e]
  <1>1. PICK on \in BOOLEAN :
          app' = [app EXCEPT ![call[c].for] =
                    [host |-> call[c].host, active |-> on, route |-> Len(route) + 1]]
    BY DEF InsertApp
  <1>2. call[c].for \in App /\ At(c, "checked") /\ ~AppTaken(call[c].host) /\ Ends(c)
    BY DEF InsertApp
  <1>3. QED BY <1>1, <1>2 DEF AppTaken, Ends, IInv, RTypeOK

(* No step takes a WebApp's host away, or gives it to another WebApp.      *)
LEMMA AppHostStep ==
  ASSUME IInv, AppsApart, NotYet, [RNext]_rvars
  PROVE  /\ AppsApart'
         /\ \A a \in App : Published(a) => app'[a].host = app[a].host
  <1>1. ASSUME \A a \in App : app'[a].host = app[a].host
        PROVE  AppsApart'
    BY <1>1 DEF AppsApart, Published
  <1>2. ASSUME NEW c \in Client, UpdateApp(c)
        PROVE  \A a \in App : app'[a].host = app[a].host
    BY <1>2, AppUpdates
  <1>3. ASSUME NEW c \in Client, InsertApp(c)
        PROVE  AppsApart' /\ \A a \in App : Published(a) => app'[a].host = app[a].host
    <2> DEFINE i == call[c].for
    <2>1. /\ i \in App /\ At(c, "checked")
          /\ app'[i].host = call[c].host
          /\ \A b \in App : app[b].host # call[c].host
          /\ \A b \in App \ {i} : app'[b] = app[b]
      BY <1>3, AppInserts
    <2>2. ~Published(i)
      BY <2>1 DEF NotYet
    <2>3. QED BY <2>1, <2>2 DEF AppsApart, Published
  <1>4. QED BY <1>1, <1>2, <1>3, AppWriters

(* Only CheckHost takes a registration to where it may insert.             *)
LEMMA Checks ==
  ASSUME IInv, [RNext]_rvars, NEW c \in Client, At(c, "checked")'
  PROVE  \/ call'[c] = call[c]
         \/ CheckHost(c) /\ call'[c].for = call[c].for
  <1> USE DEF IInv
  <1>1. ASSUME NEW e \in Client, NEW r, call' = [call EXCEPT ![e] = r], r.at # "checked"
        PROVE  call'[c] = call[c]
    BY <1>1 DEF RTypeOK, At
  <1>2. ASSUME NEW e \in Client, Ends(e) \/ TryAgain(e) PROVE call'[c] = call[c]
    <2>1. NoCall.at # "checked" /\ Anew(e).at # "checked"
      BY DEF NoCall, Anew, RTypeOK, CallType
    <2>2. QED BY <1>1, <1>2, <2>1 DEF Ends, TryAgain
  <1>3. ASSUME NEW e \in Client, NEW d \in Device, BeginDevice(e, d) PROVE call'[c] = call[c]
    <2>1. PICK start \in 1..now :
            call' = [call EXCEPT ![e] = [NoCall EXCEPT !.at = "begun", !.for = d,
                                                       !.started = start, !.tries = 1]]
      BY <1>3 DEF BeginDevice
    <2>2. [NoCall EXCEPT !.at = "begun", !.for = d, !.started = start, !.tries = 1].at # "checked"
      BY DEF NoCall
    <2>3. QED BY <1>1, <2>1, <2>2
  <1>4. ASSUME NEW e \in Client, NEW a \in App, BeginApp(e, a) PROVE call'[c] = call[c]
    <2>1. [NoCall EXCEPT !.at = "begun", !.for = a, !.tries = 1].at # "checked"
      BY DEF NoCall
    <2>2. QED BY <1>1, <1>4, <2>1 DEF BeginApp
  <1>5. ASSUME NEW e \in Client, LockDevice(e) PROVE call'[c] = call[c]
    <2>1. call' = [call EXCEPT ![e] = [call[e] EXCEPT !.at = "locked", !.seen = device[Target(e)]]]
      BY <1>5 DEF LockDevice, RTypeOK
    <2>2. [call[e] EXCEPT !.at = "locked", !.seen = device[Target(e)]].at # "checked"
      BY DEF RTypeOK, CallType
    <2>3. QED BY <1>1, <2>1, <2>2
  <1>6. ASSUME NEW e \in Client, NEW place \in {"absent", "lost"},
               call' = [call EXCEPT ![e].at = place]
        PROVE  call'[c] = call[c]
    <2>1. call' = [call EXCEPT ![e] = [call[e] EXCEPT !.at = place]]
      BY <1>6 DEF RTypeOK
    <2>2. [call[e] EXCEPT !.at = place].at # "checked"
      BY DEF RTypeOK, CallType
    <2>3. QED BY <1>1, <2>1, <2>2
  <1>7. ASSUME NEW e \in Client, FindNoDevice(e) \/ InsertDevice(e) PROVE call'[c] = call[c]
    BY <1>2, <1>6, <1>7 DEF FindNoDevice, InsertDevice
  <1>8. ASSUME NEW e \in Client,
               \/ RefuseRevoked(e) \/ UpdateDevice(e) \/ ReadWinner(e) \/ InsertApp(e)
               \/ InsertAppFails(e) \/ UpdateApp(e) \/ UpdateAppFails(e) \/ RegistrationFails(e)
        PROVE  call'[c] = call[c]
    BY <1>2, <1>8 DEF RefuseRevoked, UpdateDevice, ReadWinner, InsertApp, InsertAppFails,
                      UpdateApp, UpdateAppFails, RegistrationFails
  <1>9. ASSUME NEW e \in Client, CheckHost(e)
        PROVE  call'[c] = call[c] \/ (CheckHost(c) /\ call'[c].for = call[c].for)
    <2>1. ASSUME NEW h, call' = [call EXCEPT ![e].at = "checked", ![e].host = h]
          PROVE  call'[c] = call[c] \/ (CheckHost(c) /\ call'[c].for = call[c].for)
      <3>1. call' = [call EXCEPT ![e] = [call[e] EXCEPT !.at = "checked", !.host = h]]
        BY <2>1 DEF RTypeOK
      <3>2. [call[e] EXCEPT !.at = "checked", !.host = h].for = call[e].for
        BY DEF RTypeOK, CallType
      <3>3. QED BY <1>9, <3>1, <3>2 DEF RTypeOK
    <2>2. QED BY <1>2, <1>9, <2>1 DEF CheckHost
  <1>10. QED
    BY <1>3, <1>4, <1>5, <1>7, <1>8, <1>9
    DEF RNext, ClientStep, RenameAccountDesktop, RevokeAccountDesktop, Tick, CreateRoute,
        UpdateRoute, DeleteRoute, rvars

(* A WebApp about to be inserted stays unpublished: whoever published it   *)
(* would hold the same lock.                                               *)
LEMMA NotYetStep == ASSUME IInv, NotYet, [RNext]_rvars PROVE NotYet'
  <1> SUFFICES ASSUME NEW c \in Client, At(c, "checked")', call'[c].for \in App
               PROVE  app'[call'[c].for].host = NoHost
    BY DEF NotYet, Published
  <1>1. CASE CheckHost(c) /\ call'[c].for = call[c].for
    <2>1. app' = app /\ ~Published(call[c].for)
      BY <1>1, KindsAreApart DEF CheckHost, rows, IInv, LockInv, Positions
    <2>2. QED BY <1>1, <2>1 DEF Published
  <1>2. CASE call'[c] = call[c]
    <2> DEFINE a == call[c].for
    <2>1. At(c, "checked") /\ a \in App /\ ~Published(a)
      BY <1>2 DEF At, NotYet
    <2>2. NeedsLock(c) /\ lock[Home[a]] = c
      BY <2>1, HolderKnows DEF NeedsLock, Target
    <2>3. ASSUME NEW e \in Client, InsertApp(e) PROVE app'[a] = app[a]
      <3>1. /\ call[e].for \in App /\ At(e, "checked")
            /\ \A b \in App \ {call[e].for} : app'[b] = app[b]
            /\ call'[e] = NoCall
        BY <2>3, AppInserts
      <3>2. lock[Home[call[e].for]] = e
        BY <3>1, HolderKnows DEF NeedsLock, Target
      <3>3. e # c
        BY <1>2, <2>1, <3>1 DEF At, NoCall
      <3>4. QED BY <2>1, <2>2, <3>1, <3>2, <3>3
    <2>4. ASSUME NEW e \in Client, UpdateApp(e) PROVE app'[a].host = app[a].host
      BY <2>1, <2>4, AppUpdates
    <2>5. app'[a].host = app[a].host
      BY <2>3, <2>4, AppWriters
    <2>6. QED BY <1>2, <2>1, <2>5 DEF Published
  <1>3. QED BY <1>1, <1>2, Checks

(* What is answered is what the registry then holds.                       *)
LEMMA TellsTruth ==
  ASSUME IInv, [RNext]_rvars, NEW t \in told', t \notin told
  PROVE  HostOf(t[1])' = t[2]
  <1> USE DEF IInv
  <1>1. ASSUME NEW c \in Client, UpdateDevice(c) PROVE HostOf(t[1])' = t[2]
    <2>1. PICK name \in Given : /\ device' = [device EXCEPT ![call[c].for] = Updated(c, name)]
                                /\ Tells(call[c].for, Updated(c, name).host)
      BY <1>1 DEF UpdateDevice
    <2>2. t = <<call[c].for, Updated(c, name).host>> /\ call[c].for \in Device
      BY <1>1, <2>1 DEF Tells, UpdateDevice
    <2>3. device'[call[c].for] = Updated(c, name)
      BY <2>1, <2>2 DEF RTypeOK
    <2>4. QED BY <2>2, <2>3 DEF HostOf
  <1>2. ASSUME NEW c \in Client, InsertDevice(c) PROVE HostOf(t[1])' = t[2]
    <2>1. t = <<call[c].for, call[c].host>> /\ call[c].for \in Device /\ Ends(c)
      BY <1>2 DEF InsertDevice, Tells
    <2>2. PICK name \in Given :
            device' = [device EXCEPT ![call[c].for] =
                         [host |-> call[c].host, name |-> name, revoked |-> 0]]
      BY <1>2, <2>1 DEF InsertDevice
    <2>3. device'[call[c].for].host = call[c].host
      BY <2>1, <2>2 DEF RTypeOK
    <2>4. QED BY <2>1, <2>3 DEF HostOf
  <1>3. ASSUME NEW c \in Client, ReadWinner(c) PROVE HostOf(t[1])' = t[2]
    <2>1. call[c].for \in Device
      BY <1>3 DEF ReadWinner, LockInv, Positions
    <2>2. t = <<call[c].for, device[call[c].for].host>> /\ device' = device
      BY <1>3 DEF ReadWinner, Tells, rows
    <2>3. QED BY <2>1, <2>2 DEF HostOf
  <1>4. ASSUME NEW c \in Client, InsertApp(c) PROVE HostOf(t[1])' = t[2]
    <2>1. t = <<call[c].for, call[c].host>>
      BY <1>4 DEF InsertApp, Tells
    <2>2. call[c].for \in App /\ app'[call[c].for].host = call[c].host
      BY <1>4, AppInserts
    <2>3. QED BY <2>1, <2>2, KindsAreApart DEF HostOf
  <1>5. ASSUME NEW c \in Client, UpdateApp(c) PROVE HostOf(t[1])' = t[2]
    <2>1. t = <<call[c].for, app[call[c].for].host>> /\ call[c].for \in App
      BY <1>5 DEF UpdateApp, Tells
    <2>2. app'[call[c].for].host = app[call[c].for].host
      BY <1>5, <2>1, AppUpdates
    <2>3. QED BY <2>1, <2>2, KindsAreApart DEF HostOf
  <1>6. \/ told' = told
        \/ \E c \in Client : \/ UpdateDevice(c) \/ InsertDevice(c) \/ ReadWinner(c)
                             \/ InsertApp(c) \/ UpdateApp(c)
    BY DEF RNext, ClientStep, BeginDevice, BeginApp, LockDevice, FindNoDevice, RefuseRevoked,
           CheckHost, InsertAppFails, UpdateAppFails, RegistrationFails, RenameAccountDesktop,
           RevokeAccountDesktop, Tick, CreateRoute, UpdateRoute, DeleteRoute, rvars
  <1>7. QED BY <1>1, <1>2, <1>3, <1>4, <1>5, <1>6

(* Addresses told before stay, and those told now are right.               *)
LEMMA ToldStep == ASSUME AInv, [RNext]_rvars PROVE ToldKept'
  <1> SUFFICES ASSUME NEW t \in told' PROVE HostOf(t[1])' = t[2]
    BY DEF ToldKept
  <1> USE DEF AInv
  <1>1. CASE t \in told
    <2>1. t[1] \in Device \cup App /\ HostOf(t[1]) = t[2] /\ t[2] # NoHost
      BY <1>1, NothingIsNoHost DEF IInv, RTypeOK, Host, ToldKept
    <2>2. CASE t[1] \in Device
      BY <2>1, <2>2, DeviceHostStep DEF HostOf, Known
    <2>3. CASE t[1] \in App
      BY <2>1, <2>3, KindsAreApart, AppHostStep DEF HostOf, Published
    <2>4. QED BY <2>1, <2>2, <2>3
  <1>2. CASE t \notin told
    BY <1>2, TellsTruth
  <1>3. QED BY <1>1, <1>2

(* An address given to a Desktop stays its own: the registry keeps it, and *)
(* no other device or WebApp ever answers there.                           *)
THEOREM AddressesAlwaysHold == RSpec => []AddressesHold
  <1>1. RInit => AInv
    <2> SUFFICES ASSUME RInit PROVE AInv
      OBVIOUS
    <2>1. \A d \in Device : ~Known(d)
      BY DEF RInit, Known, NoRow
    <2>2. \A a \in App : ~Published(a)
      BY DEF RInit, Published, NoApp
    <2>3. told = {}
      BY DEF RInit
    <2>4. QED BY InitInv, <2>1, <2>2, <2>3 DEF AInv, DevicesApart, AppsApart, NotYet, ToldKept
  <1>2. AInv /\ [RNext]_rvars => AInv'
    BY TypeStep, LockStep, DeviceHostStep, AppHostStep, NotYetStep, ToldStep DEF AInv, IInv
  <1>3. QED BY <1>1, <1>2, ApartIsEnough, PTL DEF RSpec

-----------------------------------------------------------------------------
(* Routes and WebApps.  RoutesHaveApps is inductive once a WebApp about to *)
(* be inserted is known to have no route yet.                              *)

(* A step that leaves the WebApps alone and writes one route that is       *)
(* nobody's, or leaves a token there, keeps them together.                 *)
LEMMA RoutesEdited ==
  ASSUME RoutesHaveApps, UNCHANGED app,
         NEW i, DOMAIN route \cup {i} = DOMAIN route',
         \A j \in DOMAIN route \ {i} : route'[j] = route[j],
         \/ route'[i].token /\ route'[i].host # NoHost
         \/ route'[i].host = NoHost /\ \A a \in App : app[a].route # i
  PROVE  RoutesHaveApps'
  <1>1. \A a \in App : Published(a)' <=> Published(a)
    BY DEF Published
  <1>2. \A j \in DOMAIN route' : j = i \/ (j \in DOMAIN route /\ route'[j] = route[j])
    OBVIOUS
  <1>3. ASSUME NEW a \in App, Published(a)
        PROVE  /\ app[a].route \in DOMAIN route'
               /\ route'[app[a].route].host # NoHost
               /\ ~route'[app[a].route].token =>
                    /\ route'[app[a].route].host = app[a].host
                    /\ route'[app[a].route].active = app[a].active
    <2>1. /\ app[a].route \in DOMAIN route
          /\ route[app[a].route].host # NoHost
          /\ ~route[app[a].route].token =>
               /\ route[app[a].route].host = app[a].host
               /\ route[app[a].route].active = app[a].active
      BY <1>3 DEF RoutesHaveApps
    <2>2. CASE app[a].route = i
      BY <2>1, <2>2
    <2>3. CASE app[a].route # i
      BY <2>1, <2>3
    <2>4. QED BY <2>2, <2>3
  <1>4. \A a, b \in App : Published(a) /\ Published(b) /\ app[b].route = app[a].route => a = b
    BY DEF RoutesHaveApps
  <1>5. ASSUME NEW j \in DOMAIN route', route'[j].host # NoHost, ~route'[j].token
        PROVE  \E a \in App : Published(a) /\ app[a].route = j
    <2>1. j \in DOMAIN route /\ route'[j] = route[j]
      BY <1>2, <1>5
    <2>2. QED BY <1>5, <2>1 DEF RoutesHaveApps
  <1>6. QED BY <1>1, <1>3, <1>4, <1>5 DEF RoutesHaveApps

(* Sequences that grow by one. *)
LEMMA Appended ==
  ASSUME NEW S, NEW s \in Seq(S), NEW e, NEW t, t = Append(s, e)
  PROVE  /\ DOMAIN t = DOMAIN s \cup {Len(s) + 1} /\ Len(s) + 1 \notin DOMAIN s
         /\ t[Len(s) + 1] = e
         /\ \A j \in DOMAIN s : t[j] = s[j]
  <1>1. Len(s) \in Nat /\ DOMAIN s = 1..Len(s) /\ DOMAIN t = 1..(Len(s) + 1)
    OBVIOUS
  <1>2. 1..(Len(s) + 1) = (1..Len(s)) \cup {Len(s) + 1} /\ Len(s) + 1 \notin 1..Len(s)
    BY <1>1
  <1>3. t[Len(s) + 1] = e /\ \A j \in 1..Len(s) : t[j] = s[j]
    BY <1>1
  <1>4. QED BY <1>1, <1>2, <1>3

(* What follows from RoutesHaveApps for one WebApp.                        *)
LEMMA OwnRoute ==
  ASSUME RoutesHaveApps, NEW a \in App, Published(a)
  PROVE  /\ app[a].route \in DOMAIN route
         /\ \A b \in App \ {a} : Published(b) => app[b].route # app[a].route
  BY DEF RoutesHaveApps

(* The WebApp and its route are inserted together.                         *)
LEMMA RouteInserted ==
  ASSUME AInv, RoutesHaveApps, NEW c \in Client, InsertApp(c)
  PROVE  RoutesHaveApps'
  <1> DEFINE x == call[c].for
             n == Len(route) + 1
  <1>1. PICK on \in BOOLEAN :
          /\ route' = Append(route, [host |-> call[c].host, token |-> FALSE, active |-> on])
          /\ app' = [app EXCEPT ![x] = [host |-> call[c].host, active |-> on, route |-> n]]
    BY DEF InsertApp
  <1>2. x \in App /\ At(c, "checked") /\ ~Published(x) /\ call[c].host # NoHost
    BY KindsAreApart, NothingIsNoHost
    DEF InsertApp, AInv, NotYet, IInv, LockInv, Positions
  <1>3. route \in Seq(RouteType) /\ app \in [App -> AppType]
    BY DEF AInv, IInv, RTypeOK
  <1>4. /\ DOMAIN route' = DOMAIN route \cup {n} /\ n \notin DOMAIN route
        /\ route'[n] = [host |-> call[c].host, token |-> FALSE, active |-> on]
        /\ \A j \in DOMAIN route : route'[j] = route[j]
    BY <1>1, <1>3, Appended
  <1>5. /\ app'[x] = [host |-> call[c].host, active |-> on, route |-> n]
        /\ \A b \in App \ {x} : app'[b] = app[b]
    BY <1>1, <1>2, <1>3
  <1> HIDE DEF x, n
  <1>6. \A b \in App : Published(b)' <=> Published(b) \/ b = x
    BY <1>2, <1>5 DEF Published
  <1>7. \A b \in App \ {x} : Published(b) => app[b].route \in DOMAIN route
    BY OwnRoute
  <1>8. ASSUME NEW a \in App, Published(a)'
        PROVE  /\ app'[a].route \in DOMAIN route'
               /\ route'[app'[a].route].host # NoHost
               /\ ~route'[app'[a].route].token =>
                    /\ route'[app'[a].route].host = app'[a].host
                    /\ route'[app'[a].route].active = app'[a].active
    <2>1. CASE a = x
      BY <1>2, <1>4, <1>5, <2>1
    <2>2. CASE a # x
      <3>1. Published(a) /\ app'[a] = app[a] /\ app[a].route \in DOMAIN route
        BY <1>5, <1>6, <1>7, <1>8, <2>2
      <3>2. route'[app[a].route] = route[app[a].route]
        BY <1>4, <3>1
      <3>3. QED BY <1>4, <3>1, <3>2 DEF RoutesHaveApps
    <2>3. QED BY <2>1, <2>2
  <1>9. ASSUME NEW a \in App, NEW b \in App, Published(a)', Published(b)',
               app'[b].route = app'[a].route
        PROVE  a = b
    <2>1. CASE a # x /\ b # x
      BY <1>5, <1>6, <1>9, <2>1 DEF RoutesHaveApps
    <2>2. CASE a = x \/ b = x
      BY <1>4, <1>5, <1>6, <1>7, <1>9, <2>2
    <2>3. QED BY <2>1, <2>2
  <1>10. ASSUME NEW j \in DOMAIN route', route'[j].host # NoHost, ~route'[j].token
         PROVE  \E a \in App : Published(a)' /\ app'[a].route = j
    <2>1. CASE j = n
      BY <1>2, <1>5, <1>6, <2>1
    <2>2. CASE j # n
      <3>1. PICK a \in App : Published(a) /\ app[a].route = j
        BY <1>4, <1>10, <2>2 DEF RoutesHaveApps
      <3>2. a # x
        BY <1>2, <3>1
      <3>3. QED BY <1>5, <1>6, <3>1, <3>2
    <2>3. QED BY <2>1, <2>2
  <1>11. QED BY <1>8, <1>9, <1>10 DEF RoutesHaveApps

(* An update gives the route back to its WebApp.                           *)
LEMMA RouteGivenBack ==
  ASSUME AInv, RoutesHaveApps, NEW c \in Client, UpdateApp(c)
  PROVE  RoutesHaveApps'
  <1> DEFINE x == call[c].for
             r == app[x].route
  <1>1. PICK on1 \in BOOLEAN :
          route' = [route EXCEPT ![r] = [host |-> app[x].host, token |-> FALSE, active |-> on1]]
          /\ app' = [app EXCEPT ![x] = Copied(x, on1)]
    BY DEF UpdateApp
  <1>2. x \in App /\ Published(x) /\ app[x].host # NoHost
    BY DEF UpdateApp, Published
  <1>3. route \in Seq(RouteType) /\ app \in [App -> AppType] /\ app[x] \in AppType
    BY <1>2 DEF AInv, IInv, RTypeOK
  <1>4. r \in DOMAIN route /\ \A b \in App \ {x} : Published(b) => app[b].route # r
    BY <1>2, OwnRoute
  <1>5. /\ DOMAIN route' = DOMAIN route
        /\ route'[r] = [host |-> app[x].host, token |-> FALSE, active |-> on1]
        /\ \A j \in DOMAIN route \ {r} : route'[j] = route[j]
    BY <1>1, <1>3, <1>4
  <1>6. /\ app'[x].host = app[x].host /\ app'[x].route = r /\ app'[x].active = on1
        /\ \A b \in App \ {x} : app'[b] = app[b]
    BY <1>1, <1>2, <1>3 DEF Copied, AppType
  <1> HIDE DEF r
  <1>7. \A b \in App : /\ Published(b)' <=> Published(b)
                       /\ app'[b].route = app[b].route
    <2>1. app[x].route = r BY DEF r
    <2>2. QED BY <1>6, <2>1 DEF Published
  <1>8. ASSUME NEW a \in App, Published(a)
        PROVE  /\ app[a].route \in DOMAIN route
               /\ route'[app[a].route].host # NoHost
               /\ ~route'[app[a].route].token =>
                    /\ route'[app[a].route].host = app'[a].host
                    /\ route'[app[a].route].active = app'[a].active
    <2>1. CASE a = x
      <3>1. app[x].route = r BY DEF r
      <3>2. QED BY <1>2, <1>4, <1>5, <1>6, <2>1, <3>1
    <2>2. CASE a # x
      <3>1. app'[a] = app[a] /\ app[a].route \in DOMAIN route \ {r}
        BY <1>4, <1>6, <1>8, <2>2, OwnRoute
      <3>2. route'[app[a].route] = route[app[a].route]
        BY <1>5, <3>1
      <3>3. QED BY <1>8, <3>1, <3>2 DEF RoutesHaveApps
    <2>3. QED BY <2>1, <2>2
  <1>9. ASSUME NEW j \in DOMAIN route, route'[j].host # NoHost, ~route'[j].token
        PROVE  \E a \in App : Published(a) /\ app[a].route = j
    <2>1. CASE j = r
      BY <1>2, <2>1 DEF r
    <2>2. CASE j # r
      BY <1>5, <1>9, <2>2 DEF RoutesHaveApps
    <2>3. QED BY <2>1, <2>2
  <1>10. \A a, b \in App : Published(a) /\ Published(b) /\ app[b].route = app[a].route => a = b
    BY DEF RoutesHaveApps
  <1>11. QED BY <1>5, <1>7, <1>8, <1>9, <1>10 DEF RoutesHaveApps

(* Actions that write routes.                                              *)
LEMMA RouteWriters ==
  ASSUME [RNext]_rvars
  PROVE  \/ UNCHANGED <<app, route>>
         \/ \E c \in Client : InsertApp(c) \/ UpdateApp(c)
         \/ \E h \in Host : CreateRoute(h)
         \/ \E i \in DOMAIN route, h \in Host, on \in BOOLEAN : UpdateRoute(i, h, on)
         \/ \E i \in DOMAIN route : DeleteRoute(i)
  <1>1. ASSUME NEW c \in Client,
               \/ \E d \in Device : BeginDevice(c, d)
               \/ \E a \in App : BeginApp(c, a)
               \/ LockDevice(c) \/ FindNoDevice(c) \/ RefuseRevoked(c) \/ UpdateDevice(c)
               \/ CheckHost(c) \/ InsertDevice(c) \/ ReadWinner(c) \/ InsertAppFails(c)
               \/ UpdateAppFails(c) \/ RegistrationFails(c)
        PROVE  UNCHANGED <<app, route>>
    <2>1. ASSUME NEW d \in Device, BeginDevice(c, d) PROVE UNCHANGED <<app, route>>
      BY <2>1 DEF BeginDevice, rows
    <2>2. ASSUME NEW a \in App, BeginApp(c, a) PROVE UNCHANGED <<app, route>>
      BY <2>2 DEF BeginApp, rows
    <2>3. CASE LockDevice(c)
      BY <2>3 DEF LockDevice, rows
    <2>4. CASE FindNoDevice(c)
      BY <2>4 DEF FindNoDevice, rows
    <2>5. CASE RefuseRevoked(c)
      BY <2>5 DEF RefuseRevoked, rows
    <2>6. CASE UpdateDevice(c)
      BY <2>6 DEF UpdateDevice, rows
    <2>7. CASE CheckHost(c)
      BY <2>7 DEF CheckHost, rows
    <2>8. CASE InsertDevice(c)
      BY <2>8 DEF InsertDevice, rows
    <2>9. CASE ReadWinner(c)
      BY <2>9 DEF ReadWinner, rows
    <2>10. CASE InsertAppFails(c)
      BY <2>10 DEF InsertAppFails, rows, RolledBack
    <2>11. CASE UpdateAppFails(c)
      BY <2>11 DEF UpdateAppFails, rows, RolledBack
    <2>12. CASE RegistrationFails(c)
      BY <2>12 DEF RegistrationFails, rows, RolledBack
    <2>13. QED BY <1>1, <2>1, <2>2, <2>3, <2>4, <2>5, <2>6, <2>7, <2>8, <2>9, <2>10, <2>11, <2>12
  <1>2. ASSUME \/ \E d \in Device : RenameAccountDesktop(d) \/ RevokeAccountDesktop(d)
               \/ Tick
        PROVE  UNCHANGED <<app, route>>
    BY <1>2 DEF RenameAccountDesktop, RevokeAccountDesktop, Tick, rows
  <1>3. QED BY <1>1, <1>2, Zenon DEF RNext, ClientStep, rvars, rows

LEMMA RouteStep ==
  ASSUME AInv, RoutesHaveApps, [RNext]_rvars
  PROVE  RoutesHaveApps'
  <1>t. route \in Seq(RouteType) /\ NoHost \notin Host
    BY NothingIsNoHost DEF AInv, IInv, RTypeOK, Host
  <1>1. CASE UNCHANGED <<app, route>>
    BY <1>1 DEF RoutesHaveApps, Published
  <1>2. ASSUME NEW h \in Host, CreateRoute(h) PROVE RoutesHaveApps'
    <2> DEFINE n == Len(route) + 1
    <2>1. route' = Append(route, [host |-> h, token |-> TRUE, active |-> TRUE]) /\ app' = app
      BY <1>2 DEF CreateRoute
    <2>2. /\ DOMAIN route \cup {n} = DOMAIN route'
          /\ \A j \in DOMAIN route \ {n} : route'[j] = route[j]
          /\ route'[n].token /\ route'[n].host # NoHost
      BY <1>t, <2>1, Appended
    <2> HIDE DEF n
    <2>3. QED BY <2>1, <2>2, RoutesEdited
  <1>3. ASSUME NEW i \in DOMAIN route, NEW h \in Host, NEW on \in BOOLEAN, UpdateRoute(i, h, on)
        PROVE  RoutesHaveApps'
    <2>1. route' = [route EXCEPT ![i] = [host |-> h, token |-> TRUE, active |-> on]] /\ app' = app
      BY <1>3 DEF UpdateRoute
    <2>2. /\ DOMAIN route \cup {i} = DOMAIN route'
          /\ \A j \in DOMAIN route \ {i} : route'[j] = route[j]
          /\ route'[i].token /\ route'[i].host # NoHost
      BY <1>t, <2>1
    <2>3. QED BY <2>1, <2>2, RoutesEdited
  <1>4. ASSUME NEW i \in DOMAIN route, DeleteRoute(i) PROVE RoutesHaveApps'
    <2>1. route' = [route EXCEPT ![i] = Deleted] /\ app' = app /\ \A a \in App : app[a].route # i
      BY <1>4 DEF DeleteRoute
    <2>2. /\ DOMAIN route \cup {i} = DOMAIN route'
          /\ \A j \in DOMAIN route \ {i} : route'[j] = route[j]
          /\ route'[i].host = NoHost
      BY <1>t, <2>1 DEF Deleted
    <2>3. QED BY <2>1, <2>2, RoutesEdited
  <1>5. QED BY <1>1, <1>2, <1>3, <1>4, RouteInserted, RouteGivenBack, RouteWriters

(* A WebApp's route is its own and agrees with it but for an               *)
(* administrator's edit, and no route of a WebApp is left behind.          *)
THEOREM RoutesStayWithApps == RSpec => []RoutesHaveApps
  <1>1. ASSUME RInit PROVE AInv /\ RoutesHaveApps
    <2> USE <1>1
    <2>1. \A d \in Device : ~Known(d)
      BY DEF RInit, Known, NoRow
    <2>2. \A a \in App : ~Published(a)
      BY DEF RInit, Published, NoApp
    <2>3. told = {} /\ DOMAIN route = {}
      <3>1. told = {} /\ route = <<>> BY DEF RInit
      <3>2. DOMAIN <<>> = {} OBVIOUS
      <3>3. QED BY <3>1, <3>2
    <2>4. AInv
      BY InitInv, <2>1, <2>2, <2>3 DEF AInv, DevicesApart, AppsApart, NotYet, ToldKept
    <2>5. QED BY <2>2, <2>3, <2>4 DEF RoutesHaveApps
  <1>2. AInv /\ RoutesHaveApps /\ [RNext]_rvars => (AInv /\ RoutesHaveApps)'
    BY TypeStep, LockStep, DeviceHostStep, AppHostStep, NotYetStep, ToldStep, RouteStep
    DEF AInv, IInv
  <1>3. QED BY <1>1, <1>2, PTL DEF RSpec
=============================================================================

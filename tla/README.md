# TLA+ project of the tunnel hub

The tunnel hub publishes services that run behind a NAT. A **relay** accepts
WebSocket connections ("tunnels") from **agents** and **Desktops**, multiplexes
streams over each, and forwards public requests down the tunnel their host
belongs to. It also keeps the devices of an account, bridges files between a
mobile client and a Desktop, and serves shared conversations. A Desktop's **public
page** is a React application that talks to the Desktop over a WebSocket through
its tunnel.

The modules here describe what the relay does where goroutines, database calls,
files and timers meet, and what the page does where clicks, answers, pushes, timers and
closing sockets meet in the browser's event loop. Every definition is written after the source; PROJECT.json
names the lines each of them stands for. Parsing, formatting, logging and the
copying of bodies are reduced to "succeeds" or "fails".

## 1. Inventory

| Part (source) | State | Operations | Meets |
|---|---|---|---|
| Tunnel sessions (`proxy/relay.go` HandleTunnel, serveTunnelSession) | a goroutine per connection, its yamux session, expiry timer, heartbeat, a row in `agent_sessions` / `desktop_sessions` | authenticate, write row, answer, register, recheck, wait, clear, end row | Manager, database, revocation |
| Connection Manager (`proxy/manager.go`, `mobile_account.go`) | `active` (key to tunnel), `keyBySession` (id to key), credentials and cookie sessions of each tunnel, one mutex | SetActive, Clear, CloseSession, ActiveFor, OpenStream, UpdatePlatformCredential, create / check / revoke cookie | everybody who looks a tunnel up |
| Desktop revocation (`desktop/account_routes.go`, `store/account_devices.go`) | `revoked_at` of a device | look up, UPDATE, find the live session, close it | sessions, registration |
| Platform credentials and cookies (`desktop/server.go` handleRegister, `relay.go` handleMobileWebAppPublic) | credential of a tunnel, at most 64 cookie sessions | update, bootstrap, logout, page request | Manager, tokens, clock |
| Multiplexed session (`third_party/yamux/yamux.go`) | map of streams, accept queue, one channel per stream, `closed`, `mu`, `closeOnce` | read loop, OpenStream, AcceptStream, Read, Stream.Close, Session.Close | peer, connection, users of streams |
| Conversation shares (`desktop/conversation_share*.go`, `store/conversation_shares.go`, `sharefiles/store.go`) | rows of shares, resources and claims; `.staging` and `shares` directories | create, revoke, clean up, page, attachment | database and file system, which share no transaction |
| Upload and resource bridges (`proxy/upload.go`, `proxy/resource.go`) | map of items with a ticket, a timer and a temporary file each | client's request, Desktop's pull / push, removal | a stream of the tunnel, timers, contexts |
| Registry (`store/store.go`, `desktop/server.go`) | rows of devices, WebApps and routes, row locks, public hosts drawn at random | register with retry on conflict, rename, revoke, restore, edit routes | database transactions, administration |
| Administrators (`admin/server.go`, `store/admin_users.go`) | rows of users, row locks, sessions | ensure at start-up, log in, authenticate, log out, create, update; close a tunnel by hand, edit routes | registry, Manager |
| Agent (`proxy/agent.go`) | one connection | reconnect loop, forward a stream | relay |
| Page: session (`tunnel-hub-public/src/lib/desktopWsClient.ts`, `App.tsx` connectWithToken) | socket, state, map of pending requests with a timer each, the current session, the state shown, the login dialog | connect, time out, be closed, replace, request, answer, fail | Desktop, browser, board and chat |
| Page: board (`App.tsx` refreshBoard, moveIssue, ...) | snapshot of the issues, one `busyAction` for all flows | fetch, create, move, complete, follow pushes | Desktop's board |
| Page: agents and conversations (`App.tsx` refreshAgents, runAgentQuery, history) | two lists of agents, selection, messages, active conversation, drawer | refresh, select, ask, stream, reload | Desktop, agent platform |
| Protocol, JWT, configuration, migrations, rendering | none that changes while the relay runs | conversions, start-up | - |

What is hard here, and what has to be right:

* **Registration and replacement.** A newer connection of a key takes over while
  the handler of the older one is on its way to `Clear`. The two maps must stay
  inverse to each other, no late `Clear` may take the successor off, no open
  connection may be lost sight of.
* **Revocation against handshakes.** The device was looked up before the
  revocation, the tunnel is registered after it. Either the recheck or the revoker
  must close it; retries, lost answers and registrations in between complicate it.
* **Values read under one lock and used under another**: a cookie checked on one
  tunnel, a stream opened on its successor; a credential update that names a tunnel
  which is being replaced.
* **Closing a yamux session** while its read loop pushes, its streams close and
  others open.
* **Database and disk without a common commit.** A crash, a failed or ambiguous
  commit, or the hourly cleanup between moving files and inserting rows.
* **Timers against handlers** over a temporary file: who deletes it, who is served.
* **A row that does not exist cannot be locked**: two first registrations of one Desktop,
  or of two Desktops that drew the same host, run side by side until one meets a
  duplicate key, reads the winner's row outside its transaction and may draw again,
  while the owner renames and revokes and an administrator moves routes.
* **A rule about the whole table** (somebody stays active) kept by transactions that each
  write one row: every update has to lock all rows, in one order.
* **One event loop, many continuations.** A session of the page is replaced while its
  socket closes, its timers run and a start-up waits on it; one `busyAction` is written
  and cleared by whichever flow ends; a snapshot is replaced by pushes' refreshes, older
  answers and the page's own moves; stream frames meet a conversation that was changed.

PROJECT.json lists each of these under "hazards", at its line, with the properties
that would catch it.

## 2. Modules

### TunnelPresence: what the Manager promises

A key leads to one tunnel or to none; a tunnel that was displaced or withdrawn is
never led to again, under any key; a tunnel leaves its key without a successor only
when it is dead. `TunnelSessions` is shown to implement it (`PresentedOnce`), with
`current <- active`, `spent <- Spent`, `dead <- closed`.

### TunnelSessions: sessions, Manager, revocation

A session `s` is one call of `HandleTunnel`, at position `pc[s]`; a revoker `r` is
one call of `revokeAccountDesktop`, at `rpc[r]`. An action is one database call, one
critical section of `Manager.mu`, or one close of a session: these are the points at
which goroutines can interleave.

| Code | Here |
|---|---|
| `Manager.active`, `keyBySession` | `active`, `keyBySession` |
| `Session.closed` of yamux is closed | `s \in closed` |
| `HandleTunnel` up to the success frame | `AuthorizeAgent`, `AuthorizeDesktop`, `CreateSession`, `OpenResponseFails` |
| `serveTunnelSession` | `StartServing`, `SetActive`, `CloseReplaced`, `RecheckDevice`, `ClearSession`, `FinishSession` |
| the `Session.Close` of the replaced session, or of its own after the recheck, returns | `CloseReturns`, from `pc[s]` = "closing" or "dropping" |
| heartbeat or peer failure; token expiry; administrator | `ConnectionFails`, `IdentityExpires`, `AdminCloseSession` |
| `revokeAccountDesktop` | `RevokeLookup`, `RevokeWrite`, `RevokeFindSession`, `RevokeCloseSession` |
| a newer login registers the device again | `RestoreDesktop` |
| the process ends | `Crash` |

`AmbiguousRevoke` says whether the revoking UPDATE may commit and still report an
error (a cancelled request, a lost connection). With TRUE the handler returns before
it closes the tunnel and a retry answers 404, so that the tunnel stays:
`RevokedTunnelIsDoomed` and `RevocationTakesEffect` hold with FALSE only, and are
checked and proved so. The runs use FALSE throughout; TRUE is covered by the theorems that do not
assume FALSE.

`Session.Close` marks the session closed and may then wait for ever (finding 2; module
Yamux looks inside). Where `HandleTunnel` calls it, on the session it replaced and on its own
after the recheck, the handler is at "closing" or "dropping" until `CloseReturns`, which need
not happen. A handler that stays at "closing" never rechecks the device, so
`RevocationTakesEffect` excepts it, and nothing else. The other callers of `Session.Close` (heartbeat,
timer, revoker, administrator) do nothing afterwards that this module speaks of, so for them it is
one step. The counters of streams are left out.

### TunnelCredentials: credentials, cookies, mobile requests

Extends `TunnelSessions` with a clock, the credential and cookie jar of each tunnel
(`cred`, `jar`, `cookie`), the credential update of `handleRegister` (`Updater`) and
the mobile requests (`Request`): bootstrap, logout and page request, each split where
it gives up the Manager's lock. `TunnelsUnaffected`, which is proved, says that all this implements
`TunnelSessions!Spec`: what holds there holds here. `MaxCookies` stands for
the limit of 64 (`mobile_account.go:58`), `MaxTime` bounds the clock.

### Yamux: the session under a tunnel

The replacement of the yamux library kept under `third_party`. `loop` is the position
of the read loop, `life[s]` and `once[s]` those of the opener of a stream and of its
`closeOnce`, `shutdown` that of `Session.Close`. Pushing on a closed channel, which
panics in Go, sets `panicked`. `Stream.Write` touches no state of the session and is
left out, and so is the content of frames: payloads are numbered.

A frame names an id, and the map leads from ids to streams (`streams`, `id`). The code
checks nothing about the id: an open frame puts a new stream under whatever id it names
(`yamux.go:127-131`), and an earlier stream with that id is in no map any more. It then gets
no payload, and nobody closes its channel: its reader waits for ever, even after
`Session.Close`. `misused` remembers, for the properties only, the ids the peer has opened or
closed out of turn: an open for an id of this side or one used before, a close for an id
never opened. `NoGap` and `NoReaderLeftBehind` are about the streams whose own id is not
among them, and hold whatever the peer did to other ids; without that condition TLC shows
the orphan in five steps. `MaxMisused` bounds the ids misused in a run.

### ConversationShares: rows and files

`row`, `meta` and `claim` are the tables, `stage` and `files` the two directories of a
share. A creation, a revocation, the cleanup and the readers each advance by one
database call or one step on the disk; a `Crash` can come between any two. Instead
of clocks, a share may become `expired`, its claim `claimOver`, and a directory old
(`oldStage`, `oldFiles`: older than the hour the cleanup waits). The cleaner takes
note at its start which directories are old, as the code computes the limit once.
Reading the clock and the first query of a cleanup are one step.

Two kinds of share are kept out of `PublishedHasFiles`, because the code does not
protect them: those whose insert was committed and reported as failed (`uncertain`;
the handler then deletes their files) and those whose creation took more than an hour
(`overdue`; the cleanup takes the directory for an orphan). Listing and the time of the
last access are left out: nothing depends on them.

### TicketBridge: uploads and resources

One item, since the stores key everything by an unguessable id and items do not
meet. The handler, the timer (`Timer`), any number of pulls or pushes (`Peer`) and
the context of the handler race for the item and its file. Removing an item is three
steps as in the code: off the map, marked and detached under the item's lock, file
deleted. The ticket (5 minutes) outlives the handler's deadline (2 minutes), which is
why `TicketExpires` waits for `ctxDone`. There is no crash: all state is in memory,
and temporary files of a process that dies stay in the temporary directory (section 7).

The handler's stream is open, "closing" while somebody is in `Stream.Close`, or closed.
The handler calls it when it leaves the stream ("answered", "failed" are its positions
then), the goroutine of `Manager.OpenStream` when the context ends. The reader is woken by the
end of it (`StreamCloses`) or of the tunnel (`TunnelEnds`), and `Stream.Close` may wait for ever
for the session's lock (finding 2) or its writer: `HandlerAnswers` says that this is the only way
for a client to be left without an answer.

### DeviceRegistry: devices, WebApps, routes

A client `c` is one call of `registerDesktopDevice` or `registerDesktopWebApp`, with its
retry loop; `call[c].at` says how far its transaction is. A device stands for an owner
with a display id, a WebApp for a device with a name, a route for its index in the order
of insertion. Absent rows have `NoHost`.

| Code | Here |
|---|---|
| `SELECT ... FOR UPDATE` finds the row / finds none | `LockDevice` / `FindNoDevice` |
| drawing a host, `ensurePublicHostAvailableTx` | `CheckHost` |
| `createDesktopDeviceRegistration`, duplicate key, re-read | `InsertDevice`, `ReadWinner` |
| existing row: revoked check, update, commit | `RefuseRevoked`, `UpdateDevice` |
| `RegisterDesktopWebApp`: new, duplicate key, existing | `InsertApp`, `InsertAppFails`, `UpdateApp`, `UpdateAppFails` |
| conflict, next attempt with another host | `TryAgain` |
| any statement fails, the transaction is rolled back | `RegistrationFails` |
| account owner | `RenameAccountDesktop`, `RevokeAccountDesktop` |
| administrator | `CreateRoute`, `UpdateRoute`, `DeleteRoute` |

Reads of a transaction see committed rows (`beginWriteTx` asks MySQL for READ COMMITTED);
its writes lock what they touch, so they are one step with the commit that follows.
With SQLite nothing runs between the steps, which leaves a part of these behaviours. The two
queries of `ensurePublicHostAvailableTx` are one step; what it finds may be stale by the
insertion anyway. A host is drawn when it is first looked at. `told` remembers every
address answered, as if no answer got lost. `Given` are the names Desktops call themselves
and `"hub"` is a name the owner chose. The two kinds of host never meet: labels of WebApps
end in `-wa`, those of Desktops are hexadecimal. A login without a start time is refused like
one that is too old. Whether an administrator's route that is nobody's WebApp is switched
on plays no part; publishing a service is a creation or an update of a route.

### AdminUsers: administrators

A request `q` is one call of an administrator, or one relay that starts; `req[q].at` says how
far it is, the rest of the record is what it has read.

| Code | Here |
|---|---|
| `EnsureAdminUser`: lookup, insertion or duplicate key | `EnsureAdminUser`, `CreateAdminUser` |
| `handleLogin`: verify, write the last login, insert a session | `VerifyLogin`, `RecordLogin`, `CreateSession` |
| `requireAuth`: read the session with its user, write the visit; a platform administrator's token | `ReadSession` / `ReadExpiredSession`, `RecordSeen`; `VerifyBearer` |
| `handleLogout` | `Logout` |
| `handleUsers` POST | `CreateUser` |
| `handleUsers` PATCH and DELETE: begin, lock and count row by row, check, write and commit | `UpdateAdminUser`, `LockRow`, `ScanEnds`, `Commit` |
| any refusal, error or rollback | `GiveUp` |

With MySQL the locking read takes the rows in the order of their ids, each when it is free, and
sees what is committed; writing a row and the commit are one step because the row is locked.
SQLite runs a transaction alone. Passwords are left out: a login whose password does not match
changes nothing. A name is taken or free at the insertion, as the unique index has it.

### PublicConnection: the page's session

A session `s` is one `DesktopWsSession`, which `connectWithToken` makes. An action is one
task of the browser's event loop or one click, with all that runs before the next task:
listeners and continuations. React renders what a click sets at once, with its effects. What an
event of a socket, a timer or an answer sets it renders in a task of its own (`Render`), and the
effects of that run in a task of theirs or before the next render (`RunEffect`): other tasks may come
between, and several changes may be rendered as one.

| Code | Here |
|---|---|
| `state`, `socket`, `pending`, the timers in it, `sessionRef.current` | `state`, `ws`, `pending`, `timers`, `current` |
| what a promise of `request` has come to | `outcome` |
| `connectWithToken` waiting for `connect()`, or for a request of `bootstrapSession` | `flow` |
| `connectionState`, `authModalOpen`, as set last | `shown`, `modal` |
| `connectionState` of the last render; its effect has yet to run and will open the dialog | `rendered`, `due` |
| `connectWithToken` by itself, by click, failing at once | `AutoConnect`, `HandleConnect`, `ConnectThrows` |
| open event, twelve seconds, error and close event | `SocketOpens`, `ConnectTimeout`, `SocketGone` |
| `request`; response or last frame; error; timer | `Ask`, `QueryAnswered`, `HelloAnswered`, `SubscribeAnswered`, `ErrorFrame`, `RequestTimeout` |
| `handleDisconnect`; the dialog | `HandleDisconnect`, `OpenAuth`, `CloseAuth` |

The browser's WebSocket is external: `close()` makes it `closing`, and its events come
later, also on a session that was replaced (nothing removes the listeners). `misled` remembers, for the
properties only, that such a session has set `connectionState` since the current one began: from then
on the page may say that it is down over a session that is open, and may be down without the
dialog, for the effect does not fire when closed, open and closed are rendered as one, nor
when the session ends while the page already says closed. `ShownAsItIs` says what holds in spite of that
(the page never says open when it is not) and what holds until then. A query is sent
once. Log entries and toasts are left out.

### PublicData: normalisers and list functions

Pure operators without RECURSIVE: what `desktopWsClient.ts` makes of issues, agents and
conversations that come in several shapes, and how the App filters, groups, sorts, counts
and merges them. `InOrder` puts a finite set in the order of a relation by counting what goes
before each member, which is what a stable sort yields; `Filtered` keeps what a predicate holds
of, in its order (`ItemsAt`). A text is its place in the locale's order, 0 for none: this is all that
`readString`, `localeCompare` and the search ask of it.

### PublicBoard: issues

Composes the page's `snapshot`, `busyAction` and pending requests with a Desktop that is
external: it takes requests in the order they were sent, answers each from the board it has
then, or refuses it, and pushes every change that another makes to a page that has
subscribed; whether a page hears of its own changes is left open. Its issues have ids of their own, under
either name (`FirstBoardType`); what `ColumnsPartition` says is not claimed of a board with missing or
repeated ids. The channel keeps the order
both ways; requests time out in the order they were sent (all after twelve seconds), before or
after Desktop has handled them. `missed` remembers that a failed request was not followed by
a refresh. What chat and agents do to `busyAction` is `BeginOther` and `EndOther`.
`inSession` says that a session is open (`BootstrapSession` to `SessionEnds`), `sent` counts the
requests, which are numbered in the order they are made; `MaxRequests` bounds them.

### PublicChat: agents, queries, history

Composes with a Desktop and an agent platform that answer, stream and push what they like,
drawn from constants. `messages` holds one record per message with a sequence of texts as
content; `stream` (history) remembers what a query was sent. `applyAgentStreamFrame` is
`Streamed`; `createMessagesFromEvents` takes the messages of a `Reading`, which is `WithEvent`
applied to one event after the other. Two overlapping `refreshAgents` are not told apart. Thoughts
are shown apart from the content and only their effect on the status is kept. `CatalogueTypes`
and `TalkTypes` say that what is answered has the shape its normaliser reads. They make one
demand on the catalogues: an agent's entry names each of its conversations once, because
`refreshChatHistory` shows that list as it is (`App.tsx:555`), while what `/api/chats` answers is
merged. That the cached list names each conversation once is therefore an assumption about who
answers, not a property of the page.

## 3. Runs

| Run | Module / cfg | Bounds | Distinct states | Shows |
|---|---|---|---|---|
| tunnel_sessions | TunnelSessions / TunnelSessions | 2 sessions, 1 Desktop, 1 agent, 2 revokers, crashes, fairness | 46,144 | the maps, no orphan, refinement of TunnelPresence, a revoked Desktop loses its tunnels unless a handler is stuck in `Session.Close` |
| tunnel_raced (violation) | TunnelSessions / TunnelRaced | 2 sessions, 1 revoker | - | finding 1 |
| tunnel_memory | MCTunnelCredentials / MCTunnelCredentials | 2 tunnels, revoker, updater, request, 1 cookie, clock 0..1 | 915,784 | cookies within the credential; updates stay with their tunnel; streams of a revoked Desktop are cut |
| yamux | Yamux / Yamux | 1 local and 1 remote stream, buffers of 1, 2 payloads, frames for any id, 1 id misused, fairness | 568,771 | order of payloads, EOF, no panic by the peer alone, no reader left, a blocked push is freed, Close returns but for one race |
| yamux_close (violation) | Yamux / YamuxClose | 1 local stream | - | finding 2 |
| shares | ConversationShares / ConversationShares | 1 share of any kind, 2 browsers, 1 crash or failed cleanup | 349,600 | complete shares, one reader, leftovers go |
| ticket_bridge | TicketBridge / TicketBridge | 1 item of either kind, 3 pulls or pushes | 27,623 | files have owners, one delivery, retries, an answer unless `Stream.Close` is stuck, nothing outlives its ticket |
| registry | MCDeviceRegistry / MCDeviceRegistry | 2 registrations, 2 Desktops for 1 host, 2 WebApps of one Desktop, 2 hosts for WebApps, 2 attempts, 2 edits, clock 1..2 | 1,582,898 | addresses hold, WebApps and routes stay together, old logins, renames |
| administrators | MCAdminUsers / MCAdminUsers | 2 users, 3 names, 2 requests, 1 token | 265,997 | somebody stays active, updates neither undo each other nor deadlock |
| public_connection | PublicConnection / PublicConnection | 3 sessions, 1 query, fairness of timers | 262,406 | nobody waits in vain, one socket in use, the page does not say open when it is not and offers the login unless misled, everything settles |
| public_board | MCPublicBoard / MCPublicBoard | 2 issues in odd shapes, 4 requests, 1 change by others, 1 other flow | 341,632 | a quiet board is current, `busyAction` names what is under way, columns partition the issues |
| public_chat | MCPublicChat / MCPublicChat | 1 agent in both catalogues, 2 queries or requests for history, 2 frames of 4 kinds | 278,088 | answers end, settled ones stay, history reads like the stream, lists have no doubles |

Why the bounds are enough. Replacement needs two sessions of one key; the second key shows
that keys do not disturb each other. A late `Clear` against a chain of replacements needs
three: that, and every other safety property of the sessions, is proved for all sizes. A
revocation races one other at most through `revoked_at`, so two revokers cover a retry. Two
instants give credentials that expire now and ones that outlive the clock, one more tunnel than the
one an update names gives a wrong one to hit; two cookies against a limit of one, two local
devices and three instants were also checked while the model was written, on one tunnel. Streams of a session share only `mu`, the
accept queue and the loop: one that closes and one that blocks it are enough, and buffers of
one make "full" happen at the second payload. Shares meet only in the sets the cleaner works
through, each element on its own; two browsers compete for a claim; two crashes, or two shares
without browsers, were also checked while the model was written. Three pushes give a first, a
concurrent second and a later retry. In the registry one host for two Desktops makes every
first registration collide with the other Desktop's, two attempts are one that is followed by
another and a last one, and two edits suffice to move a WebApp's route away and to give its
host to another. Two administrators who disable each other, or one who disables what the other
renames, are two requests on two rows; three users, and three requests, were also checked while the
model was written. Addresses, routes, locks, old logins and renames, everything about administrators, and all safety of Yamux, of shares and
of credentials (without an ambiguous revocation), are proved for all sizes.

On the page, three sessions give one that is current, one that it replaced and whose socket is
still closing, and one before that; PublicConnection's safety is proved for all sizes. Four requests
of the board are the subscription, its refresh, a move and the refresh that a push or a failure
causes, in every order; the two issues have their id under either name, a status of no
column, and no title, and created ones add a third shape. In the chat two queries interleave their
frames, and a query and a request for history race; two frames are a text after a thought, two texts,
or a text after an error. Two agents, or three frames, multiply this beyond five minutes; the safety
of board and conversations, the merging of any lists of agents included, is proved for all sizes.

`CHECK_DEADLOCK FALSE` is set for Yamux and TicketBridge, where everything legitimately
ends (all streams closed; the handler returned and its requests answered), and for PublicBoard,
where the requests run out (`MaxRequests`). The other models go on for ever.

Symmetry: sessions in tunnel_memory,
registrations, WebApps and their hosts in registry; never with a liveness property.
The view `CredView` of tunnel_memory leaves out what a closed tunnel held and what a forgotten
cookie stood for: no handler reads the first again, and a secret is drawn once, so that neither can
lead to a state that the invariants see differently.
The view `ChatView` of public_chat leaves out `activeChatId`, and with it the conversation that a
waiting query was sent with: no guard, no other variable and no property reads either.

Mutants. For every property PROJECT.json names a changed definition ("Mutant" in
the comments: a forgotten recheck, a swapped order, a dropped check of age) under which
TLC finds that property violated. Type invariants, the limit of cookies, the refinement of
TunnelSessions by TunnelCredentials and the finality of a logout are left to the proofs.

## 4. Findings

Two disagreements are shown by a run of their own:

1. **A handshake can outlive the revocation it raced** (tunnel_raced). The recheck asks
   whether the device is active *now*. When the device is revoked during a handshake and
   then registered again by a newer login before the recheck, the tunnel opened with the
   revoked login passes it and serves. The comment at `relay.go:269` and `README.md:446`
   say otherwise.
2. **Session.Close may never return** (yamux_close). It holds `mu` while it waits for the
   `closeOnce` of each stream; `Stream.Close` holds that `closeOnce` while it waits for
   `mu`. `Manager.SetActive` calls it on the tunnel it replaces, whose successor then never
   starts its heartbeat (`README.md:248`) and is never rechecked (`relay.go:270`), so that a Desktop
   revoked meanwhile keeps it; the goroutine that ends a request with its context calls
   `Stream.Close`, and the handler may then wait for ever. `RevocationTakesEffect` and
   `HandlerAnswers` name these two cases as their exceptions. `CloseStuckOnlyOnRace` shows that this
   race is the only way for `Session.Close` to get stuck.

Others were met while modelling; the models contain them, and no property is stated that
they would break (PROJECT.json lists them as hazards):

* A cookie is checked in one critical section and the stream is opened in another: it can be
  forwarded down the tunnel's successor, although `mobile_account.go:37` says that cookie
  sessions disappear with their connection.
* The close event of a replaced session of the page arrives late and sets `connectionState` to
  closed over a session that is open (`App.tsx:326`). After it the page may be down without the login
  dialog: when closed, open and closed are rendered as one, or when the session ends later, the
  rendered state does not change and the effect at line 368 does not run.
* A push that refreshes the board while an issue is being created clears `busyAction` and enables
  the button again (`App.tsx:247`); and Enter submits a query while the button is disabled.
* An open frame puts a new stream under whatever id it names (`yamux.go:127`): the stream that had
  it is forgotten, and its reader waits for ever.
* `run.error` is shown live and not in the history, the message of `run.complete` in the history and
  not live (`App.tsx:1690`, `App.tsx:1822`).
* Refreshes of the agents that overlap are not told apart: an older answer may override a newer one
  (`App.tsx:251`).
* After `run.error` the frame that ends the stream sets the status of the message to done
  (`App.tsx:503`).
* A frame or push that names a conversation sets `activeChatId` after the user has begun a new
  one (`App.tsx:493`).
* The drawer shows the list of the agent whose history was opened last, while the selected agent
  has none cached (`App.tsx:553`).

## 5. Fairness

* **TunnelSessions**: weak fairness of each session's and each revoker's own next step.
  The Go scheduler runs what can run; database calls return, if only with an error. Nobody
  has to connect, to revoke, to fail or to restart, and no `Session.Close` has to return
  (`CloseReturns` is not fair), because finding 2 shows that it may not. `RevocationTakesEffect`
  therefore excepts a tunnel whose handler is still closing the one it replaced; whether that
  Close returns depends on the peer's and the streams' timing.
* **Yamux**: weak fairness of the loop and of `Session.Close`; reads and writes on the
  connection are fair only once it is closed, since an open one may block as long as the
  peer likes. Users of streams have no fairness.
* **ConversationShares**: weak fairness of the cleanup (started and then fired every hour
  by a ticker) and of time (directories grow old). No fairness for creations, revocations
  or readers, so that `LeftoversGo` does not rely on any handler coming back to its work.
  Crashes and failures are bounded by `MaxMishaps`: a cleanup that fails for ever frees
  nothing.
* **TicketBridge**: weak fairness of the handler's steps that do not wait for somebody
  else, of removals, of the timer, and of the deadline and what it triggers. None for the
  Desktop, for bodies, for the client that reads its answer, or for opening and closing a stream:
  each of these writes to the connection or takes the session's lock. `HandlerAnswers` begins when
  the stream is there; writing the request to it is taken to return, because the heartbeat closes a
  connection that is dead.
* **PublicConnection**: weak fairness of `ConnectTimeout` and `RequestTimeout` only: the browser
  calls back what `setTimeout` was given. Nothing is assumed of sockets, Desktop, user, or of when
  React renders.

## 6. Proofs

TLAPS proves the following for every value of the constants, from the named
assumptions of the modules only (different kinds of actors and "none" values differ).

**TunnelProofs, the sessions.** `TypeInv` adds to `TypeOK` what a position says about the
local variables of its goroutine. `MapInv` adds to `IndexConsistent` that the tunnel
under a key belongs to it and is past SetActive and before the end of Clear
(`ActiveOwner`): without that, Clear could not know that the entry it removes is its
own. The other invariants are inductive relative to these two.

| Theorem | Statement |
|---|---|
| TypeCorrect | `Spec => []TypeOK` |
| IndexIsConsistent | `Spec => []IndexConsistent` |
| NoTunnelIsOrphaned | `Spec => []NoOrphanTunnel` |
| NeverDroppedWhileOpen | `Spec => OfflineOnlyWhenClosed`, an action property |
| EndedRowsUnreachable | `Spec => []EndedRowIsUnreachable`, by `RowInv`: a row is ended only at the end of its handler |
| RevokedTunnelsAreDoomed | `RevokedTunnelIsDoomed` always, if not `AmbiguousRevoke` |
| ManagerKeepsPresence | `Spec => Presence!Spec`, the refinement: one lemma maps each action to an abstract step or a stutter |

**TicketBridgeProofs.** The invariant `IInv` adds to `BTypeOK` and `FileHasOwner`: how far
the removal is and what that says of the item (`Phases`), that the push under way is the
only one (`Pushes`), what became of the accepted one (`Delivery`), and what the handler may
rely on (`HandlerKnows`). `FileHasOwner` alone is not inductive: that a finishing push
does not overwrite the path of a file still in use follows from `Pushes` and `Delivery`,
that a marked removal has the path follows from `Phases`. From `IInv` follow TypeCorrect,
FilesAreOwned, DeliveredOnce, WokenForAFile and PullsAreServed, for any
number of requests.

**DeviceRegistryProofs.** `LocksAreHeld` is inductive together with what a position says
about its registration (`Positions`), its converse (`HasLock`: whoever relies on a row has it
locked) and that a device without a row has no lock (`NothingUnknown`). This gives
LocksAreAlwaysHeld and, since the holder's view of the row is the row, OldLoginsStayOut and
RenamesStay: four actions write a device, and lemmas (`Updates`, `Inserts`, `OwnerWrites`) say
what each leaves. AddressesAlwaysHold adds that hosts of devices and of WebApps are distinct
and that a WebApp about to be inserted is not published yet (`NotYet`): whoever published it in
the meantime would hold the same lock. RoutesStayWithApps says that nothing but an administrator's
edit comes between a WebApp and its route; a lemma for edits of any one route (`RoutesEdited`) and
one for each action that writes both (`RouteInserted`, `RouteGivenBack`) carry it. RegistryTypeCorrect is proved along with these.

**PublicConnectionProofs.** `ConnInv` adds to the three invariants of the run the types and
`SocketAgrees`: a session's own state says connecting or open exactly while its socket is, and
whoever waits for `connect()` has no open session. The first half makes a socket that opens the
current session's, so that the request sent on it is in the right map; without the second a late
`ConnectTimeout` could take the session from requests that wait. `RenderAgrees` says why no change is
lost between two renders while the page is not misled: once the end of the current session is
rendered, the dialog is open or due, and (`CurrentAgrees`) the session has nothing new to say. Lemmas for what
actions share (`Rejecting`, `Settling`, `Sending`, `Showing`, `Closing`, `PageLeftAlone`, `LateWordOK`) give
ConnectionTypeCorrect, NobodyWaitsInVain, OneSocketLives and ShownTruthfully for any number of sessions and
requests.

**ConversationSharesProofs.** `SInv` adds to the types what each process may rely on. The cleanup
removes only what was old when it started, so a creation under way finds its directories complete
unless it is overdue (`Overdue`, `Complete`), and what it inserts has its files (`NoRowYet`,
`Untouched`). Whoever deletes files knows that no row leads to them any more (`Deleters`). The
browser whose claim was accepted is the one of the row (`Claimants`). This gives SharesTypeCorrect,
SharesAreComplete, FilesGoFirst and OneReader for any number of shares, browsers and processes.

**YamuxProofs.** An id that was not misused belongs to one stream (`Ids`), and `YInv` says where such
a stream is found while it is in use: under its id until its channel is closed (`Entries`, `Known`),
in what Session.Close has left to visit (`ToVisit`), or in the hand of the read loop, which knows
what it is about to do with it (`InHand`). Hence a push meets a channel closed by this side or by
nobody (PeersCannotPanic), and nobody waits for a stream that was forgotten (NoReaderWaits). `NoGap` is restated without concatenation (`Order`): what was read and what is
queued is numbered without a gap up to what the read loop has delivered (PayloadsInOrder).

**TunnelProofs, the credentials.** The step simulation comes first (SessionsAreUnaffected): an action of
the credentials is one of TunnelSessions or leaves its variables alone, so each of its invariants
holds here. `CredInv` adds the locals of updates and requests and that a jar holds only cookies its
tunnel received (`JarsOwnCookies`). RevokedStreamsAreDoomed then follows from two theorems about
sessions, and from `StreamsOnTunnels`: a stream is open on a tunnel whose row is its own.

**AdminUsersProofs.** `AdminInv` says what an update knows (`Knows`): the rows it has read are those
it has locked, a prefix of the table in the order of ids, and what it remembers of them is what they
are, because nobody else writes a locked row. UpdatesDoNotDeadlock follows from the prefix: of two that
wait for each other, one would wait for a row before one it has. SomebodyStays follows from the
count: whoever disables an active user has another one locked. NothingIsUndone, LogoutIsFinal and
AdminsTypeCorrect complete it, for any number of users, requests and tokens.

**PublicPageProofs, the board.** That a quiet board is current says nothing while the board is not
quiet. `BoardInv` says of every state what will become of the snapshot (`WillAgree`): unless
something under way makes the page look again, the last board among the frames under way, and
after it the answers to the page's own moves, read in their order, put every issue where Desktop
has it now, or something was missed. Besides the types this takes that requests wait, and are answered, in the order of
their numbers (`Ascend`, `Numbered`), and that a request which timed out before Desktop took it is
followed by a second look (`SentBefore`, `LookedAfter`). This gives BoardTypesHold,
QuietBoardIsCurrentHolds and BusyNamesFlowHolds. ColumnsPartitionHolds rests on another invariant
(`OneOfEach`: ids on Desktop's board, in frames and in the snapshot are distinct) and on lemmas about
`InOrder` and `ItemsAt` (EveryMemberHasAPlace, AscendingPlaces): sorting loses no issue and shows
none twice. From the assumptions `FirstBoardType` and `StatusTypes`.

**PublicPageProofs, the conversations.** `ChatInv` has the parts:

* `AgentsKnown`, `DrawerShown`: the catalogues and the drawer are lists of normalised entries, no
  conversation twice in one of them, and the selected agent is listed. With lemmas about
  `LastOfEach`, `mergeAgents`, `mergeChatSummaries` and `pickSampledWonders` this gives
  ListsAreMergedHolds.
* `CallsNumbered`, `MessagesNumbered`, `StreamsKept`: calls that wait differ in their numbers, none
  of them is settled, a message of a query is found under one id only, and no query that was not
  made has a stream. With them `PendingIsWorking` is inductive, and a step that changes messages
  changes those of queries that wait (`OnlyTheirs`), which is SettledStaysHolds.
* `ReadingsAgree`: HistoryAgreesWithLive speaks of queries that are over; this says the same of
  those that go on: read again, what a query was sent so far is its question, and after it the
  text its message shows, or nothing yet while the message shows the placeholder. One event more keeps that
  (AlikeGoesOn), for all kinds of events. `Reading` is a recursive function; what it yields for
  events of any number is shown with a set of numbers that has 0 and the successor of each of its
  members (`Induction`), not with an induction theorem over operators.

From `CatalogueTypes` and `TalkTypes`. Limits of what the code does came out of these proofs.
HistoryAgreesWithLive does not hold of a text that equals one the page itself puts in (while the
message reads as the placeholder, the next piece replaces it), of a second question within a
stream, of `run.error` or of a `run.complete` with a message, which only one of the two readers
shows (`App.tsx:1690`, `App.tsx:1822`), nor of an answer that came as a response instead of a stream; its
premise, `ContentOnly`, excludes them all. And of two entries of the platform for one agent
only the last is kept, so that ListsAreMerged says that the platform's entry prevails, not that
all its entries are listed.

Out of the prover's reach, and with TLC alone: everything under fairness
(`RevocationTakesEffect`, `BlockedPushIsFreed`, `CloseStuckOnlyOnRace`, `LeftoversGo`,
`HandlerAnswers`, `TicketsEnd`, `EverythingSettles`). Every other property of the runs is proved.

## 7. Not modelled

Public forwarding (its shared state is in TunnelCredentials and Yamux), the agent's
loop (agents connect at any time and in any order in TunnelSessions), the stateless parts
(protocol, JWT, configuration, rendering) and what runs before the server listens (migrations).
Of the page: its panels and styles, log and toasts, the texts of thoughts, the form's fields, the
title it takes from the host, the build. PROJECT.json gives the reason for each component. The model
treats the database as one that commits each call atomically, as SQLite with one connection and
MySQL with row locks do for these statements.

Temporary files of uploads and resources that were under way when the process ended stay in the
temporary directory: no code removes them, and no property is stated (see TicketBridge).

## 8. Plan

Done: sessions, Manager and revocation; credentials and cookies; yamux; shares; bridges;
registry; administrators; the page's connection, board and conversations; proofs of the safety of
all of them.

What a next extension would take up, in this order:

1. Refinements: an abstract board and an abstract conversation that PublicBoard and PublicChat
   implement, as TunnelPresence is for the sessions.
2. The migration of attachments, as an extension of ConversationShares.

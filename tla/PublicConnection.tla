-------------------------- MODULE PublicConnection --------------------------
(***************************************************************************)
(* How the page of a Desktop's public host is connected: the class         *)
(* DesktopWsSession with its WebSocket, its map of pending requests and    *)
(* its timers, and the part of the App that replaces one session by        *)
(* another, starts it up, and shows the login dialog.                      *)
(*                                                                         *)
(* A session is one object that connectWithToken creates.  Its socket, its *)
(* timers and the Desktop's answers come as tasks of the browser's event   *)
(* loop; an action is one such task, or one click, with everything that    *)
(* runs before the next task: listeners and the continuations of promises. *)
(*                                                                         *)
(* React renders what a click changes at once.  What another task changes  *)
(* it renders in a task of its own, and the effects of that may be one     *)
(* more: several changes may be rendered as one.                           *)
(***************************************************************************)

CONSTANTS
  Session,    \* the DesktopWsSession objects of a page, in no order
  Query,      \* ids of requests the user's actions and pushes lead to
  NoSession   \* sessionRef.current is null

(* createRequestId gives every request an id of its own.  Those of the     *)
(* start-up of a session are named after it.                               *)
Boot    == Session \X {"hello", "subscribe"}
Request == Boot \cup Query

ASSUME NoSessionIsNone  == NoSession \notin Session
ASSUME QueriesAreOthers == Query \cap Boot = {}

VARIABLES
  state,    \* Session -> DesktopWsSession.state
  ws,       \* Session -> the browser's WebSocket, "none" before connect()
  pending,  \* Session -> the ids in DesktopWsSession.pending
  timers,   \* the requests whose timeout is set
  outcome,  \* Request -> what became of its promise
  flow,     \* Session -> how far its call of connectWithToken is
  current,  \* sessionRef.current
  shown,    \* the connectionState that was set last
  modal,    \* authModalOpen, as it was set last
  rendered, \* the connectionState of the last render
  due,      \* the effect of that render is to open the dialog, and has not
  misled    \* a replaced session has set connectionState since the current
            \* one began (remembered for the properties only)

requestVars == <<pending, timers, outcome>>
sessionVars == <<state, ws, flow>>
renderVars  == <<rendered, due>>
pageVars    == <<current, shown, modal, renderVars, misled>>
cvars == <<sessionVars, requestVars, pageVars>>

ConnectionState == {"idle", "connecting", "open", "closed", "error"}

(* "connecting" waits for connect(), "hello" and "subscribe" for the       *)
(* request of that name.  The promise of connect() is settled as soon as   *)
(* this is no longer "connecting".                                         *)
Flow == {"none", "connecting", "hello", "subscribe", "ready", "failed"}

ConnInit ==
  /\ state = [s \in Session |-> "idle"]
  /\ ws = [s \in Session |-> "none"]
  /\ pending = [s \in Session |-> {}]
  /\ timers = {}
  /\ outcome = [r \in Request |-> "unsent"]
  /\ flow = [s \in Session |-> "none"]
  /\ current = NoSession
  /\ shown = "idle"
  /\ modal \in BOOLEAN   \* FALSE when the address carried a token
  /\ rendered = "idle"
  /\ due = FALSE
  /\ misled = FALSE

-----------------------------------------------------------------------------
(* The page.                                                               *)

(* The dialog opens on errors only: mutant of ShowsLogin. *)
ShowsLoginOnError(new) == new # rendered /\ new = "error"

(* The effect on connectionState: the login dialog opens whenever the      *)
(* state that is rendered has changed to one of these.                     *)
ShowsLogin(new) == new # rendered /\ new \in {"closed", "error"}

(* A listener of setConnectionState is told of a new state; the dialog     *)
(* opens when a continuation says so.                                      *)
Show(new, why) ==
  /\ shown' = new
  /\ modal' = (modal \/ why)
  /\ UNCHANGED renderVars

(* A click has the same done and rendered, with the effects, the ones that *)
(* are due included.                                                       *)
ShowAtOnce(new, why) ==
  /\ shown' = new
  /\ rendered' = new
  /\ modal' = (modal \/ why \/ due \/ ShowsLogin(new))
  /\ due' = FALSE

(* React renders what is set by now, after the effects that are due.       *)
Render ==
  /\ shown # rendered
  /\ rendered' = shown
  /\ modal' = (modal \/ due)
  /\ due' = ShowsLogin(shown)
  /\ UNCHANGED <<sessionVars, requestVars, current, shown, misled>>

RunEffect ==
  /\ due
  /\ due' = FALSE
  /\ modal' = TRUE
  /\ UNCHANGED <<sessionVars, requestVars, current, shown, rendered, misled>>

(* request() and sendRequest() let a request through. *)
CanSend == current # NoSession /\ state[current] = "open"

(* A failed request fails the start-up that waits for it. *)
FlowWithout(R) ==
  [s \in Session |-> IF <<s, flow[s]>> \in R THEN "failed" ELSE flow[s]]

Interrupts(R) == \E s \in Session : <<s, flow[s]>> \in R

OutcomeOf(R, result) ==
  [r \in Request |-> IF r \in R THEN result ELSE outcome[r]]

PendingOf(s) == IF s = NoSession THEN {} ELSE pending[s]

(* The entries stay in the map: mutant of Emptied. *)
NotEmptied(s) == pending

(* pending.clear() *)
Emptied(s) == [t \in Session |-> IF t = s THEN {} ELSE pending[t]]

(* The promises are forgotten: mutant of Rejected. *)
Unrejected(s) == outcome

(* pending.reject(error) *)
Rejected(s) == OutcomeOf(PendingOf(s), "failed")

RejectPending(s) ==
  /\ pending' = Emptied(s)
  /\ timers' = timers \ PendingOf(s)
  /\ outcome' = Rejected(s)

(* setTimeout, pending.set and socket.send. *)
SendRequest(s, r) ==
  /\ pending' = [pending EXCEPT ![s] = @ \cup {r}]
  /\ timers' = timers \cup {r}
  /\ outcome' = OutcomeOf({r}, "waiting")

(* clearTimeout (or the timer has fired), pending.delete, and the promise  *)
(* is settled.                                                             *)
Settle(s, r, result) ==
  /\ pending' = [pending EXCEPT ![s] = @ \ {r}]
  /\ timers' = timers \ {r}
  /\ outcome' = OutcomeOf({r}, result)

(* The browser's part of socket.close(). *)
HungUp(w) == IF w \in {"connecting", "open"} THEN "closing" ELSE w

-----------------------------------------------------------------------------
(* Connecting.                                                             *)

(* The predecessor is only forgotten: mutant of ClosedBy. *)
Forgotten(s) == state

(* sessionRef.current?.close() leaves the sessions so. *)
ClosedBy(s) == [t \in Session |-> IF t = s THEN "closed" ELSE state[t]]

WsHungUp(s) == [t \in Session |-> IF t = s THEN HungUp(ws[t]) ELSE ws[t]]

(* The buttons of the dialog and of the diagnostics. *)
MayConnect == rendered # "connecting"

(* connectWithToken closes the session there is and starts another.        *)
ConnectWithToken(s) ==
  /\ flow[s] = "none"
  /\ state' = [ClosedBy(current) EXCEPT ![s] = "connecting"]
  /\ ws' = [WsHungUp(current) EXCEPT ![s] = "connecting"]
  /\ RejectPending(current)
  /\ flow' = [FlowWithout(PendingOf(current)) EXCEPT ![s] = "connecting"]
  /\ current' = s
  /\ misled' = FALSE

(* The address carried a token: the page connects by itself, once, before  *)
(* anything can be clicked.                                                *)
Starting == shown = "idle" /\ ~modal

(* The constructor of WebSocket throws. *)
ConnectThrows(s) ==
  /\ MayConnect
  /\ flow[s] = "none"
  /\ state' = [ClosedBy(current) EXCEPT ![s] = "error"]
  /\ ws' = WsHungUp(current)
  /\ RejectPending(current)
  /\ flow' = [FlowWithout(PendingOf(current)) EXCEPT ![s] = "failed"]
  /\ current' = s
  /\ misled' = FALSE
  /\ IF Starting THEN Show("error", TRUE) ELSE ShowAtOnce("error", TRUE)

AutoConnect(s) ==
  /\ Starting
  /\ ConnectWithToken(s)
  /\ Show("connecting", FALSE)

HandleConnect(s) ==
  /\ ~Starting
  /\ MayConnect
  /\ ConnectWithToken(s)
  /\ ShowAtOnce("connecting", Interrupts(PendingOf(current)))

(* Nothing was typed, or the button that opens the dialog. *)
OpenAuth ==
  /\ ~Starting
  /\ modal' = TRUE
  /\ UNCHANGED <<sessionVars, requestVars, current, shown, renderVars, misled>>

(* The dialog can be closed while the page is connected. *)
CloseAuth ==
  /\ modal
  /\ rendered = "open"
  /\ modal' = FALSE
  /\ UNCHANGED <<sessionVars, requestVars, current, shown, renderVars, misled>>

(* The open event: finish(), then connectWithToken goes on, and            *)
(* bootstrapSession sends its first request.                               *)
SocketOpens(s) ==
  /\ ws[s] = "connecting"
  /\ flow[s] = "connecting"
  /\ ws' = [ws EXCEPT ![s] = "open"]
  /\ state' = [state EXCEPT ![s] = "open"]
  /\ flow' = [flow EXCEPT ![s] = "hello"]
  /\ SendRequest(s, <<s, "hello">>)
  /\ shown' = "open"
  /\ modal' = FALSE
  /\ UNCHANGED <<current, renderVars, misled>>

(* Twelve seconds without an open event: socket.close(), then fail().      *)
ConnectTimeout(s) ==
  /\ flow[s] = "connecting"
  /\ ws' = WsHungUp(s)
  /\ state' = [state EXCEPT ![s] = "error"]
  /\ flow' = [flow EXCEPT ![s] = "failed"]
  /\ Show("error", TRUE)
  /\ misled' = (misled \/ s # current)
  /\ UNCHANGED <<requestVars, current>>

(* The connection is gone, at the other end's wish or after close(): the   *)
(* error event, which fails a connect() still under way, and the close     *)
(* event.  The listeners of a replaced session were never removed.         *)
SocketGone(s) ==
  /\ ws[s] \in {"connecting", "open", "closing"}
  /\ ws' = [ws EXCEPT ![s] = "closed"]
  /\ LET failed == flow[s] = "connecting" \/ state[s] = "error"
         new    == IF failed THEN "error" ELSE "closed"
     IN  /\ state' = [state EXCEPT ![s] = new]
         /\ Show(new, flow[s] = "connecting" \/ Interrupts(PendingOf(s)))
  /\ RejectPending(s)
  /\ flow' = [FlowWithout(PendingOf(s)) EXCEPT
                ![s] = IF @ = "connecting" THEN "failed" ELSE @]
  /\ misled' = (misled \/ s # current)
  /\ UNCHANGED current

(* The button of the diagnostics, enabled while the page is connected.     *)
HandleDisconnect ==
  /\ rendered = "open"
  /\ state' = ClosedBy(current)
  /\ ws' = WsHungUp(current)
  /\ RejectPending(current)
  /\ flow' = FlowWithout(PendingOf(current))
  /\ current' = NoSession
  /\ misled' = FALSE
  /\ ShowAtOnce("closed", TRUE)

-----------------------------------------------------------------------------
(* Requests.                                                               *)

Ask(q) ==
  /\ CanSend
  /\ outcome[q] = "unsent"
  /\ SendRequest(current, q)
  /\ UNCHANGED <<sessionVars, pageVars>>

(* A message arrives on an open socket.  Answers to what is no longer      *)
(* pending are dropped, so only the others are steps.                      *)
Awaited(s, r) == ws[s] = "open" /\ r \in pending[s]

(* A response, or a stream frame with a reason where that ends the request. *)
QueryAnswered(s, q) ==
  /\ Awaited(s, q)
  /\ Settle(s, q, "answered")
  /\ UNCHANGED <<sessionVars, pageVars>>

(* bootstrapSession goes on with its next request, over the session that   *)
(* is current now (NobodyIsLeftWaiting has it that there is one).          *)
HelloAnswered(s) ==
  /\ Awaited(s, <<s, "hello">>)
  /\ CanSend
  /\ LET rest == [pending EXCEPT ![s] = @ \ {<<s, "hello">>}]
     IN  pending' = [rest EXCEPT ![current] = @ \cup {<<s, "subscribe">>}]
  /\ timers' = (timers \ {<<s, "hello">>}) \cup {<<s, "subscribe">>}
  /\ outcome' = [outcome EXCEPT ![<<s, "hello">>] = "answered",
                                ![<<s, "subscribe">>] = "waiting"]
  /\ flow' = [flow EXCEPT ![s] = "subscribe"]
  /\ UNCHANGED <<state, ws, pageVars>>

(* Desktop pushes events from now on.                                      *)
SubscribeAnswered(s) ==
  /\ Awaited(s, <<s, "subscribe">>)
  /\ Settle(s, <<s, "subscribe">>, "answered")
  /\ flow' = [flow EXCEPT ![s] = "ready"]
  /\ UNCHANGED <<state, ws, pageVars>>

(* What both an error frame and the end of the timeout lead to.  The       *)
(* session stays open, also when its start-up has failed.                  *)
Fails(s, r) ==
  /\ Settle(s, r, "failed")
  /\ flow' = FlowWithout({r})
  /\ modal' = (modal \/ Interrupts({r}))
  /\ UNCHANGED <<state, ws, current, shown, renderVars, misled>>

ErrorFrame(s, r) == Awaited(s, r) /\ Fails(s, r)

(* The timer that sendRequest of session s has set for r goes off.         *)
RequestTimeout(s, r) == r \in timers /\ r \in pending[s] /\ Fails(s, r)

ConnNext ==
  \/ \E s \in Session : AutoConnect(s) \/ HandleConnect(s) \/ ConnectThrows(s)
  \/ OpenAuth \/ CloseAuth \/ HandleDisconnect \/ Render \/ RunEffect
  \/ \E s \in Session : SocketOpens(s) \/ ConnectTimeout(s) \/ SocketGone(s)
  \/ \E q \in Query : Ask(q)
  \/ \E s \in Session, q \in Query : QueryAnswered(s, q)
  \/ \E s \in Session : HelloAnswered(s) \/ SubscribeAnswered(s)
  \/ \E s \in Session, r \in Request : ErrorFrame(s, r) \/ RequestTimeout(s, r)

(* The browser calls back what setTimeout was given.  Nothing is promised  *)
(* of the network: not that a socket opens, closes or brings an answer.    *)
ConnFairness ==
  /\ \A s \in Session : WF_cvars(ConnectTimeout(s))
  /\ \A s \in Session, r \in Request : WF_cvars(RequestTimeout(s, r))

ConnSpec == ConnInit /\ [][ConnNext]_cvars /\ ConnFairness

-----------------------------------------------------------------------------
(* Properties.                                                             *)

(* Every variable has its type. *)
ConnTypeOK ==
  /\ state \in [Session -> ConnectionState]
  /\ ws \in [Session -> {"none", "connecting", "open", "closing", "closed"}]
  /\ pending \in [Session -> SUBSET Request]
  /\ timers \subseteq Request
  /\ outcome \in [Request -> {"unsent", "waiting", "answered", "failed"}]
  /\ flow \in [Session -> Flow]
  /\ current \in Session \cup {NoSession}
  /\ shown \in ConnectionState
  /\ modal \in BOOLEAN
  /\ rendered \in ConnectionState
  /\ due \in BOOLEAN
  /\ misled \in BOOLEAN

Waiting == {r \in Request : outcome[r] = "waiting"}

(* A promise is waiting exactly while its request is in the map of the     *)
(* current session, which is open, and has a timer that can still fail it: *)
(* however sessions are replaced, cut off, closed and timed out, no caller *)
(* is left with a promise that nothing will settle, and no timer is left   *)
(* behind.                                                                 *)
NobodyIsLeftWaiting ==
  /\ timers = Waiting
  /\ \A s \in Session : pending[s] = IF s = current THEN Waiting ELSE {}
  /\ Waiting # {} => CanSend

(* A session that was replaced or disconnected neither stays connected nor *)
(* gets connected later, although its connect() may still be waiting: at   *)
(* most one WebSocket of the page is in use.                               *)
OnlyCurrentLives ==
  \A s \in Session :
    s # current => /\ state[s] \notin {"connecting", "open"}
                   /\ ws[s] \notin {"connecting", "open"}

(* The state of the connection there is. *)
Actual == IF current = NoSession THEN "closed" ELSE state[current]

(* What the page says of its connection.  It never says that it is open    *)
(* when it is not: late events of replaced sessions, timeouts and renders  *)
(* that come late can only make it look worse.  As long as no replaced     *)
(* session has spoken since the current one began, it says what is, and    *)
(* once all is rendered a page that is down offers the login, however many *)
(* changes were rendered as one.                                           *)
ShownAsItIs ==
  /\ shown = "open" => Actual = "open"
  /\ ~misled => /\ shown # "idle" => shown = Actual
                /\ shown = rendered /\ ~due /\ shown \in {"closed", "error"} => modal

(* Every connection attempt and start-up ends, and every request, even if  *)
(* the network never brings another event: only timers are relied on.      *)
EverythingSettles ==
  /\ \A s \in Session :
       flow[s] \in {"connecting", "hello", "subscribe"}
         ~> flow[s] \in {"ready", "failed"}
  /\ \A q \in Query : outcome[q] = "waiting" ~> outcome[q] \in {"answered", "failed"}

=============================================================================

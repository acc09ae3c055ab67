----------------------- MODULE PublicConnectionProofs -----------------------
(***************************************************************************)
(* The safety of PublicConnection for any number of sessions and requests. *)
(*                                                                         *)
(* To what the run checks the inductive invariant ConnInv adds the types   *)
(* and three facts.                                                        *)
(*   SocketAgrees: a session's own state says connecting or open exactly   *)
(*     while its socket is, so that a socket that opens belongs to the     *)
(*     current session; and whoever still waits for connect() has no open  *)
(*     session, so that its timeout takes nothing from a request.          *)
(*   CurrentAgrees: nobody called close() on the current session, and its  *)
(*     connect() is awaited only while it is under way.                    *)
(*   RenderAgrees: a render of the current session's end is followed by    *)
(*     the effect that opens the dialog, and the session says nothing new  *)
(*     afterwards; so no later change can be lost in a render that changes *)
(*     nothing.  A replaced session that spoke meanwhile breaks it.        *)
(***************************************************************************)
EXTENDS PublicConnection, TLAPS

SocketAgrees ==
  \A s \in Session :
    /\ state[s] = "connecting" <=> ws[s] = "connecting"
    /\ state[s] = "open" <=> ws[s] = "open"
    /\ flow[s] = "connecting" => state[s] # "open"

CurrentAgrees ==
  current # NoSession =>
    /\ flow[current] = "connecting" => state[current] = "connecting"
    /\ state[current] = "closed" => ws[current] = "closed"

RenderAgrees ==
  /\ shown = "idle" => rendered = "idle"
  /\ ~misled /\ rendered \in {"closed", "error"}
       => shown = rendered /\ (modal \/ due)

PageAgrees == ShownAsItIs /\ RenderAgrees /\ CurrentAgrees

ConnInv == /\ ConnTypeOK
           /\ SocketAgrees
           /\ OnlyCurrentLives
           /\ NobodyIsLeftWaiting
           /\ PageAgrees

-----------------------------------------------------------------------------
(* What the operators that actions share do under the invariant.           *)

(* A session that is not the current one has nothing to reject; rejecting  *)
(* the current one's requests leaves nobody waiting.                       *)
LEMMA Rejecting ==
  ASSUME ConnInv, NEW s \in Session \cup {NoSession}, RejectPending(s)
  PROVE  /\ pending' \in [Session -> SUBSET Request]
         /\ timers' \subseteq Request
         /\ outcome' \in [Request -> {"unsent", "waiting", "answered", "failed"}]
         /\ timers' = Waiting'
         /\ Waiting' = IF s = current THEN {} ELSE Waiting
         /\ \A t \in Session : pending'[t] = IF t = current THEN Waiting' ELSE {}
<1> USE DEF ConnInv, ConnTypeOK, NobodyIsLeftWaiting
<1>1. PendingOf(s) = IF s = current THEN Waiting ELSE {}
  <2>1. CASE s = NoSession
    <3>1. Waiting = {} \/ current # NoSession
      BY DEF CanSend
    <3> QED BY <2>1, <3>1 DEF PendingOf
  <2>2. CASE s \in Session
    BY <2>2, NoSessionIsNone DEF PendingOf
  <2> QED BY <2>1, <2>2
<1>2. Waiting \subseteq Request
  BY DEF Waiting
<1>3. /\ pending' \in [Session -> SUBSET Request]
      /\ \A t \in Session : pending'[t] = IF t = s THEN {} ELSE pending[t]
  BY DEF RejectPending, Emptied
<1>4. /\ outcome' \in [Request -> {"unsent", "waiting", "answered", "failed"}]
      /\ \A r \in Request : outcome'[r] = IF r \in PendingOf(s) THEN "failed" ELSE outcome[r]
  BY DEF RejectPending, Rejected, OutcomeOf
<1>5. Waiting' = Waiting \ PendingOf(s)
  BY <1>4 DEF Waiting
<1>6. timers' = Waiting' /\ timers' \subseteq Request
  BY <1>2, <1>5 DEF RejectPending
<1>7. Waiting' = IF s = current THEN {} ELSE Waiting
  BY <1>1, <1>5
<1>8. \A t \in Session : pending'[t] = IF t = current THEN Waiting' ELSE {}
  BY <1>3, <1>7
<1> QED BY <1>3, <1>4, <1>6, <1>7, <1>8

(* An answer, a failure or a timeout settles a request of the current      *)
(* session, and this one alone.                                            *)
LEMMA Settling ==
  ASSUME ConnInv, NEW s \in Session, NEW r \in pending[s],
         NEW result \in {"answered", "failed"}, Settle(s, r, result)
  PROVE  /\ s = current
         /\ CanSend
         /\ pending' \in [Session -> SUBSET Request]
         /\ timers' \subseteq Request
         /\ outcome' \in [Request -> {"unsent", "waiting", "answered", "failed"}]
         /\ timers' = Waiting'
         /\ \A t \in Session : pending'[t] = IF t = current THEN Waiting' ELSE {}
<1> USE DEF ConnInv, ConnTypeOK, NobodyIsLeftWaiting
<1>1. s = current /\ r \in Waiting /\ r \in Request /\ CanSend
  BY DEF Waiting
<1>2. /\ pending' \in [Session -> SUBSET Request]
      /\ \A t \in Session : pending'[t] = IF t = s THEN pending[t] \ {r} ELSE pending[t]
  BY DEF Settle
<1>3. /\ outcome' \in [Request -> {"unsent", "waiting", "answered", "failed"}]
      /\ \A x \in Request : outcome'[x] = IF x = r THEN result ELSE outcome[x]
  BY DEF Settle, OutcomeOf
<1>4. Waiting' = Waiting \ {r}
  BY <1>3 DEF Waiting
<1>5. timers' = Waiting' /\ timers' \subseteq Request
  BY <1>4 DEF Settle, Waiting
<1>6. \A t \in Session : pending'[t] = IF t = current THEN Waiting' ELSE {}
  BY <1>1, <1>2, <1>4
<1> QED BY <1>1, <1>2, <1>3, <1>5, <1>6

(* A request that nobody waits for yet is sent on the current session.     *)
LEMMA Sending ==
  ASSUME ConnInv, NEW s \in Session, NEW r \in Request, s = current, SendRequest(s, r)
  PROVE  /\ pending' \in [Session -> SUBSET Request]
         /\ timers' \subseteq Request
         /\ outcome' \in [Request -> {"unsent", "waiting", "answered", "failed"}]
         /\ timers' = Waiting'
         /\ \A t \in Session : pending'[t] = IF t = current THEN Waiting' ELSE {}
<1> USE DEF ConnInv, ConnTypeOK, NobodyIsLeftWaiting
<1>1. /\ pending' \in [Session -> SUBSET Request]
      /\ \A t \in Session : pending'[t] = IF t = s THEN pending[t] \cup {r} ELSE pending[t]
  BY DEF SendRequest
<1>2. /\ outcome' \in [Request -> {"unsent", "waiting", "answered", "failed"}]
      /\ \A x \in Request : outcome'[x] = IF x = r THEN "waiting" ELSE outcome[x]
  BY DEF SendRequest, OutcomeOf
<1>3. Waiting' = Waiting \cup {r}
  BY <1>2 DEF Waiting
<1>4. timers' = Waiting' /\ timers' \subseteq Request
  BY <1>3 DEF SendRequest, Waiting
<1> QED BY <1>1, <1>2, <1>3, <1>4

(* What is set and rendered keeps its type. *)
PageTypeOK == /\ shown \in ConnectionState /\ modal \in BOOLEAN
              /\ rendered \in ConnectionState /\ due \in BOOLEAN
              /\ misled \in BOOLEAN

LEMMA Showing ==
  ASSUME ConnInv, NEW new \in ConnectionState, NEW why \in BOOLEAN,
         Show(new, why) \/ ShowAtOnce(new, why), misled' \in BOOLEAN
  PROVE  PageTypeOK'
<1>1. ShowsLogin(new) \in BOOLEAN
  BY DEF ShowsLogin
<1> QED BY <1>1 DEF ConnInv, ConnTypeOK, PageTypeOK, Show, ShowAtOnce, renderVars

(* What the page shows is not disturbed by a step that changes neither the *)
(* page nor the current session's state and socket, but for the dialog,    *)
(* which may open, and a start-up that fails.                              *)
LEMMA PageLeftAlone ==
  ASSUME ConnInv, UNCHANGED <<state, ws, current, shown, renderVars, misled>>,
         modal => modal',
         \A t \in Session : flow'[t] = "connecting" => flow[t] = "connecting"
  PROVE  PageAgrees'
<1> USE DEF ConnInv, ConnTypeOK, PageAgrees, renderVars
<1>1. ShownAsItIs'
  BY DEF ShownAsItIs, Actual
<1>2. RenderAgrees'
  BY DEF RenderAgrees
<1>3. CurrentAgrees'
  BY DEF CurrentAgrees
<1> QED BY <1>1, <1>2, <1>3

LEMMA FlowType ==
  ASSUME ConnTypeOK, NEW R
  PROVE  /\ FlowWithout(R) \in [Session -> Flow]
         /\ \A s \in Session : FlowWithout(R)[s] \in {flow[s], "failed"}
         /\ Interrupts(R) \in BOOLEAN
BY DEF ConnTypeOK, FlowWithout, Interrupts, Flow

(* close() on the current session, or on none, leaves no session alive and *)
(* every session's state in agreement with its socket.                     *)
LEMMA Closing ==
  ASSUME ConnInv
  PROVE  /\ ClosedBy(current) \in [Session -> ConnectionState]
         /\ WsHungUp(current) \in
              [Session -> {"none", "connecting", "open", "closing", "closed"}]
         /\ \A t \in Session : /\ ClosedBy(current)[t] \notin {"connecting", "open"}
                               /\ WsHungUp(current)[t] \notin {"connecting", "open"}
BY DEF ConnInv, ConnTypeOK, OnlyCurrentLives, ClosedBy, WsHungUp, HungUp, ConnectionState

-----------------------------------------------------------------------------
(* One step for each action.                                               *)

LEMMA StartOK == ConnInit => ConnInv
<1> SUFFICES ASSUME ConnInit PROVE ConnInv
  OBVIOUS
<1>1. ConnTypeOK
  BY DEF ConnInit, ConnTypeOK, ConnectionState, Flow
<1>2. SocketAgrees /\ OnlyCurrentLives
  BY DEF ConnInit, SocketAgrees, OnlyCurrentLives
<1>3. Waiting = {}
  BY DEF ConnInit, Waiting
<1>4. NobodyIsLeftWaiting
  BY <1>3 DEF ConnInit, NobodyIsLeftWaiting
<1>5. PageAgrees
  BY DEF ConnInit, PageAgrees, ShownAsItIs, RenderAgrees, CurrentAgrees
<1> QED BY <1>1, <1>2, <1>4, <1>5 DEF ConnInv

(* A session that begins is shown as it is, whatever was shown before.     *)
LEMMA ConnectWithTokenOK ==
  ASSUME ConnInv, NEW s \in Session, AutoConnect(s) \/ HandleConnect(s)
  PROVE  ConnInv'
<1> USE DEF AutoConnect, HandleConnect, ConnectWithToken
<1>1. current \in Session \cup {NoSession}
  BY DEF ConnInv, ConnTypeOK
<1>2. Waiting' = {} /\ timers' = {} /\ \A t \in Session : pending'[t] = {}
  BY <1>1, Rejecting
<1>3. PageTypeOK'
  BY Showing, FlowType DEF ConnectionState, ConnInv
<1>4. ConnTypeOK'
  <2>1. flow' \in [Session -> Flow]
    <3>1. ConnectWithToken(s)
      OBVIOUS
    <3> QED BY <3>1, FlowType DEF Flow, ConnInv, ConnectWithToken
  <2>2. /\ state' \in [Session -> ConnectionState]
        /\ ws' \in [Session -> {"none", "connecting", "open", "closing", "closed"}]
    BY Closing DEF ConnectionState
  <2>3. current' \in Session \cup {NoSession}
    OBVIOUS
  <2> QED BY <1>1, <1>3, <2>1, <2>2, <2>3, Rejecting DEF ConnTypeOK, PageTypeOK
<1>5. SocketAgrees' /\ OnlyCurrentLives'
  BY Closing DEF SocketAgrees, OnlyCurrentLives
<1>6. NobodyIsLeftWaiting'
  BY <1>2 DEF NobodyIsLeftWaiting
<1>7. /\ current' = s /\ state'[s] = "connecting" /\ ~misled'
      /\ shown' = "connecting" /\ rendered' \in {"idle", "connecting"}
  BY Closing DEF ConnInv, Starting, Show, ShowAtOnce, renderVars, PageAgrees, RenderAgrees
<1>8. PageAgrees'
  BY <1>7, NoSessionIsNone
  DEF PageAgrees, ShownAsItIs, Actual, RenderAgrees, CurrentAgrees
<1> QED BY <1>4, <1>5, <1>6, <1>8 DEF ConnInv

LEMMA ConnectThrowsOK ==
  ASSUME ConnInv, NEW s \in Session, ConnectThrows(s)
  PROVE  ConnInv'
<1> USE DEF ConnectThrows
<1>1. current \in Session \cup {NoSession}
  BY DEF ConnInv, ConnTypeOK
<1>2. Waiting' = {} /\ timers' = {} /\ \A t \in Session : pending'[t] = {}
  BY <1>1, Rejecting
<1>3. PageTypeOK'
  BY Showing DEF ConnectionState
<1>4. ConnTypeOK'
  <2>1. flow' \in [Session -> Flow]
    BY FlowType DEF Flow, ConnInv
  <2>2. /\ state' \in [Session -> ConnectionState]
        /\ ws' \in [Session -> {"none", "connecting", "open", "closing", "closed"}]
    BY Closing DEF ConnectionState
  <2>3. current' \in Session \cup {NoSession}
    OBVIOUS
  <2> QED BY <1>1, <1>3, <2>1, <2>2, <2>3, Rejecting DEF ConnTypeOK, PageTypeOK
<1>5. SocketAgrees' /\ OnlyCurrentLives'
  BY Closing DEF SocketAgrees, OnlyCurrentLives
<1>6. NobodyIsLeftWaiting'
  BY <1>2 DEF NobodyIsLeftWaiting
<1>7. /\ current' = s /\ state'[s] = "error" /\ flow'[s] = "failed"
      /\ shown' = "error" /\ modal' /\ rendered' \in {"idle", "error"}
  <2>1. current' = s /\ state'[s] = "error" /\ flow'[s] = "failed"
    BY Closing, FlowType DEF ConnInv
  <2>2. CASE Starting
    <3>1. Show("error", TRUE)
      BY <2>2
    <3> QED BY <2>1, <2>2, <3>1 DEF ConnInv, Starting, Show, renderVars, PageAgrees, RenderAgrees
  <2>3. CASE ~Starting
    <3>1. ShowAtOnce("error", TRUE)
      BY <2>3
    <3> QED BY <2>1, <3>1 DEF ShowAtOnce
  <2> QED BY <2>1, <2>2, <2>3
<1>8. PageAgrees'
  BY <1>7, NoSessionIsNone
  DEF PageAgrees, ShownAsItIs, Actual, RenderAgrees, CurrentAgrees
<1> QED BY <1>4, <1>5, <1>6, <1>8 DEF ConnInv

(* Opening and closing the dialog, a render and its effect change nothing  *)
(* but the page.                                                           *)
LEMMA DialogOK ==
  ASSUME ConnInv, OpenAuth \/ CloseAuth \/ Render \/ RunEffect
  PROVE  ConnInv'
<1> USE DEF OpenAuth, CloseAuth, Render, RunEffect, sessionVars, requestVars, renderVars
<1>1. ConnTypeOK'
  BY DEF ConnInv, ConnTypeOK, ShowsLogin
<1>2. SocketAgrees' /\ OnlyCurrentLives'
  BY DEF ConnInv, SocketAgrees, OnlyCurrentLives
<1>3. NobodyIsLeftWaiting'
  BY DEF ConnInv, NobodyIsLeftWaiting, Waiting, CanSend
<1>4. PageAgrees'
  <2>1. CurrentAgrees'
    BY DEF ConnInv, PageAgrees, CurrentAgrees
  <2>2. RenderAgrees'
    BY DEF ConnInv, ConnTypeOK, PageAgrees, RenderAgrees, ShowsLogin
  <2>3. ShownAsItIs'
    BY <2>2 DEF ConnInv, PageAgrees, ShownAsItIs, Actual, RenderAgrees
  <2> QED BY <2>1, <2>2, <2>3 DEF PageAgrees
<1> QED BY <1>1, <1>2, <1>3, <1>4 DEF ConnInv

LEMMA HandleDisconnectOK ==
  ASSUME ConnInv, HandleDisconnect
  PROVE  ConnInv'
<1> USE DEF HandleDisconnect
<1>1. current \in Session \cup {NoSession}
  BY DEF ConnInv, ConnTypeOK
<1>2. Waiting' = {} /\ timers' = {} /\ \A t \in Session : pending'[t] = {}
  BY <1>1, Rejecting
<1>3. PageTypeOK'
  BY Showing DEF ConnectionState
<1>4. flow' \in [Session -> Flow]
  BY FlowType DEF ConnInv
<1>5. ConnTypeOK'
  BY <1>1, <1>3, <1>4, Closing, Rejecting DEF ConnTypeOK, PageTypeOK
<1>6. SocketAgrees' /\ OnlyCurrentLives'
  BY Closing DEF SocketAgrees, OnlyCurrentLives
<1>7. NobodyIsLeftWaiting'
  BY <1>2 DEF NobodyIsLeftWaiting
<1>8. PageAgrees'
  BY DEF ShowAtOnce, PageAgrees, ShownAsItIs, Actual, RenderAgrees, CurrentAgrees
<1> QED BY <1>5, <1>6, <1>7, <1>8 DEF ConnInv

(* A socket that opens is the current session's, which has sent nothing.   *)
LEMMA SocketOpensOK ==
  ASSUME ConnInv, NEW s \in Session, SocketOpens(s)
  PROVE  ConnInv'
<1> USE DEF SocketOpens
<1>1. s = current /\ state[s] = "connecting"
  BY DEF ConnInv, SocketAgrees, OnlyCurrentLives
<1>2. <<s, "hello">> \in Request
  BY DEF Request, Boot
<1>3. ConnTypeOK'
  <2>1. /\ state' \in [Session -> ConnectionState]
        /\ ws' \in [Session -> {"none", "connecting", "open", "closing", "closed"}]
        /\ flow' \in [Session -> Flow]
        /\ PageTypeOK'
        /\ current' \in Session \cup {NoSession}
    BY DEF ConnInv, ConnTypeOK, PageTypeOK, ConnectionState, Flow, renderVars
  <2> QED BY <1>1, <1>2, <2>1, Sending DEF ConnTypeOK, PageTypeOK
<1>4. SocketAgrees' /\ OnlyCurrentLives'
  BY <1>1 DEF ConnInv, ConnTypeOK, SocketAgrees, OnlyCurrentLives
<1>5. CanSend'
  BY <1>1, NoSessionIsNone DEF ConnInv, ConnTypeOK, CanSend
<1>6. NobodyIsLeftWaiting'
  BY <1>1, <1>2, <1>5, Sending DEF NobodyIsLeftWaiting
<1>7. PageAgrees'
  <2>1. state'[current'] = "open" /\ flow'[current'] = "hello" /\ current' # NoSession
    BY <1>1, NoSessionIsNone DEF ConnInv, ConnTypeOK
  <2>2. ~misled => rendered \notin {"closed", "error"}
    BY <1>1, NoSessionIsNone DEF ConnInv, PageAgrees, ShownAsItIs, Actual, RenderAgrees
  <2> QED BY <2>1, <2>2
      DEF PageAgrees, ShownAsItIs, Actual, RenderAgrees, CurrentAgrees, renderVars
<1> QED BY <1>3, <1>4, <1>6, <1>7 DEF ConnInv

(* A replaced session that speaks up can make the page look worse, and     *)
(* ends what is known of the dialog.                                       *)
LEMMA LateWordOK ==
  ASSUME ConnInv, NEW s \in Session, s # current, UNCHANGED <<current, renderVars>>,
         shown' \in {"closed", "error"}, misled',
         \A t \in Session \ {s} :
           state'[t] = state[t] /\ ws'[t] = ws[t]
             /\ (flow'[t] = "connecting" => flow[t] = "connecting")
  PROVE  PageAgrees'
<1>1. ShownAsItIs' /\ RenderAgrees'
  BY DEF ShownAsItIs, RenderAgrees
<1>2. CurrentAgrees'
  <2>1. current # NoSession => current \in Session \ {s}
    BY DEF ConnInv, ConnTypeOK
  <2> QED BY <2>1 DEF ConnInv, PageAgrees, CurrentAgrees
<1> QED BY <1>1, <1>2 DEF PageAgrees

(* A connect() that times out is not that of an open session: no request   *)
(* waits on it.                                                            *)
LEMMA ConnectTimeoutOK ==
  ASSUME ConnInv, NEW s \in Session, ConnectTimeout(s)
  PROVE  ConnInv'
<1> USE DEF ConnectTimeout, requestVars
<1>1. PageTypeOK'
  BY Showing DEF ConnInv, ConnTypeOK, ConnectionState
<1>2. ConnTypeOK'
  BY <1>1 DEF ConnInv, ConnTypeOK, PageTypeOK, ConnectionState, Flow, WsHungUp, HungUp
<1>3. SocketAgrees' /\ OnlyCurrentLives'
  BY DEF ConnInv, ConnTypeOK, SocketAgrees, OnlyCurrentLives, WsHungUp, HungUp
<1>4. CanSend => CanSend'
  BY DEF ConnInv, ConnTypeOK, SocketAgrees, CanSend
<1>5. NobodyIsLeftWaiting'
  BY <1>4 DEF ConnInv, NobodyIsLeftWaiting, Waiting
<1>6. PageAgrees'
  <2>1. CASE s = current
    <3>1. ~misled => rendered \notin {"closed", "error"}
      BY <2>1, NoSessionIsNone
      DEF ConnInv, PageAgrees, ShownAsItIs, Actual, RenderAgrees, CurrentAgrees
    <3>2. /\ state'[current'] = "error" /\ flow'[current'] = "failed"
          /\ shown' = "error" /\ modal'
      BY <2>1 DEF ConnInv, ConnTypeOK, Show
    <3> QED BY <2>1, <3>1, <3>2, NoSessionIsNone
        DEF PageAgrees, ShownAsItIs, Actual, RenderAgrees, CurrentAgrees, Show, renderVars
  <2>2. CASE s # current
    BY <2>2, LateWordOK DEF ConnInv, ConnTypeOK, Show, WsHungUp
  <2> QED BY <2>1, <2>2
<1> QED BY <1>2, <1>3, <1>5, <1>6 DEF ConnInv

(* The current session takes its requests with it.                         *)
LEMMA SocketGoneOK ==
  ASSUME ConnInv, NEW s \in Session, SocketGone(s)
  PROVE  ConnInv'
<1> USE DEF SocketGone
<1>1. PageTypeOK'
  <2>1. /\ Interrupts(PendingOf(s)) \in BOOLEAN
        /\ \/ Show("error", flow[s] = "connecting" \/ Interrupts(PendingOf(s)))
           \/ Show("closed", flow[s] = "connecting" \/ Interrupts(PendingOf(s)))
    BY FlowType DEF ConnInv
  <2>2. misled' \in BOOLEAN
    BY DEF ConnInv, ConnTypeOK
  <2> QED BY <2>1, <2>2, Showing DEF ConnectionState
<1>2. /\ state' \in [Session -> ConnectionState]
      /\ ws' \in [Session -> {"none", "connecting", "open", "closing", "closed"}]
      /\ state'[s] \in {"error", "closed"} /\ ws'[s] = "closed"
      /\ \A t \in Session \ {s} : state'[t] = state[t] /\ ws'[t] = ws[t]
  BY DEF ConnInv, ConnTypeOK, ConnectionState
<1>3. /\ flow' \in [Session -> Flow]
      /\ \A t \in Session : flow'[t] \in {flow[t], "failed"}
  BY FlowType DEF ConnInv, Flow
<1>4. ConnTypeOK'
  <2>1. current' \in Session \cup {NoSession}
    BY DEF ConnInv, ConnTypeOK
  <2> QED BY <1>1, <1>2, <1>3, <2>1, Rejecting DEF ConnTypeOK, PageTypeOK
<1>5. SocketAgrees' /\ OnlyCurrentLives'
  BY <1>2, <1>3 DEF ConnInv, SocketAgrees, OnlyCurrentLives
<1>6. Waiting' # {} => CanSend'
  <2>1. CASE s = current
    BY <2>1, Rejecting
  <2>2. CASE s # current
    BY <2>2, <1>2, Rejecting DEF ConnInv, ConnTypeOK, NobodyIsLeftWaiting, CanSend
  <2> QED BY <2>1, <2>2
<1>7. NobodyIsLeftWaiting'
  BY <1>6, Rejecting DEF NobodyIsLeftWaiting
<1>8. PageAgrees'
  <2>1. /\ shown' = state'[s] /\ shown' \in {"closed", "error"}
        /\ UNCHANGED <<current, renderVars>> /\ (modal => modal')
        /\ flow'[s] # "connecting"
    BY FlowType, <1>2 DEF ConnInv, ConnTypeOK, Show
  <2>2. CASE s = current
    <3>1. ~misled /\ rendered \in {"closed", "error"} => shown' = rendered
      BY <2>2, NoSessionIsNone
      DEF ConnInv, PageAgrees, ShownAsItIs, Actual, RenderAgrees, CurrentAgrees,
          SocketAgrees, ConnTypeOK, ConnectionState, Show
    <3> QED BY <1>2, <2>1, <2>2, <3>1, NoSessionIsNone
        DEF ConnInv, PageAgrees, ShownAsItIs, Actual, RenderAgrees, CurrentAgrees, renderVars
  <2>3. CASE s # current
    <3>1. misled' /\ UNCHANGED <<current, renderVars>>
      BY <2>1, <2>3
    <3>2. \A t \in Session \ {s} :
            state'[t] = state[t] /\ ws'[t] = ws[t]
              /\ (flow'[t] = "connecting" => flow[t] = "connecting")
      BY <1>2, <1>3
    <3> HIDE DEF SocketGone
    <3> QED BY <2>1, <2>3, <3>1, <3>2, LateWordOK
  <2> QED BY <2>2, <2>3
<1> QED BY <1>4, <1>5, <1>7, <1>8 DEF ConnInv

(* Sending changes nothing but the requests.                               *)
LEMMA AskOK ==
  ASSUME ConnInv, NEW q \in Query, Ask(q)
  PROVE  ConnInv'
<1> USE DEF Ask, sessionVars, pageVars
<1>1. current \in Session /\ q \in Request
  BY DEF ConnInv, ConnTypeOK, CanSend, Request
<1>2. ConnTypeOK'
  BY <1>1, Sending DEF ConnInv, ConnTypeOK, renderVars
<1>3. SocketAgrees' /\ OnlyCurrentLives' /\ PageAgrees'
  BY PageLeftAlone DEF ConnInv, SocketAgrees, OnlyCurrentLives
<1>4. CanSend'
  BY DEF CanSend
<1>5. NobodyIsLeftWaiting'
  BY <1>1, <1>4, Sending DEF NobodyIsLeftWaiting
<1> QED BY <1>2, <1>3, <1>5 DEF ConnInv

(* Whatever settles a request of an open session leaves the sessions as    *)
(* they are, but for the start-up that waited for it.                      *)
LEMMA AnswersOK ==
  ASSUME ConnInv, NEW s \in Session, NEW r \in pending[s],
         NEW result \in {"answered", "failed"}, Settle(s, r, result),
         UNCHANGED <<state, ws, current, shown, renderVars, misled>>,
         flow' \in [Session -> Flow],
         \A t \in Session : flow'[t] = "connecting" => flow[t] = "connecting",
         modal' \in BOOLEAN, modal => modal'
  PROVE  ConnInv'
<1>1. ConnTypeOK'
  BY Settling DEF ConnInv, ConnTypeOK, renderVars
<1>2. SocketAgrees' /\ OnlyCurrentLives'
  BY DEF ConnInv, SocketAgrees, OnlyCurrentLives
<1>3. PageAgrees'
  BY PageLeftAlone
<1>4. CanSend'
  <2>1. CanSend
    BY Settling
  <2> QED BY <2>1 DEF CanSend
<1>5. NobodyIsLeftWaiting'
  <2>1. UNCHANGED current
    OBVIOUS
  <2> QED BY <1>4, <2>1, Settling DEF NobodyIsLeftWaiting
<1> QED BY <1>1, <1>2, <1>3, <1>5 DEF ConnInv

LEMMA QueryAnsweredOK ==
  ASSUME ConnInv, NEW s \in Session, NEW q \in Query, QueryAnswered(s, q)
  PROVE  ConnInv'
<1>1. flow' \in [Session -> Flow] /\ modal' \in BOOLEAN
  BY DEF QueryAnswered, ConnInv, ConnTypeOK, sessionVars, pageVars
<1> QED BY <1>1, AnswersOK DEF QueryAnswered, Awaited, sessionVars, pageVars

LEMMA SubscribeAnsweredOK ==
  ASSUME ConnInv, NEW s \in Session, SubscribeAnswered(s)
  PROVE  ConnInv'
<1> DEFINE r == <<s, "subscribe">>
<1>1. /\ flow' \in [Session -> Flow]
      /\ \A t \in Session : flow'[t] = "connecting" => flow[t] = "connecting"
      /\ modal' \in BOOLEAN
  BY DEF SubscribeAnswered, ConnInv, ConnTypeOK, Flow, pageVars
<1>2. r \in pending[s] /\ Settle(s, r, "answered")
  BY DEF SubscribeAnswered, Awaited
<1>3. UNCHANGED <<state, ws, current, shown, renderVars, misled>> /\ (modal => modal')
  BY DEF SubscribeAnswered, pageVars
<1> HIDE DEF r
<1> QED BY <1>1, <1>2, <1>3, AnswersOK

(* The first request of the start-up makes room for the second.            *)
LEMMA HelloAnsweredOK ==
  ASSUME ConnInv, NEW s \in Session, HelloAnswered(s)
  PROVE  ConnInv'
<1> DEFINE hello == <<s, "hello">>
           subscribe == <<s, "subscribe">>
<1> USE DEF HelloAnswered, pageVars
<1>1. hello \in Request /\ subscribe \in Request /\ hello # subscribe
  BY DEF Request, Boot
<1>2. s = current /\ hello \in Waiting
  BY DEF Awaited, ConnInv, NobodyIsLeftWaiting
<1>3. /\ outcome' \in [Request -> {"unsent", "waiting", "answered", "failed"}]
      /\ \A x \in Request : outcome'[x] = IF x = subscribe THEN "waiting"
                                      ELSE IF x = hello THEN "answered" ELSE outcome[x]
  BY <1>1 DEF ConnInv, ConnTypeOK
<1>4. /\ pending' \in [Session -> SUBSET Request]
      /\ \A t \in Session : pending'[t] =
           IF t = s THEN (pending[s] \ {hello}) \cup {subscribe} ELSE pending[t]
  BY <1>1, <1>2 DEF ConnInv, ConnTypeOK
<1>5. timers' = (timers \ {hello}) \cup {subscribe} /\ UNCHANGED <<state, ws, pageVars>>
  OBVIOUS
<1>6. flow' \in [Session -> Flow] /\ \A t \in Session : flow'[t] \in {flow[t], "subscribe"}
  BY DEF ConnInv, ConnTypeOK, Flow
<1>7. CanSend
  OBVIOUS
<1> HIDE DEF hello, subscribe, HelloAnswered
<1>8. Waiting' = (Waiting \ {hello}) \cup {subscribe}
  BY <1>1, <1>3 DEF Waiting
<1>9. ConnTypeOK'
  BY <1>1, <1>3, <1>4, <1>5, <1>6 DEF ConnInv, ConnTypeOK, renderVars
<1>10. SocketAgrees' /\ OnlyCurrentLives' /\ PageAgrees'
  BY <1>5, <1>6, PageLeftAlone DEF ConnInv, SocketAgrees, OnlyCurrentLives
<1>11. NobodyIsLeftWaiting'
  <2>1. timers' = Waiting'
    BY <1>5, <1>8 DEF ConnInv, NobodyIsLeftWaiting
  <2>2. \A t \in Session : pending'[t] = IF t = current' THEN Waiting' ELSE {}
    BY <1>2, <1>4, <1>5, <1>8 DEF ConnInv, NobodyIsLeftWaiting
  <2>3. CanSend'
    BY <1>5, <1>7 DEF CanSend
  <2> QED BY <2>1, <2>2, <2>3 DEF NobodyIsLeftWaiting
<1> QED BY <1>9, <1>10, <1>11 DEF ConnInv

LEMMA FailsOK ==
  ASSUME ConnInv, NEW s \in Session, NEW r \in pending[s], Fails(s, r)
  PROVE  ConnInv'
<1>1. /\ FlowWithout({r}) \in [Session -> Flow]
      /\ \A t \in Session : FlowWithout({r})[t] \in {flow[t], "failed"}
      /\ Interrupts({r}) \in BOOLEAN
  BY FlowType DEF ConnInv
<1>2. modal' \in BOOLEAN /\ (modal => modal')
  BY <1>1 DEF Fails, ConnInv, ConnTypeOK
<1> QED BY <1>1, <1>2, AnswersOK DEF Fails

-----------------------------------------------------------------------------
(* Every step keeps the invariant. *)
LEMMA StepOK == ConnInv /\ [ConnNext]_cvars => ConnInv'
<1> SUFFICES ASSUME ConnInv, [ConnNext]_cvars PROVE ConnInv'
  OBVIOUS
<1>1. ASSUME NEW s \in Session, AutoConnect(s) \/ HandleConnect(s) PROVE ConnInv'
  BY <1>1, ConnectWithTokenOK
<1>2. ASSUME NEW s \in Session, ConnectThrows(s) PROVE ConnInv'
  BY <1>2, ConnectThrowsOK
<1>3. CASE OpenAuth \/ CloseAuth \/ Render \/ RunEffect
  BY <1>3, DialogOK
<1>4. CASE HandleDisconnect
  BY <1>4, HandleDisconnectOK
<1>5. ASSUME NEW s \in Session, SocketOpens(s) \/ ConnectTimeout(s) \/ SocketGone(s)
      PROVE ConnInv'
  BY <1>5, SocketOpensOK, ConnectTimeoutOK, SocketGoneOK
<1>6. ASSUME NEW q \in Query, Ask(q) PROVE ConnInv'
  BY <1>6, AskOK
<1>7. ASSUME NEW s \in Session, NEW q \in Query, QueryAnswered(s, q) PROVE ConnInv'
  BY <1>7, QueryAnsweredOK
<1>8. ASSUME NEW s \in Session, HelloAnswered(s) \/ SubscribeAnswered(s) PROVE ConnInv'
  BY <1>8, HelloAnsweredOK, SubscribeAnsweredOK
<1>9. ASSUME NEW s \in Session, NEW r \in Request, ErrorFrame(s, r) \/ RequestTimeout(s, r)
      PROVE ConnInv'
  BY <1>9, FailsOK DEF ErrorFrame, RequestTimeout, Awaited
<1>10. CASE UNCHANGED cvars
  <2> USE <1>10 DEF cvars, sessionVars, requestVars, pageVars, renderVars
  <2>1. ConnTypeOK' /\ SocketAgrees' /\ OnlyCurrentLives' /\ PageAgrees'
    BY PageLeftAlone DEF ConnInv, ConnTypeOK, SocketAgrees, OnlyCurrentLives
  <2>2. NobodyIsLeftWaiting'
    BY DEF ConnInv, NobodyIsLeftWaiting, Waiting, CanSend
  <2> QED BY <2>1, <2>2 DEF ConnInv
<1> QED
  BY <1>1, <1>2, <1>3, <1>4, <1>5, <1>6, <1>7, <1>8, <1>9, <1>10 DEF ConnNext

LEMMA Inductive == ConnSpec => []ConnInv
BY StartOK, StepOK, PTL DEF ConnSpec

(* The variables of the page keep their types. *)
THEOREM ConnectionTypeCorrect == ConnSpec => []ConnTypeOK
<1>1. ConnInv => ConnTypeOK
  BY DEF ConnInv
<1> QED BY <1>1, Inductive, PTL

(* No caller of request() is left with a promise that nothing can settle,  *)
(* and no timer is left behind, for any number of sessions and requests.   *)
THEOREM NobodyWaitsInVain == ConnSpec => []NobodyIsLeftWaiting
<1>1. ConnInv => NobodyIsLeftWaiting
  BY DEF ConnInv
<1> QED BY <1>1, Inductive, PTL

(* However often the page connects, disconnects and is cut off, only the   *)
(* WebSocket of the current session can be connecting or open.             *)
THEOREM OneSocketLives == ConnSpec => []OnlyCurrentLives
<1>1. ConnInv => OnlyCurrentLives
  BY DEF ConnInv
<1> QED BY <1>1, Inductive, PTL

(* However sessions are replaced and however many changes React renders as *)
(* one, the page never says that it is open when it is not; and while no   *)
(* replaced session has spoken, it says what its session is, and offers    *)
(* the login dialog when that is down.                                     *)
THEOREM ShownTruthfully == ConnSpec => []ShownAsItIs
<1>1. ConnInv => ShownAsItIs
  BY DEF ConnInv, PageAgrees
<1> QED BY <1>1, Inductive, PTL

=============================================================================

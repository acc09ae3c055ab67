---------------------------- MODULE PublicBoard ----------------------------
(***************************************************************************)
(* The board of the page: a snapshot of Desktop's issues that the page     *)
(* fetches again whenever Desktop pushes a change, and that it changes     *)
(* itself when Desktop has agreed to a move.                               *)
(*                                                                         *)
(* Desktop is external: it takes requests in the order they were sent,     *)
(* answers each at once from the board it has then, and pushes every       *)
(* change another makes to a page that has subscribed; whether it also     *)
(* pushes a change to the page that asked for it is left open.  The        *)
(* WebSocket keeps the order of messages both ways.  Requests time out     *)
(* after the same twelve seconds, so in the order they were sent.          *)
(***************************************************************************)
EXTENDS PublicData

CONSTANTS
  FirstBoard,    \* Desktop's issues at first, as it sends them
  DesktopStatus, \* what others set an issue's status to
  FormStatus,    \* what is chosen on the page, in the form and on a card
  OtherKeys,     \* busyAction of what the page does besides the board
  MaxRequests,   \* bound on the requests sent
  MaxChanges     \* bound on the changes that others make

(* Desktop's ids tell its issues apart; the form and the cards offer the   *)
(* columns of the board, others may use any status.                        *)
ASSUME FirstBoardType ==
  /\ FirstBoard \in Seq(RawIssue)
  /\ \A i \in DOMAIN FirstBoard : RawId(FirstBoard[i]) \in 1 .. Len(FirstBoard)
  /\ \A i, j \in DOMAIN FirstBoard :
       RawId(FirstBoard[i]) = RawId(FirstBoard[j]) => i = j
ASSUME StatusTypes == DesktopStatus \subseteq STRING /\ FormStatus \subseteq TaskBoardStatus

VARIABLES
  board,      \* Desktop: its issues
  subscribed, \* Desktop: event.subscribe was handled on this connection
  changes,    \* how often others have changed the board
  up, down,   \* the messages under way to Desktop and to the page
  inSession,  \* the page has an open session
  pending,    \* the requests of the board that wait, in the order sent
  sent,       \* how many requests were sent
  snapshot,   \* the page's issues
  busyAction, \* the one name of what the page is busy with
  other,      \* names of what else the page has begun and not ended
  missed      \* history: a failed request was not followed by a refresh

desktopVars == <<board, subscribed, changes>>
bvars == <<desktopVars, up, down, inSession, pending, sent, snapshot, busyAction,
           other, missed>>

Idle == <<"", 0>>
RefreshKey == <<"refresh-board", 0>>
CreateKey  == <<"create-issue", 0>>

Placed(issues) == {<<i.id, i.status>> : i \in ToSet(issues)}

BoardInit ==
  /\ board = FirstBoard
  /\ subscribed = FALSE
  /\ changes = 0
  /\ up = <<>> /\ down = <<>>
  /\ inSession = FALSE
  /\ pending = <<>>
  /\ sent = 0
  /\ snapshot = <<>>
  /\ busyAction = Idle
  /\ other = {}
  /\ missed = TRUE   \* nothing was fetched yet

-----------------------------------------------------------------------------
(* Sending and ending a request.                                           *)

RequestOf(op, issue, status, key) ==
  [id |-> sent + 1, op |-> op, issue |-> issue, status |-> status, key |-> key]

(* request() and session.request(): waits is what still waits besides it.  *)
Request(call, waits) ==
  /\ sent < MaxRequests
  /\ sent' = sent + 1
  /\ pending' = Append(waits, call)
  /\ up' = Append(up, call)

(* refreshBoard up to its await. *)
RefreshBoard(waits) ==
  /\ Request(RequestOf("snapshot.get", 0, "", RefreshKey), waits)
  /\ busyAction' = RefreshKey

(* There is no finally: mutant of BusyAfter. *)
BusyAfterSuccess(failed) == IF failed THEN busyAction ELSE Idle

(* finally { setBusyAction('') }, whoever set it last. *)
BusyAfter(failed) == Idle

(* The status of a card is changed on the page, once Desktop has agreed.   *)
WithStatus(issues, id, status) ==
  Mapped(issues, LAMBDA i : IF i.id = id THEN [i EXCEPT !.status = status] ELSE i)

(* No second look at the board: mutant of LooksAgain. *)
NeverLooks(op) == FALSE

(* setIssueStatusOnDesktop refreshes the board when its request failed.    *)
LooksAgain(op) == op \in {"issue.move", "issue.update"}

(* The request p of the board is answered with data.                       *)
Succeeds(p, data, waits) ==
  CASE p.op \in {"event.subscribe", "issue.create"} ->
         RefreshBoard(waits) /\ UNCHANGED <<snapshot, missed>>
    [] p.op = "snapshot.get" ->
         /\ snapshot' = normalizeTaskBoardSnapshot(data)
         /\ missed' = FALSE
         /\ busyAction' = BusyAfter(FALSE)
         /\ pending' = waits
         /\ UNCHANGED <<up, sent>>
    [] OTHER ->
         /\ snapshot' = WithStatus(snapshot, p.issue, p.status)
         /\ busyAction' = BusyAfter(FALSE)
         /\ pending' = waits
         /\ UNCHANGED <<up, sent, missed>>

(* Its promise is rejected, by an error frame or the timeout.              *)
Fails(p, waits) ==
  /\ UNCHANGED snapshot
  /\ IF LooksAgain(p.op)
     THEN RefreshBoard(waits) /\ UNCHANGED missed
     ELSE /\ missed' = (missed \/ ~(p.op \in {"issue.move", "issue.update"}))
          /\ busyAction' = IF p.op = "event.subscribe" THEN busyAction
                                                       ELSE BusyAfter(TRUE)
          /\ pending' = waits
          /\ UNCHANGED <<up, sent>>

-----------------------------------------------------------------------------
(* What is done on the page.                                               *)

pageUnchanged == UNCHANGED <<desktopVars, down, inSession, snapshot, other, missed>>

(* The button, and its condition. *)
ClickRefresh ==
  /\ inSession /\ busyAction # RefreshKey
  /\ RefreshBoard(pending)
  /\ pageUnchanged

handleCreateIssue(status) ==
  /\ inSession /\ busyAction # CreateKey
  /\ Request(RequestOf("issue.create", 0, status, CreateKey), pending)
  /\ busyAction' = CreateKey
  /\ pageUnchanged

(* Without a session request() throws, and so does the refresh that        *)
(* follows; the cards can be used all the same.                            *)
setIssueStatusOnDesktop(issue, op, status, key) ==
  IF inSession
  THEN /\ Request(RequestOf(op, issue.id, status, key), pending)
       /\ busyAction' = key
       /\ pageUnchanged
  ELSE /\ missed' = TRUE
       /\ busyAction' = BusyAfter(TRUE)
       /\ UNCHANGED <<desktopVars, up, down, inSession, pending, sent, snapshot, other>>

(* One column to the left or to the right. *)
moveIssue(issue, direction) ==
  LET at == SelectInSeq(visibleStatuses, LAMBDA s : s = issue.status)
      to == IF direction = "left" THEN at - 1 ELSE at + 1
  IN  /\ to \in DOMAIN visibleStatuses
      /\ busyAction # <<"move", issue.id>>
      /\ setIssueStatusOnDesktop(issue, "issue.move", visibleStatuses[to],
                                 <<"move", issue.id>>)

updateIssueStatus(issue, status) ==
  /\ status # issue.status
  /\ busyAction # <<"status", issue.id>>
  /\ setIssueStatusOnDesktop(issue, "issue.update", status, <<"status", issue.id>>)

completeIssue(issue) ==
  /\ issue.status # "completed"
  /\ busyAction # <<"complete", issue.id>>
  /\ setIssueStatusOnDesktop(issue, "issue.update", "completed",
                             <<"complete", issue.id>>)

(* refreshAgents, runAgentQuery and loadHistoryChat share busyAction.      *)
BeginOther(key) ==
  /\ inSession /\ key \notin other
  /\ other' = other \cup {key}
  /\ busyAction' = key
  /\ UNCHANGED <<desktopVars, up, down, inSession, pending, sent, snapshot, missed>>

EndOther(key) ==
  /\ key \in other
  /\ other' = other \ {key}
  /\ busyAction' = BusyAfter(FALSE)
  /\ UNCHANGED <<desktopVars, up, down, inSession, pending, sent, snapshot, missed>>

-----------------------------------------------------------------------------
(* The connection.                                                         *)

(* bootstrapSession: the subscription first; the board is fetched when it  *)
(* is answered.                                                            *)
BootstrapSession ==
  /\ ~inSession
  /\ inSession' = TRUE
  /\ Request(RequestOf("event.subscribe", 0, "", Idle), pending)
  /\ UNCHANGED <<desktopVars, down, snapshot, busyAction, other, missed>>

(* Closed by either side: what waits is rejected, and a refresh that       *)
(* follows such a failure fails at once.                                   *)
SessionEnds ==
  /\ inSession
  /\ inSession' = FALSE
  /\ up' = <<>> /\ down' = <<>>
  /\ subscribed' = FALSE
  /\ pending' = <<>>
  /\ missed' = (missed \/ pending # <<>>)
  /\ other' = {}
  /\ busyAction' = IF other = {} /\ \A p \in ToSet(pending) : p.key = Idle
                   THEN busyAction ELSE BusyAfter(TRUE)
  /\ UNCHANGED <<board, changes, sent, snapshot>>

WaitingFor(id) == SelectInSeq(pending, LAMBDA p : p.id = id)

(* The listener of pushes, for issue.* and snapshot.*.                     *)
ReceivePush ==
  /\ down # <<>> /\ Head(down).frame = "push"
  /\ down' = Tail(down)
  /\ RefreshBoard(pending)
  /\ UNCHANGED <<desktopVars, inSession, snapshot, other, missed>>

ReceiveAnswer ==
  /\ down # <<>> /\ Head(down).frame # "push"
  /\ down' = Tail(down)
  /\ LET answer == Head(down)
         i == WaitingFor(answer.id)
     IN  IF i = 0 THEN UNCHANGED <<up, pending, sent, snapshot, busyAction, missed>>
         ELSE IF answer.frame = "response"
              THEN Succeeds(pending[i], answer.data, RemoveAt(pending, i))
              ELSE Fails(pending[i], RemoveAt(pending, i))
  /\ UNCHANGED <<desktopVars, inSession, other>>

RequestTimeout ==
  /\ pending # <<>>
  /\ Fails(Head(pending), Tail(pending))
  /\ UNCHANGED <<desktopVars, down, inSession, other>>

-----------------------------------------------------------------------------
(* Desktop.                                                                *)

Push == [frame |-> "push", id |-> 0, data |-> <<>>]
Response(id, data) == [frame |-> "response", id |-> id, data |-> data]
ErrorFrame(id) == [frame |-> "error", id |-> id, data |-> <<>>]

IsOn(id) == \E raw \in ToSet(board) : RawId(raw) = id

Moved(id, status) ==
  Mapped(board, LAMBDA raw : IF RawId(raw) = id THEN [raw EXCEPT !.status = status]
                                                ELSE raw)

NewIssue(id, status) ==
  [id |-> id, issueId |-> 0, title |-> id, status |-> status, priority |-> "medium",
   assignee |-> 0, runState |-> 0, updatedAt |-> 0, createdAt |-> id]

(* Another client, or Desktop itself, changes the board. *)
DesktopChanges(issues) ==
  /\ changes < MaxChanges
  /\ changes' = changes + 1
  /\ board' = issues
  /\ down' = IF subscribed THEN Append(down, Push) ELSE down
  /\ UNCHANGED <<subscribed, up, inSession, pending, sent, snapshot, busyAction,
                 other, missed>>

DesktopSets(id, status) ==
  IsOn(id) /\ DesktopChanges(Moved(id, status))

DesktopDeletes(id) ==
  IsOn(id) /\ DesktopChanges(Filtered(board, LAMBDA raw : RawId(raw) # id))

(* The board a request leads to. *)
Carried(p) ==
  CASE p.op = "issue.create" -> Append(board, NewIssue(Len(FirstBoard) + p.id, p.status))
    [] p.op \in {"issue.move", "issue.update"} -> Moved(p.issue, p.status)
    [] OTHER -> board

HandleNext == up # <<>> /\ up' = Tail(up)

Accept ==
  /\ HandleNext
  /\ LET p == Head(up)
         answer == Response(p.id, IF p.op = "snapshot.get" THEN board ELSE <<>>)
     IN  /\ p.op \in {"issue.move", "issue.update"} => IsOn(p.issue)
         /\ board' = Carried(p)
         /\ subscribed' = (subscribed \/ p.op = "event.subscribe")
         /\ \E news \in IF subscribed /\ Carried(p) # board
                        THEN {<<answer>>, <<answer, Push>>, <<Push, answer>>}
                        ELSE {<<answer>>} :
              down' = down \o news
  /\ UNCHANGED <<changes, inSession, pending, sent, snapshot, busyAction, other, missed>>

Refuse ==
  /\ HandleNext
  /\ down' = Append(down, ErrorFrame(Head(up).id))
  /\ UNCHANGED <<desktopVars, inSession, pending, sent, snapshot, busyAction, other,
                 missed>>

-----------------------------------------------------------------------------
BoardNext ==
  \/ BootstrapSession \/ SessionEnds
  \/ ClickRefresh
  \/ \E status \in FormStatus : handleCreateIssue(status)
  \/ \E issue \in ToSet(snapshot) :
       \/ \E direction \in {"left", "right"} : moveIssue(issue, direction)
       \/ \E status \in FormStatus : updateIssueStatus(issue, status)
       \/ completeIssue(issue)
  \/ \E key \in OtherKeys : BeginOther(key) \/ EndOther(key)
  \/ ReceivePush \/ ReceiveAnswer \/ RequestTimeout
  \/ \E raw \in ToSet(board) :
       \/ \E status \in DesktopStatus : DesktopSets(RawId(raw), status)
       \/ DesktopDeletes(RawId(raw))
  \/ Accept \/ Refuse

BoardSpec == BoardInit /\ [][BoardNext]_bvars

-----------------------------------------------------------------------------
(* Properties.                                                             *)

(* What the page is busy with is under way.  Several flows write the one   *)
(* name over one another, and clear it whoever wrote it; still no order of *)
(* answers, failures, pushes and disconnections leaves a name behind, the  *)
(* button of which would be disabled for good.                             *)
BusyNamesFlow ==
  busyAction # Idle =>
    busyAction \in other \cup {p.key : p \in ToSet(pending)}

(* A page that has subscribed, with nothing under way and no failure since *)
(* its last refresh, shows every issue where Desktop has it: no push comes *)
(* too early for the refresh it causes, no old answer replaces a newer     *)
(* one, and no move of the page's own undoes another's.                    *)
QuietBoardIsCurrent ==
  /\ inSession /\ subscribed /\ ~missed
  /\ pending = <<>> /\ up = <<>> /\ down = <<>>
  => Placed(snapshot) = Placed(normalizeTaskBoardSnapshot(board))

(* Desktop's issues have ids of their own, under either name, and anything *)
(* else may be odd or missing.  However the board is filtered, every issue *)
(* that passes the filter is in exactly one column, once, the columns are  *)
(* in the order of urgency, and the totals that agents are told agree with *)
(* the columns.                                                            *)
ColumnsPartition ==
  \A query \in {0, 1}, priority \in {"all", "low"} :
    LET shown   == filterIssues(snapshot, query, priority)
        columns == groupIssues(shown)
        summary == summarizeBoard(shown)
    IN  /\ \A issue \in ToSet(shown) :
             Cardinality({place \in TaskBoardStatus \X (1 .. Len(shown)) :
                            /\ place[2] \in DOMAIN columns[place[1]]
                            /\ columns[place[1]][place[2]] = issue}) = 1
        /\ \A s \in TaskBoardStatus : \A j \in DOMAIN columns[s] : \A i \in 1 .. j - 1 :
             ~IssueBefore(columns[s][j], columns[s][i])
        /\ summary.completed = Len(columns["completed"])
        /\ summary.reviewing = Len(columns["in_review"])
        /\ summary.running >= Len(columns["in_progress"])

=============================================================================

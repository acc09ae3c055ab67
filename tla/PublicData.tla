----------------------------- MODULE PublicData -----------------------------
(***************************************************************************)
(* What the page makes of the lists it is sent: the normalisers of         *)
(* desktopWsClient.ts, which read issues, agents and conversations from    *)
(* JSON of more than one shape, and the pure functions of the App that     *)
(* filter, group, sort and merge them.                                     *)
(*                                                                         *)
(* Ids, names and other texts are numbers: their place in the locale's     *)
(* order, which is all the page asks of them, and 0 for one that is not    *)
(* there, is no string, or is blank.  Times are numbers likewise.          *)
(***************************************************************************)
EXTENDS Naturals, Sequences, FiniteSets, SequencesExt

(* readString(a) || readString(b) || ... *)
FirstText(texts) ==
  LET i == SelectInSeq(texts, LAMBDA t : t # 0)
  IN  IF i = 0 THEN 0 ELSE texts[i]

Mapped(s, f(_)) == [i \in DOMAIN s |-> f(s[i])]

(* The members of a finite set in the order that before gives, the set of   *)
(* the pairs the first of which goes before the second: the k-th has k - 1  *)
(* before it.                                                              *)
InOrder(S, before) ==
  [k \in 1 .. Cardinality(S) |->
     CHOOSE x \in S : Cardinality({y \in S : <<y, x>> \in before}) = k - 1]

Ascending(places) == InOrder(places, {p \in places \X places : p[1] < p[2]})

ItemsAt(s, places) == Mapped(Ascending(places), LAMBDA i : s[i])

(* Array.prototype.filter *)
Filtered(s, Test(_)) == ItemsAt(s, {i \in DOMAIN s : Test(s[i])})

(* Array.prototype.sort with a comparison of which only the order counts:  *)
(* it is stable.                                                           *)
Sorted(s, before(_, _)) ==
  LET places == {p \in (DOMAIN s) \X (DOMAIN s) :
                   \/ before(s[p[1]], s[p[2]])
                   \/ ~before(s[p[2]], s[p[1]]) /\ p[1] < p[2]}
  IN  Mapped(InOrder(DOMAIN s, places), LAMBDA i : s[i])

(* [...byKey.values()] after byKey.set(keys[i], s[i]) for each i: a later  *)
(* item with the same key takes the place of the earlier.  Every normalised *)
(* item has all the fields, so nothing of the earlier shows through.       *)
LastOfEach(s, keys) ==
  LET first == Ascending({i \in DOMAIN s : \A j \in 1 .. i - 1 : keys[j] # keys[i]})
      last(i) == SelectLastInSeq(keys, LAMBDA key : key = keys[i])
  IN  Mapped(first, LAMBDA i : s[last(i)])

-----------------------------------------------------------------------------
(* Issues.                                                                 *)

visibleStatuses == <<"backlog", "todo", "in_progress", "in_review", "completed">>
TaskBoardStatus == ToSet(visibleStatuses)
TaskBoardPriority == {"low", "medium", "high"}

(* Whatever Desktop says is a status: mutant of normalizeStatus. *)
statusAsSent(status) == status

normalizeStatus(status) == IF status \in TaskBoardStatus THEN status ELSE "backlog"

normalizePriority(priority) ==
  IF priority \in {"low", "high"} THEN priority ELSE "medium"

(* An issue as Desktop sends it, and the id it is found to have. *)
RawIssue ==
  [id : Nat, issueId : Nat, title : Nat, status : STRING, priority : STRING,
   assignee : Nat, runState : Nat, updatedAt : Nat, createdAt : Nat]

RawId(raw) == FirstText(<<raw.id, raw.issueId>>)

(* What an issue needs to be shown at all. *)
IsIssue(raw) == RawId(raw) # 0 /\ raw.title # 0

normalizeTaskBoardIssue(raw) ==
  [raw EXCEPT !.id = RawId(raw),
              !.status = normalizeStatus(@),
              !.priority = normalizePriority(@)]

normalizeTaskBoardSnapshot(raws) ==
  Mapped(Filtered(raws, IsIssue), normalizeTaskBoardIssue)

(* The search box finds a text (0: it is empty) in what a card shows.      *)
Texts(issue) == {issue.id, issue.title, issue.assignee, issue.runState} \ {0}

filterIssues(issues, query, priority) ==
  Filtered(issues, LAMBDA issue :
    /\ priority # "all" => issue.priority = priority
    /\ query # 0 => query \in Texts(issue))

priorityWeight(priority) ==
  CASE priority = "high" -> 3 [] priority = "low" -> 1 [] OTHER -> 2

Touched(issue) == FirstText(<<issue.updatedAt, issue.createdAt>>)

(* The more urgent first, of those the one that was touched last.          *)
IssueBefore(left, right) ==
  \/ priorityWeight(left.priority) > priorityWeight(right.priority)
  \/ /\ priorityWeight(left.priority) = priorityWeight(right.priority)
     /\ Touched(left) > Touched(right)

sortIssues(issues) == Sorted(issues, IssueBefore)

groupIssues(issues) ==
  [status \in TaskBoardStatus |->
     sortIssues(Filtered(issues, LAMBDA issue : issue.status = status))]

Count(issues, Test(_)) == Cardinality({i \in DOMAIN issues : Test(issues[i])})

(* RunningState stands for the text "running". *)
RunningState == 9

(* What every query tells the agent about the board. *)
summarizeBoard(issues) ==
  [total |-> Len(issues),
   running |-> Count(issues, LAMBDA i : i.status = "in_progress" \/ i.runState = RunningState),
   reviewing |-> Count(issues, LAMBDA i : i.status = "in_review"),
   completed |-> Count(issues, LAMBDA i : i.status = "completed"),
   highPriority |-> Count(issues, LAMBDA i : i.priority = "high"),
   unassigned |-> Count(issues, LAMBDA i : i.assignee = 0)]

-----------------------------------------------------------------------------
(* Conversations.                                                          *)

(* A conversation and an agent as they are sent. *)
RawChat ==
  [chatId : Nat, id : Nat, agentKey : Nat, workerKey : Nat, updatedAt : Nat,
   lastRunContent : Nat]

RawAgent ==
  [agentKey : Nat, key : Nat, id : Nat, displayName : Nat, name : Nat, label : Nat,
   recentChats : Seq(RawChat), wonders : Seq(Nat)]

RawChatId(raw) == FirstText(<<raw.chatId, raw.id>>)

(* One without an id is left out; one without an agent belongs to the      *)
(* agent whose list it is in.  updatedAt is the one of the two times that  *)
(* is there.                                                               *)
normalizeChatSummary(raw, agentKey) ==
  [chatId |-> RawChatId(raw),
   agentKey |-> FirstText(<<raw.agentKey, raw.workerKey, agentKey>>),
   updatedAt |-> raw.updatedAt,
   lastRunContent |-> raw.lastRunContent]

normalizeChatSummaries(raws, agentKey) ==
  Mapped(Filtered(raws, LAMBDA raw : RawChatId(raw) # 0),
         LAMBDA raw : normalizeChatSummary(raw, agentKey))

(* All of both lists: mutant of mergeChatSummaries. *)
appendChatSummaries(primary, fallback) ==
  Sorted(fallback \o primary, LAMBDA l, r : l.updatedAt > r.updatedAt)

(* What the platform answers overrides what the agent's entry said.        *)
mergeChatSummaries(primary, fallback) ==
  LET chats == fallback \o primary
  IN  Sorted(LastOfEach(chats, Mapped(chats, LAMBDA chat : chat.chatId)),
             LAMBDA left, right : left.updatedAt > right.updatedAt)

-----------------------------------------------------------------------------
(* Agents.                                                                 *)

AgentKeyOf(raw)  == FirstText(<<raw.agentKey, raw.key, raw.id>>)
AgentNameOf(raw) == FirstText(<<raw.displayName, raw.name, raw.label, AgentKeyOf(raw)>>)

normalizeAgent(raw, source) ==
  [agentKey |-> AgentKeyOf(raw),
   displayName |-> AgentNameOf(raw),
   recentChats |-> normalizeChatSummaries(raw.recentChats, AgentKeyOf(raw)),
   wonders |-> Filtered(raw.wonders, LAMBDA wonder : wonder # 0),
   source |-> source]

normalizeAgents(raws, source) ==
  Mapped(Filtered(raws, LAMBDA raw : AgentKeyOf(raw) # 0),
         LAMBDA raw : normalizeAgent(raw, source))

(* The platform's entry of an agent replaces Desktop's. *)
mergeAgents(desktop, platform) ==
  LET agents == desktop \o platform
  IN  Sorted(LastOfEach(agents, Mapped(agents, LAMBDA agent : agent.agentKey)),
             LAMBDA left, right : left.displayName < right.displayName)

(* Three of an agent's questions, from the one that the button has come    *)
(* to, around the end of the list.                                         *)
pickSampledWonders(wonders, seed) ==
  LET unique == LastOfEach(wonders, wonders)
      n == Len(unique)
  IN  IF n <= 3 THEN unique
      ELSE [i \in 1 .. 3 |-> unique[((seed + i - 1) % n) + 1]]

=============================================================================

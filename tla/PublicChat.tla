----------------------------- MODULE PublicChat -----------------------------
(***************************************************************************)
(* The conversations of the page: which agents it knows and which one is   *)
(* selected, the messages it shows, the queries whose answers stream in,   *)
(* and the history of conversations it can load.                           *)
(*                                                                         *)
(* Desktop and the agent platform behind it are external: they answer,     *)
(* stream and push what they like, drawn from the constants.  Texts are    *)
(* numbers as in PublicData; the content of a message is the sequence of   *)
(* the texts put together.                                                 *)
(***************************************************************************)
EXTENDS PublicData

CONSTANTS
  DesktopLists,  \* answers to agent.list
  PlatformLists, \* answers to /api/agents
  ChatLists,     \* answers to /api/chats
  Details,       \* answers to /api/chat
  Events,        \* what a stream frame can carry
  Answers,       \* answers to a query: the fields that may hold its text
  PushedChats,   \* ids of conversations that pushes name, 0 for none
  MaxCalls,      \* bound on the queries and the requests for history
  MaxEvents      \* bound on the stream frames of all queries

StreamEvent == [type : STRING, text : Nat, chatId : Nat]

(* The catalogues and the conversations are read from JSON of any shape;   *)
(* an agent's entry names each of its conversations once.                  *)
ASSUME CatalogueTypes ==
  /\ DesktopLists \cup PlatformLists \subseteq Seq(RawAgent)
  /\ \A list \in DesktopLists \cup PlatformLists : \A i \in DOMAIN list :
       \A j, k \in DOMAIN list[i].recentChats :
         RawChatId(list[i].recentChats[j]) = RawChatId(list[i].recentChats[k])
           /\ RawChatId(list[i].recentChats[j]) # 0 => j = k
  /\ ChatLists \subseteq Seq(RawChat)
ASSUME TalkTypes ==
  /\ MaxCalls \in Nat
  /\ Events \subseteq StreamEvent
  /\ Answers \subseteq Seq(Nat)
  /\ PushedChats \subseteq Nat
  /\ Details \subseteq [runs : Seq([question : Nat, answer : Nat]), events : Seq(StreamEvent)]

VARIABLES
  online,           \* the page has an open session
  desktopAgents, platformAgents,
  refreshing,       \* how far refreshAgents is
  selectedAgentKey, \* 0 while there is no agent
  messages, activeChatId,
  chatHistory, historyOpen, historyStatus,
  calls,            \* how many queries and requests for history were made
  waiting,          \* those of them that wait for an answer
  stream,           \* history: the events a query was sent, in order
  ended             \* history: the queries whose promise is settled

agentVars   == <<desktopAgents, platformAgents, refreshing, selectedAgentKey>>
talkVars    == <<messages, activeChatId>>
historyVars == <<chatHistory, historyOpen, historyStatus>>
callVars    == <<calls, waiting, stream, ended>>
chatVars    == <<online, agentVars, talkVars, historyVars, callVars>>

allAgents == mergeAgents(desktopAgents, platformAgents)
KeysOf(agents) == {agent.agentKey : agent \in ToSet(agents)}

(* selectedAgent, which an effect makes the selectedAgentKey: the selected *)
(* agent while it is listed, or else the first.                            *)
SelectedOf(agents, key) ==
  IF key \in KeysOf(agents) THEN key
  ELSE IF agents = <<>> THEN 0 ELSE agents[1].agentKey

(* What the page knows of the selected agent's conversations. *)
selectedAgentRecentChats ==
  IF selectedAgentKey = 0 THEN <<>>
  ELSE (CHOOSE a \in ToSet(allAgents) : a.agentKey = selectedAgentKey).recentChats

ChatInit ==
  /\ online = FALSE
  /\ desktopAgents = <<>> /\ platformAgents = <<>>
  /\ refreshing = "no"
  /\ selectedAgentKey = 0
  /\ messages = <<>> /\ activeChatId = 0
  /\ chatHistory = <<>> /\ historyOpen = FALSE /\ historyStatus = "idle"
  /\ calls = 0 /\ waiting = {}
  /\ stream = [n \in 1 .. MaxCalls |-> <<>>]
  /\ ended = {}

-----------------------------------------------------------------------------
(* Messages.                                                               *)

Thinking == <<1001>>   \* shown until the first text arrives
NoAnswer == <<1002>>   \* shown when no text arrived at all
Failure  == <<1003>>   \* the text of the error

Message(id, role, agent, content, status) ==
  [id |-> id, role |-> role, agent |-> agent, content |-> content, status |-> status]

(* updater says what each message becomes if it is the one. *)
updateMessage(id, updater) ==
  messages' = Mapped(messages, LAMBDA m : IF m.id = id THEN updater[m] ELSE m)

SetsContent  == {"content.start", "content.snapshot", "content.end"}

(* applyAgentStreamFrame: what event e makes of the message of its query.  *)
(* A thought (reasoning) is shown apart from the content and only its      *)
(* effect on the status is kept.                                           *)
Streamed(m, e) ==
  CASE e.type \in SetsContent /\ e.text # 0 ->
         [m EXCEPT !.content = <<e.text>>,
                   !.status = IF e.type = "content.start" THEN @ ELSE "done"]
    [] e.type = "content.delta" /\ e.text # 0 ->
         [m EXCEPT !.content = IF @ = Thinking THEN <<e.text>> ELSE Append(@, e.text),
                   !.status = "pending"]
    [] e.type = "reasoning.end" /\ m.content # <<>> -> [m EXCEPT !.status = "done"]
    [] e.type = "reasoning.delta" /\ e.text # 0 -> [m EXCEPT !.status = "pending"]
    [] e.type = "run.error" -> [m EXCEPT !.content = Failure, !.status = "error"]
    [] e.type \in {"run.complete", "run.cancel"} ->
         [m EXCEPT !.status = IF @ = "error" THEN "error" ELSE "done"]
    [] OTHER -> m

(* The first of the fields of an answer that holds a text. *)
readAgentAnswer(data) == FirstText(data)

(* The update once the query is answered. *)
Answered(m, answer) ==
  [m EXCEPT !.content = IF answer # 0 THEN <<answer>>
                        ELSE IF @ \in {Thinking, <<>>} THEN NoAnswer ELSE @,
            !.status = "done"]

(* Only the toast tells of it: mutant of Rejected. *)
OnlyTold(m) == m

(* The update once the query has failed. *)
Rejected(m) == [m EXCEPT !.content = Failure, !.status = "error"]

(* A text that is set is put after the others: mutant of HistoryText. *)
HistoryAppended(content, text, append) == Append(content, text)

(* upsertHistoryAssistantMessage on a message that is there. *)
HistoryText(content, text, append) ==
  IF append THEN Append(content, text) ELSE <<text>>

(* One event of createMessagesFromEvents: open says whether the last       *)
(* message is an answer that goes on.                                      *)
WithEvent(so, e, agent) ==
  LET n == Len(so.list)
      add(role, text) ==
        Append(so.list, Message(<<0, n + 1>>, role, agent, <<text>>, "done"))
      upsert(append) ==
        [list |-> IF so.open
                  THEN [so.list EXCEPT ![n].content = HistoryText(@, e.text, append)]
                  ELSE add("assistant", e.text),
         open |-> TRUE]
  IN  IF e.text = 0 THEN so
      ELSE CASE e.type = "request.query" -> [list |-> add("user", e.text), open |-> FALSE]
             [] e.type \in SetsContent \cup {"run.complete"} -> upsert(FALSE)
             [] e.type = "content.delta" -> upsert(TRUE)
             [] OTHER -> so

(* The events read one after the other.                                    *)
Reading(events, agent) ==
  LET read[n \in 0 .. Len(events)] ==
        IF n = 0 THEN [list |-> <<>>, open |-> FALSE]
                 ELSE WithEvent(read[n - 1], events[n], agent)
  IN  read[Len(events)]

createMessagesFromEvents(events, agent) == Reading(events, agent).list

(* A question and an answer for each run, as far as they are there.        *)
createMessagesFromRuns(runs, agent) ==
  LET texts == [i \in 1 .. 2 * Len(runs) |->
                  LET run == runs[(i + 1) \div 2]
                  IN  IF i % 2 = 1 THEN <<"user", run.question>>
                                   ELSE <<"assistant", run.answer>>]
      said  == Filtered(texts, LAMBDA t : t[2] # 0)
  IN  [i \in DOMAIN said |->
         Message(<<0, i>>, said[i][1], agent, <<said[i][2]>>, "done")]

(* The runs, or else the events, or else the last answer of the summary.   *)
createMessagesFromChatDetail(detail, chat, agent) ==
  LET fromRuns   == createMessagesFromRuns(detail.runs, agent)
      fromEvents == createMessagesFromEvents(detail.events, agent)
      last == IF chat.lastRunContent = 0 THEN <<>>
              ELSE <<Message(<<0, 1>>, "assistant", agent, <<chat.lastRunContent>>, "done")>>
  IN  IF fromRuns # <<>> THEN fromRuns
      ELSE IF fromEvents # <<>> THEN fromEvents ELSE last

-----------------------------------------------------------------------------
(* Agents.                                                                 *)

(* setDesktopAgents and setPlatformAgents, with the effect that follows.   *)
SetAgents(desktop, platform) ==
  /\ desktopAgents' = desktop
  /\ platformAgents' = platform
  /\ selectedAgentKey' = SelectedOf(mergeAgents(desktop, platform), selectedAgentKey)

(* refreshAgents up to its await; one that is begun while another is under *)
(* way is not told apart from it.                                          *)
RefreshAgents == refreshing' = "both"

(* Both requests are settled, each with a list or a failure; without the   *)
(* platform's a simpler request is made.                                   *)
AgentsListed ==
  /\ refreshing = "both"
  /\ \E desktop \in {normalizeAgents(l, "desktop") : l \in DesktopLists \cup {<<>>}},
        platform \in {normalizeAgents(l, "agent-platform") : l \in PlatformLists} :
       SetAgents(desktop, platform)
  /\ refreshing' = "no"
  /\ UNCHANGED <<online, talkVars, historyVars, callVars>>

PlatformFails ==
  /\ refreshing = "both"
  /\ \E desktop \in {normalizeAgents(l, "desktop") : l \in DesktopLists \cup {<<>>}} :
       SetAgents(desktop, platformAgents)
  /\ refreshing' = "fallback"
  /\ UNCHANGED <<online, talkVars, historyVars, callVars>>

FallbackListed ==
  /\ refreshing = "fallback"
  /\ \E platform \in {normalizeAgents(l, "agent-platform") : l \in PlatformLists \cup {<<>>}} :
       SetAgents(desktopAgents, platform)
  /\ refreshing' = "no"
  /\ UNCHANGED <<online, talkVars, historyVars, callVars>>

(* The button.                                                             *)
ClickRefreshAgents ==
  /\ online
  /\ RefreshAgents
  /\ UNCHANGED <<online, desktopAgents, platformAgents, selectedAgentKey, talkVars,
                 historyVars, callVars>>

selectAgentKey(key) ==
  /\ key \in KeysOf(allAgents)
  /\ selectedAgentKey' = key
  /\ activeChatId' = 0
  /\ messages' = <<>>
  /\ UNCHANGED <<online, desktopAgents, platformAgents, refreshing, historyVars,
                 callVars>>

-----------------------------------------------------------------------------
(* Queries.                                                                *)

User(n)      == <<n, 1>>
Assistant(n) == <<n, 2>>

ChatWith(id) == [chatId |-> id, agentKey |-> 0, updatedAt |-> 0, lastRunContent |-> 0]

Call(op, chat, cached) ==
  [id |-> calls + 1, op |-> op, agent |-> selectedAgentKey, chat |-> chat,
   cached |-> cached]

(* The composer's button is disabled while a query is under way or there is *)
(* no session, but its field, where Enter submits the form, is not: several *)
(* queries can be under way.                                               *)
MayAsk == selectedAgentKey # 0

(* Without a session the query fails at once.                              *)
runAgentQuery ==
  /\ MayAsk
  /\ calls < MaxCalls
  /\ calls' = calls + 1
  /\ LET asked   == Message(User(calls + 1), "user", selectedAgentKey, <<>>, "done")
         pending == Message(Assistant(calls + 1), "assistant", selectedAgentKey,
                            Thinking, "pending")
     IN  messages' = messages \o
           <<asked, IF online THEN pending ELSE Rejected(pending)>>
  /\ IF online
     THEN waiting' = waiting \cup {Call("query", ChatWith(activeChatId), <<>>)} /\ UNCHANGED ended
     ELSE ended' = ended \cup {calls + 1} /\ UNCHANGED waiting
  /\ UNCHANGED <<online, agentVars, activeChatId, historyVars, stream>>

Queries == {c \in waiting : c.op = "query"}

NamedChat(chat) == IF chat = 0 THEN activeChatId ELSE chat

(* onStream, while the request waits.                                      *)
StreamFrame(c, e) ==
  /\ MapThenSumSet(LAMBDA n : Len(stream[n]), DOMAIN stream) < MaxEvents
  /\ stream' = [stream EXCEPT ![c.id] = Append(@, e)]
  /\ activeChatId' = NamedChat(e.chatId)
  /\ updateMessage(Assistant(c.id), [m \in ToSet(messages) |-> Streamed(m, e)])
  /\ UNCHANGED <<online, agentVars, historyVars, calls, waiting, ended>>

(* The entry stays in the map after a frame with a reason: mutant of       *)
(* Settled.                                                                *)
StillListening(c) == waiting

(* pending.delete(id) *)
Settled(c) == waiting \ {c}

(* The frame that ends the stream, which stands for an answer without      *)
(* text, or a response.                                                    *)
QueryAnswered(c, data, chat) ==
  /\ waiting' = Settled(c)
  /\ ended' = ended \cup {c.id}
  /\ activeChatId' = NamedChat(chat)
  /\ updateMessage(Assistant(c.id),
                   [m \in ToSet(messages) |-> Answered(m, readAgentAnswer(data))])
  /\ stream' = [stream EXCEPT ![c.id] =
                  IF readAgentAnswer(data) = 0 THEN @
                  ELSE Append(@, [type |-> "response", text |-> 0, chatId |-> 0])]
  /\ RefreshAgents
  /\ UNCHANGED <<online, desktopAgents, platformAgents, selectedAgentKey, historyVars,
                 calls>>

(* An error frame or the timeout.                                          *)
QueryFails(c) ==
  /\ waiting' = waiting \ {c}
  /\ ended' = ended \cup {c.id}
  /\ updateMessage(Assistant(c.id), [m \in ToSet(messages) |-> Rejected(m)])
  /\ UNCHANGED <<online, agentVars, activeChatId, historyVars, calls, stream>>

startNewConversation ==
  /\ allAgents # <<>>
  /\ messages' = <<>>
  /\ activeChatId' = 0
  /\ historyOpen' = FALSE
  /\ UNCHANGED <<online, agentVars, chatHistory, historyStatus, callVars>>

-----------------------------------------------------------------------------
(* History.                                                                *)

(* refreshChatHistory, with a session: what is known is shown at once, and *)
(* asked for where nothing is known or a refresh is forced.                *)
refreshChatHistory(force) ==
  LET cached == selectedAgentRecentChats
  IN  /\ chatHistory' = IF cached # <<>> THEN cached ELSE chatHistory
      /\ IF ~force /\ cached # <<>>
         THEN historyStatus' = "idle" /\ UNCHANGED <<calls, waiting>>
         ELSE /\ calls < MaxCalls
              /\ calls' = calls + 1
              /\ historyStatus' = "loading"
              /\ waiting' = waiting \cup {Call("chats", ChatWith(0), cached)}

openHistory ==
  /\ online /\ selectedAgentKey # 0
  /\ historyOpen' = TRUE
  /\ refreshChatHistory(FALSE)
  /\ UNCHANGED <<online, agentVars, talkVars, stream, ended>>

(* The drawer's own button. Without a session only what is known is shown, *)
(* without an agent nothing.                                               *)
ClickRefreshHistory ==
  /\ historyOpen /\ historyStatus # "loading"
  /\ IF online /\ selectedAgentKey # 0
     THEN refreshChatHistory(TRUE)
     ELSE /\ chatHistory' = IF selectedAgentKey = 0 \/ selectedAgentRecentChats # <<>>
                            THEN selectedAgentRecentChats ELSE chatHistory
          /\ historyStatus' = "idle"
          /\ UNCHANGED <<calls, waiting>>
  /\ UNCHANGED <<online, agentVars, talkVars, historyOpen, stream, ended>>

CloseHistory ==
  /\ historyOpen
  /\ historyOpen' = FALSE
  /\ UNCHANGED <<online, agentVars, talkVars, chatHistory, historyStatus, callVars>>

ChatsListed(c, list) ==
  /\ waiting' = waiting \ {c}
  /\ chatHistory' = mergeChatSummaries(normalizeChatSummaries(list, c.agent),
                                       c.cached)
  /\ historyStatus' = "idle"
  /\ UNCHANGED <<online, agentVars, talkVars, historyOpen, calls, stream, ended>>

StatusAfterFailure(c) == IF c.cached # <<>> THEN "idle" ELSE "error"

ChatsFail(c) ==
  /\ waiting' = waiting \ {c}
  /\ historyStatus' = StatusAfterFailure(c)
  /\ UNCHANGED <<online, agentVars, talkVars, chatHistory, historyOpen, calls, stream,
                 ended>>

(* A row of the drawer. Without a session nothing but a toast comes of it. *)
loadHistoryChat(chat) ==
  /\ historyOpen /\ online
  /\ calls < MaxCalls
  /\ calls' = calls + 1
  /\ waiting' = waiting \cup {Call("chat", chat, <<>>)}
  /\ UNCHANGED <<online, agentVars, talkVars, historyVars, stream, ended>>

ChatLoaded(c, detail) ==
  /\ waiting' = waiting \ {c}
  /\ messages' = createMessagesFromChatDetail(detail, c.chat, c.agent)
  /\ activeChatId' = c.chat.chatId
  /\ historyOpen' = FALSE
  /\ UNCHANGED <<online, agentVars, chatHistory, historyStatus, calls, stream, ended>>

ChatLoadFails(c) ==
  /\ waiting' = waiting \ {c}
  /\ UNCHANGED <<online, agentVars, talkVars, historyVars, calls, stream, ended>>

-----------------------------------------------------------------------------
(* The connection.                                                         *)

Connect ==
  /\ ~online
  /\ online' = TRUE
  /\ RefreshAgents
  /\ UNCHANGED <<desktopAgents, platformAgents, selectedAgentKey, talkVars, historyVars,
                 callVars>>

(* Everything that waits fails, in the order it was sent.                  *)
Disconnect ==
  /\ online
  /\ online' = FALSE
  /\ IF refreshing = "no" THEN UNCHANGED <<desktopAgents, platformAgents, selectedAgentKey>>
     ELSE SetAgents(IF refreshing = "both" THEN <<>> ELSE desktopAgents, <<>>)
  /\ refreshing' = "no"
  /\ messages' = Mapped(messages, LAMBDA m :
       IF \E c \in Queries : m.id = Assistant(c.id) THEN Rejected(m) ELSE m)
  /\ ended' = ended \cup {c.id : c \in Queries}
  /\ LET asked == {c \in waiting : c.op = "chats"}
     IN  historyStatus' =
           IF asked = {} THEN historyStatus
           ELSE StatusAfterFailure(CHOOSE c \in asked : \A d \in asked : c.id >= d.id)
  /\ waiting' = {}
  /\ UNCHANGED <<activeChatId, chatHistory, historyOpen, calls, stream>>

(* The listener of pushes, for those of the agent platform.                *)
PushArrives(chat, refreshes) ==
  /\ online
  /\ activeChatId' = NamedChat(chat)
  /\ refreshing' = IF refreshes THEN "both" ELSE refreshing
  /\ UNCHANGED <<online, desktopAgents, platformAgents, selectedAgentKey, messages,
                 historyVars, callVars>>

-----------------------------------------------------------------------------
ChatNext ==
  \/ Connect \/ Disconnect
  \/ AgentsListed \/ PlatformFails \/ FallbackListed \/ ClickRefreshAgents
  \/ \E key \in KeysOf(allAgents) : selectAgentKey(key)
  \/ runAgentQuery \/ startNewConversation
  \/ openHistory \/ ClickRefreshHistory \/ CloseHistory
  \/ \E chat \in ToSet(chatHistory) : loadHistoryChat(chat)
  \/ \E chat \in PushedChats, refreshes \in BOOLEAN : PushArrives(chat, refreshes)
  \/ \E c \in Queries :
       \/ \E e \in Events : StreamFrame(c, e)
       \/ \E data \in Answers, chat \in PushedChats : QueryAnswered(c, data, chat)
       \/ QueryFails(c)
  \/ \E c \in waiting : c.op = "chats" /\
       ((\E list \in ChatLists : ChatsListed(c, list)) \/ ChatsFail(c))
  \/ \E c \in waiting : c.op = "chat" /\
       ((\E detail \in Details : ChatLoaded(c, detail)) \/ ChatLoadFails(c))

ChatSpec == ChatInit /\ [][ChatNext]_chatVars

-----------------------------------------------------------------------------
(* Properties.                                                             *)

(* A message that is shown as still being thought about belongs to a query *)
(* that still waits: whatever order thoughts, texts, errors, the end of    *)
(* the stream and the end of the connection come in, with several queries  *)
(* at once and conversations changed meanwhile, none is left pending.      *)
PendingIsWorking ==
  \A m \in ToSet(messages) :
    m.status = "pending" => \E c \in Queries : m.id = Assistant(c.id)

(* Once a query is settled, no late frame changes its message.             *)
SettledStays ==
  [][\A m \in ToSet(messages), n \in ToSet(messages') :
       m.id[1] \in ended /\ n.id = m.id => n = m]_chatVars

question == [type |-> "request.query", text |-> 1, chatId |-> 0]

(* A stream of content and thoughts only, none of them a text that the     *)
(* page itself puts in the place of one.  Of the end of a run the two      *)
(* readings differ: run.error is read live only, the message of            *)
(* run.complete in the history only.                                       *)
ContentOnly(events) ==
  \A e \in ToSet(events) :
    /\ e.type \notin {"request.query", "run.error", "run.complete", "response"}
    /\ <<e.text>> \notin {Thinking, NoAnswer}

(* A conversation that is loaded from its events reads as it did while     *)
(* they streamed in: the two readings of the same events agree, for every  *)
(* answer that came as a stream of content and thoughts only.              *)
HistoryAgreesWithLive ==
  \A m \in ToSet(messages) :
    LET n == m.id[1]
        reloaded == createMessagesFromEvents(<<question>> \o stream[n], m.agent)
    IN  /\ m.id = Assistant(n) /\ m.status = "done" /\ n \in ended
        /\ ContentOnly(stream[n])
        => IF m.content = NoAnswer THEN Len(reloaded) = 1
           ELSE Len(reloaded) = 2 /\ reloaded[2].content = m.content

(* No agent's entry names a conversation twice (CatalogueTypes).  However  *)
(* the answers for agents and for conversations overlap, each agent is     *)
(* listed once, as the platform describes it if it does, the selected one  *)
(* is among them, at most three different questions are suggested, and     *)
(* each conversation has one row in the history.                           *)
ListsAreMerged ==
  /\ Cardinality(KeysOf(allAgents)) = Len(allAgents)
  /\ KeysOf(platformAgents) \subseteq KeysOf(allAgents)
  /\ \A agent \in ToSet(allAgents) :
       agent.agentKey \in KeysOf(platformAgents) => agent \in ToSet(platformAgents)
  /\ IF allAgents = <<>> THEN selectedAgentKey = 0
                         ELSE selectedAgentKey \in KeysOf(allAgents)
  /\ \A agent \in ToSet(allAgents), seed \in 0 .. 4 :
       LET sampled == pickSampledWonders(agent.wonders, seed)
       IN  Cardinality(ToSet(sampled)) = Len(sampled) /\ Len(sampled) <= 3
  /\ Cardinality({chat.chatId : chat \in ToSet(chatHistory)}) = Len(chatHistory)

=============================================================================

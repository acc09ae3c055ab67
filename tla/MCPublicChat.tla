--------------------------- MODULE MCPublicChat ---------------------------
(* Instances of PublicChat for TLC.  Both catalogues know the one agent,   *)
(* under different fields; only the platform knows its conversations.      *)
EXTENDS PublicChat

Chat(chatId, id, agentKey, updatedAt, lastRunContent) ==
  [chatId |-> chatId, id |-> id, agentKey |-> agentKey, workerKey |-> 0,
   updatedAt |-> updatedAt, lastRunContent |-> lastRunContent]

Agent(agentKey, key, name, recentChats, wonders) ==
  [agentKey |-> agentKey, key |-> key, id |-> 0, displayName |-> 0, name |-> name,
   label |-> 0, recentChats |-> recentChats, wonders |-> wonders]

OnDesktop == {<<Agent(1, 0, 8, <<>>, <<>>)>>}
Known   == Agent(0, 1, 8, <<Chat(5, 0, 0, 1, 3)>>, <<1, 2, 0, 2, 3, 4>>)
OnPlatform == {<<Known>>}

ChatAnswers == {<<Chat(6, 0, 0, 1, 0), Chat(0, 5, 0, 2, 0), Chat(0, 0, 1, 1, 1)>>}

TextOrNone == {<<0>>, <<0, 4>>}

Event(type, text, chatId) == [type |-> type, text |-> text, chatId |-> chatId]

FewEvents ==
  {Event("content.delta", 1, 0), Event("content.snapshot", 3, 0),
   Event("reasoning.delta", 1, 0), Event("run.error", 0, 0)}

ChatDetails ==
  {[runs |-> <<>>, events |-> <<Event("request.query", 1, 0), Event("content.delta", 2, 0)>>]}

(* Which conversation is active is read only by the next query, whose      *)
(* answer does not depend on it: states that differ in that alone go on    *)
(* alike, and no property sees the difference.                             *)
ChatView ==
  <<online, agentVars, messages, historyVars, calls, stream, ended,
    {IF c.op = "query" THEN [c EXCEPT !.chat = ChatWith(0)] ELSE c : c \in waiting}>>
=============================================================================

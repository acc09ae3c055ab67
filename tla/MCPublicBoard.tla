--------------------------- MODULE MCPublicBoard ---------------------------
(* Instances of PublicBoard for TLC.  The issues are sent in three shapes: *)
(* one that has its id under another name and a status of no column, one   *)
(* without a title, and those that the form creates.                       *)
EXTENDS PublicBoard

Sent(id, issueId, title, status, priority) ==
  [id |-> id, issueId |-> issueId, title |-> title, status |-> status,
   priority |-> priority, assignee |-> 0, runState |-> 0, updatedAt |-> 0,
   createdAt |-> id + issueId]

FewIssues == <<Sent(0, 1, 1, "cancelled", "low"), Sent(2, 0, 0, "todo", "high")>>

Chatting == {<<"agent-query", 0>>}
=============================================================================

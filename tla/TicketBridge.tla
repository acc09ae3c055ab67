---------------------------- MODULE TicketBridge -----------------------------
(***************************************************************************)
(* The two bridges that move a file between a mobile client and a Desktop  *)
(* outside the tunnel: an upload, whose file the Desktop pulls with a      *)
(* ticket, and a resource, whose file it pushes with one.  One item: the   *)
(* stores key everything by an unguessable id, so items do not meet.       *)
(*                                                                         *)
(* The HTTP handler that made the item waits for the Desktop's answer on a *)
(* stream of the tunnel, while requests of the Desktop, the item's timer   *)
(* and the handler's own deadline race for the item and its file.          *)
(***************************************************************************)
EXTENDS Naturals, FiniteSets

CONSTANTS
  Peer,     \* pull or push requests that carry the right ticket
  Handler,  \* HandleUpload or HandleResource
  Timer,    \* time.AfterFunc of the item
  Nobody, NoFile

ASSUME ActorsDiffer == /\ Cardinality({Handler, Timer, Nobody}) = 3
                       /\ Peer \cap {Handler, Timer, Nobody, NoFile} = {}
                       /\ NoFile # Handler

(* A temporary file is known by who wrote it: the upload's by its handler, *)
(* a pushed one by the push.                                               *)
File == Peer \cup {Handler}

VARIABLES
  kind,      \* upload or resource
  listed,    \* the item is in items
  over,      \* ExpiresAt has passed
  path, uploading, completed, removed, ready,  \* its fields; Ready is closed
  removal,   \* who removes the item, and how far
  disk,      \* File -> the file on disk
  handler,   \* position of the handler
  opened,    \* the path it read from the item, then the file it opened
  ctxDone,   \* its context: the deadline, or the client went away
  stream,    \* its stream to the Desktop; closing: somebody is in its Close
  peer,      \* Peer -> position of the request
  accepted   \* pushes answered with 200

itemVars == <<listed, over, path, uploading, completed, removed, ready>>
handlerVars == <<handler, opened, ctxDone, stream>>
bvars == <<kind, itemVars, removal, disk, handlerVars, peer, accepted>>

NoRemoval == [by |-> Nobody, at |-> "none", file |-> NoFile]

BInit ==
  /\ kind \in {"upload", "resource"}
  /\ listed = FALSE
  /\ over = FALSE
  /\ path = NoFile
  /\ uploading = FALSE
  /\ completed = FALSE
  /\ removed = FALSE
  /\ ready = FALSE
  /\ removal = NoRemoval
  /\ disk = [f \in File |-> "none"]
  /\ handler = "new"
  /\ opened = NoFile
  /\ ctxDone = FALSE
  /\ stream = "none"
  /\ peer = [p \in Peer |-> "idle"]
  /\ accepted = {}

HandlerGoes(from, to) == handler = from /\ handler' = to
PeerGoes(p, from, to) == peer[p] = from /\ peer' = [peer EXCEPT ![p] = to]
Writes(f, content) == disk' = [disk EXCEPT ![f] = content]

-----------------------------------------------------------------------------
(* remove: the item leaves the map under the store's lock, its path is     *)
(* taken under its own lock, and the file is deleted under neither.        *)

Take(who) ==
  /\ listed
  /\ listed' = FALSE
  /\ removal' = [by |-> who, at |-> "taken", file |-> NoFile]

MarkRemoved ==
  /\ removal.at = "taken"
  /\ removed' = TRUE
  /\ path' = NoFile
  /\ removal' = [removal EXCEPT !.at = "marked", !.file = path]
  /\ UNCHANGED <<kind, listed, over, uploading, completed, ready, disk, handlerVars, peer, accepted>>

DeleteFile ==
  /\ removal.at = "marked"
  /\ disk' = [f \in File |-> IF f = removal.file THEN "none" ELSE disk[f]]
  /\ removal' = [removal EXCEPT !.at = "done", !.file = NoFile]
  /\ UNCHANGED <<kind, itemVars, handlerVars, peer, accepted>>

(* The ticket outlives the handler's deadline (5 minutes against 2).       *)
TicketExpires ==
  /\ ctxDone /\ ~over
  /\ over' = TRUE
  /\ UNCHANGED <<kind, listed, path, uploading, completed, removed, ready,
                 removal, disk, handlerVars, peer, accepted>>

(* Mutant: the item has no timer. *)
NoTimer == FALSE /\ UNCHANGED bvars

TimerFires ==
  /\ over
  /\ Take(Timer)
  /\ UNCHANGED <<kind, over, path, uploading, completed, removed, ready,
                 disk, handlerVars, peer, accepted>>

(* A pull or a push that comes after the expiry and before the timer.      *)
ExpiredLookup(p) ==
  /\ over
  /\ PeerGoes(p, "idle", "done")
  /\ Take(p)
  /\ UNCHANGED <<kind, over, path, uploading, completed, removed, ready,
                 disk, handlerVars, accepted>>

-----------------------------------------------------------------------------
(* The handler.                                                            *)

ReceiveUpload ==
  /\ kind = "upload"
  /\ HandlerGoes("new", "saving")
  /\ Writes(Handler, "partial")
  /\ UNCHANGED <<kind, itemVars, removal, opened, ctxDone, stream, peer, accepted>>

UploadSaved ==
  /\ HandlerGoes("saving", "saved")
  /\ Writes(Handler, "whole")
  /\ UNCHANGED <<kind, itemVars, removal, opened, ctxDone, stream, peer, accepted>>

(* The body breaks off, or the form turns out to be wrong after its file.  *)
RejectUpload ==
  /\ handler \in {"saving", "saved"}
  /\ handler' = "returned"
  /\ Writes(Handler, "none")
  /\ UNCHANGED <<kind, itemVars, removal, opened, ctxDone, stream, peer, accepted>>

AddItem ==
  /\ handler = (IF kind = "upload" THEN "saved" ELSE "new")
  /\ handler' = "forwarding"
  /\ listed' = TRUE
  /\ path' = IF kind = "upload" THEN Handler ELSE NoFile
  /\ UNCHANGED <<kind, over, uploading, completed, removed, ready, removal,
                 disk, opened, ctxDone, stream, peer, accepted>>

OpenStream ==
  /\ HandlerGoes("forwarding", "asking")
  /\ stream' = "open"
  /\ UNCHANGED <<kind, itemVars, removal, disk, opened, ctxDone, peer, accepted>>

NoTunnel ==
  /\ HandlerGoes("forwarding", "removing")
  /\ UNCHANGED <<kind, itemVars, removal, disk, opened, ctxDone, stream, peer, accepted>>

(* The deferred Stream.Close of whoever leaves the stream.                 *)
LeaveStream == stream' = IF stream = "open" THEN "closing" ELSE stream

(* A write that fails, or an answer that is an error.                      *)
ForwardFails ==
  /\ HandlerGoes("asking", "failed")
  /\ LeaveStream
  /\ UNCHANGED <<kind, itemVars, removal, disk, opened, ctxDone, peer, accepted>>

DesktopAnswers ==
  /\ HandlerGoes("asking", "answered")
  /\ LeaveStream
  /\ UNCHANGED <<kind, itemVars, removal, disk, opened, ctxDone, peer, accepted>>

(* The tunnel ends, and with it its streams: Session.Close.                *)
TunnelEnds ==
  /\ stream = "open"
  /\ stream' = "closed"
  /\ UNCHANGED <<kind, itemVars, removal, disk, handler, opened, ctxDone, peer, accepted>>

ContextEnds ==
  /\ handler \notin {"new", "saving", "saved", "returned"}
  /\ ~ctxDone
  /\ ctxDone' = TRUE
  /\ UNCHANGED <<kind, itemVars, removal, disk, handler, opened, stream, peer, accepted>>

(* Mutant: nobody ties the stream to the context. *)
StreamOutlivesContext == FALSE /\ UNCHANGED bvars

(* The goroutine Manager.OpenStream leaves behind calls Stream.Close.      *)
ContextClosesStream ==
  /\ ctxDone /\ stream = "open"
  /\ stream' = "closing"
  /\ UNCHANGED <<kind, itemVars, removal, disk, handler, opened, ctxDone, peer, accepted>>

(* Stream.Close has written its frame and been given the session's lock,   *)
(* and closes the channel the handler reads from.  It may wait for ever    *)
(* for either: see module Yamux.                                           *)
StreamCloses ==
  /\ stream = "closing"
  /\ stream' = "closed"
  /\ UNCHANGED <<kind, itemVars, removal, disk, handler, opened, ctxDone, peer, accepted>>

(* A read on the closed stream: 504 when it was the context.               *)
ReadFails ==
  /\ stream = "closed"
  /\ HandlerGoes("asking", "failed")
  /\ UNCHANGED <<kind, itemVars, removal, disk, opened, ctxDone, stream, peer, accepted>>

(* The deferred Stream.Close returns when the stream is closed, whoever    *)
(* closed it.                                                              *)
LeftStream ==
  /\ stream = "closed"
  /\ \/ HandlerGoes("failed", "removing")
     \/ HandlerGoes("answered", IF kind = "upload" THEN "removing" ELSE "waiting")
  /\ UNCHANGED <<kind, itemVars, removal, disk, opened, ctxDone, stream, peer, accepted>>

ResourceReady ==
  /\ ready
  /\ HandlerGoes("waiting", "ready")
  /\ UNCHANGED <<kind, itemVars, removal, disk, opened, ctxDone, stream, peer, accepted>>

WaitTimesOut ==
  /\ ctxDone
  /\ HandlerGoes("waiting", "removing")
  /\ UNCHANGED <<kind, itemVars, removal, disk, opened, ctxDone, stream, peer, accepted>>

(* servePendingResource: the path under the item's lock, then the file.    *)
ReadPath ==
  /\ HandlerGoes("ready", IF path = NoFile THEN "removing" ELSE "opening")
  /\ opened' = path
  /\ UNCHANGED <<kind, itemVars, removal, disk, ctxDone, stream, peer, accepted>>

OpenFile ==
  /\ handler = "opening"
  /\ handler' = IF disk[opened] = "none" THEN "removing" ELSE "serving"
  /\ UNCHANGED <<kind, itemVars, removal, disk, opened, ctxDone, stream, peer, accepted>>

FileServed ==
  /\ HandlerGoes("serving", "removing")
  /\ UNCHANGED <<kind, itemVars, removal, disk, opened, ctxDone, stream, peer, accepted>>

(* The deferred calls: cancel, and then remove.                            *)
RemoveItem ==
  /\ HandlerGoes("removing", "cleaning")
  /\ ctxDone' = TRUE
  /\ IF listed THEN Take(Handler) ELSE UNCHANGED <<listed, removal>>
  /\ UNCHANGED <<kind, over, path, uploading, completed, removed, ready, disk,
                 opened, stream, peer, accepted>>

HandlerReturns ==
  /\ HandlerGoes("cleaning", "returned")
  /\ removal.by = Handler => removal.at = "done"
  /\ UNCHANGED <<kind, itemVars, removal, disk, opened, ctxDone, stream, peer, accepted>>

-----------------------------------------------------------------------------
(* Requests of the Desktop.  Both look the item up under the store's lock  *)
(* and go on without it.                                                   *)

(* Mutant: a ticket is good for one pull. *)
PullOnce(p) ==
  /\ kind = "upload" /\ ~over
  /\ PeerGoes(p, "idle", "found")
  /\ Take(p)
  /\ UNCHANGED <<kind, over, path, uploading, completed, removed, ready,
                 disk, handlerVars, accepted>>

LookupPull(p) ==
  /\ kind = "upload" /\ listed /\ ~over
  /\ PeerGoes(p, "idle", "found")
  /\ UNCHANGED <<kind, itemVars, removal, disk, handlerVars, accepted>>

OpenPull(p) ==
  /\ kind = "upload"
  /\ PeerGoes(p, "found", IF disk[Handler] = "none" THEN "done" ELSE "pulling")
  /\ UNCHANGED <<kind, itemVars, removal, disk, handlerVars, accepted>>

PullServed(p) ==
  /\ PeerGoes(p, "pulling", "done")
  /\ UNCHANGED <<kind, itemVars, removal, disk, handlerVars, accepted>>

LookupPush(p) ==
  /\ kind = "resource" /\ listed /\ ~over
  /\ PeerGoes(p, "idle", "found")
  /\ UNCHANGED <<kind, itemVars, removal, disk, handlerVars, accepted>>

(* Mutant: a push that is under way does not count. *)
NotCompleted == ~removed /\ ~completed

MayPush == ~removed /\ ~completed /\ ~uploading

StartPush(p) ==
  /\ kind = "resource"
  /\ IF MayPush
     THEN /\ PeerGoes(p, "found", "saving")
          /\ uploading' = TRUE
          /\ Writes(p, "partial")
     ELSE PeerGoes(p, "found", "done") /\ UNCHANGED <<uploading, disk>>
  /\ UNCHANGED <<kind, listed, over, path, completed, removed, ready, removal,
                 handlerVars, accepted>>

PushSaved(p) ==
  /\ PeerGoes(p, "saving", "saved")
  /\ Writes(p, "whole")
  /\ UNCHANGED <<kind, itemVars, removal, handlerVars, accepted>>

PushBreaksOff(p) ==
  /\ PeerGoes(p, "saving", "failed")
  /\ Writes(p, "none")
  /\ UNCHANGED <<kind, itemVars, removal, handlerVars, accepted>>

PushFails(p) ==
  /\ PeerGoes(p, "failed", "done")
  /\ uploading' = FALSE
  /\ UNCHANGED <<kind, listed, over, path, completed, removed, ready, removal,
                 disk, handlerVars, accepted>>

(* Mutant: nobody asks whether the item is still wanted. *)
AlwaysWanted == TRUE

Wanted == ~removed

(* The push takes its file to the item, unless that was removed meanwhile. *)
FinishPush(p) ==
  /\ uploading' = FALSE
  /\ IF Wanted
     THEN /\ PeerGoes(p, "saved", "done")
          /\ path' = p
          /\ completed' = TRUE
          /\ ready' = TRUE
          /\ accepted' = accepted \cup {p}
     ELSE /\ PeerGoes(p, "saved", "dropping")
          /\ UNCHANGED <<path, completed, ready, accepted>>
  /\ UNCHANGED <<kind, listed, over, removed, removal, disk, handlerVars>>

DropPush(p) ==
  /\ PeerGoes(p, "dropping", "done")
  /\ Writes(p, "none")
  /\ UNCHANGED <<kind, itemVars, removal, handlerVars, accepted>>

-----------------------------------------------------------------------------
Removing == MarkRemoved \/ DeleteFile

HandlerStep == \/ AddItem \/ ReadFails \/ LeftStream \/ ResourceReady
               \/ WaitTimesOut \/ ReadPath \/ OpenFile
               \/ RemoveItem \/ HandlerReturns

BNext ==
  \/ Removing \/ TicketExpires \/ TimerFires
  \/ ReceiveUpload \/ UploadSaved \/ RejectUpload
  \/ HandlerStep \/ OpenStream \/ NoTunnel \/ ForwardFails \/ DesktopAnswers
  \/ TunnelEnds \/ ContextEnds \/ ContextClosesStream \/ StreamCloses
  \/ FileServed
  \/ \E p \in Peer :
       \/ ExpiredLookup(p) \/ LookupPull(p) \/ OpenPull(p) \/ PullServed(p)
       \/ LookupPush(p) \/ StartPush(p) \/ PushSaved(p) \/ PushBreaksOff(p)
       \/ PushFails(p) \/ FinishPush(p) \/ DropPush(p)

BSpec == BInit /\ [][BNext]_bvars

(* Goroutines run and time passes; nothing is owed by the Desktop, by the  *)
(* client, or by the bodies they send and read, and neither does a stream  *)
(* have to open (its first frame may find a connection that takes none) or *)
(* to close.                                                               *)
BFairSpec ==
  BSpec /\ WF_bvars(HandlerStep) /\ WF_bvars(Removing) /\ WF_bvars(TimerFires)
        /\ WF_bvars(ContextEnds) /\ WF_bvars(ContextClosesStream)
        /\ WF_bvars(TicketExpires)

-----------------------------------------------------------------------------
BTypeOK ==
  /\ kind \in {"upload", "resource"}
  /\ listed \in BOOLEAN /\ over \in BOOLEAN /\ uploading \in BOOLEAN
  /\ completed \in BOOLEAN /\ removed \in BOOLEAN /\ ready \in BOOLEAN
  /\ path \in File \cup {NoFile}
  /\ removal \in [by : Peer \cup {Handler, Timer, Nobody},
                  at : {"none", "taken", "marked", "done"}, file : File \cup {NoFile}]
  /\ listed => removal = NoRemoval
  /\ disk \in [File -> {"none", "partial", "whole"}]
  /\ handler \in {"new", "saving", "saved", "forwarding", "asking", "answered", "failed",
                  "waiting", "ready", "opening", "serving", "removing", "cleaning", "returned"}
  /\ opened \in File \cup {NoFile}
  /\ ctxDone \in BOOLEAN
  /\ stream \in {"none", "open", "closing", "closed"}
  /\ peer \in [Peer -> {"idle", "found", "pulling", "saving", "saved", "failed",
                        "dropping", "done"}]
  /\ accepted \subseteq Peer

(* Every temporary file on the disk has somebody who is going to delete it:*)
(* whoever writes it, the item that still can be removed, or the removal   *)
(* under way.                                                              *)
FileHasOwner ==
  \A f \in File :
    disk[f] # "none" =>
      \/ path = f /\ (listed \/ removal.at = "taken")
      \/ removal.file = f
      \/ f \in Peer /\ peer[f] \in {"saving", "saved", "dropping"}
      \/ f = Handler /\ handler \in {"saving", "saved"}

(* At most one push is told that its file was taken, and one that failed   *)
(* leaves the item to the next: the flag that keeps others out is up only  *)
(* while somebody is there to take it down.                                *)
OneDelivery ==
  /\ Cardinality(accepted) <= 1
  /\ uploading => \E p \in Peer : peer[p] \in {"saving", "saved", "failed"}

(* A handler woken in time finds the file of the push that was accepted,   *)
(* whole, whoever else is removing the item.                               *)
ReadyHasFile ==
  /\ handler = "ready" /\ ~over => path \in accepted
  /\ handler \in {"ready", "opening"} /\ ~over =>
       \A p \in accepted : disk[p] = "whole"
  /\ handler = "serving" => opened \in accepted

(* While the handler waits for the Desktop, no pull that its ticket let in *)
(* is turned away.                                                         *)
PullFindsFile ==
  \A p \in Peer :
    kind = "upload" /\ peer[p] = "found" /\ handler \in {"forwarding", "asking"} /\ ~over =>
      disk[Handler] = "whole"

(* Once the stream is there the client gets an answer, whatever the        *)
(* Desktop does or leaves undone, unless the stream's Close is entered and *)
(* does not come back.  (It is entered once: had it come back, the answer  *)
(* would have to follow.)                                                  *)
HandlerAnswers ==
  handler \in {"asking", "answered", "failed", "waiting", "ready", "opening"} ~>
    \/ handler \in {"serving", "removing", "cleaning", "returned"}
    \/ stream = "closing"

(* No item, and no file by way of an item, outlives its ticket: not even   *)
(* when the client never reads its answer to the end.                      *)
TicketsEnd == listed ~> ~listed /\ path = NoFile
=============================================================================

------------------------- MODULE TicketBridgeProofs ---------------------------
(***************************************************************************)
(* The safety of TicketBridge for every number of pulls and pushes.        *)
(*                                                                         *)
(* What the runs check is not inductive by itself: who owns a file depends *)
(* on how far the removal of the item is (Phases), on the one push that    *)
(* may be under way (Pushes), and on what became of the push that was      *)
(* accepted (Delivery); what the handler serves, on what it has seen       *)
(* (HandlerKnows).                                                         *)
(***************************************************************************)
EXTENDS TicketBridge, FiniteSetTheorems, TLAPS

UnderWay(p) == peer[p] \in {"saving", "saved", "failed"}

Early == handler \in {"new", "saving", "saved"}

(* How far the removal is, and what has happened to the item by then.      *)
Phases ==
  /\ removal.at = "none" => removal = NoRemoval
  /\ removal.at # "none" => ~listed
  /\ removed <=> removal.at \in {"marked", "done"}
  /\ removed => path = NoFile
  /\ removal.file # NoFile => removal.at = "marked"
  /\ removal.at # "none" => over \/ handler \in {"cleaning", "returned"}
  /\ listed => ~Early
  /\ Early => /\ ~ctxDone /\ ~over /\ ~listed /\ removal.at = "none" /\ path = NoFile
  /\ removal.at = "none" /\ ~listed => \A p \in Peer : peer[p] = "idle"
  /\ over => ctxDone

(* The push under way, if there is one, is the only one.                   *)
Pushes ==
  /\ \A p, q \in Peer : UnderWay(p) /\ UnderWay(q) => p = q
  /\ uploading <=> \E p \in Peer : UnderWay(p)
  /\ \A p \in Peer : peer[p] \in {"saving", "saved", "failed", "dropping"} => kind = "resource"
  /\ \A p \in Peer : peer[p] = "saved" => disk[p] = "whole"

(* The push that was accepted, if there is one, is the only one and its    *)
(* file is the item's, until that is removed.                              *)
Delivery ==
  /\ accepted = {} \/ \E p \in Peer : accepted = {p}
  /\ completed <=> accepted # {}
  /\ ready <=> completed
  /\ completed => ~uploading
  /\ \A p \in accepted : peer[p] = "done"
  /\ \A p \in accepted : disk[p] = "whole" \/ removal.at = "done"
  /\ completed /\ removal.at \in {"none", "taken"} => path \in accepted
  /\ path \in accepted \cup {Handler, NoFile}
  /\ removal.file \in accepted \cup {Handler, NoFile}
  /\ path = Handler \/ removal.file = Handler => kind = "upload"

(* What the handler may rely on at each of its positions.                  *)
HandlerKnows ==
  /\ handler \in {"waiting", "ready", "opening", "serving"} => kind = "resource"
  /\ handler = "ready" => ready
  /\ handler \in {"opening", "serving"} => opened \in accepted
  /\ handler = "saved" => disk[Handler] = "whole"
  /\ kind = "upload" /\ handler \in {"forwarding", "asking"} =>
       /\ removal.at \in {"none", "taken"} => path = Handler
       /\ removal.at # "done" => disk[Handler] = "whole"

IInv == BTypeOK /\ Phases /\ Pushes /\ Delivery /\ FileHasOwner /\ HandlerKnows

(* What the proofs need of the assumption: no push is the handler, and     *)
(* neither is the missing file.                                            *)
LEMMA Apart == /\ Handler # NoFile /\ Handler \notin Peer /\ NoFile \notin Peer
  BY ActorsDiffer

(* The handler has not begun, no file is on the disk.                      *)
LEMMA InitInv == BInit => IInv
<1> USE Apart DEF File
<1> SUFFICES ASSUME BInit PROVE IInv
  OBVIOUS
<1> USE DEF BInit, NoRemoval
<1>1. BTypeOK
  BY DEF BTypeOK
<1>2. Phases
  BY DEF Phases, Early
<1>3. Pushes
  BY DEF Pushes, UnderWay
<1>4. Delivery
  BY DEF Delivery
<1>5. FileHasOwner
  BY DEF FileHasOwner
<1>6. HandlerKnows
  BY DEF HandlerKnows
<1> QED BY <1>1, <1>2, <1>3, <1>4, <1>5, <1>6 DEF IInv

(* Every step of every actor preserves the invariant.                      *)
LEMMA StepInv == IInv /\ [BNext]_bvars => IInv'
<1> SUFFICES ASSUME IInv, [BNext]_bvars PROVE IInv'
  OBVIOUS
<1> USE Apart DEF IInv, File, itemVars, handlerVars, NoRemoval
<1>1. CASE MarkRemoved
  <2> USE DEF MarkRemoved
  <2>1. BTypeOK'
    <3>1. listed' \in BOOLEAN /\ uploading' \in BOOLEAN /\ completed' \in BOOLEAN
      BY <1>1 DEF BTypeOK
    <3>2. removed' \in BOOLEAN /\ ready' \in BOOLEAN /\ ctxDone' \in BOOLEAN
      BY <1>1 DEF BTypeOK
    <3>3. removal' \in [by : Peer \cup {Handler, Timer, Nobody},
                        at : {"none", "taken", "marked", "done"}, file : File \cup {NoFile}]
      BY <1>1 DEF BTypeOK
    <3> QED BY <1>1, <3>1, <3>2, <3>3 DEF BTypeOK, Phases
  <2>2. Phases'
    BY <1>1 DEF BTypeOK, Phases, Early
  <2>3. Pushes'
    BY <1>1 DEF BTypeOK, Phases, Early, Pushes, UnderWay, Delivery
  <2>4. Delivery'
    BY <1>1 DEF BTypeOK, Phases, Early, Pushes, UnderWay, Delivery,
       HandlerKnows
  <2>5. FileHasOwner'
    BY <1>1 DEF BTypeOK, Phases, Early, Pushes, UnderWay, Delivery,
       FileHasOwner
  <2>6. HandlerKnows'
    BY <1>1 DEF BTypeOK, Phases, Early, Pushes, UnderWay, Delivery,
       FileHasOwner, HandlerKnows
  <2> QED BY <2>1, <2>2, <2>3, <2>4, <2>5, <2>6
<1>2. CASE DeleteFile
  <2> USE DEF DeleteFile
  <2>1. BTypeOK'
    <3>1. listed' \in BOOLEAN /\ uploading' \in BOOLEAN /\ completed' \in BOOLEAN
      BY <1>2 DEF BTypeOK
    <3>2. removed' \in BOOLEAN /\ ready' \in BOOLEAN /\ ctxDone' \in BOOLEAN
      BY <1>2 DEF BTypeOK
    <3>3. removal' \in [by : Peer \cup {Handler, Timer, Nobody},
                        at : {"none", "taken", "marked", "done"}, file : File \cup {NoFile}]
      BY <1>2 DEF BTypeOK
    <3> QED BY <1>2, <3>1, <3>2, <3>3 DEF BTypeOK, Phases
  <2>2. Phases'
    BY <1>2 DEF BTypeOK, Phases, Early
  <2>3. Pushes'
    BY <1>2 DEF BTypeOK, Phases, Early, Pushes, UnderWay, Delivery
  <2>4. Delivery'
    BY <1>2 DEF BTypeOK, Phases, Early, Pushes, UnderWay, Delivery,
       HandlerKnows
  <2>5. FileHasOwner'
    BY <1>2 DEF BTypeOK, Phases, Early, Pushes, UnderWay, Delivery,
       FileHasOwner
  <2>6. HandlerKnows'
    BY <1>2 DEF BTypeOK, Phases, Early, Pushes, UnderWay, Delivery,
       FileHasOwner, HandlerKnows
  <2> QED BY <2>1, <2>2, <2>3, <2>4, <2>5, <2>6
<1>3. CASE TicketExpires
  BY <1>3 DEF TicketExpires, BTypeOK, Phases, Early, Pushes, UnderWay,
     Delivery, FileHasOwner, HandlerKnows
<1>4. CASE TimerFires
  <2> USE DEF TimerFires, Take
  <2>1. BTypeOK'
    <3>1. listed' \in BOOLEAN /\ uploading' \in BOOLEAN /\ completed' \in BOOLEAN
      BY <1>4 DEF BTypeOK
    <3>2. removed' \in BOOLEAN /\ ready' \in BOOLEAN /\ ctxDone' \in BOOLEAN
      BY <1>4 DEF BTypeOK
    <3>3. removal' \in [by : Peer \cup {Handler, Timer, Nobody},
                        at : {"none", "taken", "marked", "done"}, file : File \cup {NoFile}]
      BY <1>4 DEF BTypeOK
    <3> QED BY <1>4, <3>1, <3>2, <3>3 DEF BTypeOK, Phases
  <2>2. Phases'
    BY <1>4 DEF BTypeOK, Phases, Early
  <2>3. Pushes'
    BY <1>4 DEF BTypeOK, Phases, Early, Pushes, UnderWay, Delivery
  <2>4. Delivery'
    BY <1>4 DEF BTypeOK, Phases, Early, Pushes, UnderWay, Delivery,
       HandlerKnows
  <2>5. FileHasOwner'
    BY <1>4 DEF BTypeOK, Phases, Early, Pushes, UnderWay, Delivery,
       FileHasOwner
  <2>6. HandlerKnows'
    BY <1>4 DEF BTypeOK, Phases, Early, Pushes, UnderWay, Delivery,
       FileHasOwner, HandlerKnows
  <2> QED BY <2>1, <2>2, <2>3, <2>4, <2>5, <2>6
<1>5. CASE ReceiveUpload
  BY <1>5 DEF ReceiveUpload, HandlerGoes, Writes, BTypeOK, Phases, Early,
     Pushes, UnderWay, Delivery, FileHasOwner, HandlerKnows
<1>6. CASE UploadSaved
  BY <1>6 DEF UploadSaved, HandlerGoes, Writes, BTypeOK, Phases, Early, Pushes,
     UnderWay, Delivery, FileHasOwner, HandlerKnows
<1>7. CASE RejectUpload
  BY <1>7 DEF RejectUpload, Writes, BTypeOK, Phases, Early, Pushes, UnderWay,
     Delivery, FileHasOwner, HandlerKnows
<1>8. CASE AddItem
  BY <1>8 DEF AddItem, BTypeOK, Phases, Early, Pushes, UnderWay, Delivery,
     FileHasOwner, HandlerKnows
<1>9. CASE OpenStream
  BY <1>9 DEF OpenStream, HandlerGoes, BTypeOK, Phases, Early, Pushes,
     UnderWay, Delivery, FileHasOwner, HandlerKnows
<1>10. CASE ReadFails
  BY <1>10 DEF ReadFails, HandlerGoes, BTypeOK, Phases, Early, Pushes,
     UnderWay, Delivery, FileHasOwner, HandlerKnows
<1>11. CASE ResourceReady
  BY <1>11 DEF ResourceReady, HandlerGoes, BTypeOK, Phases, Early, Pushes,
     UnderWay, Delivery, FileHasOwner, HandlerKnows
<1>12. CASE WaitTimesOut
  BY <1>12 DEF WaitTimesOut, HandlerGoes, BTypeOK, Phases, Early, Pushes,
     UnderWay, Delivery, FileHasOwner, HandlerKnows
<1>13. CASE ReadPath
  BY <1>13 DEF ReadPath, HandlerGoes, BTypeOK, Phases, Early, Pushes, UnderWay,
     Delivery, FileHasOwner, HandlerKnows
<1>14. CASE OpenFile
  BY <1>14 DEF OpenFile, BTypeOK, Phases, Early, Pushes, UnderWay, Delivery,
     FileHasOwner, HandlerKnows
<1>15. CASE RemoveItem
  <2> USE DEF RemoveItem, Take, HandlerGoes
  <2>1. BTypeOK'
    <3>1. listed' \in BOOLEAN /\ uploading' \in BOOLEAN /\ completed' \in BOOLEAN
      BY <1>15 DEF BTypeOK
    <3>2. removed' \in BOOLEAN /\ ready' \in BOOLEAN /\ ctxDone' \in BOOLEAN
      BY <1>15 DEF BTypeOK
    <3>3. removal' \in [by : Peer \cup {Handler, Timer, Nobody},
                        at : {"none", "taken", "marked", "done"}, file : File \cup {NoFile}]
      BY <1>15 DEF BTypeOK
    <3> QED BY <1>15, <3>1, <3>2, <3>3 DEF BTypeOK, Phases
  <2>2. Phases'
    BY <1>15 DEF BTypeOK, Phases, Early
  <2>3. Pushes'
    BY <1>15 DEF BTypeOK, Phases, Early, Pushes, UnderWay, Delivery
  <2>4. Delivery'
    BY <1>15 DEF BTypeOK, Phases, Early, Pushes, UnderWay, Delivery,
       HandlerKnows
  <2>5. FileHasOwner'
    BY <1>15 DEF BTypeOK, Phases, Early, Pushes, UnderWay, Delivery,
       FileHasOwner
  <2>6. HandlerKnows'
    BY <1>15 DEF BTypeOK, Phases, Early, Pushes, UnderWay, Delivery,
       FileHasOwner, HandlerKnows
  <2> QED BY <2>1, <2>2, <2>3, <2>4, <2>5, <2>6
<1>16. CASE HandlerReturns
  BY <1>16 DEF HandlerReturns, HandlerGoes, BTypeOK, Phases, Early, Pushes,
     UnderWay, Delivery, FileHasOwner, HandlerKnows
<1>17. CASE NoTunnel \/ ForwardFails \/ DesktopAnswers
  BY <1>17 DEF NoTunnel, ForwardFails, DesktopAnswers, LeaveStream, HandlerGoes,
     BTypeOK, Phases, Early, Pushes, UnderWay, Delivery, FileHasOwner, HandlerKnows
<1>18. CASE TunnelEnds \/ ContextClosesStream \/ StreamCloses
  BY <1>18 DEF TunnelEnds, ContextClosesStream, StreamCloses, BTypeOK, Phases,
     Early, Pushes, UnderWay, Delivery, FileHasOwner, HandlerKnows
<1>19. CASE ContextEnds
  BY <1>19 DEF ContextEnds, BTypeOK, Phases, Early, Pushes, UnderWay, Delivery,
     FileHasOwner, HandlerKnows
<1>20. CASE LeftStream
  BY <1>20 DEF LeftStream, HandlerGoes, BTypeOK, Phases, Early, Pushes, UnderWay,
     Delivery, FileHasOwner, HandlerKnows
<1>21. CASE FileServed
  BY <1>21 DEF FileServed, HandlerGoes, BTypeOK, Phases, Early, Pushes,
     UnderWay, Delivery, FileHasOwner, HandlerKnows
<1>22. ASSUME NEW p \in Peer, ExpiredLookup(p) PROVE IInv'
  <2> USE DEF ExpiredLookup, PeerGoes, Take
  <2>1. BTypeOK'
    <3>1. listed' \in BOOLEAN /\ uploading' \in BOOLEAN /\ completed' \in BOOLEAN
      BY <1>22 DEF BTypeOK
    <3>2. removed' \in BOOLEAN /\ ready' \in BOOLEAN /\ ctxDone' \in BOOLEAN
      BY <1>22 DEF BTypeOK
    <3>3. removal' \in [by : Peer \cup {Handler, Timer, Nobody},
                        at : {"none", "taken", "marked", "done"}, file : File \cup {NoFile}]
      BY <1>22 DEF BTypeOK
    <3> QED BY <1>22, <3>1, <3>2, <3>3 DEF BTypeOK, Phases
  <2>2. Phases'
    BY <1>22 DEF BTypeOK, Phases, Early
  <2>3. Pushes'
    BY <1>22 DEF BTypeOK, Phases, Early, Pushes, UnderWay, Delivery
  <2>4. Delivery'
    BY <1>22 DEF BTypeOK, Phases, Early, Pushes, UnderWay, Delivery,
       HandlerKnows
  <2>5. FileHasOwner'
    BY <1>22 DEF BTypeOK, Phases, Early, Pushes, UnderWay, Delivery,
       FileHasOwner
  <2>6. HandlerKnows'
    BY <1>22 DEF BTypeOK, Phases, Early, Pushes, UnderWay, Delivery,
       FileHasOwner, HandlerKnows
  <2> QED BY <2>1, <2>2, <2>3, <2>4, <2>5, <2>6
<1>23. ASSUME NEW p \in Peer, LookupPull(p) PROVE IInv'
  BY <1>23 DEF LookupPull, PeerGoes, BTypeOK, Phases, Early, Pushes, UnderWay,
     Delivery, FileHasOwner, HandlerKnows
<1>24. ASSUME NEW p \in Peer, OpenPull(p) PROVE IInv'
  BY <1>24 DEF OpenPull, PeerGoes, BTypeOK, Phases, Early, Pushes, UnderWay,
     Delivery, FileHasOwner, HandlerKnows
<1>25. ASSUME NEW p \in Peer, PullServed(p) PROVE IInv'
  BY <1>25 DEF PullServed, PeerGoes, BTypeOK, Phases, Early, Pushes, UnderWay,
     Delivery, FileHasOwner, HandlerKnows
<1>26. ASSUME NEW p \in Peer, LookupPush(p) PROVE IInv'
  BY <1>26 DEF LookupPush, PeerGoes, BTypeOK, Phases, Early, Pushes, UnderWay,
     Delivery, FileHasOwner, HandlerKnows
<1>27. ASSUME NEW p \in Peer, StartPush(p) PROVE IInv'
  <2> USE DEF StartPush, PeerGoes, MayPush, Writes
  <2>1. BTypeOK'
    <3>1. listed' \in BOOLEAN /\ uploading' \in BOOLEAN /\ completed' \in BOOLEAN
      BY <1>27 DEF BTypeOK
    <3>2. removed' \in BOOLEAN /\ ready' \in BOOLEAN /\ ctxDone' \in BOOLEAN
      BY <1>27 DEF BTypeOK
    <3> QED BY <1>27, <3>1, <3>2 DEF BTypeOK
  <2>2. Phases'
    BY <1>27 DEF BTypeOK, Phases, Early
  <2>3. Pushes'
    BY <1>27 DEF BTypeOK, Phases, Early, Pushes, UnderWay, Delivery
  <2>4. Delivery'
    BY <1>27 DEF BTypeOK, Phases, Early, Pushes, UnderWay, Delivery,
       HandlerKnows
  <2>5. FileHasOwner'
    BY <1>27 DEF BTypeOK, Phases, Early, Pushes, UnderWay, Delivery,
       FileHasOwner
  <2>6. HandlerKnows'
    BY <1>27 DEF BTypeOK, Phases, Early, Pushes, UnderWay, Delivery,
       FileHasOwner, HandlerKnows
  <2> QED BY <2>1, <2>2, <2>3, <2>4, <2>5, <2>6
<1>28. ASSUME NEW p \in Peer, PushSaved(p) PROVE IInv'
  BY <1>28 DEF PushSaved, PeerGoes, Writes, BTypeOK, Phases, Early, Pushes,
     UnderWay, Delivery, FileHasOwner, HandlerKnows
<1>29. ASSUME NEW p \in Peer, PushBreaksOff(p) PROVE IInv'
  BY <1>29 DEF PushBreaksOff, PeerGoes, Writes, BTypeOK, Phases, Early, Pushes,
     UnderWay, Delivery, FileHasOwner, HandlerKnows
<1>30. ASSUME NEW p \in Peer, PushFails(p) PROVE IInv'
  <2> USE DEF PushFails, PeerGoes
  <2>1. BTypeOK'
    <3>1. listed' \in BOOLEAN /\ uploading' \in BOOLEAN /\ completed' \in BOOLEAN
      BY <1>30 DEF BTypeOK
    <3>2. removed' \in BOOLEAN /\ ready' \in BOOLEAN /\ ctxDone' \in BOOLEAN
      BY <1>30 DEF BTypeOK
    <3> QED BY <1>30, <3>1, <3>2 DEF BTypeOK
  <2>2. Phases'
    BY <1>30 DEF BTypeOK, Phases, Early
  <2>3. Pushes'
    BY <1>30 DEF BTypeOK, Phases, Early, Pushes, UnderWay, Delivery
  <2>4. Delivery'
    BY <1>30 DEF BTypeOK, Phases, Early, Pushes, UnderWay, Delivery,
       HandlerKnows
  <2>5. FileHasOwner'
    BY <1>30 DEF BTypeOK, Phases, Early, Pushes, UnderWay, Delivery,
       FileHasOwner
  <2>6. HandlerKnows'
    BY <1>30 DEF BTypeOK, Phases, Early, Pushes, UnderWay, Delivery,
       FileHasOwner, HandlerKnows
  <2> QED BY <2>1, <2>2, <2>3, <2>4, <2>5, <2>6
<1>31. ASSUME NEW p \in Peer, FinishPush(p) PROVE IInv'
  <2> USE DEF FinishPush, PeerGoes, Wanted
  <2>1. BTypeOK'
    <3>1. listed' \in BOOLEAN /\ uploading' \in BOOLEAN /\ completed' \in BOOLEAN
      BY <1>31 DEF BTypeOK
    <3>2. removed' \in BOOLEAN /\ ready' \in BOOLEAN /\ ctxDone' \in BOOLEAN
      BY <1>31 DEF BTypeOK
    <3> QED BY <1>31, <3>1, <3>2 DEF BTypeOK
  <2>2. Phases'
    BY <1>31 DEF BTypeOK, Phases, Early
  <2>3. Pushes'
    BY <1>31 DEF BTypeOK, Phases, Early, Pushes, UnderWay, Delivery
  <2>4. Delivery'
    BY <1>31 DEF BTypeOK, Phases, Early, Pushes, UnderWay, Delivery,
       HandlerKnows
  <2>5. FileHasOwner'
    <3>1. CASE Wanted
      BY <1>31, <3>1 DEF BTypeOK, Phases, Pushes, UnderWay, Delivery,
         FileHasOwner
    <3>2. CASE ~Wanted
      BY <1>31, <3>2 DEF BTypeOK, Phases, Pushes, UnderWay, Delivery,
         FileHasOwner
    <3> QED BY <3>1, <3>2
  <2>6. HandlerKnows'
    BY <1>31 DEF BTypeOK, Phases, Early, Pushes, UnderWay, Delivery,
       FileHasOwner, HandlerKnows
  <2> QED BY <2>1, <2>2, <2>3, <2>4, <2>5, <2>6
<1>32. ASSUME NEW p \in Peer, DropPush(p) PROVE IInv'
  BY <1>32 DEF DropPush, PeerGoes, Writes, BTypeOK, Phases, Early, Pushes,
     UnderWay, Delivery, FileHasOwner, HandlerKnows
<1>33. CASE UNCHANGED bvars
  <2> USE DEF bvars
  <2>1. BTypeOK'
    BY <1>33 DEF BTypeOK
  <2>2. Phases'
    BY <1>33 DEF BTypeOK, Phases, Early
  <2>3. Pushes'
    BY <1>33 DEF BTypeOK, Phases, Early, Pushes, UnderWay, Delivery
  <2>4. Delivery'
    BY <1>33 DEF BTypeOK, Phases, Early, Pushes, UnderWay, Delivery,
       HandlerKnows
  <2>5. FileHasOwner'
    BY <1>33 DEF BTypeOK, Phases, Early, Pushes, UnderWay, Delivery,
       FileHasOwner
  <2>6. HandlerKnows'
    BY <1>33 DEF BTypeOK, Phases, Early, Pushes, UnderWay, Delivery,
       FileHasOwner, HandlerKnows
  <2> QED BY <2>1, <2>2, <2>3, <2>4, <2>5, <2>6
<1> QED
  BY <1>1, <1>2, <1>3, <1>4, <1>5, <1>6, <1>7, <1>8, <1>9, <1>10, <1>11, <1>12,
     <1>13, <1>14, <1>15, <1>16, <1>17, <1>18, <1>19, <1>20, <1>21, <1>22, <1>23,
     <1>24, <1>25, <1>26, <1>27, <1>28, <1>29, <1>30, <1>31, <1>32, <1>33
  DEF BNext, Removing, HandlerStep

(* IInv, the inductive invariant, holds in every reachable state.          *)
THEOREM Inductive == BSpec => []IInv
  BY InitInv, StepInv, PTL DEF BSpec

(* Type correctness.                                                       *)
THEOREM TypeCorrect == BSpec => []BTypeOK
<1>1. IInv => BTypeOK
  BY DEF IInv
<1> QED BY <1>1, Inductive, PTL

(* No temporary file is ever without somebody who is going to delete it,   *)
(* however many requests race for the item.                                *)
THEOREM FilesAreOwned == BSpec => []FileHasOwner
<1>1. IInv => FileHasOwner
  BY DEF IInv
<1> QED BY <1>1, Inductive, PTL

(* At most one push is accepted, and a failed one leaves the way open for  *)
(* the next.                                                               *)
THEOREM DeliveredOnce == BSpec => []OneDelivery
<1>1. IInv => OneDelivery
  <2> SUFFICES ASSUME IInv PROVE OneDelivery
    OBVIOUS
  <2>1. Cardinality(accepted) <= 1
    <3>1. CASE accepted = {}
      BY <3>1, FS_EmptySet
    <3>2. ASSUME NEW p \in Peer, accepted = {p} PROVE Cardinality(accepted) <= 1
      <4>1. Cardinality({p}) = 1
        BY FS_Singleton
      <4> QED BY <3>2, <4>1
    <3> QED BY <3>1, <3>2 DEF IInv, Delivery
  <2>2. uploading => \E p \in Peer : peer[p] \in {"saving", "saved", "failed"}
    BY DEF IInv, Pushes, UnderWay
  <2> QED BY <2>1, <2>2 DEF OneDelivery
<1> QED BY <1>1, Inductive, PTL

(* A handler woken in time serves the accepted file.                       *)
THEOREM WokenForAFile == BSpec => []ReadyHasFile
<1>1. IInv => ReadyHasFile
  BY DEF IInv, BTypeOK, Phases, Delivery, HandlerKnows, ReadyHasFile
<1> QED BY <1>1, Inductive, PTL

(* A pull that was let in finds the upload while the handler waits.        *)
THEOREM PullsAreServed == BSpec => []PullFindsFile
<1>1. IInv => PullFindsFile
  BY DEF IInv, BTypeOK, Phases, HandlerKnows, PullFindsFile
<1> QED BY <1>1, Inductive, PTL
=============================================================================

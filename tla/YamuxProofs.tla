---------------------------- MODULE YamuxProofs -----------------------------
(***************************************************************************)
(* The safety of Yamux for any number of streams, any capacities and any   *)
(* number of payloads, whatever ids the peer's frames name.                *)
(*                                                                         *)
(* The inductive invariant YInv says where a stream that is in use is      *)
(* found, unless its id was misused: in the map, under its id, until its   *)
(* channel is closed (Known, Fresh), in what Session.Close has left to     *)
(* visit (ToVisit), or in the hand of the read loop, which knows what it   *)
(* is about to do with it (InHand).  A stream in the map whose channel the *)
(* peer had closed is about to be removed from it (ClosedLeaves).  An id   *)
(* that was not misused belongs to one stream (Ids).                       *)
(***************************************************************************)
EXTENDS Yamux, SequenceTheorems, TLAPS

InUse == {"inserted", "open", "offered"}

(* The peer has used the stream's id in turn. *)
Proper(s) == id[s] \notin misused

Ids ==
  /\ \A s \in Local : id[s] = s
  /\ \A s \in Remote : /\ life[s] \in {"none", "offered", "open"}
                       /\ Begun(s) /\ Proper(s) => id[s] \in Remote
  /\ \A s, t \in Stream : Begun(s) /\ Begun(t) /\ Proper(s) /\ id[s] = id[t] => s = t
  /\ \A i \in Id : sent[i] # 0 => Opened(i)

(* Nothing waits in a channel of a stream that has the id i. *)
Over(i) == \A s \in Stream : id[s] = i /\ life[s] \in InUse => once[s] # "free"

InHand ==
  /\ loop \in {"offering", "pushing", "shutting"} => hand \in Stream /\ Begun(hand)
  /\ loop = "offering" => hand \in Remote
  /\ loop = "pushing" => (once[hand] = "shut" => IsClosed)
  /\ loop = "shutting" => fin[id[hand]] = sent[id[hand]]
  /\ loop = "forgetting" =>
       /\ hand \in Id
       /\ hand \notin misused => Opened(hand) /\ (Over(hand) \/ shutdown = "done")

Offered == \A k \in 1..Len(accept) : life[accept[k]] \in {"offered", "open"}

Entries ==
  \A i \in Id : streams[i] # NoStream => id[streams[i]] = i /\ Begun(streams[i])

Known ==
  shutdown # "done" =>
    \A s \in Stream : life[s] \in InUse /\ once[s] = "free" /\ Proper(s) => streams[id[s]] = s

Fresh ==
  \A s \in Stream : ~Begun(s) =>
    once[s] = "free" /\ s \notin left /\ readCh[s] = <<>> /\ got[s] = <<>>

ClosedLeaves ==
  ~IsClosed => \A i \in Id : streams[i] # NoStream /\ once[streams[i]] = "shut"
                               => loop = "forgetting" /\ hand = i

ToVisit ==
  shutdown = "sweeping" =>
    \A s \in Local : life[s] = "open" /\ once[s] = "free" /\ s \notin misused => s \in left

(* NoGap without concatenation. *)
InOrder(s) ==
  /\ \A k \in 1..Len(got[s]) : got[s][k] = k
  /\ \A k \in 1..Len(readCh[s]) : readCh[s][k] = Len(got[s]) + k

Arrived(s) == Len(got[s]) + Len(readCh[s])

Order ==
  ~IsClosed => \A s \in Stream :
    /\ life[s] \in InUse /\ Proper(s) =>
         /\ once[s] = "free" =>
              /\ InOrder(s)
              /\ Arrived(s) = IF loop = "pushing" /\ hand = s
                              THEN sent[id[s]] - 1 ELSE sent[id[s]]
         /\ once[s] = "shut" => Arrived(s) = fin[id[s]]
    /\ s \in eof => life[s] = "open" /\ ChanClosed(s) /\ readCh[s] = <<>>

(* Where streams are. *)
Places == Ids /\ InHand /\ Offered /\ Entries /\ Known /\ Fresh /\ ClosedLeaves /\ ToVisit

YInv == YTypeOK /\ Places /\ Order /\ PeerCannotPanic /\ NoReaderLeftBehind

-----------------------------------------------------------------------------
(* Buffers: what comes out at the head and goes in at the end.             *)

LEMMA TakeOne ==
  ASSUME NEW S, NEW q \in Seq(S), q # <<>>
  PROVE  /\ Head(q) \in S /\ Head(q) = q[1]
         /\ Tail(q) \in Seq(S)
         /\ Len(q) \in Nat \ {0} /\ Len(Tail(q)) = Len(q) - 1
         /\ \A i \in 1..(Len(q) - 1) : Tail(q)[i] = q[i + 1]
BY EmptySeq, HeadTailProperties, LenProperties

LEMMA PutOne ==
  ASSUME NEW S, NEW q \in Seq(S), NEW e \in S
  PROVE  /\ Append(q, e) \in Seq(S)
         /\ Len(q) \in Nat /\ Len(Append(q, e)) = Len(q) + 1
         /\ \A i \in 1..Len(q) : Append(q, e)[i] = q[i]
         /\ Append(q, e)[Len(q) + 1] = e
BY AppendProperties, LenProperties

-----------------------------------------------------------------------------
(* Types.                                                                  *)

LEMMA TypeOpening ==
  ASSUME YTypeOK, NEW s \in Stream, OpenCheck(s) \/ OpenStep(s)
  PROVE  YTypeOK'
<1> USE DEF YTypeOK, Put, Remove, Id, Up, sessionVars, userVars, peerVars, loopVars
<1>1. CASE OpenCheck(s)
  BY <1>1 DEF OpenCheck
<1>2. CASE OpenInsert(s)
  BY <1>2 DEF OpenInsert
<1>3. CASE OpenWrite(s)
  BY <1>3 DEF OpenWrite
<1>4. CASE OpenFail(s)
  BY <1>4 DEF OpenFail
<1> QED BY <1>1, <1>2, <1>3, <1>4 DEF OpenStep

LEMMA TypeAccept ==
  ASSUME YTypeOK, AcceptStream
  PROVE  YTypeOK'
<1> USE DEF YTypeOK, AcceptStream, Up, sessionVars, userVars, peerVars, loopVars
<1>1. accept \in Seq(Remote) /\ accept # <<>> /\ accept' = Tail(accept)
  OBVIOUS
<1>2. Len(accept') = Len(accept) - 1 /\ Len(accept) \in Nat /\ accept' \in Seq(Remote)
  BY <1>1, TakeOne
<1>3. Len(accept') <= AcceptCapacity
  BY <1>2, CapacitiesAreNat
<1> QED BY <1>2, <1>3

LEMMA TypeRead ==
  ASSUME YTypeOK, NEW s \in Stream, Read(s)
  PROVE  YTypeOK'
<1> USE DEF YTypeOK, Read, Up, sessionVars, peerVars, loopVars
<1>1. CASE readCh[s] = <<>>
  BY <1>1
<1>2. CASE readCh[s] # <<>>
  <2>1. got[s] \in Seq(Nat) /\ readCh[s] \in Seq(Nat)
    OBVIOUS
  <2>2. /\ Head(readCh[s]) \in Nat
        /\ Tail(readCh[s]) \in Seq(Nat)
        /\ Len(readCh[s]) \in Nat /\ Len(Tail(readCh[s])) = Len(readCh[s]) - 1
    BY <1>2, <2>1, TakeOne
  <2>3. Append(got[s], Head(readCh[s])) \in Seq(Nat)
    BY <2>1, <2>2, PutOne
  <2>4. /\ got' = [got EXCEPT ![s] = Append(got[s], Head(readCh[s]))]
        /\ readCh' = [readCh EXCEPT ![s] = Tail(readCh[s])]
    BY <1>2
  <2>5. Len(Tail(readCh[s])) <= ReadCapacity
    BY <2>2, CapacitiesAreNat
  <2>6. got' \in [Stream -> Seq(Nat)] /\ readCh' \in [Stream -> Seq(Nat)]
    BY <2>2, <2>3, <2>4
  <2>7. \A x \in Stream : Len(readCh'[x]) <= ReadCapacity
    BY <2>4, <2>5
  <2> QED BY <1>2, <2>6, <2>7
<1> QED BY <1>1, <1>2

LEMMA TypeClosing ==
  ASSUME YTypeOK, NEW s \in Stream, CloseBegin(s) \/ CloseStep(s)
  PROVE  YTypeOK'
BY DEF YTypeOK, CloseStep, CloseBegin, CloseWrite, CloseRemove, CloseChannel, CloseMoves,
       Put, Remove, Id, Up, sessionVars, userVars, peerVars, loopVars

LEMMA TypeFrame ==
  ASSUME YTypeOK, Frame
  PROVE  YTypeOK'
<1> USE DEF YTypeOK, LoopMoves, Put, Notes, Id, Up, sessionVars, streamVars, userVars,
            peerVars, loopVars
<1>1. CASE ReadFails
  BY <1>1 DEF ReadFails
<1>2. ASSUME NEW s \in Stream, NEW i \in Id, ReadOpenFrame(s, i) PROVE YTypeOK'
  BY <1>2 DEF ReadOpenFrame
<1>3. ASSUME NEW i \in Id, ReadDataFrame(i) PROVE YTypeOK'
  BY <1>3 DEF ReadDataFrame
<1>4. ASSUME NEW i \in Id, ReadCloseFrame(i) PROVE YTypeOK'
  BY <1>4 DEF ReadCloseFrame
<1> QED BY <1>1, <1>2, <1>3, <1>4 DEF Frame

LEMMA TypeLoop ==
  ASSUME YTypeOK, InHand, LoopStep
  PROVE  YTypeOK'
<1> USE DEF YTypeOK, LoopMoves, Up, sessionVars, streamVars, userVars, peerVars, loopVars
<1>1. CASE LoopEnds \/ LoopRemove
  BY <1>1 DEF LoopEnds, LoopRemove, Remove, Put, Id
<1>2. CASE Offer
  <2>1. accept \in Seq(Remote) /\ hand \in Remote
    BY <1>2 DEF Offer, InHand
  <2>2. /\ Append(accept, hand) \in Seq(Remote)
        /\ Len(accept) \in Nat /\ Len(Append(accept, hand)) = Len(accept) + 1
    BY <2>1, PutOne
  <2>3. CASE Len(accept) < AcceptCapacity /\ accept' = Append(accept, hand)
    BY <2>2, <2>3, <1>2, CapacitiesAreNat DEF Offer
  <2>4. CASE UNCHANGED accept
    BY <2>4, <1>2 DEF Offer
  <2> QED BY <1>2, <2>3, <2>4 DEF Offer
<1>3. CASE Push
  <2>1. hand \in Stream /\ InHandNow \in Nat
    BY <1>3 DEF Push, InHand, InHandNow
  <2>2. readCh[hand] \in Seq(Nat)
    BY <2>1
  <2>3. /\ Append(readCh[hand], InHandNow) \in Seq(Nat)
        /\ Len(readCh[hand]) \in Nat
        /\ Len(Append(readCh[hand], InHandNow)) = Len(readCh[hand]) + 1
    BY <2>1, <2>2, PutOne
  <2>4. CASE HasRoom(hand) /\ readCh' = [readCh EXCEPT ![hand] = Append(@, InHandNow)]
    <3>1. Len(Append(readCh[hand], InHandNow)) <= ReadCapacity
      BY <2>3, <2>4, CapacitiesAreNat DEF HasRoom
    <3>2. readCh' = [readCh EXCEPT ![hand] = Append(readCh[hand], InHandNow)]
      BY <2>4
    <3>3. readCh' \in [Stream -> Seq(Nat)]
      BY <2>3, <3>2
    <3>4. \A x \in Stream : Len(readCh'[x]) <= ReadCapacity
      BY <3>1, <3>2
    <3> QED BY <1>3, <3>3, <3>4 DEF Push, Panic
  <2>5. CASE UNCHANGED readCh
    BY <1>3, <2>5 DEF Push, Panic
  <2> QED BY <1>3, <2>4, <2>5 DEF Push
<1>4. CASE LoopCloseLocal
  BY <1>4 DEF LoopCloseLocal, CloseLocal, InHand, Id
<1> QED BY <1>1, <1>2, <1>3, <1>4 DEF LoopStep

LEMMA TypeShutdown ==
  ASSUME YTypeOK, SessionClose \/ ShutdownStep
  PROVE  YTypeOK'
<1> USE DEF YTypeOK, ShutdownMoves, Up, streamVars, userVars, peerVars, loopVars
<1>1. CASE SessionClose \/ HangUp \/ SweepEnd
  BY <1>1 DEF SessionClose, HangUp, SweepEnd
<1>2. CASE SweepBegin
  <2>1. InMap \subseteq Stream
    BY DEF InMap
  <2> QED BY <1>2, <2>1 DEF SweepBegin
<1>3. ASSUME NEW s \in Stream, Sweep(s) PROVE YTypeOK'
  BY <1>3 DEF Sweep, CloseLocal
<1> QED BY <1>1, <1>2, <1>3 DEF ShutdownStep

-----------------------------------------------------------------------------
(* Who disturbs nothing.                                                   *)

(* A step of a process that lives on is no panic. *)
LEMMA NoPanic ==
  ASSUME Up
  PROVE  PeerCannotPanic'
BY DEF Up, PeerCannotPanic

LEMMA OrderFrame ==
  ASSUME YInv, UNCHANGED <<once, readCh, got, eof, sent, fin, misused>>,
         IsClosed => IsClosed',
         \A s \in Stream : /\ life'[s] \in InUse => life[s] \in InUse /\ id'[s] = id[s]
                           /\ life[s] = "open" => life'[s] = "open",
         loop' = "pushing" <=> loop = "pushing", loop = "pushing" => hand' = hand
  PROVE  Order'
<1>1. \A s \in Stream : (InOrder(s)' <=> InOrder(s)) /\ Arrived(s)' = Arrived(s)
  BY DEF InOrder, Arrived
<1>2. \A s \in Stream : ChanClosed(s)' <=> ChanClosed(s)
  BY DEF ChanClosed
<1>3. \A s \in Stream : life'[s] \in InUse => (Proper(s)' <=> Proper(s))
  BY DEF Proper
<1> QED BY <1>1, <1>2, <1>3 DEF YInv, Order

LEMMA ReadersFrame ==
  ASSUME YInv, shutdown' = "done" => shutdown = "done", misused \subseteq misused',
         \A s \in Local : life'[s] = "open" /\ once'[s] = "free"
                            => life[s] = "open" /\ once[s] = "free"
  PROVE  NoReaderLeftBehind'
BY DEF YInv, NoReaderLeftBehind

LEMMA PlacesFrame ==
  ASSUME Places, UNCHANGED <<shutdown, left, streams, accept, id, life, once, loop, hand,
                             sent, fin, misused>>,
         \A s \in Stream : ~Begun(s) => readCh'[s] = readCh[s] /\ got'[s] = got[s]
  PROVE  Places'
BY DEF Places, Ids, InHand, Offered, Entries, Known, InUse, Fresh, ClosedLeaves, ToVisit,
       IsClosed, Begun, Proper, Opened, Over

-----------------------------------------------------------------------------
(* One lemma for an action, or for a few that do the same.                 *)

LEMMA IdsFrame ==
  ASSUME YInv, UNCHANGED <<id, sent>>, misused \subseteq misused',
         \A s \in Stream : Begun(s)' <=> Begun(s),
         \A s \in Remote : life'[s] \in {"none", "offered", "open"}
  PROVE  Ids'
<1>1. \A i \in Id : Opened(i) => Opened(i)'
  BY DEF Opened
<1>2. \A i \in Id : sent'[i] # 0 => Opened(i)'
  BY <1>1 DEF YInv, Places, Ids
<1>3. \A s \in Stream : Proper(s)' => Proper(s)
  BY DEF Proper
<1> QED BY <1>2, <1>3 DEF YInv, Places, Ids, Stream

LEMMA OpeningSteps ==
  ASSUME YInv, NEW s \in Stream, OpenCheck(s) \/ OpenStep(s)
  PROVE  YInv'
<1>1. YTypeOK'
  BY TypeOpening DEF YInv
<1>2. /\ Up /\ UNCHANGED <<shutdown, left, accept, id, once, readCh, got, eof, sent, fin,
                           misused, loop, hand>>
      /\ \A x \in Stream : x # s => life'[x] = life[x]
  BY DEF YInv, YTypeOK, OpenStep, OpenCheck, OpenInsert, OpenWrite, OpenFail, Up,
         sessionVars, userVars, peerVars, loopVars
<1>3. \/ UNCHANGED streams /\ life[s] = "none" /\ life'[s] = "checked"
      \/ /\ UNCHANGED streams /\ life[s] = "inserted"
         /\ (life'[s] = "open" /\ ~ConnClosed) \/ life'[s] = "failing"
      \/ /\ streams' = [streams EXCEPT ![s] = s]
         /\ life[s] = "checked" /\ life'[s] = "inserted" /\ shutdown # "sweeping"
      \/ /\ streams' = [streams EXCEPT ![s] = NoStream]
         /\ life[s] = "failing" /\ life'[s] = "failed"
  BY DEF YInv, YTypeOK, OpenStep, OpenCheck, OpenInsert, OpenWrite, OpenFail, Put, Remove,
         MuFree, sessionVars
<1>4. s \in Local /\ s \notin Remote /\ id[s] = s /\ s # NoStream
  <2>1. life[s] # "none" => s \in Local
    BY <1>3 DEF YInv, Places, Ids, Stream
  <2>2. s \in Local
    BY <2>1, <1>3 DEF OpenStep, OpenCheck, OpenInsert, OpenWrite, OpenFail
  <2> QED BY <2>2, SidesDisjoint, NoStreamFresh DEF YInv, Places, Ids, Stream
<1>5. /\ \A x \in Stream : x # s => (Begun(x)' <=> Begun(x))
      /\ Begun(s) => Begun(s)'
      /\ ~Begun(s) /\ Begun(s)' => life'[s] = "inserted"
  BY <1>2, <1>3 DEF Begun
<1>6. \/ UNCHANGED streams /\ (Begun(s)' => Begun(s))
      \/ life'[s] = "inserted" /\ streams' = [streams EXCEPT ![s] = s]
      \/ life'[s] = "failed" /\ streams' = [streams EXCEPT ![s] = NoStream]
  BY <1>3 DEF Begun
<1>7. \A t \in Stream : Begun(t) /\ id[t] = s => t = s \/ s \in misused
  BY <1>4, SidesDisjoint DEF YInv, Places, Ids, Proper, Stream
<1>8. Ids'
  <2>1. \A x \in Local : id'[x] = x
    BY <1>2 DEF YInv, Places, Ids
  <2>2. \A x \in Remote : /\ life'[x] \in {"none", "offered", "open"}
                          /\ Begun(x)' /\ Proper(x)' => id'[x] \in Remote
    BY <1>2, <1>3, <1>4, <1>5 DEF YInv, Places, Ids, Proper, Stream
  <2>3. \A x, y \in Stream : Begun(x)' /\ Begun(y)' /\ Proper(x)' /\ id'[x] = id'[y] => x = y
    BY <1>2, <1>4, <1>5, <1>7 DEF YInv, Places, Ids, Proper
  <2>4. \A i \in Id : sent'[i] # 0 => Opened(i)'
    BY <1>2, <1>5 DEF YInv, Places, Ids, Opened
  <2> QED BY <2>1, <2>2, <2>3, <2>4 DEF Ids
<1>9. InHand'
  <2>1. ASSUME NEW i \in Id, Opened(i) PROVE Opened(i)'
    BY <1>2, <1>5, <2>1 DEF Opened
  <2>2. ASSUME NEW i \in Id, Opened(i), i \notin misused, Over(i) PROVE Over(i)'
    <3>1. ASSUME NEW x \in Stream, id[x] = i, life'[x] \in InUse, life[x] \notin InUse
          PROVE  FALSE
      BY <1>2, <1>3, <1>4, <1>7, <2>2, <3>1 DEF InUse, Begun, Opened
    <3> QED BY <1>2, <2>2, <3>1 DEF Over
  <2> QED BY <1>2, <1>5, <2>1, <2>2 DEF YInv, Places, InHand, IsClosed
<1>10. Offered'
  <2> SUFFICES ASSUME NEW i \in 1..Len(accept) PROVE life'[accept[i]] \in {"offered", "open"}
    BY <1>2 DEF Offered
  <2>1. accept[i] \in Stream
    BY LenProperties DEF YInv, YTypeOK, Stream
  <2> QED BY <1>2, <1>3, <2>1 DEF YInv, Places, Offered
<1>11. Entries'
  <2> SUFFICES ASSUME NEW i \in Id, streams'[i] # NoStream
               PROVE  /\ id[streams'[i]] = i
                      /\ life'[streams'[i]] \notin {"none", "checked"}
    BY <1>2 DEF Entries, Begun
  <2>1. CASE streams'[i] = streams[i]
    <3>1. streams[i] \in Stream /\ id[streams[i]] = i /\ Begun(streams[i])
      BY <2>1 DEF YInv, YTypeOK, Places, Entries
    <3> QED BY <1>5, <2>1, <3>1 DEF Begun
  <2>2. CASE streams'[i] # streams[i]
    <3>1. i = s /\ streams'[i] = s /\ life'[s] = "inserted"
      BY <1>4, <1>6, <2>2 DEF YInv, YTypeOK, Id
    <3> QED BY <1>4, <3>1 DEF Begun
  <2> QED BY <2>1, <2>2
<1>12. Known'
  <2> SUFFICES ASSUME NEW x \in Stream, shutdown # "done", life'[x] \in InUse,
                      once[x] = "free", id[x] \notin misused
               PROVE  streams'[id[x]] = x
    BY <1>2 DEF Known, Proper
  <2>1. CASE life[x] \in InUse
    <3>1. streams[id[x]] = x /\ Begun(x)
      BY <2>1 DEF YInv, Places, Known, Proper, InUse, Begun
    <3>2. id[x] = s => x = s
      BY <1>7, <3>1
    <3> QED BY <1>2, <1>3, <1>4, <1>6, <3>1, <3>2 DEF YInv, YTypeOK, InUse, Id
  <2>2. CASE life[x] \notin InUse
    <3>1. x = s /\ life'[s] = "inserted"
      BY <1>2, <1>3, <2>2 DEF InUse
    <3> QED BY <1>4, <1>6, <3>1, <1>2, <1>3 DEF YInv, YTypeOK, Id, Begun
  <2> QED BY <2>1, <2>2
<1>13. Fresh'
  BY <1>2, <1>5 DEF YInv, Places, Fresh
<1>14. ClosedLeaves'
  <2>1. ~Begun(s) => once[s] = "free"
    BY DEF YInv, Places, Fresh
  <2> QED BY <1>2, <1>3, <1>4, <1>6, <2>1 DEF YInv, YTypeOK, Places, ClosedLeaves, IsClosed,
             Id, Begun
<1>15. ToVisit'
  BY <1>2, <1>3 DEF YInv, Places, ToVisit, ConnClosed, Stream
<1>16. Order'
  <2> SUFFICES ASSUME ~IsClosed, NEW x \in Stream
               PROVE  /\ life'[x] \in InUse /\ Proper(x) =>
                           /\ once[x] = "free" =>
                                /\ InOrder(x)
                                /\ Arrived(x) = IF loop = "pushing" /\ hand = x
                                                THEN sent[id[x]] - 1 ELSE sent[id[x]]
                           /\ once[x] = "shut" => Arrived(x) = fin[id[x]]
                      /\ x \in eof => life'[x] = "open" /\ ChanClosed(x) /\ readCh[x] = <<>>
    BY <1>2 DEF Order, InOrder, Arrived, ChanClosed, Proper, IsClosed
  <2>1. x \in eof => life[x] = "open" /\ ChanClosed(x) /\ readCh[x] = <<>>
    BY DEF YInv, Order
  <2>2. x \in eof => life'[x] = "open"
    BY <1>2, <1>3, <2>1
  <2>3. CASE life[x] \in InUse
    BY <2>1, <2>2, <2>3 DEF YInv, Order
  <2>4. CASE life[x] \notin InUse /\ life'[x] \in InUse /\ Proper(x)
    <3>1. x = s /\ ~Begun(s) /\ s \notin misused
      BY <1>2, <1>3, <1>4, <2>4 DEF InUse, Begun, Proper
    <3>2. once[x] = "free" /\ readCh[x] = <<>> /\ got[x] = <<>>
      BY <3>1 DEF YInv, Places, Fresh
    <3>3. Len(readCh[x]) = 0 /\ Len(got[x]) = 0
      BY <3>2, EmptySeq
    <3>4. sent[id[x]] = 0
      BY <1>4, <1>7, <3>1 DEF YInv, Places, Ids, Opened, Id
    <3>5. ~(loop = "pushing" /\ hand = x)
      BY <3>1 DEF YInv, Places, InHand
    <3> QED BY <2>1, <2>2, <3>2, <3>3, <3>4, <3>5 DEF InOrder, Arrived
  <2> QED BY <2>1, <2>2, <2>3, <2>4
<1>17. NoReaderLeftBehind'
  BY <1>2, <1>3 DEF YInv, NoReaderLeftBehind, ConnClosed, Stream
<1> QED BY <1>1, <1>2, <1>8, <1>9, <1>10, <1>11, <1>12, <1>13, <1>14, <1>15, <1>16, <1>17,
           NoPanic DEF YInv, Places

LEMMA AcceptStep ==
  ASSUME YInv, AcceptStream
  PROVE  YInv'
<1> USE DEF AcceptStream, sessionVars, userVars, peerVars, loopVars
<1>1. YTypeOK'
  BY TypeAccept DEF YInv
<1>2. /\ accept \in Seq(Remote) /\ accept # <<>>
      /\ life \in [Stream -> {"none", "checked", "inserted", "open", "failing",
                              "failed", "offered"}]
  BY DEF YInv, YTypeOK
<1>3. /\ Head(accept) \in Remote /\ Head(accept) = accept[1]
      /\ Len(accept) \in Nat \ {0} /\ Len(accept') = Len(accept) - 1
      /\ \A i \in 1..(Len(accept) - 1) : accept'[i] = accept[i + 1]
  BY <1>2, TakeOne
<1> DEFINE h == Head(accept)
<1>4. /\ h \in Stream /\ h \notin Local
      /\ life[h] \in {"offered", "open"} /\ life'[h] = "open"
      /\ \A x \in Stream : x # h => life'[x] = life[x]
      /\ UNCHANGED <<shutdown, left, streams, id, once, readCh, got, eof, sent, fin, misused,
                     loop, hand>>
  BY <1>2, <1>3, SidesDisjoint DEF YInv, Places, Offered, Stream
<1> HIDE DEF h
<1>5. Offered'
  <2> SUFFICES ASSUME NEW i \in 1..Len(accept')
               PROVE  life'[accept'[i]] \in {"offered", "open"}
    BY DEF Offered
  <2>1. i + 1 \in 1..Len(accept) /\ accept'[i] = accept[i + 1]
    BY <1>3
  <2>2. accept[i + 1] \in Stream
    BY <1>2, <2>1 DEF Stream
  <2>3. life[accept[i + 1]] \in {"offered", "open"}
    BY <2>1 DEF YInv, Places, Offered
  <2> QED BY <1>4, <2>1, <2>2, <2>3
<1>6. \A x \in Stream : (Begun(x)' <=> Begun(x)) /\ (life'[x] \in InUse <=> life[x] \in InUse)
  BY <1>4 DEF Begun, InUse
<1>7. Ids'
  <2>1. \A x \in Remote : life'[x] \in {"none", "offered", "open"}
    BY <1>4 DEF YInv, Places, Ids, Stream
  <2> QED BY <1>4, <1>6, <2>1, IdsFrame
<1>8. InHand'
  BY <1>4, <1>6 DEF YInv, Places, InHand, IsClosed, Opened, Over
<1>9. Entries' /\ Fresh'
  BY <1>4, <1>6 DEF YInv, YTypeOK, Places, Entries, Fresh
<1>10. Known' /\ ClosedLeaves' /\ ToVisit'
  BY <1>4, <1>6 DEF YInv, Places, Known, Proper, ClosedLeaves, ToVisit, IsClosed, Stream
<1>11. Order'
  BY OrderFrame, <1>4, <1>6 DEF IsClosed
<1>12. NoReaderLeftBehind'
  BY ReadersFrame, <1>4 DEF Stream
<1>13. Up
  OBVIOUS
<1> QED BY <1>1, <1>5, <1>7, <1>8, <1>9, <1>10, <1>11, <1>12, <1>13, NoPanic DEF YInv, Places

(* The user takes what is buffered, in order, or learns that it was all. *)
LEMMA ReadStep ==
  ASSUME YInv, NEW s \in Stream, Read(s)
  PROVE  YInv'
<1> USE DEF Read, sessionVars, peerVars, loopVars
<1>1. YTypeOK'
  BY TypeRead DEF YInv
<1>2. Places'
  <2>1. \A x \in Stream : ~Begun(x) => readCh'[x] = readCh[x] /\ got'[x] = got[x]
    BY DEF YInv, YTypeOK, Begun
  <2> QED BY <2>1, PlacesFrame DEF YInv
<1>3. Order'
  <2> SUFFICES ASSUME ~IsClosed PROVE Order'
    BY DEF Order, IsClosed
  <2>1. CASE readCh[s] = <<>>
    <3>1. UNCHANGED <<id, life, once, readCh, got, sent, fin, misused, loop, hand>>
          /\ eof' = eof \cup {s} /\ ChanClosed(s) /\ life[s] = "open"
      BY <2>1
    <3>2. \A x \in Stream : (InOrder(x)' <=> InOrder(x)) /\ Arrived(x)' = Arrived(x)
      BY <3>1 DEF InOrder, Arrived
    <3> QED BY <2>1, <3>1, <3>2 DEF YInv, Order, ChanClosed, Proper
  <2>2. CASE readCh[s] # <<>>
    <3>1. got[s] \in Seq(Nat) /\ readCh[s] \in Seq(Nat)
      BY DEF YInv, YTypeOK
    <3> DEFINE e == Head(readCh[s])
               n == Len(got[s])
               m == Len(readCh[s])
    <3>2. /\ e \in Nat /\ e = readCh[s][1]
          /\ m \in Nat \ {0} /\ Len(Tail(readCh[s])) = m - 1
          /\ \A i \in 1..(m - 1) : Tail(readCh[s])[i] = readCh[s][i + 1]
      BY <2>2, <3>1, TakeOne
    <3>3. /\ n \in Nat /\ Len(Append(got[s], e)) = n + 1
          /\ \A i \in 1..n : Append(got[s], e)[i] = got[s][i]
          /\ Append(got[s], e)[n + 1] = e
      BY <3>1, <3>2, PutOne
    <3>4. /\ got'[s] = Append(got[s], e) /\ readCh'[s] = Tail(readCh[s])
          /\ \A x \in Stream : x # s => got'[x] = got[x] /\ readCh'[x] = readCh[x]
          /\ UNCHANGED <<eof, id, life, once, sent, fin, misused, loop, hand>> /\ s \notin eof
      BY <2>2 DEF YInv, YTypeOK
    <3> HIDE DEF e, n, m
    <3>5. Arrived(s)' = Arrived(s)
      <4>1. Len(got'[s]) = n + 1 /\ Len(readCh'[s]) = m - 1
        BY <3>2, <3>3, <3>4
      <4>2. Arrived(s) = n + m /\ Arrived(s)' = Len(got'[s]) + Len(readCh'[s])
        BY DEF Arrived, n, m
      <4>3. n \in Nat /\ m \in Nat
        BY <3>2, <3>3
      <4> QED BY <4>1, <4>2, <4>3
    <3>6. ASSUME InOrder(s) PROVE InOrder(s)'
      <4>1. n + 1 = e
        BY <3>2, <3>3, <3>6 DEF InOrder, n, m
      <4>2. \A i \in 1..n + 1 : got'[s][i] = i
        BY <3>3, <3>4, <3>6, <4>1 DEF InOrder, n
      <4>3. \A i \in 1..m - 1 : readCh'[s][i] = n + 1 + i
        <5> SUFFICES ASSUME NEW i \in 1..m - 1 PROVE readCh'[s][i] = n + 1 + i
          OBVIOUS
        <5>1. i + 1 \in 1..m /\ readCh'[s][i] = readCh[s][i + 1]
          BY <3>2, <3>4
        <5> QED BY <3>3, <3>6, <5>1 DEF InOrder, n, m
      <4> QED BY <3>2, <3>3, <3>4, <4>2, <4>3 DEF InOrder, n, m
    <3>7. \A x \in Stream : x # s => (InOrder(x) <=> InOrder(x)') /\ Arrived(x)' = Arrived(x)
      BY <3>4 DEF InOrder, Arrived
    <3> QED BY <3>4, <3>5, <3>6, <3>7 DEF YInv, Order, ChanClosed, Proper
  <2> QED BY <2>1, <2>2
<1>4. NoReaderLeftBehind'
  BY ReadersFrame
<1>5. Up
  OBVIOUS
<1> QED BY <1>1, <1>2, <1>3, <1>4, <1>5, NoPanic DEF YInv

LEMMA ClosingSteps ==
  ASSUME YInv, NEW s \in Stream, CloseBegin(s) \/ CloseStep(s)
  PROVE  YInv'
<1>1. YTypeOK'
  BY TypeClosing DEF YInv
<1>2. /\ Up /\ UNCHANGED <<shutdown, left, accept, id, life, readCh, got, eof, sent, fin,
                           misused, loop, hand>>
      /\ once[s] \in {"free", "writing", "removing", "channel"}
      /\ once'[s] \in {"writing", "removing", "channel", "closed"}
      /\ once[s] = "free" => life[s] = "open"
      /\ \A x \in Stream : x # s => once'[x] = once[x]
  BY DEF YInv, YTypeOK, CloseStep, CloseBegin, CloseWrite, CloseRemove, CloseChannel,
         CloseMoves, Up, sessionVars, userVars, peerVars, loopVars
<1>3. /\ once'[s] # "free" /\ once'[s] # "shut"
      /\ UNCHANGED streams \/ (streams' = [streams EXCEPT ![id[s]] = NoStream]
                               /\ once[s] = "removing")
  BY <1>2 DEF CloseStep, CloseBegin, CloseWrite, CloseRemove, CloseChannel, CloseMoves,
              Remove, Put, sessionVars
<1>4. /\ \A i \in Id : streams'[i] # streams[i] => i = id[s] /\ streams'[i] = NoStream
      /\ \A x \in Stream : (Begun(x)' <=> Begun(x)) /\ (Proper(x)' <=> Proper(x))
  BY <1>2, <1>3 DEF YInv, YTypeOK, Begun, Proper
<1>5. Ids'
  BY <1>2, <1>4, IdsFrame DEF YInv, Places, Ids
<1>6. InHand' /\ Offered'
  BY <1>2 DEF YInv, YTypeOK, Places, InHand, Offered, IsClosed, Begun, Opened, Over
<1>7. Entries' /\ Fresh'
  BY <1>2, <1>3, <1>4 DEF YInv, YTypeOK, Places, Entries, Fresh, Begun
<1>8. Known'
  <2> SUFFICES ASSUME NEW x \in Stream, shutdown # "done", life[x] \in InUse,
                      once'[x] = "free", Proper(x)
               PROVE  streams'[id[x]] = x
    BY <1>2, <1>4 DEF Known
  <2>1. x # s /\ once[x] = "free" /\ streams[id[x]] = x /\ Begun(x)
    BY <1>2, <1>3 DEF YInv, Places, Known, InUse, Begun
  <2>2. once[s] = "removing" => Begun(s)
    BY DEF YInv, Places, Fresh
  <2>3. id[x] \in Id
    BY DEF YInv, YTypeOK
  <2> QED BY <1>3, <1>4, <2>1, <2>2, <2>3 DEF YInv, Places, Ids
<1>9. ClosedLeaves' /\ ToVisit'
  <2>1. \A x \in Stream : /\ once'[x] = "shut" => once[x] = "shut"
                          /\ once'[x] = "free" => once[x] = "free"
    BY <1>2, <1>3
  <2>2. \A i \in Id : streams'[i] # NoStream => streams'[i] = streams[i] /\ streams[i] \in Stream
    BY <1>4 DEF YInv, YTypeOK
  <2> QED BY <1>2, <2>1, <2>2 DEF YInv, Places, ClosedLeaves, ToVisit, IsClosed, Stream
<1>10. Order'
  <2>1. \A x \in Stream : (InOrder(x)' <=> InOrder(x)) /\ Arrived(x)' = Arrived(x)
    BY <1>2 DEF InOrder, Arrived
  <2> QED BY <1>2, <1>3, <1>4, <2>1 DEF YInv, Order, ChanClosed, IsClosed
<1>11. NoReaderLeftBehind'
  BY ReadersFrame, <1>2, <1>3 DEF Stream
<1> QED BY <1>1, <1>2, <1>5, <1>6, <1>7, <1>8, <1>9, <1>10, <1>11, NoPanic DEF YInv, Places

-----------------------------------------------------------------------------
(* The peer's frames.                                                      *)

(* An id keeps the stream it has, unless the peer names it out of turn.    *)
LEMMA ReadOpenStep ==
  ASSUME YInv, NEW s \in Stream, NEW i \in Id, ReadOpenFrame(s, i)
  PROVE  YInv'
<1> DEFINE turn == i \in Remote /\ ~Opened(i)
<1>1. YTypeOK'
  BY TypeFrame DEF YInv, Frame
<1>2. /\ Up /\ UNCHANGED <<shutdown, left, accept, once, readCh, got, eof, sent, fin>>
      /\ s \in Remote /\ s \notin Local /\ s # NoStream /\ ~Begun(s)
      /\ id' = [id EXCEPT ![s] = i] /\ streams' = [streams EXCEPT ![i] = s]
      /\ life' = [life EXCEPT ![s] = "offered"]
      /\ loop = "reading" /\ loop' = "offering" /\ hand' = s
      /\ shutdown # "sweeping"
  BY SidesDisjoint, NoStreamFresh DEF ReadOpenFrame, MuFree, LoopMoves, Put, Begun, userVars,
     Stream, Up
<1>3. /\ once[s] = "free" /\ s \notin left /\ readCh[s] = <<>> /\ got[s] = <<>>
  BY <1>2 DEF YInv, Places, Fresh
<1>4. /\ id'[s] = i /\ life'[s] = "offered" /\ Begun(s)' /\ streams'[i] = s
      /\ \A x \in Stream : x # s => id'[x] = id[x] /\ life'[x] = life[x]
                                    /\ (Begun(x)' <=> Begun(x))
      /\ \A j \in Id : j # i => streams'[j] = streams[j]
  BY <1>2 DEF YInv, YTypeOK, Begun
<1>5. /\ misused \subseteq misused' /\ (turn \/ i \in misused')
      /\ turn => misused' = misused
  BY DEF ReadOpenFrame, Notes
<1> HIDE DEF turn
<1>6. \A x \in Stream : Begun(x) /\ id[x] = i => i \in misused'
  BY <1>5 DEF turn, Opened
<1>7. Ids'
  <2>1. \A x \in Local : id'[x] = x
    BY <1>2, <1>4 DEF YInv, Places, Ids, Stream
  <2>2. \A x \in Remote : /\ life'[x] \in {"none", "offered", "open"}
                          /\ Begun(x)' /\ id'[x] \notin misused' => id'[x] \in Remote
    BY <1>4, <1>5 DEF YInv, Places, Ids, Proper, Stream, turn
  <2>3. \A x, y \in Stream :
           Begun(x)' /\ Begun(y)' /\ id'[x] \notin misused' /\ id'[x] = id'[y] => x = y
    BY <1>4, <1>5, <1>6 DEF YInv, Places, Ids, Proper
  <2>4. \A j \in Id : Opened(j) => Opened(j)'
    BY <1>2, <1>4 DEF Opened
  <2>5. \A j \in Id : sent'[j] # 0 => Opened(j)'
    BY <1>2, <2>4 DEF YInv, Places, Ids
  <2> QED BY <2>1, <2>2, <2>3, <2>5 DEF Ids, Proper
<1>8. InHand'
  BY <1>2, <1>4 DEF InHand
<1>9. Offered'
  <2> SUFFICES ASSUME NEW k \in 1..Len(accept) PROVE life'[accept[k]] \in {"offered", "open"}
    BY <1>2 DEF Offered
  <2>1. accept[k] \in Stream
    BY LenProperties DEF YInv, YTypeOK, Stream
  <2> QED BY <1>4, <2>1 DEF YInv, Places, Offered
<1>10. Entries'
  <2> SUFFICES ASSUME NEW j \in Id, streams'[j] # NoStream
               PROVE  /\ id'[streams'[j]] = j
                      /\ life'[streams'[j]] \notin {"none", "checked"}
    BY DEF Entries, Begun
  <2>1. CASE j = i
    BY <1>4, <2>1
  <2>2. CASE j # i
    <3>1. /\ streams'[j] = streams[j] /\ streams[j] \in Stream
          /\ id[streams[j]] = j /\ Begun(streams[j])
      BY <1>4, <2>2 DEF YInv, YTypeOK, Places, Entries
    <3>2. streams[j] # s
      BY <1>2, <3>1
    <3> QED BY <1>4, <3>1, <3>2 DEF Begun
  <2> QED BY <2>1, <2>2
<1>11. Known'
  <2> SUFFICES ASSUME NEW x \in Stream, shutdown # "done", life'[x] \in InUse,
                      once[x] = "free", id'[x] \notin misused'
               PROVE  streams'[id'[x]] = x
    BY <1>2 DEF Known, Proper
  <2>1. CASE x = s
    BY <1>4, <2>1
  <2>2. CASE x # s
    <3>1. life[x] \in InUse /\ id'[x] = id[x] /\ id[x] \notin misused /\ Begun(x)
      BY <1>4, <1>5, <2>2 DEF InUse, Begun
    <3>2. streams[id[x]] = x /\ id[x] # i
      BY <1>6, <3>1 DEF YInv, Places, Known, Proper
    <3> QED BY <1>4, <3>1, <3>2 DEF YInv, YTypeOK
  <2> QED BY <2>1, <2>2
<1>12. Fresh'
  BY <1>2, <1>4 DEF YInv, Places, Fresh
<1>13. ClosedLeaves'
  BY <1>2, <1>3, <1>4 DEF YInv, Places, ClosedLeaves, IsClosed
<1>14. ToVisit'
  BY <1>2 DEF ToVisit
<1>15. Order'
  <2> SUFFICES ASSUME ~IsClosed, NEW x \in Stream
               PROVE  /\ life'[x] \in InUse /\ id'[x] \notin misused' =>
                           /\ once[x] = "free" =>
                                InOrder(x) /\ Arrived(x) = sent[id'[x]]
                           /\ once[x] = "shut" => Arrived(x) = fin[id'[x]]
                      /\ x \in eof => life'[x] = "open" /\ ChanClosed(x) /\ readCh[x] = <<>>
    BY <1>2 DEF Order, InOrder, Arrived, ChanClosed, Proper, IsClosed
  <2>1. CASE x = s
    <3>1. Len(readCh[s]) = 0 /\ Len(got[s]) = 0
      BY <1>3, EmptySeq
    <3>2. s \notin eof
      BY <1>3 DEF YInv, Order, ChanClosed
    <3>3. i \notin misused' => sent[i] = 0
      BY <1>5 DEF YInv, Places, Ids, turn
    <3>4. InOrder(s) /\ Arrived(s) = 0
      BY <3>1 DEF InOrder, Arrived
    <3>5. id'[s] = i /\ once[s] = "free"
      BY <1>3, <1>4
    <3> QED BY <2>1, <3>2, <3>3, <3>4, <3>5
  <2>2. CASE x # s
    BY <1>2, <1>4, <1>5, <2>2 DEF YInv, Order, Proper
  <2> QED BY <2>1, <2>2
<1>16. NoReaderLeftBehind'
  BY <1>2, <1>4, <1>5, ReadersFrame DEF Stream
<1> QED BY <1>1, <1>2, <1>7, <1>8, <1>9, <1>10, <1>11, <1>12, <1>13, <1>14, <1>15, <1>16,
           NoPanic DEF YInv, Places

(* A data frame or a close frame: the map leads to the one stream with the *)
(* id, if that is in use.                                                  *)
LEMMA OneOfTheId ==
  ASSUME YInv, NEW i \in Id, streams[i] # NoStream
  PROVE  /\ streams[i] \in Stream /\ id[streams[i]] = i /\ Begun(streams[i])
         /\ \A x \in Stream : Begun(x) /\ id[x] = i /\ i \notin misused => x = streams[i]
BY DEF YInv, YTypeOK, Places, Entries, Ids, Proper

LEMMA ReadDataStep ==
  ASSUME YInv, NEW i \in Id, ReadDataFrame(i)
  PROVE  YInv'
<1>1. YTypeOK'
  BY TypeFrame DEF YInv, Frame
<1> DEFINE s == streams[i]
<1>2. /\ Up /\ UNCHANGED <<shutdown, left, streams, accept, id, life, once, readCh, got, eof,
                           fin, misused>>
      /\ loop = "reading" /\ loop' = "pushing" /\ hand' = s /\ s # NoStream
      /\ sent' = [sent EXCEPT ![i] = @ + 1]
  BY DEF ReadDataFrame, LoopMoves, sessionVars, streamVars, userVars
<1>3. /\ s \in Stream /\ id[s] = i /\ Begun(s)
      /\ \A x \in Stream : Begun(x) /\ id[x] = i /\ i \notin misused => x = s
  BY <1>2, OneOfTheId
<1> HIDE DEF s
<1>4. /\ sent[i] \in Nat /\ sent'[i] = sent[i] + 1
      /\ \A j \in Id : j # i => sent'[j] = sent[j]
  BY <1>2 DEF YInv, YTypeOK
<1>5. \A x \in Stream : (Begun(x)' <=> Begun(x)) /\ (Proper(x)' <=> Proper(x))
  BY <1>2 DEF Begun, Proper
<1>6. Ids'
  <2>1. \A j \in Id : Opened(j)' <=> Opened(j)
    BY <1>2, <1>5 DEF Opened
  <2>2. Opened(i)
    BY <1>3 DEF Opened
  <2>3. \A j \in Id : sent'[j] # 0 => Opened(j)'
    BY <1>4, <2>1, <2>2 DEF YInv, Places, Ids
  <2> QED BY <1>2, <1>5, <2>3 DEF YInv, Places, Ids, Stream
<1>7. InHand'
  <2>1. ~IsClosed => once[s] # "shut"
    BY <1>2 DEF YInv, Places, ClosedLeaves, s
  <2> QED BY <1>2, <1>3, <1>5, <2>1 DEF InHand, IsClosed
<1>8. Offered' /\ Fresh' /\ ToVisit'
  BY <1>2, <1>5 DEF YInv, Places, Offered, Fresh, ToVisit
<1>9. Entries' /\ Known' /\ ClosedLeaves'
  BY <1>2, <1>5 DEF YInv, YTypeOK, Places, Entries, Known, ClosedLeaves, IsClosed, Begun
<1>10. Order'
  <2>1. \A x \in Stream : (InOrder(x)' <=> InOrder(x)) /\ Arrived(x)' = Arrived(x)
    BY <1>2 DEF InOrder, Arrived
  <2>2. \A x \in Stream : life[x] \in InUse => Begun(x) /\ id[x] \in Id
    BY DEF YInv, YTypeOK, InUse, Begun
  <2> SUFFICES ASSUME ~IsClosed, NEW x \in Stream
               PROVE  /\ life[x] \in InUse /\ Proper(x) =>
                           /\ once[x] = "free" =>
                                /\ InOrder(x)
                                /\ Arrived(x) = IF x = s THEN sent'[id[x]] - 1 ELSE sent'[id[x]]
                           /\ once[x] = "shut" => Arrived(x) = fin[id[x]]
                      /\ x \in eof => life[x] = "open" /\ ChanClosed(x) /\ readCh[x] = <<>>
    BY <1>2, <1>5, <2>1 DEF Order, ChanClosed, IsClosed
  <2>3. life[x] \in InUse /\ Proper(x) /\ once[x] = "free" =>
           Arrived(x) = sent[id[x]] /\ InOrder(x)
    BY <1>2 DEF YInv, Order
  <2>4. life[x] \in InUse /\ Proper(x) => (id[x] = i <=> x = s)
    BY <1>3, <2>2 DEF Proper
  <2>5. life[x] \in InUse => sent[id[x]] \in Nat
    BY <2>2 DEF YInv, YTypeOK
  <2> QED BY <1>4, <2>2, <2>3, <2>4, <2>5 DEF YInv, Order
<1>11. NoReaderLeftBehind'
  BY <1>2, ReadersFrame
<1> QED BY <1>1, <1>2, <1>6, <1>7, <1>8, <1>9, <1>10, <1>11, NoPanic DEF YInv, Places

LEMMA ReadCloseStep ==
  ASSUME YInv, NEW i \in Id, ReadCloseFrame(i)
  PROVE  YInv'
<1>1. YTypeOK'
  BY TypeFrame DEF YInv, Frame
<1>2. /\ Up /\ UNCHANGED <<shutdown, left, streams, accept, id, life, once, readCh, got, eof,
                           sent>>
      /\ loop = "reading"
      /\ misused \subseteq misused' /\ (Opened(i) \/ i \in misused')
  BY DEF ReadCloseFrame, Notes, sessionVars, streamVars, userVars
<1>3. \/ /\ streams[i] # NoStream /\ fin' = [fin EXCEPT ![i] = sent[i]]
         /\ loop' = "shutting" /\ hand' = streams[i]
      \/ streams[i] = NoStream /\ UNCHANGED fin /\ loop' = "forgetting" /\ hand' = i
  BY DEF ReadCloseFrame, LoopMoves
<1>4. \A x \in Stream : (Begun(x)' <=> Begun(x)) /\ (Proper(x)' => Proper(x))
  BY <1>2 DEF Begun, Proper
<1>5. \A x \in Stream : life[x] \in InUse => Begun(x)
  BY DEF InUse, Begun
<1>6. Ids'
  BY <1>2, <1>4, IdsFrame DEF YInv, Places, Ids
<1>7. InHand'
  <2>1. CASE streams[i] # NoStream
    <3>1. streams[i] \in Stream /\ id[streams[i]] = i /\ Begun(streams[i])
      BY <2>1, OneOfTheId
    <3>2. loop' = "shutting" /\ hand' = streams[i] /\ fin'[i] = sent[i]
      BY <1>3, <2>1 DEF YInv, YTypeOK
    <3> QED BY <1>2, <1>4, <3>1, <3>2 DEF InHand
  <2>2. CASE streams[i] = NoStream
    <3>1. i \notin misused' /\ shutdown # "done" => Over(i)
      BY <1>2, <2>2, NoStreamFresh DEF YInv, Places, Known, Proper, Over, Stream
    <3>2. Opened(i)' <=> Opened(i)
      BY <1>2, <1>4 DEF Opened
    <3>3. Over(i)' <=> Over(i)
      BY <1>2 DEF Over
    <3>4. loop' = "forgetting" /\ hand' = i
      BY <1>3, <2>2
    <3> QED BY <1>2, <3>1, <3>2, <3>3, <3>4 DEF InHand
  <2> QED BY <2>1, <2>2
<1>8. Offered' /\ Fresh' /\ ToVisit'
  BY <1>2, <1>4 DEF YInv, Places, Offered, Fresh, ToVisit
<1>9. Entries' /\ Known' /\ ClosedLeaves'
  BY <1>2, <1>4 DEF YInv, YTypeOK, Places, Entries, Known, ClosedLeaves, IsClosed, Begun
<1>10. Order'
  <2>1. \A x \in Stream : (InOrder(x)' <=> InOrder(x)) /\ Arrived(x)' = Arrived(x)
    BY <1>2 DEF InOrder, Arrived
  <2>2. ASSUME ~IsClosed, NEW x \in Stream, life[x] \in InUse, Proper(x), once[x] = "shut"
        PROVE  fin'[id[x]] = fin[id[x]]
    <3>1. Begun(x) /\ id[x] \in Id /\ ~(streams[id[x]] = x)
      BY <1>2, <1>5, <2>2, NoStreamFresh DEF YInv, YTypeOK, Places, ClosedLeaves, Stream
    <3>2. streams[i] # NoStream => id[x] # i
      BY <2>2, <3>1, OneOfTheId DEF Proper
    <3> QED BY <1>3, <3>1, <3>2 DEF YInv, YTypeOK
  <2>3. loop' # "pushing" /\ loop # "pushing"
    BY <1>2, <1>3
  <2> QED BY <1>2, <1>4, <2>1, <2>2, <2>3 DEF YInv, Order, ChanClosed, IsClosed
<1>11. NoReaderLeftBehind'
  BY <1>2, ReadersFrame
<1> QED BY <1>1, <1>2, <1>6, <1>7, <1>8, <1>9, <1>10, <1>11, NoPanic DEF YInv, Places

LEMMA FrameSteps ==
  ASSUME YInv, Frame
  PROVE  YInv'
<1>1. CASE ReadFails
  <2>1. /\ Up /\ UNCHANGED <<shutdown, left, streams, accept, id, life, once, readCh, got,
                             eof, sent, fin, misused>>
        /\ loop = "reading" /\ loop' = "closing"
    BY <1>1 DEF ReadFails, LoopMoves, sessionVars, streamVars, userVars, peerVars
  <2>2. YTypeOK'
    BY TypeFrame DEF YInv
  <2>3. Ids'
    BY <2>1, IdsFrame DEF YInv, Places, Ids, Begun
  <2>4. InHand' /\ Offered' /\ Entries' /\ Known' /\ Fresh' /\ ToVisit' /\ ClosedLeaves'
    BY <2>1 DEF YInv, Places, InHand, Offered, Entries, Known, Proper, Fresh, Begun, ToVisit,
                ClosedLeaves, IsClosed
  <2>5. Order' /\ NoReaderLeftBehind'
    BY <2>1, OrderFrame, ReadersFrame DEF IsClosed
  <2> QED BY <2>1, <2>2, <2>3, <2>4, <2>5, NoPanic DEF YInv, Places
<1> QED BY <1>1, ReadOpenStep, ReadDataStep, ReadCloseStep DEF Frame

(* The read loop queues a new stream. *)
LEMMA OfferStep ==
  ASSUME YInv, Offer
  PROVE  YInv'
<1> USE DEF Offer, LoopMoves, sessionVars, streamVars, userVars, peerVars
<1>1. YTypeOK'
  BY TypeLoop DEF YInv, Places, LoopStep
<1>2. Offered'
  <2>1. CASE accept' = Append(accept, hand)
    <3>1. accept \in Seq(Remote) /\ hand \in Remote /\ life[hand] \in {"offered", "open"}
      BY DEF YInv, YTypeOK, Places, InHand, Ids, Begun
    <3>2. /\ Len(accept) \in Nat /\ Len(accept') = Len(accept) + 1
          /\ \A i \in 1..Len(accept) : accept'[i] = accept[i]
          /\ accept'[Len(accept) + 1] = hand
      BY <2>1, <3>1, PutOne
    <3>3. ASSUME NEW i \in 1..Len(accept') PROVE life[accept'[i]] \in {"offered", "open"}
      <4>1. i \in 1..Len(accept) \/ i = Len(accept) + 1
        BY <3>2
      <4> QED BY <3>1, <3>2, <4>1 DEF YInv, Places, Offered
    <3> QED BY <3>3 DEF Offered
  <2>2. CASE UNCHANGED accept
    BY <2>2 DEF YInv, Places, Offered
  <2> QED BY <2>1, <2>2
<1>3. Ids'
  BY IdsFrame DEF YInv, Places, Ids, Begun
<1>4. InHand' /\ Entries' /\ Known' /\ Fresh' /\ ClosedLeaves' /\ ToVisit'
  BY DEF YInv, Places, InHand, Entries, Begun, Known, Proper, Fresh, ClosedLeaves, ToVisit,
         IsClosed
<1>5. Order' /\ NoReaderLeftBehind' /\ PeerCannotPanic'
  BY OrderFrame, ReadersFrame, NoPanic DEF IsClosed
<1> QED BY <1>1, <1>2, <1>3, <1>4, <1>5 DEF YInv, Places

(* The payload in hand goes to the end of the buffer; the only panic is on *)
(* a channel that this side has closed.                                    *)
LEMMA PushStep ==
  ASSUME YInv, Push
  PROVE  YInv'
<1> USE DEF Push, LoopMoves, sessionVars, userVars, peerVars, loopVars
<1>1. YTypeOK'
  BY TypeLoop DEF YInv, Places, LoopStep
<1>2. hand \in Stream /\ InHandNow \in Nat /\ readCh[hand] \in Seq(Nat)
      /\ got[hand] \in Seq(Nat) /\ (once[hand] = "shut" => IsClosed) /\ Begun(hand)
  BY DEF YInv, YTypeOK, Places, InHand, InHandNow
<1>3. Places'
  <2>1. Ids'
    BY IdsFrame DEF YInv, Places, Ids, Begun
  <2>2. InHand' /\ Offered' /\ Entries' /\ Known' /\ ClosedLeaves' /\ ToVisit'
    BY DEF YInv, Places, InHand, Offered, Entries, Begun, Known, Proper, ClosedLeaves, ToVisit,
           IsClosed
  <2>3. Fresh'
    BY <1>2 DEF YInv, YTypeOK, Places, Fresh, Begun
  <2> QED BY <2>1, <2>2, <2>3 DEF Places
<1>4. PeerCannotPanic'
  BY <1>2 DEF YInv, PeerCannotPanic, Up, ChanClosed, IsClosed
<1>5. NoReaderLeftBehind'
  BY ReadersFrame
<1>6. Order'
  <2>1. CASE IsClosed
    BY <2>1 DEF Order, IsClosed
  <2>2. CASE ChanClosed(hand) /\ UNCHANGED <<readCh, loop, hand>>
    BY <2>2, OrderFrame DEF IsClosed
  <2>3. CASE /\ ~IsClosed /\ ~ChanClosed(hand) /\ LoopMoves("reading", NoStream)
             /\ readCh' = [readCh EXCEPT ![hand] = Append(@, InHandNow)]
    <3> DEFINE n == Len(got[hand])
               m == Len(readCh[hand])
               e == InHandNow
    <3>1. /\ m \in Nat /\ Len(Append(readCh[hand], e)) = m + 1
          /\ \A i \in 1..m : Append(readCh[hand], e)[i] = readCh[hand][i]
          /\ Append(readCh[hand], e)[m + 1] = e
      BY <1>2, PutOne
    <3>2. readCh'[hand] = Append(readCh[hand], e)
          /\ \A x \in Stream : x # hand => readCh'[x] = readCh[x]
      BY <1>2, <2>3 DEF YInv, YTypeOK
    <3>3. n \in Nat /\ e \in Nat
      BY <1>2, LenProperties
    <3> HIDE DEF e, n, m
    <3>4. \A x \in Stream : x # hand => (InOrder(x)' <=> InOrder(x)) /\ Arrived(x)' = Arrived(x)
      BY <3>2 DEF InOrder, Arrived
    <3>5. ASSUME once[hand] = "free", life[hand] \in InUse, Proper(hand)
          PROVE  InOrder(hand) /\ n + m = e - 1
      BY <1>2, <2>3, <3>5 DEF YInv, Order, Arrived, InHandNow, n, m, e
    <3>6. ASSUME once[hand] = "free", life[hand] \in InUse, Proper(hand), NEW i \in 1..m + 1
          PROVE  readCh'[hand][i] = n + i
      <4>1. CASE i = m + 1
        BY <3>1, <3>2, <3>3, <3>5, <3>6, <4>1
      <4>2. CASE i \in 1..m
        BY <3>1, <3>2, <3>5, <3>6, <4>2 DEF InOrder, n, m
      <4> QED BY <3>1, <4>1, <4>2
    <3>7. UNCHANGED <<shutdown, id, life, got, once, sent, fin, eof, misused>>
      OBVIOUS
    <3>8. ASSUME NEW x \in Stream, once[x] = "free", life[x] \in InUse, Proper(x)
          PROVE  InOrder(x)' /\ Arrived(x)' = sent[id[x]]
      <4>1. CASE x # hand
        BY <2>3, <3>4, <3>8, <4>1 DEF YInv, Order
      <4>2. CASE x = hand
        <5>1. /\ Len(got'[x]) = n /\ Len(readCh'[x]) = m + 1
              /\ \A i \in 1..n : got'[x][i] = i
          BY <3>1, <3>2, <3>5, <3>7, <3>8, <4>2 DEF InOrder, n
        <5>2. InOrder(x)'
          BY <3>6, <3>8, <4>2, <5>1 DEF InOrder
        <5>3. Arrived(x)' = Len(got'[x]) + Len(readCh'[x])
          BY DEF Arrived
        <5>4. n + m = sent[id[x]] - 1
          BY <3>5, <3>8, <4>2 DEF e, InHandNow
        <5>5. Arrived(x)' = n + m + 1
          BY <3>1, <3>3, <5>1, <5>3
        <5>6. sent[id[x]] \in Nat
          BY <3>3, <4>2 DEF e, InHandNow
        <5> QED BY <3>1, <3>3, <5>2, <5>4, <5>5, <5>6
      <4> QED BY <4>1, <4>2
    <3>9. ASSUME NEW x \in Stream, once[x] = "shut" \/ x \in eof
          PROVE  x # hand /\ Arrived(x)' = Arrived(x) /\ readCh'[x] = readCh[x]
      BY <2>3, <3>2, <3>4, <3>9 DEF YInv, Order, ChanClosed
    <3>10. loop' # "pushing"
      BY <2>3
    <3>11. \A x \in Stream : (Proper(x)' <=> Proper(x)) /\ (ChanClosed(x)' <=> ChanClosed(x))
      BY <3>7 DEF Proper, ChanClosed
    <3> QED BY <2>3, <3>7, <3>8, <3>9, <3>10, <3>11 DEF YInv, Order, IsClosed
  <2> QED BY <2>1, <2>2, <2>3
<1> QED BY <1>1, <1>3, <1>4, <1>5, <1>6 DEF YInv

(* The peer's close: the channel first, then the map. *)
LEMMA LoopCloseLocalStep ==
  ASSUME YInv, LoopCloseLocal
  PROVE  YInv'
<1>1. YTypeOK'
  BY TypeLoop DEF YInv, Places, LoopStep
<1>2. PICK i \in Id : i = id[hand]
  BY DEF LoopCloseLocal, YInv, YTypeOK, Places, InHand
<1>3. /\ Up /\ UNCHANGED <<shutdown, left, streams, accept, id, life, readCh, got, eof, sent,
                           fin, misused>>
      /\ loop = "shutting" /\ loop' = "forgetting" /\ hand' = i
      /\ hand \in Stream /\ Begun(hand) /\ fin[i] = sent[i]
      /\ once[hand] \in {"free", "closed", "shut"} /\ once'[hand] \in {"closed", "shut"}
      /\ once'[hand] = "shut" => once[hand] \in {"free", "shut"}
      /\ \A x \in Stream : x # hand => once'[x] = once[x]
  BY <1>2 DEF LoopCloseLocal, CloseLocal, LoopMoves, YInv, YTypeOK, Places, InHand, Held,
              sessionVars, userVars, peerVars
<1>4. \A x \in Stream : Begun(x) /\ id[x] = i /\ i \notin misused => x = hand
  BY <1>2, <1>3 DEF YInv, Places, Ids, Proper
<1>5. \A x \in Stream : /\ Begun(x)' <=> Begun(x)
                        /\ Proper(x)' <=> Proper(x)
                        /\ life[x] \in InUse => Begun(x)
  BY <1>3 DEF Begun, Proper, InUse
<1>6. Ids'
  BY <1>3, <1>5, IdsFrame DEF YInv, Places, Ids
<1>7. InHand'
  <2>1. i \notin misused => Over(i)'
    BY <1>3, <1>4, <1>5 DEF Over
  <2>2. Opened(i)'
    BY <1>2, <1>3, <1>5 DEF Opened
  <2> QED BY <1>3, <2>1, <2>2 DEF InHand
<1>8. Offered' /\ Entries' /\ Known' /\ Fresh' /\ ToVisit'
  <2>1. \A x \in Stream : once'[x] = "free" => once[x] = "free"
    BY <1>3
  <2> QED BY <1>3, <1>5, <2>1 DEF YInv, YTypeOK, Places, Offered, Entries, Known, Fresh,
             ToVisit, Begun, Proper, Stream
<1>9. ClosedLeaves'
  <2> SUFFICES ASSUME ~IsClosed, NEW j \in Id, streams[j] # NoStream, once'[streams[j]] = "shut"
               PROVE  j = i
    BY <1>3 DEF ClosedLeaves, IsClosed
  <2>1. streams[j] \in Stream /\ id[streams[j]] = j
    BY OneOfTheId
  <2>2. once[streams[j]] # "shut"
    BY <1>3 DEF YInv, Places, ClosedLeaves
  <2>3. streams[j] = hand
    BY <1>3, <2>1, <2>2
  <2> QED BY <1>2, <2>1, <2>3
<1>10. Order'
  <2>1. \A x \in Stream : (InOrder(x)' <=> InOrder(x)) /\ Arrived(x)' = Arrived(x)
    BY <1>3 DEF InOrder, Arrived
  <2>2. loop # "pushing" /\ loop' # "pushing"
    BY <1>3
  <2>3. \A x \in Stream : once'[x] # once[x] => x = hand /\ fin[id[x]] = sent[id[x]]
                                                /\ (once'[x] = "shut" => once[x] = "free")
    BY <1>2, <1>3
  <2>4. \A x \in Stream : ChanClosed(x) => ChanClosed(x)'
    BY <1>3 DEF ChanClosed
  <2>5. \A x \in Stream : once'[x] = "free" => once[x] = "free"
    BY <1>3
  <2> SUFFICES ASSUME ~IsClosed, NEW x \in Stream
               PROVE  /\ life[x] \in InUse /\ Proper(x) =>
                           /\ once'[x] = "free" => InOrder(x) /\ Arrived(x) = sent[id[x]]
                           /\ once'[x] = "shut" => Arrived(x) = fin[id[x]]
                      /\ x \in eof => life[x] = "open" /\ ChanClosed(x) /\ readCh[x] = <<>>
    BY <1>3, <1>5, <2>1, <2>2, <2>4 DEF Order, IsClosed
  <2> QED BY <2>2, <2>3, <2>5 DEF YInv, Order
<1>11. NoReaderLeftBehind'
  BY <1>3, ReadersFrame DEF Stream
<1> QED BY <1>1, <1>3, <1>6, <1>7, <1>8, <1>9, <1>10, <1>11, NoPanic DEF YInv, Places

LEMMA LoopRemoveStep ==
  ASSUME YInv, LoopRemove
  PROVE  YInv'
<1>1. YTypeOK'
  BY TypeLoop DEF YInv, Places, LoopStep
<1>2. /\ Up /\ UNCHANGED <<shutdown, left, accept, id, life, once, readCh, got, eof, sent,
                           fin, misused>>
      /\ loop = "forgetting" /\ loop' = "reading" /\ hand \in Id
      /\ streams' = [streams EXCEPT ![hand] = NoStream]
  BY DEF LoopRemove, LoopMoves, Remove, Put, YInv, Places, InHand, streamVars, userVars,
         peerVars
<1>3. /\ streams'[hand] = NoStream
      /\ \A i \in Id : i # hand => streams'[i] = streams[i]
  BY <1>2 DEF YInv, YTypeOK
<1>4. Ids'
  BY <1>2, IdsFrame DEF YInv, Places, Ids, Begun
<1>5. InHand' /\ Offered' /\ Fresh' /\ ToVisit'
  BY <1>2 DEF YInv, Places, InHand, Offered, Fresh, Begun, ToVisit
<1>6. Entries' /\ ClosedLeaves'
  BY <1>2, <1>3 DEF YInv, YTypeOK, Places, Entries, Begun, ClosedLeaves, IsClosed
<1>7. Known'
  BY <1>2, <1>3 DEF YInv, YTypeOK, Places, Known, Proper, InHand, Over
<1>8. Order' /\ NoReaderLeftBehind'
  BY <1>2, OrderFrame, ReadersFrame DEF IsClosed
<1> QED BY <1>1, <1>2, <1>4, <1>5, <1>6, <1>7, <1>8, NoPanic DEF YInv, Places

LEMMA LoopEndsStep ==
  ASSUME YInv, LoopEnds
  PROVE  YInv'
<1>1. YTypeOK'
  BY TypeLoop DEF YInv, Places, LoopStep
<1>2. /\ Up /\ UNCHANGED <<shutdown, left, streams, accept, id, life, once, readCh, got, eof,
                           sent, fin, misused>>
      /\ loop = "closing" /\ loop' = "ended"
  BY DEF LoopEnds, LoopMoves, sessionVars, streamVars, userVars, peerVars
<1>3. Ids'
  BY <1>2, IdsFrame DEF YInv, Places, Ids, Begun
<1>4. InHand' /\ Offered' /\ Entries' /\ Known' /\ Fresh' /\ ClosedLeaves' /\ ToVisit'
  BY <1>2 DEF YInv, Places, InHand, Offered, Entries, Begun, Known, Proper, Fresh,
              ClosedLeaves, ToVisit, IsClosed
<1>5. Order' /\ NoReaderLeftBehind'
  BY <1>2, OrderFrame, ReadersFrame DEF IsClosed
<1> QED BY <1>1, <1>2, <1>3, <1>4, <1>5, NoPanic DEF YInv, Places

(* Session.Close. *)
LEMMA ShutdownSteps ==
  ASSUME YInv, SessionClose \/ ShutdownStep
  PROVE  YInv'
<1> USE DEF ShutdownMoves, streamVars, userVars, peerVars, loopVars
<1>1. YTypeOK'
  BY TypeShutdown DEF YInv
<1>2. /\ Up /\ shutdown' # "open"
      /\ UNCHANGED <<accept, id, life, readCh, got, sent, fin, misused, loop, hand>>
  BY DEF ShutdownStep, SessionClose, HangUp, SweepBegin, Sweep, SweepEnd
<1>3. Order' /\ ClosedLeaves' /\ Offered' /\ PeerCannotPanic'
  BY <1>2, NoPanic DEF YInv, Places, Order, ClosedLeaves, Offered, IsClosed
<1>4. Ids'
  BY <1>2, IdsFrame DEF YInv, Places, Ids, Begun
<1>5. CASE SessionClose \/ HangUp
  <2> USE <1>5 DEF SessionClose, HangUp
  <2>1. InHand' /\ Entries' /\ Known' /\ Fresh' /\ ToVisit'
    BY <1>2 DEF YInv, Places, InHand, Entries, Known, Proper, Fresh, Begun, Opened, Over,
                ToVisit, IsClosed
  <2>2. NoReaderLeftBehind'
    BY DEF NoReaderLeftBehind
  <2> QED BY <1>1, <1>3, <1>4, <2>1, <2>2 DEF YInv, Places
<1>6. CASE SweepBegin
  <2> USE <1>6 DEF SweepBegin
  <2>1. InHand' /\ Entries' /\ Known'
    BY <1>2 DEF YInv, Places, InHand, Entries, Known, Proper, Begun, Opened, Over, IsClosed
  <2>2. Fresh'
    <3>1. \A x \in InMap : Begun(x)
      BY DEF InMap, YInv, Places, Entries
    <3> QED BY <1>2, <3>1 DEF YInv, Places, Fresh, Begun
  <2>3. ToVisit' /\ NoReaderLeftBehind'
    <3>1. ASSUME NEW s \in Local, life[s] = "open", once[s] = "free", s \notin misused
          PROVE  s \in InMap
      <4>1. s \in Stream /\ id[s] = s /\ shutdown # "done"
        BY DEF YInv, Places, Ids, Stream
      <4>2. streams[s] = s
        BY <3>1, <4>1 DEF YInv, Places, Known, Proper, InUse
      <4> QED BY <4>1, <4>2, NoStreamFresh DEF InMap, Id, Stream
    <3> QED BY <1>2, <3>1 DEF ToVisit, NoReaderLeftBehind
  <2> QED BY <1>1, <1>3, <1>4, <2>1, <2>2, <2>3 DEF YInv, Places
<1>7. ASSUME NEW s \in Stream, Sweep(s) PROVE YInv'
  <2> USE <1>7 DEF Sweep, CloseLocal
  <2>1. /\ s \in left /\ left' = left \ {s} /\ once'[s] # "free"
        /\ once'[s] # once[s] => once[s] = "free"
        /\ \A x \in Stream : x # s => once'[x] = once[x]
        /\ shutdown = "sweeping"
        /\ UNCHANGED <<shutdown, streams>>
    BY DEF YInv, YTypeOK, Held
  <2>2. InHand' /\ Entries' /\ Known' /\ Fresh' /\ ToVisit'
    BY <1>2, <2>1 DEF YInv, Places, InHand, Entries, Known, Proper, Fresh, Begun, Opened,
                      Over, ToVisit, IsClosed, Stream
  <2>3. NoReaderLeftBehind'
    BY <2>1 DEF NoReaderLeftBehind
  <2> QED BY <1>1, <1>3, <1>4, <2>2, <2>3 DEF YInv, Places
<1>8. CASE SweepEnd
  <2> USE <1>8 DEF SweepEnd
  <2>1. InHand' /\ Entries' /\ Known' /\ Fresh' /\ ToVisit'
    BY <1>2 DEF YInv, Places, InHand, Entries, Known, Proper, Fresh, Begun, Opened, Over,
                ToVisit, IsClosed
  <2>2. NoReaderLeftBehind'
    BY DEF YInv, Places, ToVisit, NoReaderLeftBehind
  <2> QED BY <1>1, <1>3, <1>4, <2>1, <2>2 DEF YInv, Places
<1> QED BY <1>5, <1>6, <1>7, <1>8 DEF ShutdownStep

LEMMA Stuttering ==
  ASSUME YInv, UNCHANGED yvars
  PROVE  YInv'
<1> USE DEF yvars, sessionVars, streamVars, userVars, peerVars, loopVars
<1>1. YTypeOK'
  BY DEF YInv, YTypeOK
<1>2. Places' /\ Order' /\ NoReaderLeftBehind'
  BY PlacesFrame, OrderFrame, ReadersFrame DEF YInv, IsClosed
<1>3. PeerCannotPanic'
  BY DEF YInv, PeerCannotPanic, IsClosed
<1> QED BY <1>1, <1>2, <1>3 DEF YInv

-----------------------------------------------------------------------------
(* The theorems.                                                           *)

LEMMA InitInv == YInit => YInv
<1> SUFFICES ASSUME YInit PROVE YInv
  OBVIOUS
<1> USE DEF YInit
<1>1. YTypeOK
  <2>1. /\ accept \in Seq(Remote) /\ Len(accept) = 0
        /\ <<>> \in Seq(Nat) /\ Len(<<>>) = 0
    BY EmptySeq
  <2>2. ReadCapacity \in Nat /\ AcceptCapacity \in Nat
    BY CapacitiesAreNat
  <2>3. readCh \in [Stream -> Seq(Nat)] /\ got \in [Stream -> Seq(Nat)]
    BY <2>1
  <2>4. \A s \in Stream : Len(readCh[s]) <= ReadCapacity
    BY <2>1, <2>2
  <2>5. sent \in [Id -> Nat] /\ fin \in [Id -> Nat]
    BY MaxDataIsNat DEF Unsent
  <2>6. Len(accept) <= AcceptCapacity
    BY <2>1, <2>2
  <2>7. /\ life \in [Stream -> {"none", "checked", "inserted", "open", "failing",
                               "failed", "offered"}]
        /\ once \in [Stream -> {"free", "writing", "removing", "channel", "closed", "shut"}]
    OBVIOUS
  <2>8. /\ left \subseteq Stream /\ eof \subseteq Stream /\ misused \subseteq Id
        /\ streams \in [Id -> Stream \cup {NoStream}] /\ id \in [Stream -> Id]
    BY DEF Id
  <2>9. /\ shutdown \in {"open", "marked", "hung", "sweeping", "done"}
        /\ loop \in {"reading", "offering", "pushing", "shutting", "forgetting",
                     "closing", "ended"}
        /\ hand \in Stream \cup {NoStream} /\ panicked \in BOOLEAN
    OBVIOUS
  <2> HIDE DEF YInit
  <2> QED BY <2>1, <2>3, <2>4, <2>5, <2>6, <2>7, <2>8, <2>9 DEF YTypeOK
<1>2. Places
  BY EmptySeq DEF Places, Ids, InHand, Offered, Entries, Known, InUse, Fresh, ClosedLeaves,
                  ToVisit, IsClosed, Begun, Id, Stream
<1>3. Order /\ PeerCannotPanic /\ NoReaderLeftBehind
  BY EmptySeq DEF Order, InUse, PeerCannotPanic, NoReaderLeftBehind
<1> QED BY <1>1, <1>2, <1>3 DEF YInv

LEMMA StepInv == YInv /\ [YNext]_yvars => YInv'
<1> SUFFICES ASSUME YInv, [YNext]_yvars PROVE YInv'
  OBVIOUS
<1>1. ASSUME NEW s \in Stream, OpenCheck(s) \/ OpenStep(s) PROVE YInv'
  BY <1>1, OpeningSteps
<1>2. ASSUME NEW s \in Stream, Read(s) PROVE YInv'
  BY <1>2, ReadStep
<1>3. ASSUME NEW s \in Stream, CloseBegin(s) \/ CloseStep(s) PROVE YInv'
  BY <1>3, ClosingSteps
<1>4. CASE AcceptStream
  BY <1>4, AcceptStep
<1>5. CASE Frame
  BY <1>5, FrameSteps
<1>6. CASE LoopStep
  BY <1>6, OfferStep, PushStep, LoopCloseLocalStep, LoopRemoveStep, LoopEndsStep
     DEF LoopStep
<1>7. CASE SessionClose \/ ShutdownStep
  BY <1>7, ShutdownSteps
<1>8. CASE UNCHANGED yvars
  BY <1>8, Stuttering
<1> QED BY <1>1, <1>2, <1>3, <1>4, <1>5, <1>6, <1>7, <1>8 DEF YNext

LEMMA AlwaysInv == YSpec => []YInv
BY InitInv, StepInv, PTL DEF YSpec

(* Whatever the session does, its variables have their types: no buffer    *)
(* grows past the capacity of the channel it stands for.                   *)
THEOREM YamuxTypeCorrect == YSpec => []YTypeOK
<1>1. YInv => YTypeOK
  BY DEF YInv
<1> QED BY <1>1, AlwaysInv, PTL

(* No sequence of frames ends the process by itself: push sends on a       *)
(* closed channel only where this side has closed the stream or the        *)
(* session at the same time.                                               *)
THEOREM PeersCannotPanic == YSpec => []PeerCannotPanic
<1>1. YInv => PeerCannotPanic
  BY DEF YInv
<1> QED BY <1>1, AlwaysInv, PTL

(* A stream whose id the peer uses in turn delivers what was sent, in order*)
(* and without a gap, however many payloads there are and however full the *)
(* buffer is; EOF after the peer's close comes after the last of them.     *)
THEOREM PayloadsInOrder == YSpec => []NoGap
<1>1. YInv => NoGap
  <2> SUFFICES ASSUME YInv, ~IsClosed PROVE NoGap
    BY DEF NoGap
  <2>1. ASSUME NEW s \in Stream, life[s] = "open", once[s] = "free", id[s] \notin misused
        PROVE  /\ \A i \in DOMAIN (got[s] \o readCh[s]) : (got[s] \o readCh[s])[i] = i
               /\ Len(got[s] \o readCh[s]) = IF loop = "pushing" /\ hand = s
                                             THEN InHandNow - 1 ELSE sent[id[s]]
    <3> DEFINE n == Len(got[s])
               m == Len(readCh[s])
               arrived == got[s] \o readCh[s]
    <3>1. got[s] \in Seq(Nat) /\ readCh[s] \in Seq(Nat)
      BY DEF YInv, YTypeOK
    <3>2. n \in Nat /\ m \in Nat
      BY <3>1, LenProperties
    <3>3. /\ arrived \in Seq(Nat) /\ Len(arrived) = n + m
          /\ \A i \in 1..n + m : arrived[i] = IF i <= n THEN got[s][i] ELSE readCh[s][i - n]
      BY <3>1, ConcatProperties
    <3>4. DOMAIN arrived = 1..n + m
      BY <3>3, LenProperties
    <3>5. /\ InOrder(s)
          /\ n + m = IF loop = "pushing" /\ hand = s THEN InHandNow - 1 ELSE sent[id[s]]
      BY <2>1 DEF YInv, Order, Arrived, InUse, Proper, InHandNow
    <3> HIDE DEF arrived, n, m
    <3>6. ASSUME NEW i \in 1..n + m PROVE arrived[i] = i
      <4>1. CASE i <= n
        BY <3>2, <3>3, <3>5, <3>6, <4>1 DEF InOrder, n
      <4>2. CASE ~(i <= n)
        <5>1. i - n \in 1..m /\ n + (i - n) = i
          BY <3>2, <3>6, <4>2
        <5> QED BY <3>3, <3>5, <3>6, <4>2, <5>1 DEF InOrder, n, m
      <4> QED BY <4>1, <4>2
    <3> QED BY <3>3, <3>4, <3>5, <3>6 DEF arrived, n, m
  <2>2. ASSUME NEW s \in eof, once[s] = "shut", id[s] \notin misused
        PROVE  Len(got[s]) = fin[id[s]]
    <3>1. s \in Stream
      BY DEF YInv, YTypeOK
    <3>2. readCh[s] = <<>> /\ Len(got[s]) + Len(readCh[s]) = fin[id[s]]
      BY <2>2, <3>1 DEF YInv, Order, Arrived, InUse, Proper
    <3>3. Len(got[s]) \in Nat
      BY <3>1, LenProperties DEF YInv, YTypeOK
    <3> QED BY <3>2, <3>3, EmptySeq
  <2> QED BY <2>1, <2>2 DEF NoGap
<1> QED BY <1>1, AlwaysInv, PTL

(* After Session.Close nobody who opened a stream here waits for a payload *)
(* or an EOF that will never come, not even one whose OpenStream ran beside*)
(* it - unless the peer named the id of that very stream out of turn; what *)
(* it did to other ids does not matter.                                    *)
THEOREM NoReaderWaits == YSpec => []NoReaderLeftBehind
<1>1. YInv => NoReaderLeftBehind
  BY DEF YInv
<1> QED BY <1>1, AlwaysInv, PTL

=============================================================================

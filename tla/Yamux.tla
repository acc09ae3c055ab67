------------------------------- MODULE Yamux --------------------------------
(***************************************************************************)
(* One multiplexed session (third_party/yamux): the goroutine that reads   *)
(* frames off the connection, the users of the streams, and whoever closes *)
(* the session - the read loop on an error, the heartbeat, the expiry      *)
(* timer, an administrator, a revocation, or the SetActive of a successor. *)
(*                                                                         *)
(* An action is what happens between two points at which a goroutine can   *)
(* wait: for Session.mu, for the connection, for a stream's closeOnce or   *)
(* for a channel.  Only Session.Close keeps mu across such points.         *)
(*                                                                         *)
(* A payload is its number among those the peer sent to a stream's id.  The*)
(* outgoing direction shows up only where it decides what happens next     *)
(* (the open and the close frame): Stream.Write touches nothing else.      *)
(*                                                                         *)
(* Frames carry ids, and the peer may name any: the map leads to whichever *)
(* stream was put there last.  A stream opened here is known by its id; a  *)
(* stream the peer opens has the id its open frame names.                  *)
(***************************************************************************)
EXTENDS Naturals, Sequences, FiniteSets, Functions

CONSTANTS
  Local,          \* streams this side opens, named by their ids
  Remote,         \* streams the peer opens, and the ids it has for them
  ReadCapacity,   \* buffer of Stream.readCh (64)
  AcceptCapacity, \* buffer of Session.accept (64)
  MaxData,        \* payloads the peer sends, at most
  MaxMisused,     \* ids the peer names out of turn, at most
  NoStream        \* an absent entry; nothing in the read loop's hand

ASSUME SidesDisjoint    == Local \cap Remote = {}
ASSUME CapacitiesAreNat == {ReadCapacity, AcceptCapacity} \subseteq Nat \ {0}
ASSUME MaxDataIsNat     == MaxData \in Nat
ASSUME NoStreamFresh    == NoStream \notin Local \cup Remote

Stream  == Local \cup Remote
Id      == Stream
Unsent  == MaxData + 1   \* "no close frame came"

VARIABLES
  shutdown,  \* progress of the one Session.Close that runs
  left,      \* streams its loop has still to visit
  streams,   \* Session.streams: Id -> Stream or NoStream
  accept,    \* Session.accept
  id,        \* Stream -> its id
  life,      \* Stream -> how far OpenStream / AcceptStream have come
  once,      \* Stream -> closeOnce: who holds it, and how far it is
  readCh,    \* Stream -> what is buffered in the channel
  got,       \* Stream -> what its user has read
  eof,       \* the streams whose user has read io.EOF
  loop,      \* position of the read loop
  hand,      \* the stream the read loop is busy with, or the id it removes
  sent,      \* Id -> payloads read for a stream with that id
  fin,       \* Id -> payloads that came before its close frame
  misused,   \* history: ids the peer named out of turn
  panicked   \* a goroutine sent on a closed channel: the process is gone

sessionVars == <<shutdown, left, streams>>
streamVars  == <<id, life, once, readCh>>
userVars    == <<got, eof>>
peerVars    == <<sent, fin, misused>>
loopVars    == <<loop, hand>>
yvars == <<sessionVars, accept, streamVars, userVars, peerVars, loopVars, panicked>>

(* shutdown goes through open, marked (the closed channel is closed), hung *)
(* (the connection is closed), sweeping (mu is held) and done.             *)
IsClosed  == shutdown # "open"
MuFree    == shutdown # "sweeping"

(* Mutant: nobody closes the connection. *)
NeverHungUp == FALSE

ConnClosed == shutdown \in {"hung", "sweeping", "done"}

(* once is free; or held by Stream.Close, which is writing the close frame,*)
(* removing the stream from the map, or closing readCh; or over: readCh    *)
(* was closed by Stream.Close (closed) or by closeLocal (shut).            *)
Held(s)       == once[s] \in {"writing", "removing", "channel"}
ChanClosed(s) == once[s] \in {"closed", "shut"}

(* A step of a process that lives on. *)
Up == ~panicked /\ UNCHANGED panicked

YInit ==
  /\ shutdown = "open"
  /\ left = {}
  /\ streams = [i \in Id |-> NoStream]
  /\ accept = <<>>
  /\ id = [s \in Stream |-> s]
  /\ life = [s \in Stream |-> "none"]
  /\ once = [s \in Stream |-> "free"]
  /\ readCh = [s \in Stream |-> <<>>]
  /\ got = [s \in Stream |-> <<>>]
  /\ eof = {}
  /\ loop = "reading"
  /\ hand = NoStream
  /\ sent = [i \in Id |-> 0]
  /\ fin = [i \in Id |-> Unsent]
  /\ misused = {}
  /\ panicked = FALSE

-----------------------------------------------------------------------------
(* OpenStream and AcceptStream.                                            *)

InMap == {streams[i] : i \in Id} \ {NoStream}

(* An entry is put, or deleted, by its id alone. *)
Put(i, s) == streams' = [streams EXCEPT ![i] = s]
Remove(i) == Put(i, NoStream)

OpenCheck(s) ==
  /\ Up
  /\ s \in Local
  /\ life[s] = "none"
  /\ ~IsClosed
  /\ life' = [life EXCEPT ![s] = "checked"]
  /\ UNCHANGED <<sessionVars, accept, id, once, readCh, userVars, peerVars, loopVars>>

OpenInsert(s) ==
  /\ Up
  /\ life[s] = "checked"
  /\ MuFree
  /\ Put(s, s)
  /\ life' = [life EXCEPT ![s] = "inserted"]
  /\ UNCHANGED <<shutdown, left, accept, id, once, readCh, userVars, peerVars, loopVars>>

(* The open frame is written, or cannot be. *)
OpenWrite(s) ==
  /\ Up
  /\ life[s] = "inserted"
  /\ \/ ~ConnClosed /\ life' = [life EXCEPT ![s] = "open"]
     \/ life' = [life EXCEPT ![s] = "failing"]
  /\ UNCHANGED <<sessionVars, accept, id, once, readCh, userVars, peerVars, loopVars>>

OpenFail(s) ==
  /\ Up
  /\ life[s] = "failing"
  /\ MuFree
  /\ Remove(s)
  /\ life' = [life EXCEPT ![s] = "failed"]
  /\ UNCHANGED <<shutdown, left, accept, id, once, readCh, userVars, peerVars, loopVars>>

AcceptStream ==
  /\ Up
  /\ accept # <<>>
  /\ life' = [life EXCEPT ![Head(accept)] = "open"]
  /\ accept' = Tail(accept)
  /\ UNCHANGED <<sessionVars, id, once, readCh, userVars, peerVars, loopVars>>

-----------------------------------------------------------------------------
(* The user of a stream: one goroutine reads, several may close.           *)

(* A read takes what is buffered; EOF comes when nothing is left. *)
Read(s) ==
  /\ Up
  /\ life[s] = "open"
  /\ s \notin eof
  /\ \/ /\ readCh[s] # <<>>
        /\ got' = [got EXCEPT ![s] = Append(@, Head(readCh[s]))]
        /\ readCh' = [readCh EXCEPT ![s] = Tail(@)]
        /\ UNCHANGED eof
     \/ /\ readCh[s] = <<>>
        /\ ChanClosed(s)
        /\ eof' = eof \cup {s}
        /\ UNCHANGED <<got, readCh>>
  /\ UNCHANGED <<sessionVars, accept, id, life, once, peerVars, loopVars>>

(* closeOnce moves from one point of Stream.Close to the next. *)
CloseMoves(s, from, to) ==
  /\ once[s] = from
  /\ once' = [once EXCEPT ![s] = to]

(* Stream.Close: the first caller runs it, later ones wait for the first.  *)
CloseBegin(s) ==
  /\ Up
  /\ life[s] = "open"
  /\ CloseMoves(s, "free", "writing")
  /\ UNCHANGED <<sessionVars, accept, id, life, readCh, userVars, peerVars, loopVars>>

(* The close frame is written, or cannot be: nobody looks at the error. *)
CloseWrite(s) ==
  /\ Up
  /\ CloseMoves(s, "writing", "removing")
  /\ UNCHANGED <<sessionVars, accept, id, life, readCh, userVars, peerVars, loopVars>>

CloseRemove(s) ==
  /\ Up
  /\ MuFree
  /\ CloseMoves(s, "removing", "channel")
  /\ Remove(id[s])
  /\ UNCHANGED <<shutdown, left, accept, id, life, readCh, userVars, peerVars, loopVars>>

CloseChannel(s) ==
  /\ Up
  /\ CloseMoves(s, "channel", "closed")
  /\ UNCHANGED <<sessionVars, accept, id, life, readCh, userVars, peerVars, loopVars>>

(* closeLocal closes the channel unless that has been done.  It waits for  *)
(* a Stream.Close that is under way.                                       *)
CloseLocal(s) ==
  /\ ~Held(s)
  /\ once' = [once EXCEPT ![s] = IF @ = "free" THEN "shut" ELSE @]

-----------------------------------------------------------------------------
(* The read loop.                                                          *)

LoopMoves(to, s) == loop' = to /\ hand' = s

(* The connection fails, is closed or delivers an oversized frame. *)
ReadFails ==
  /\ Up
  /\ loop = "reading"
  /\ LoopMoves("closing", NoStream)
  /\ UNCHANGED <<sessionVars, accept, streamVars, userVars, peerVars>>

(* The loop's own Session.Close returns, whoever ran it. *)
LoopEnds ==
  /\ Up
  /\ loop = "closing"
  /\ shutdown = "done"
  /\ LoopMoves("ended", NoStream)
  /\ UNCHANGED <<sessionVars, accept, streamVars, userVars, peerVars>>

(* Some stream has, or had, the id i. *)
Begun(s)  == life[s] \notin {"none", "checked"}
Opened(i) == \E s \in Stream : id[s] = i /\ Begun(s)

(* Out of turn are an open frame for an id of this side or one used before,*)
(* and a close frame for an id that was never opened.                      *)
Notes(i, inTurn) ==
  /\ misused' = IF inTurn THEN misused ELSE misused \cup {i}
  /\ Cardinality(misused') <= MaxMisused

(* The stream s takes the place of whichever had the id i before.          *)
ReadOpenFrame(s, i) ==
  /\ Up
  /\ loop = "reading"
  /\ s \in Remote
  /\ life[s] = "none"
  /\ MuFree
  /\ id' = [id EXCEPT ![s] = i]
  /\ Put(i, s)
  /\ life' = [life EXCEPT ![s] = "offered"]
  /\ LoopMoves("offering", s)
  /\ Notes(i, i \in Remote /\ ~Opened(i))
  /\ UNCHANGED <<shutdown, left, accept, once, readCh, userVars, sent, fin>>

(* The new stream is queued for AcceptStream; a closed session ends the    *)
(* loop without another Session.Close.                                     *)
Offer ==
  /\ Up
  /\ loop = "offering"
  /\ \/ /\ Len(accept) < AcceptCapacity
        /\ accept' = Append(accept, hand)
        /\ LoopMoves("reading", NoStream)
     \/ /\ IsClosed
        /\ LoopMoves("ended", NoStream)
        /\ UNCHANGED accept
  /\ UNCHANGED <<sessionVars, streamVars, userVars, peerVars>>

SentInAll == FoldFunction(+, 0, sent)

(* Data for an id that is not in the map is dropped: nothing changes. *)
ReadDataFrame(i) ==
  /\ Up
  /\ loop = "reading"
  /\ MuFree
  /\ streams[i] # NoStream
  /\ SentInAll < MaxData
  /\ sent' = [sent EXCEPT ![i] = @ + 1]
  /\ LoopMoves("pushing", streams[i])
  /\ UNCHANGED <<sessionVars, accept, streamVars, userVars, fin, misused>>

(* The goroutine panics, nobody recovers: the process ends. *)
Panic == ~panicked /\ panicked' = TRUE

HasRoom(s) == Len(readCh[s]) < ReadCapacity

InHandNow == sent[id[hand]]

(* Mutant: the loop waits for the reader of the stream and for nothing else.*)
PushForever ==
  /\ loop = "pushing"
  /\ \/ /\ ~ChanClosed(hand)
        /\ HasRoom(hand)
        /\ readCh' = [readCh EXCEPT ![hand] = Append(@, InHandNow)]
        /\ Up /\ LoopMoves("reading", NoStream)
     \/ /\ ChanClosed(hand)
        /\ Panic
        /\ UNCHANGED <<readCh, loopVars>>
  /\ UNCHANGED <<sessionVars, accept, id, life, once, userVars, peerVars>>

(* Mutant: a full buffer loses the payload. *)
PushOrDrop ==
  /\ loop = "pushing"
  /\ \/ /\ ~ChanClosed(hand)
        /\ readCh' = [readCh EXCEPT ![hand] =
             IF HasRoom(hand) THEN Append(@, InHandNow) ELSE @]
        /\ Up /\ LoopMoves("reading", NoStream)
     \/ /\ ChanClosed(hand)
        /\ Panic
        /\ UNCHANGED <<readCh, loopVars>>
  /\ UNCHANGED <<sessionVars, accept, id, life, once, userVars, peerVars>>

(* push: select picks one of what is possible - to buffer the payload, to  *)
(* drop it because the session is closed, and, when readCh is closed, to   *)
(* send on a closed channel.                                               *)
Push ==
  /\ loop = "pushing"
  /\ \/ /\ ~ChanClosed(hand)
        /\ HasRoom(hand)
        /\ readCh' = [readCh EXCEPT ![hand] = Append(@, InHandNow)]
        /\ Up /\ LoopMoves("reading", NoStream)
     \/ /\ IsClosed
        /\ Up /\ LoopMoves("reading", NoStream)
        /\ UNCHANGED readCh
     \/ /\ ChanClosed(hand)
        /\ Panic
        /\ UNCHANGED <<readCh, loopVars>>
  /\ UNCHANGED <<sessionVars, accept, id, life, once, userVars, peerVars>>

ReadCloseFrame(i) ==
  /\ Up
  /\ loop = "reading"
  /\ MuFree
  /\ \/ /\ streams[i] # NoStream
        /\ fin' = [fin EXCEPT ![i] = sent[i]]
        /\ LoopMoves("shutting", streams[i])
     \/ /\ streams[i] = NoStream
        /\ LoopMoves("forgetting", i)
        /\ UNCHANGED fin
  /\ Notes(i, Opened(i))
  /\ UNCHANGED <<sessionVars, accept, streamVars, userVars, sent>>

LoopCloseLocal ==
  /\ Up
  /\ loop = "shutting"
  /\ CloseLocal(hand)
  /\ LoopMoves("forgetting", id[hand])
  /\ UNCHANGED <<sessionVars, accept, id, life, readCh, userVars, peerVars>>

(* Mutant: the stream the peer closed stays in the map. *)
LoopKeeps ==
  /\ Up
  /\ loop = "forgetting"
  /\ LoopMoves("reading", NoStream)
  /\ UNCHANGED <<sessionVars, accept, streamVars, userVars, peerVars>>

LoopRemove ==
  /\ Up
  /\ loop = "forgetting"
  /\ MuFree
  /\ Remove(hand)
  /\ LoopMoves("reading", NoStream)
  /\ UNCHANGED <<shutdown, left, accept, streamVars, userVars, peerVars>>

-----------------------------------------------------------------------------
(* Session.Close, run once.                                                *)

ShutdownMoves(from, to) == shutdown = from /\ shutdown' = to

(* Any of those who may close the session does. *)
SessionClose ==
  /\ Up
  /\ ShutdownMoves("open", "marked")
  /\ UNCHANGED <<left, streams, accept, streamVars, userVars, peerVars, loopVars>>

(* Mutant: conn.Close waits for the read loop to leave first. *)
HangUpAfterLoop ==
  /\ Up
  /\ ShutdownMoves("marked", "hung")
  /\ loop = "ended"
  /\ UNCHANGED <<left, streams, accept, streamVars, userVars, peerVars, loopVars>>

HangUp ==
  /\ Up
  /\ ShutdownMoves("marked", "hung")
  /\ UNCHANGED <<left, streams, accept, streamVars, userVars, peerVars, loopVars>>

SweepBegin ==
  /\ Up
  /\ ShutdownMoves("hung", "sweeping")
  /\ left' = InMap
  /\ UNCHANGED <<streams, accept, streamVars, userVars, peerVars, loopVars>>

Sweep(s) ==
  /\ Up
  /\ shutdown = "sweeping"
  /\ s \in left
  /\ CloseLocal(s)
  /\ left' = left \ {s}
  /\ UNCHANGED <<shutdown, streams, accept, id, life, readCh, userVars, peerVars, loopVars>>

SweepEnd ==
  /\ Up
  /\ ShutdownMoves("sweeping", "done")
  /\ left = {}
  /\ streams' = [i \in Id |-> NoStream]
  /\ UNCHANGED <<left, accept, streamVars, userVars, peerVars, loopVars>>

-----------------------------------------------------------------------------

LoopStep ==
  \/ LoopEnds
  \/ Offer
  \/ Push
  \/ LoopCloseLocal
  \/ LoopRemove

(* The peer decides which frame is next. *)
Frame ==
  \/ ReadFails
  \/ \E s \in Stream, i \in Id : ReadOpenFrame(s, i)
  \/ \E i \in Id : ReadDataFrame(i)
  \/ \E i \in Id : ReadCloseFrame(i)

ShutdownStep ==
  \/ HangUp
  \/ SweepBegin
  \/ \E s \in Stream : Sweep(s)
  \/ SweepEnd

(* A write comes back at the latest when the connection is closed. *)
OpenStep(s)  == OpenInsert(s) \/ OpenWrite(s) \/ OpenFail(s)
CloseStep(s) == CloseWrite(s) \/ CloseRemove(s) \/ CloseChannel(s)

YNext ==
  \/ \E s \in Stream : OpenCheck(s)
  \/ \E s \in Stream : OpenStep(s)
  \/ \E s \in Stream : Read(s)
  \/ \E s \in Stream : CloseBegin(s)
  \/ \E s \in Stream : CloseStep(s)
  \/ AcceptStream
  \/ Frame
  \/ LoopStep
  \/ SessionClose
  \/ ShutdownStep

YSpec == YInit /\ [][YNext]_yvars

(* The loop and Session.Close run on.  A closed connection ends every read *)
(* and every write; an open one may block them as long as it likes.        *)
YFairness ==
  /\ WF_yvars(LoopStep)
  /\ WF_yvars(ShutdownStep)
  /\ WF_yvars(ConnClosed /\ ReadFails)
  /\ \A s \in Stream : WF_yvars(ConnClosed /\ CloseStep(s))

YFairSpec == YSpec /\ YFairness

-----------------------------------------------------------------------------
(* Properties.                                                             *)

(* Types, and no channel ever holds more than it was made for.             *)
YTypeOK ==
  /\ shutdown \in {"open", "marked", "hung", "sweeping", "done"}
  /\ left \subseteq Stream
  /\ streams \in [Id -> Stream \cup {NoStream}]
  /\ accept \in Seq(Remote) /\ Len(accept) <= AcceptCapacity
  /\ id \in [Stream -> Id]
  /\ life \in [Stream -> {"none", "checked", "inserted", "open", "failing",
                          "failed", "offered"}]
  /\ once \in [Stream -> {"free", "writing", "removing", "channel", "closed",
                          "shut"}]
  /\ readCh \in [Stream -> Seq(Nat)]
  /\ \A s \in Stream : Len(readCh[s]) <= ReadCapacity
  /\ got \in [Stream -> Seq(Nat)]
  /\ eof \subseteq Stream
  /\ loop \in {"reading", "offering", "pushing", "shutting", "forgetting",
               "closing", "ended"}
  /\ hand \in Stream \cup {NoStream}
  /\ sent \in [Id -> Nat]
  /\ fin \in [Id -> Nat]
  /\ misused \subseteq Id
  /\ panicked \in BOOLEAN

(* What the peer sends cannot by itself bring the process down: a push     *)
(* meets a closed channel only when this side closed the stream or the     *)
(* session meanwhile, never after the peer's own close frame.              *)
PeerCannotPanic == panicked => once[hand] = "closed" \/ IsClosed

(* While the session is open, the user of a stream and its buffer have     *)
(* every payload in the order it was sent, but for the one in hand; and a  *)
(* user that reads EOF on a stream only the peer has closed has read all   *)
(* that the peer sent before it closed.  This is about ids that the peer   *)
(* uses in turn: the frames of an id it opens twice go to the later stream.*)
NoGap ==
  ~IsClosed =>
    /\ \A s \in Stream : life[s] = "open" /\ once[s] = "free" /\ id[s] \notin misused =>
         LET arrived == got[s] \o readCh[s]
         IN  /\ \A i \in DOMAIN arrived : arrived[i] = i
             /\ Len(arrived) = IF loop = "pushing" /\ hand = s
                               THEN InHandNow - 1 ELSE sent[id[s]]
    /\ \A s \in eof : once[s] = "shut" /\ id[s] \notin misused => Len(got[s]) = fin[id[s]]

(* Once Session.Close has returned, no user of a stream that was opened    *)
(* here waits on a channel that nobody will close: not even one whose      *)
(* OpenStream ran at the same time.  Only a peer that opens or closes the  *)
(* id of that stream out of turn can take it out of the map, and then its  *)
(* reader does wait for ever.                                              *)
NoReaderLeftBehind ==
  shutdown = "done" =>
    \A s \in Local : life[s] = "open" /\ s \notin misused => once[s] # "free"

(* Closing the session frees the read loop from a stream nobody reads.     *)
BlockedPushIsFreed ==
  loop = "pushing" /\ IsClosed ~> loop # "pushing" \/ panicked

(* A closed session's Close returns, unless its loop, holding mu, came upon*)
(* a stream whose Stream.Close waits for mu: nothing else can stop it, not *)
(* a peer that does not read, nor a push that is blocked.                  *)
CloseStuckOnlyOnRace ==
  IsClosed ~> \/ shutdown = "done" \/ panicked
              \/ \E s \in left : once[s] = "removing"

(* Session.Close returns.  SetActive calls it on the session it replaces,  *)
(* before the new tunnel is rechecked and its heartbeat is started.        *)
SessionCloseReturns == IsClosed ~> shutdown = "done" \/ panicked
=============================================================================

------------------------- MODULE ConversationShares --------------------------
(***************************************************************************)
(* Conversation shares: rows in the database, attachment files on disk,    *)
(* and nothing that commits the two together.  A creation stages its       *)
(* files, moves them in place and then inserts the rows; a revocation and  *)
(* the hourly cleanup delete files and then forget their metadata; readers *)
(* look the row up and then open the file.  The process may stop anywhere; *)
(* database and files survive it.                                          *)
(*                                                                         *)
(* Clock values appear only as the comparisons the code makes: a share's   *)
(* expiry or a claim's half hour has passed, a directory is more than an   *)
(* hour old.  A handler keeps the answers it had when it read the clock.   *)
(***************************************************************************)
EXTENDS Naturals, FiniteSets

CONSTANTS
  Share,        \* ids of shares, each created at most once
  Browser,      \* who opens the public page
  MaxMishaps,   \* crashes and failing cleanups, at most
  NoShare,
  NoBrowser

ASSUME MaxMishapsIsNat == MaxMishaps \in Nat
ASSUME NobodyIsFresh   == NoShare \notin Share /\ NoBrowser \notin Browser

VARIABLES
  kind,      \* Share -> once (single use), timed, or bare (timed, no attachment)
  row,       \* Share -> its conversation_shares row
  meta,      \* shares with conversation_share_resources rows
  claim,     \* Share -> whose session its conversation_share_claims row names
  expired,   \* shares past expires_at
  claimOver, \* shares whose claim is past its half hour
  stage,     \* Share -> its directory under .staging
  files,     \* Share -> its directory under shares
  oldStage, oldFiles,  \* those directories an hour old or more
  creator,   \* Share -> position of handleCreateConversationShare
  revoker,   \* Share -> position of handleRevokeConversationShare
  cleaner,   \* the cleanup: position and what it has read so far
  request,   \* Browser -> its request to a public page or attachment
  holds,     \* <<browser, share>> pairs: it has the session cookie
  served,    \* <<browser, share>> pairs: it was shown a single-use share
  overdue,   \* shares whose creation met a directory of its own an hour old
  uncertain, \* shares whose insert was committed and reported as failed
  mishaps    \* bounded by MaxMishaps

dbVars     == <<kind, row, meta, claim, expired, claimOver>>
diskVars   == <<stage, files, oldStage, oldFiles>>
readerVars == <<request, holds, served>>
ghostVars  == <<overdue, uncertain>>
svars == <<dbVars, diskVars, creator, revoker, cleaner, readerVars, ghostVars, mishaps>>

Idle == [at |-> "idle", todo |-> {}, hand |-> NoShare, valid |-> {},
         before |-> [stage |-> {}, files |-> {}]]
Away == [at |-> "away", share |-> NoShare, cookie |-> FALSE, late |-> FALSE]

SInit ==
  /\ kind \in [Share -> {"once", "timed", "bare"}]
  /\ row = [s \in Share |-> "none"]
  /\ meta = {}
  /\ claim = [s \in Share |-> NoBrowser]
  /\ expired = {}
  /\ claimOver = {}
  /\ stage = [s \in Share |-> "none"]
  /\ files = [s \in Share |-> "none"]
  /\ oldStage = {}
  /\ oldFiles = {}
  /\ creator = [s \in Share |-> "new"]
  /\ revoker = [s \in Share |-> "idle"]
  /\ cleaner = Idle
  /\ request = [b \in Browser |-> Away]
  /\ holds = {}
  /\ served = {}
  /\ overdue = {}
  /\ uncertain = {}
  /\ mishaps = 0

(* os.RemoveAll unlinks what a directory holds before the directory: what  *)
(* is left after its next step.                                            *)
Unlinked(dir) == IF dir \in {"partial", "whole"} THEN "torn" ELSE "none"

-----------------------------------------------------------------------------
(* Creation: stage, move in place, insert the rows.                        *)

Goes(s, from, to) == creator[s] = from /\ creator' = [creator EXCEPT ![s] = to]

Begin(s) ==
  /\ Goes(s, "new", "uploading")
  /\ stage' = [stage EXCEPT ![s] = "partial"]
  /\ UNCHANGED <<dbVars, files, oldStage, oldFiles, revoker, cleaner, readerVars, ghostVars, mishaps>>

(* The last attachment is written; a new file makes the directory young.   *)
Upload(s) ==
  /\ Goes(s, "uploading", "staged")
  /\ stage[s] # "none" \/ kind[s] = "bare"
  /\ stage' = [stage EXCEPT ![s] = IF @ = "partial" THEN "whole" ELSE @]
  /\ oldStage' = IF kind[s] = "bare" THEN oldStage ELSE oldStage \ {s}
  /\ UNCHANGED <<dbVars, files, oldFiles, revoker, cleaner, readerVars, ghostVars, mishaps>>

UploadFails(s) ==
  /\ Goes(s, "uploading", "aborting")
  /\ UNCHANGED <<dbVars, diskVars, revoker, cleaner, readerVars, ghostVars, mishaps>>

MakeParent(s) ==
  /\ Goes(s, "staged", "made")
  /\ files' = [files EXCEPT ![s] = "empty"]
  /\ UNCHANGED <<dbVars, stage, oldStage, oldFiles, revoker, cleaner, readerVars, ghostVars, mishaps>>

(* Moving the resources in makes the parent young again.                   *)
MoveStage(s) ==
  /\ Goes(s, "made", "moved")
  /\ stage[s] # "none"
  /\ files[s] = "empty"
  /\ files' = [files EXCEPT ![s] = stage[s]]
  /\ stage' = [stage EXCEPT ![s] = "none"]
  /\ oldStage' = oldStage \ {s}
  /\ oldFiles' = oldFiles \ {s}
  /\ UNCHANGED <<dbVars, revoker, cleaner, readerVars, ghostVars, mishaps>>

(* Before the rename the parent is taken back, if that works.              *)
CommitFails(s) ==
  /\ creator[s] \in {"staged", "made"}
  /\ creator' = [creator EXCEPT ![s] = "aborting"]
  /\ \/ files' = [files EXCEPT ![s] = "none"] /\ oldFiles' = oldFiles \ {s}
     \/ UNCHANGED <<files, oldFiles>>
  /\ UNCHANGED <<dbVars, stage, oldStage, revoker, cleaner, readerVars, ghostVars, mishaps>>

(* stage.Abort, whose error nobody looks at.                               *)
Abort(s) ==
  /\ creator[s] = "aborting"
  /\ \/ /\ stage[s] # "none"
        /\ stage' = [stage EXCEPT ![s] = Unlinked(@)]
        /\ oldStage' = oldStage \ {s}
        /\ UNCHANGED creator
     \/ Goes(s, "aborting", "ended") /\ UNCHANGED <<stage, oldStage>>
  /\ UNCHANGED <<dbVars, files, oldFiles, revoker, cleaner, readerVars, ghostVars, mishaps>>

(* The error of the last directory sync: the files stay, no row comes.     *)
SyncFails(s) ==
  /\ Goes(s, "moved", "ended")
  /\ UNCHANGED <<dbVars, diskVars, revoker, cleaner, readerVars, ghostVars, mishaps>>

Inserted(s) ==
  /\ row' = [row EXCEPT ![s] = "live"]
  /\ meta' = IF kind[s] = "bare" THEN meta ELSE meta \cup {s}
  /\ UNCHANGED <<kind, claim, expired, claimOver>>

InsertRows(s) ==
  /\ Goes(s, "moved", "ended")
  /\ Inserted(s)
  /\ UNCHANGED <<diskVars, revoker, cleaner, readerVars, ghostVars, mishaps>>

(* The insert fails; or it is committed, and the answer to that is lost.   *)
InsertFails(s) ==
  /\ Goes(s, "moved", "undoing")
  /\ \/ UNCHANGED <<dbVars, uncertain>>
     \/ Inserted(s) /\ uncertain' = uncertain \cup {s}
  /\ UNCHANGED <<diskVars, revoker, cleaner, readerVars, overdue, mishaps>>

(* Store.Delete, one step of it: FilesGone tells when it is done.          *)
UnlinkFiles(s) ==
  /\ files[s] # "none"
  /\ files' = [files EXCEPT ![s] = Unlinked(@)]
  /\ oldFiles' = IF Unlinked(files[s]) = "none" THEN oldFiles \ {s} ELSE oldFiles
  /\ UNCHANGED <<stage, oldStage>>

(* Mutant: the metadata goes whatever became of the files. *)
WhateverIsLeft(s) == TRUE

FilesGone(s) == files[s] = "none"

Undo(s) ==
  /\ creator[s] = "undoing"
  /\ \/ UnlinkFiles(s) /\ UNCHANGED creator
     \/ Goes(s, "undoing", "ended") /\ UNCHANGED diskVars
  /\ UNCHANGED <<dbVars, revoker, cleaner, readerVars, ghostVars, mishaps>>

-----------------------------------------------------------------------------
(* Revocation by the owner.                                                *)

(* The update, after which the handler goes on; or, when its answer is     *)
(* lost, gives up: a retry finds nothing left to revoke.                   *)
RevokeRow(s) ==
  /\ revoker[s] = "idle"
  /\ row[s] = "live"
  /\ row' = [row EXCEPT ![s] = "revoked"]
  /\ \E next \in {"idle", "deleting"} : revoker' = [revoker EXCEPT ![s] = next]
  /\ UNCHANGED <<kind, meta, claim, expired, claimOver, diskVars, creator,
                 cleaner, readerVars, ghostVars, mishaps>>

RevokeFiles(s) ==
  /\ revoker[s] = "deleting"
  /\ UnlinkFiles(s)
  /\ UNCHANGED <<dbVars, creator, revoker, cleaner, readerVars, ghostVars, mishaps>>

(* The metadata is deleted after the files, or not at all on an error.     *)
RevokeEnds(s) ==
  /\ revoker[s] = "deleting"
  /\ revoker' = [revoker EXCEPT ![s] = "idle"]
  /\ \/ FilesGone(s) /\ meta' = meta \ {s}
     \/ UNCHANGED meta
  /\ UNCHANGED <<kind, row, claim, expired, claimOver, diskVars, creator,
                 cleaner, readerVars, ghostVars, mishaps>>

-----------------------------------------------------------------------------
(* The cleanup, at startup and every hour; one run at a time.              *)

(* Mutant: a single-use share is not looked at once it was read. *)
RevokedOrExpired == {s \in meta : row[s] = "revoked" \/ s \in expired}

CleanupIDs == {s \in meta : \/ row[s] = "revoked"
                            \/ s \in expired
                            \/ kind[s] = "once" /\ s \in claimOver}

(* It reads the clock, and the shares whose files are no longer needed.    *)
CleanupStarts ==
  /\ cleaner.at = "idle"
  /\ cleaner' = [Idle EXCEPT !.at = "expired", !.todo = CleanupIDs,
                             !.before = [stage |-> oldStage, files |-> oldFiles]]
  /\ UNCHANGED <<dbVars, diskVars, creator, revoker, readerVars, ghostVars, mishaps>>

CleanupUnlinks(s) ==
  /\ cleaner.at = "expired"
  /\ s \in cleaner.todo
  /\ cleaner.hand \in {NoShare, s}
  /\ UnlinkFiles(s)
  /\ cleaner' = [cleaner EXCEPT !.hand = s]
  /\ UNCHANGED <<dbVars, creator, revoker, readerVars, ghostVars, mishaps>>

CleanupForgets(s) ==
  /\ cleaner.at = "expired"
  /\ s \in cleaner.todo
  /\ cleaner.hand \in {NoShare, s}
  /\ FilesGone(s)
  /\ meta' = meta \ {s}
  /\ cleaner' = [cleaner EXCEPT !.todo = @ \ {s}, !.hand = NoShare]
  /\ UNCHANGED <<kind, row, claim, expired, claimOver, diskVars, creator,
                 revoker, readerVars, ghostVars, mishaps>>

(* An error of either is logged, and the share left for the next run.      *)
CleanupSkips(s) ==
  /\ mishaps < MaxMishaps
  /\ cleaner.at = "expired"
  /\ s \in cleaner.todo
  /\ cleaner.hand \in {NoShare, s}
  /\ cleaner' = [cleaner EXCEPT !.todo = @ \ {s}, !.hand = NoShare]
  /\ mishaps' = mishaps + 1
  /\ UNCHANGED <<dbVars, diskVars, creator, revoker, readerVars, ghostVars>>

ReadValidIDs ==
  /\ cleaner.at = "expired"
  /\ cleaner.todo = {}
  /\ cleaner' = [cleaner EXCEPT !.at = "staging", !.valid = meta]
  /\ UNCHANGED <<dbVars, diskVars, creator, revoker, readerVars, ghostVars, mishaps>>

(* Mutant: age does not matter. *)
EveryOrphan == IF cleaner.at = "staging" THEN {s \in Share : stage[s] # "none"}
               ELSE {s \in Share \ cleaner.valid : files[s] # "none"}

(* What cleanupOldChildren finds under .staging, then under shares: the    *)
(* directories that are, and at the start were, old; of shares, not those  *)
(* with metadata.                                                          *)
Orphans == IF cleaner.at = "staging" THEN oldStage \cap cleaner.before.stage
           ELSE (oldFiles \cap cleaner.before.files) \ cleaner.valid

UnlinkOrphan(s) ==
  /\ cleaner.at \in {"staging", "shares"}
  /\ IF cleaner.hand = NoShare THEN s \in Orphans ELSE s = cleaner.hand
  /\ IF cleaner.at = "staging"
     THEN /\ stage[s] # "none"
          /\ stage' = [stage EXCEPT ![s] = Unlinked(@)]
          /\ oldStage' = oldStage \ {s}
          /\ UNCHANGED <<files, oldFiles>>
     ELSE UnlinkFiles(s)
  /\ cleaner' = [cleaner EXCEPT !.hand = s]
  /\ UNCHANGED <<dbVars, creator, revoker, readerVars, ghostVars, mishaps>>

OrphanGone ==
  /\ cleaner.hand # NoShare
  /\ \/ cleaner.at = "staging" /\ stage[cleaner.hand] = "none"
     \/ cleaner.at = "shares" /\ files[cleaner.hand] = "none"
  /\ cleaner' = [cleaner EXCEPT !.hand = NoShare]
  /\ UNCHANGED <<dbVars, diskVars, creator, revoker, readerVars, ghostVars, mishaps>>

OrphansDone ==
  /\ cleaner.at \in {"staging", "shares"}
  /\ cleaner.hand = NoShare
  /\ Orphans = {}
  /\ cleaner' = IF cleaner.at = "staging" THEN [cleaner EXCEPT !.at = "shares"] ELSE Idle
  /\ UNCHANGED <<dbVars, diskVars, creator, revoker, readerVars, ghostVars, mishaps>>

(* A query or a removal that fails ends the run.                           *)
CleanupFails ==
  /\ mishaps < MaxMishaps
  /\ cleaner.at \in {"staging", "shares"} \/ (cleaner.at = "expired" /\ cleaner.todo = {})
  /\ cleaner' = Idle
  /\ mishaps' = mishaps + 1
  /\ UNCHANGED <<dbVars, diskVars, creator, revoker, readerVars, ghostVars>>

-----------------------------------------------------------------------------
(* Time, and the end of the process.                                       *)

Expire(s) ==
  /\ row[s] # "none" /\ kind[s] # "once" /\ s \notin expired
  /\ expired' = expired \cup {s}
  /\ UNCHANGED <<kind, row, meta, claim, claimOver, diskVars, creator, revoker,
                 cleaner, readerVars, ghostVars, mishaps>>

ClaimEnds(s) ==
  /\ claim[s] # NoBrowser /\ s \notin claimOver
  /\ claimOver' = claimOver \cup {s}
  /\ UNCHANGED <<kind, row, meta, claim, expired, diskVars, creator, revoker,
                 cleaner, readerVars, ghostVars, mishaps>>

GrowsOld(s) ==
  /\ \/ /\ stage[s] # "none" /\ s \notin oldStage
        /\ oldStage' = oldStage \cup {s} /\ UNCHANGED oldFiles
     \/ /\ files[s] # "none" /\ s \notin oldFiles
        /\ oldFiles' = oldFiles \cup {s} /\ UNCHANGED oldStage
  /\ overdue' = IF creator[s] \in {"uploading", "staged", "made", "moved"}
                THEN overdue \cup {s} ELSE overdue
  /\ UNCHANGED <<dbVars, stage, files, creator, revoker, cleaner, readerVars,
                 uncertain, mishaps>>

Crash ==
  /\ mishaps < MaxMishaps
  /\ mishaps' = mishaps + 1
  /\ creator' = [s \in Share |-> IF creator[s] = "new" THEN "new" ELSE "ended"]
  /\ revoker' = [s \in Share |-> "idle"]
  /\ cleaner' = Idle
  /\ request' = [b \in Browser |-> Away]
  /\ UNCHANGED <<dbVars, diskVars, holds, served, ghostVars>>

-----------------------------------------------------------------------------
(* The public page and its attachments.                                    *)

Asks(b, s, at) ==
  /\ request[b].at = "away"
  /\ row[s] = "live" /\ s \notin expired
  /\ request' = [request EXCEPT ![b] = [at |-> at, share |-> s,
        cookie |-> <<b, s>> \in holds, late |-> s \in claimOver]]

Leaves(b) == request' = [request EXCEPT ![b] = Away]

Shown(b, s) == served' = IF kind[s] = "once" THEN served \cup {<<b, s>>} ELSE served

(* Mutant: a claim that is over can be made again. *)
UnclaimedNow(s) == claim[s] = NoBrowser \/ s \in claimOver

Unclaimed(s) == claim[s] = NoBrowser

(* The cookie presented is the claim's, and the claim was not over.        *)
Claimant(b, s) == claim[s] = b /\ request[b].cookie /\ ~request[b].late

(* PeekPublicConversationShare.                                            *)
PeekPage(b, s) ==
  /\ Asks(b, s, "peeked")
  /\ UNCHANGED <<dbVars, diskVars, creator, revoker, cleaner, holds, served, ghostVars, mishaps>>

(* The first reader of a single-use share claims it; the commit of that    *)
(* may be reported as failed.                                              *)
ClaimShare(b) ==
  LET s == request[b].share IN
  /\ request[b].at = "peeked"
  /\ row[s] = "live" /\ kind[s] = "once" /\ Unclaimed(s)
  /\ claim' = [claim EXCEPT ![s] = b]
  /\ \/ request' = [request EXCEPT ![b].at = "claimed"]
     \/ Leaves(b)
  /\ UNCHANGED <<kind, row, meta, expired, claimOver, diskVars, creator, revoker,
                 cleaner, holds, served, ghostVars, mishaps>>

(* The answer with the cookie arrives, or is lost.                         *)
AnswerClaim(b) ==
  LET s == request[b].share IN
  /\ request[b].at = "claimed"
  /\ \/ holds' = holds \cup {<<b, s>>} /\ Shown(b, s)
     \/ UNCHANGED <<holds, served>>
  /\ Leaves(b)
  /\ UNCHANGED <<dbVars, diskVars, creator, revoker, cleaner, ghostVars, mishaps>>

AccessPage(b) ==
  LET s == request[b].share IN
  /\ request[b].at = "peeked"
  /\ ~(row[s] = "live" /\ kind[s] = "once" /\ Unclaimed(s))
  /\ IF row[s] = "live" /\ (kind[s] = "once" => Claimant(b, s))
     THEN Shown(b, s)
     ELSE UNCHANGED served
  /\ Leaves(b)
  /\ UNCHANGED <<dbVars, diskVars, creator, revoker, cleaner, holds, ghostVars, mishaps>>

(* ReadPublicConversationShareResource, and then the file.                 *)
ReadAttachment(b, s) ==
  /\ s \in meta
  /\ kind[s] = "once" => /\ claim[s] = b
                         /\ <<b, s>> \in holds
                         /\ s \notin claimOver
  /\ Asks(b, s, "opening")
  /\ UNCHANGED <<dbVars, diskVars, creator, revoker, cleaner, holds, served, ghostVars, mishaps>>

OpenAttachment(b) ==
  LET s == request[b].share IN
  /\ request[b].at = "opening"
  /\ \/ files[s] \in {"torn", "whole"} /\ Shown(b, s)
     \/ files[s] # "whole" /\ UNCHANGED served
  /\ Leaves(b)
  /\ UNCHANGED <<dbVars, diskVars, creator, revoker, cleaner, holds, ghostVars, mishaps>>

-----------------------------------------------------------------------------
Creation(s) == \/ Begin(s) \/ Upload(s) \/ UploadFails(s) \/ MakeParent(s)
               \/ MoveStage(s) \/ CommitFails(s) \/ Abort(s) \/ SyncFails(s)
               \/ InsertRows(s) \/ InsertFails(s) \/ Undo(s)

Revocation(s) == RevokeRow(s) \/ RevokeFiles(s) \/ RevokeEnds(s)

CleanupProgress == \/ CleanupStarts \/ ReadValidIDs \/ OrphanGone \/ OrphansDone
                   \/ \E s \in Share : CleanupUnlinks(s) \/ CleanupForgets(s) \/ UnlinkOrphan(s)

Reading(b) == \/ ClaimShare(b) \/ AnswerClaim(b) \/ AccessPage(b) \/ OpenAttachment(b)
              \/ \E s \in Share : PeekPage(b, s) \/ ReadAttachment(b, s)

SNext ==
  \/ \E s \in Share : \/ Creation(s) \/ Revocation(s) \/ CleanupSkips(s)
                      \/ Expire(s) \/ ClaimEnds(s) \/ GrowsOld(s)
  \/ \E b \in Browser : Reading(b)
  \/ CleanupProgress
  \/ CleanupFails
  \/ Crash

SSpec == SInit /\ [][SNext]_svars

(* Time passes, and the ticker of the cleanup fires again and again.       *)
SFairSpec == SSpec /\ WF_svars(CleanupProgress)
                   /\ \A s \in Share : WF_svars(GrowsOld(s))

-----------------------------------------------------------------------------
Live(s) == /\ row[s] = "live" /\ s \notin expired
           /\ kind[s] = "once" => s \notin claimOver

(* Every variable has its type; only directories that exist are old, and   *)
(* only shares that were inserted have metadata or a claim.                *)
STypeOK ==
  /\ kind \in [Share -> {"once", "timed", "bare"}]
  /\ row \in [Share -> {"none", "live", "revoked"}]
  /\ claim \in [Share -> Browser \cup {NoBrowser}]
  /\ stage \in [Share -> {"none", "partial", "whole", "torn"}]
  /\ files \in [Share -> {"none", "empty", "partial", "whole", "torn"}]
  /\ {meta, expired, claimOver, oldStage, oldFiles, overdue, uncertain} \subseteq SUBSET Share
  /\ \A s \in oldStage : stage[s] # "none"
  /\ \A s \in oldFiles : files[s] # "none"
  /\ \A s \in Share : s \in meta \/ claim[s] # NoBrowser => row[s] # "none"
  /\ creator \in [Share -> {"new", "uploading", "staged", "made", "moved",
                            "aborting", "undoing", "ended"}]
  /\ revoker \in [Share -> {"idle", "deleting"}]
  /\ cleaner \in [at : {"idle", "expired", "staging", "shares"},
                  todo : SUBSET Share, hand : Share \cup {NoShare},
                  valid : SUBSET Share,
                  before : [stage : SUBSET Share, files : SUBSET Share]]
  /\ request \in [Browser -> [at : {"away", "peeked", "claimed", "opening"},
                              share : Share \cup {NoShare},
                              cookie : BOOLEAN, late : BOOLEAN]]
  /\ holds \subseteq Browser \X Share /\ served \subseteq Browser \X Share
  /\ mishaps \in 0..MaxMishaps

(* A share that can be read has its attachments, metadata and files, all   *)
(* of them: whatever the cleanup, another handler or a crash does.  Not    *)
(* so when its insert was committed and reported as failed, because the    *)
(* handler then deletes the files, nor when its creation took an hour.     *)
PublishedHasFiles ==
  \A s \in Share \ (uncertain \cup overdue) :
    Live(s) /\ kind[s] # "bare" => s \in meta /\ files[s] = "whole"

(* The metadata of a share goes only after its files: until then a next    *)
(* cleanup finds them, whoever was interrupted.                            *)
MetadataOutlivesFiles ==
  \A s \in Share \ meta : row[s] # "none" /\ kind[s] # "bare" => files[s] = "none"

(* A single-use share is shown to one browser at most, over its whole life.*)
SingleReader ==
  \A s \in Share : Cardinality({b \in Browser : <<b, s>> \in served}) <= 1

(* What nobody may read any more does not stay on the disk: files of       *)
(* creations that failed or were interrupted, of shares revoked, expired   *)
(* or read.                                                                *)
LeftoversGo ==
  \A s \in Share :
    creator[s] = "ended" /\ ~Live(s) ~> stage[s] = "none" /\ files[s] = "none"
=============================================================================

---------------------- MODULE ConversationSharesProofs ----------------------
(***************************************************************************)
(* The safety of ConversationShares for any number of shares and browsers. *)
(*                                                                         *)
(* The inductive invariant SInv adds to the properties what each of those  *)
(* who work on the files can rely on: a creation under way finds its own   *)
(* directories complete (Complete) unless one of them grew old (Overdue),  *)
(* because the cleanup removes only what was old when it started; whoever  *)
(* deletes the files of a share knows that it cannot be read (Deleters);   *)
(* and whoever shows a single-use share is the claimant (Claimants).       *)
(***************************************************************************)
EXTENDS ConversationShares, FiniteSetTheorems, TLAPS

Making == {"uploading", "staged", "made", "moved"}

(* Before its creation begins a share has no directory, and none is known. *)
Untouched ==
  \A s \in Share : creator[s] = "new" =>
    /\ stage[s] = "none" /\ files[s] = "none"
    /\ s \notin cleaner.before.stage /\ s \notin cleaner.before.files

(* The row is the last thing to come. *)
NoRowYet ==
  \A s \in Share :
    /\ creator[s] \in Making \cup {"new"} => row[s] = "none"
    /\ creator[s] = "undoing" /\ s \notin uncertain => row[s] = "none"

Overdue ==
  \A s \in oldStage \cup oldFiles \cup cleaner.before.stage \cup cleaner.before.files :
    creator[s] \in Making => s \in overdue

Complete ==
  \A s \in Share \ overdue :
    /\ creator[s] = "uploading" => stage[s] = "partial"
    /\ creator[s] \in {"staged", "made"} => stage[s] = "whole"
    /\ creator[s] = "moved" => files[s] = "whole"

(* A share with attachments that is no exception of PublishedHasFiles. *)
Protected(s) == Live(s) /\ kind[s] # "bare" /\ s \notin uncertain \cup overdue

Deleters ==
  /\ \A s \in Share : revoker[s] = "deleting" => row[s] = "revoked"
  /\ \A s \in cleaner.todo : row[s] # "none" /\ ~Live(s)
  /\ cleaner.at = "expired" => cleaner.hand \in cleaner.todo \cup {NoShare}
  /\ cleaner.at = "staging" => cleaner.hand \in cleaner.before.stage \cup {NoShare}
  /\ cleaner.at = "shares" =>
       cleaner.hand \in (cleaner.before.files \ cleaner.valid) \cup {NoShare}
  /\ cleaner.at \in {"staging", "shares"} =>
       \A s \in cleaner.before.files : Protected(s) => s \in cleaner.valid

Claimants ==
  /\ \A b \in Browser :
       /\ request[b].at # "away" => request[b].share \in Share
       /\ request[b].at = "claimed" => claim[request[b].share] = b
       /\ request[b].at = "opening" /\ kind[request[b].share] = "once"
            => claim[request[b].share] = b
  /\ \A b \in Browser, s \in Share : <<b, s>> \in served => claim[s] = b

SInv == /\ STypeOK
        /\ Untouched /\ NoRowYet /\ Overdue /\ Complete
        /\ Deleters
        /\ Claimants
        /\ PublishedHasFiles
        /\ MetadataOutlivesFiles

CleanerType == [at : {"idle", "expired", "staging", "shares"},
                todo : SUBSET Share, hand : Share \cup {NoShare},
                valid : SUBSET Share,
                before : [stage : SUBSET Share, files : SUBSET Share]]

RequestType == [at : {"away", "peeked", "claimed", "opening"},
                share : Share \cup {NoShare}, cookie : BOOLEAN, late : BOOLEAN]

(* What the files' workers rely on, as one. *)
FilesInv == Untouched /\ NoRowYet /\ Overdue /\ Complete

-----------------------------------------------------------------------------
(* Who disturbs nothing.                                                   *)

LEMMA FilesFrame ==
  ASSUME SInv, UNCHANGED <<row, diskVars, creator, cleaner, ghostVars>>
  PROVE  FilesInv'
BY DEF SInv, FilesInv, Untouched, NoRowYet, Overdue, Complete, diskVars, ghostVars

LEMMA ClaimantsFrame ==
  ASSUME SInv, UNCHANGED <<kind, claim, request, served>>
  PROVE  Claimants'
BY DEF SInv, Claimants

LEMMA DeletersFrame ==
  ASSUME SInv, UNCHANGED <<kind, row, expired, claimOver, revoker, cleaner, ghostVars>>
  PROVE  Deleters'
BY DEF SInv, Deleters, Protected, Live, ghostVars

LEMMA PublishedFrame ==
  ASSUME SInv, UNCHANGED <<kind, row, meta, expired, claimOver, files, ghostVars>>
  PROVE  PublishedHasFiles' /\ MetadataOutlivesFiles'
BY DEF SInv, PublishedHasFiles, MetadataOutlivesFiles, Live, ghostVars

-----------------------------------------------------------------------------
(* Creations.                                                              *)

LEMMA BeginOK ==
  ASSUME SInv, NEW s \in Share, Begin(s)
  PROVE  SInv'
<1> USE DEF Begin, Goes, dbVars, readerVars, ghostVars
<1>1. STypeOK'
  BY DEF SInv, STypeOK
<1>2. FilesInv'
  BY DEF SInv, STypeOK, FilesInv, Untouched, NoRowYet, Overdue, Complete, Making
<1>3. Deleters' /\ Claimants' /\ PublishedHasFiles' /\ MetadataOutlivesFiles'
  BY DeletersFrame, ClaimantsFrame, PublishedFrame
<1> QED BY <1>1, <1>2, <1>3 DEF SInv, FilesInv

LEMMA UploadOK ==
  ASSUME SInv, NEW s \in Share, Upload(s) \/ UploadFails(s)
  PROVE  SInv'
<1> USE DEF Upload, UploadFails, Goes, dbVars, readerVars, ghostVars, diskVars
<1>1. STypeOK'
  BY DEF SInv, STypeOK
<1>2. FilesInv'
  BY DEF SInv, STypeOK, FilesInv, Untouched, NoRowYet, Overdue, Complete, Making
<1>3. Deleters' /\ Claimants' /\ PublishedHasFiles' /\ MetadataOutlivesFiles'
  BY DeletersFrame, ClaimantsFrame, PublishedFrame
<1> QED BY <1>1, <1>2, <1>3 DEF SInv, FilesInv

(* Nobody reads what has no row yet. *)
LEMMA UnderWay ==
  ASSUME SInv, NEW s \in Share, creator[s] \in Making,
         UNCHANGED <<kind, row, meta, expired, claimOver, ghostVars>>,
         \A t \in Share \ {s} : files'[t] = files[t]
  PROVE  PublishedHasFiles' /\ MetadataOutlivesFiles'
BY DEF SInv, NoRowYet, PublishedHasFiles, MetadataOutlivesFiles, Live, ghostVars

LEMMA CommitOK ==
  ASSUME SInv, NEW s \in Share, MakeParent(s) \/ MoveStage(s) \/ CommitFails(s)
  PROVE  SInv'
<1> USE DEF MakeParent, MoveStage, CommitFails, Goes, dbVars, readerVars, ghostVars
<1>1. STypeOK'
  BY DEF SInv, STypeOK
<1>2. FilesInv'
  BY DEF SInv, STypeOK, FilesInv, Untouched, NoRowYet, Overdue, Complete, Making
<1>3. Deleters' /\ Claimants'
  BY DeletersFrame, ClaimantsFrame
<1>4. PublishedHasFiles' /\ MetadataOutlivesFiles'
  <2>1. \A t \in Share \ {s} : files'[t] = files[t]
    BY DEF SInv, STypeOK
  <2> QED BY <2>1, UnderWay DEF Making
<1> QED BY <1>1, <1>2, <1>3, <1>4 DEF SInv, FilesInv

LEMMA AbortOK ==
  ASSUME SInv, NEW s \in Share, Abort(s) \/ SyncFails(s)
  PROVE  SInv'
<1> USE DEF Abort, SyncFails, Goes, Unlinked, dbVars, readerVars, ghostVars, diskVars
<1>1. STypeOK'
  BY DEF SInv, STypeOK
<1>2. FilesInv'
  BY DEF SInv, STypeOK, FilesInv, Untouched, NoRowYet, Overdue, Complete, Making
<1>3. Deleters' /\ Claimants' /\ PublishedHasFiles' /\ MetadataOutlivesFiles'
  BY DeletersFrame, ClaimantsFrame, PublishedFrame
<1> QED BY <1>1, <1>2, <1>3 DEF SInv, FilesInv

(* The rows come when the files are in place; what the cleanup took note   *)
(* of before that was overdue.                                             *)
LEMMA InsertOK ==
  ASSUME SInv, NEW s \in Share, InsertRows(s) \/ InsertFails(s)
  PROVE  SInv'
<1> USE DEF InsertRows, InsertFails, Inserted, Goes, dbVars, readerVars, ghostVars, diskVars
<1>1. STypeOK'
  BY DEF SInv, STypeOK
<1>2. FilesInv'
  BY DEF SInv, STypeOK, FilesInv, Untouched, NoRowYet, Overdue, Complete, Making
<1>3. Claimants'
  BY ClaimantsFrame
<1>4. row[s] = "none" /\ s \notin cleaner.todo
  BY DEF SInv, NoRowYet, Making, Deleters, Live
<1>5. Deleters'
  BY <1>4 DEF SInv, STypeOK, Deleters, Overdue, Protected, Live, Making
<1>6. PublishedHasFiles' /\ MetadataOutlivesFiles'
  BY <1>4 DEF SInv, STypeOK, PublishedHasFiles, MetadataOutlivesFiles, Complete, Live
<1> QED BY <1>1, <1>2, <1>3, <1>5, <1>6 DEF SInv, FilesInv

(* One step of deleting the files of a share that cannot be read, or whose *)
(* row may have come unnoticed, or that is overdue.                        *)
LEMMA Unlinking ==
  ASSUME SInv, NEW s \in Share, UnlinkFiles(s), ~Protected(s),
         creator[s] \notin Making \/ s \in overdue,
         UNCHANGED <<dbVars, creator, revoker, readerVars, ghostVars, mishaps>>,
         cleaner' = [cleaner EXCEPT !.hand = s] \/ UNCHANGED cleaner
  PROVE  STypeOK' /\ FilesInv' /\ PublishedHasFiles' /\ MetadataOutlivesFiles'
<1> USE DEF UnlinkFiles, dbVars, readerVars, ghostVars, SInv, STypeOK
<1>1. /\ \A t \in Share \ {s} : files'[t] = files[t]
      /\ files[s] # "none"
      /\ files'[s] \in {"torn", "none"}
      /\ files' \in [Share -> {"none", "empty", "partial", "whole", "torn"}]
  BY DEF Unlinked
<1>2. oldFiles' \subseteq oldFiles /\ \A t \in oldFiles' : files'[t] # "none"
  BY <1>1 DEF Unlinked
<1>3. cleaner' \in CleanerType /\ cleaner'.before = cleaner.before
  BY DEF CleanerType
<1>4. STypeOK'
  BY <1>1, <1>2, <1>3 DEF CleanerType
<1>5. FilesInv'
  <2>1. UNCHANGED <<stage, oldStage, overdue, uncertain, creator, row>>
    OBVIOUS
  <2>2. Untouched' /\ NoRowYet'
    BY <1>1, <1>3, <2>1 DEF Untouched, NoRowYet
  <2>3. Overdue' /\ Complete'
    BY <1>1, <1>2, <1>3, <2>1 DEF Overdue, Complete, Making
  <2> QED BY <2>2, <2>3 DEF FilesInv
<1>6. PublishedHasFiles'
  BY <1>1 DEF PublishedHasFiles, Protected, Live
<1>7. MetadataOutlivesFiles'
  BY <1>1 DEF MetadataOutlivesFiles
<1> QED BY <1>4, <1>5, <1>6, <1>7

LEMMA UndoOK ==
  ASSUME SInv, NEW s \in Share, Undo(s)
  PROVE  SInv'
<1> USE DEF Undo, dbVars, readerVars, ghostVars
<1>1. Deleters' /\ Claimants'
  BY DeletersFrame, ClaimantsFrame
<1>2. CASE UnlinkFiles(s) /\ UNCHANGED creator
  <2>1. ~Protected(s) /\ creator[s] \notin Making
    BY DEF SInv, NoRowYet, Protected, Live, Making
  <2> QED BY <1>1, <1>2, <2>1, Unlinking DEF SInv, FilesInv
<1>3. CASE Goes(s, "undoing", "ended") /\ UNCHANGED diskVars
  <2> USE <1>3 DEF Goes, diskVars
  <2>1. STypeOK'
    BY DEF SInv, STypeOK
  <2>2. FilesInv'
    BY DEF SInv, STypeOK, FilesInv, Untouched, NoRowYet, Overdue, Complete, Making
  <2> QED BY <1>1, <2>1, <2>2, PublishedFrame DEF SInv, FilesInv
<1> QED BY <1>2, <1>3

-----------------------------------------------------------------------------
(* Revocations.                                                            *)

LEMMA RevokeRowOK ==
  ASSUME SInv, NEW s \in Share, RevokeRow(s)
  PROVE  SInv'
<1> USE DEF RevokeRow, diskVars, readerVars, ghostVars
<1>1. STypeOK'
  BY DEF SInv, STypeOK
<1>2. FilesInv'
  BY DEF SInv, STypeOK, FilesInv, Untouched, NoRowYet, Overdue, Complete
<1>3. Claimants'
  BY ClaimantsFrame
<1>4. \A t \in Share : Live(t)' => Live(t)
  BY DEF SInv, STypeOK, Live
<1>5. Deleters'
  BY <1>4 DEF SInv, STypeOK, Deleters, Protected
<1>6. PublishedHasFiles' /\ MetadataOutlivesFiles'
  BY <1>4 DEF SInv, STypeOK, PublishedHasFiles, MetadataOutlivesFiles
<1> QED BY <1>1, <1>2, <1>3, <1>5, <1>6 DEF SInv, FilesInv

LEMMA RevokeFilesOK ==
  ASSUME SInv, NEW s \in Share, RevokeFiles(s)
  PROVE  SInv'
<1> USE DEF RevokeFiles, dbVars, readerVars, ghostVars
<1>1. ~Protected(s) /\ creator[s] \notin Making
  BY DEF SInv, Deleters, NoRowYet, Protected, Live
<1>2. Deleters' /\ Claimants'
  BY DeletersFrame, ClaimantsFrame
<1> QED BY <1>1, <1>2, Unlinking DEF SInv, FilesInv

(* Metadata may be forgotten where the files are gone and nobody reads.    *)
LEMMA Forgetting ==
  ASSUME SInv, NEW s \in Share, FilesGone(s), ~Live(s), meta' = meta \ {s},
         UNCHANGED <<kind, row, expired, claimOver, files, ghostVars>>
  PROVE  PublishedHasFiles' /\ MetadataOutlivesFiles'
BY DEF SInv, PublishedHasFiles, MetadataOutlivesFiles, Live, FilesGone, ghostVars

LEMMA RevokeEndsOK ==
  ASSUME SInv, NEW s \in Share, RevokeEnds(s)
  PROVE  SInv'
<1> USE DEF RevokeEnds, diskVars, readerVars, ghostVars
<1>1. STypeOK'
  BY DEF SInv, STypeOK
<1>2. FilesInv' /\ Claimants'
  BY FilesFrame, ClaimantsFrame DEF diskVars
<1>3. Deleters'
  BY DEF SInv, STypeOK, Deleters, Protected, Live
<1>4. PublishedHasFiles' /\ MetadataOutlivesFiles'
  <2>1. ~Live(s)
    BY DEF SInv, Deleters, Live
  <2> QED BY <2>1, Forgetting, PublishedFrame
<1> QED BY <1>1, <1>2, <1>3, <1>4 DEF SInv, FilesInv

-----------------------------------------------------------------------------
(* The cleanup.                                                            *)

LEMMA CleanupStartsOK ==
  ASSUME SInv, CleanupStarts
  PROVE  SInv'
<1> USE DEF CleanupStarts, Idle, dbVars, diskVars, readerVars, ghostVars
<1>1. STypeOK'
  BY DEF SInv, STypeOK, CleanupIDs
<1>2. FilesInv'
  BY DEF SInv, STypeOK, FilesInv, Untouched, NoRowYet, Overdue, Complete
<1>3. Claimants' /\ PublishedHasFiles' /\ MetadataOutlivesFiles'
  BY ClaimantsFrame, PublishedFrame
<1>4. Deleters'
  BY DEF SInv, STypeOK, Deleters, CleanupIDs, Live
<1> QED BY <1>1, <1>2, <1>3, <1>4 DEF SInv, FilesInv

LEMMA CleanupUnlinksOK ==
  ASSUME SInv, NEW s \in Share, CleanupUnlinks(s)
  PROVE  SInv'
<1> USE DEF CleanupUnlinks, dbVars, readerVars, ghostVars
<1>1. ~Protected(s) /\ creator[s] \notin Making
  BY DEF SInv, Deleters, NoRowYet, Protected
<1>2. Deleters'
  BY DEF SInv, STypeOK, Deleters, Protected, Live
<1>3. Claimants'
  BY ClaimantsFrame
<1> QED BY <1>1, <1>2, <1>3, Unlinking DEF SInv, FilesInv

LEMMA CleanupForgetsOK ==
  ASSUME SInv, NEW s \in Share, CleanupForgets(s)
  PROVE  SInv'
<1> USE DEF CleanupForgets, diskVars, readerVars, ghostVars
<1>1. STypeOK'
  <2>1. cleaner' \in CleanerType
    BY DEF SInv, STypeOK, CleanerType
  <2> QED BY <2>1 DEF SInv, STypeOK, CleanerType
<1>2. FilesInv'
  BY DEF SInv, STypeOK, FilesInv, Untouched, NoRowYet, Overdue, Complete
<1>3. Claimants'
  BY ClaimantsFrame
<1>4. Deleters'
  BY DEF SInv, STypeOK, Deleters, Protected, Live
<1>5. PublishedHasFiles' /\ MetadataOutlivesFiles'
  BY Forgetting DEF SInv, Deleters
<1> QED BY <1>1, <1>2, <1>3, <1>4, <1>5 DEF SInv, FilesInv

(* A share that can be read has its metadata when the cleanup looks.       *)
LEMMA ReadValidIDsOK ==
  ASSUME SInv, ReadValidIDs
  PROVE  SInv'
<1> USE DEF ReadValidIDs, dbVars, diskVars, readerVars, ghostVars
<1>1. /\ cleaner' \in CleanerType
      /\ cleaner'.at = "staging" /\ cleaner'.valid = meta /\ cleaner'.todo = {}
      /\ cleaner'.before = cleaner.before /\ cleaner'.hand = cleaner.hand
  BY DEF SInv, STypeOK, CleanerType
<1>2. STypeOK'
  BY <1>1 DEF SInv, STypeOK, CleanerType
<1>3. FilesInv'
  BY <1>1 DEF SInv, FilesInv, Untouched, NoRowYet, Overdue, Complete
<1>4. Claimants' /\ PublishedHasFiles' /\ MetadataOutlivesFiles'
  BY ClaimantsFrame, PublishedFrame
<1>5. Deleters'
  BY <1>1 DEF SInv, STypeOK, Deleters, Protected, Live, PublishedHasFiles
<1> QED BY <1>2, <1>3, <1>4, <1>5 DEF SInv, FilesInv

(* Removing an orphan of .staging: of one that was old when it was noted   *)
(* down, and so is no creation's that is not overdue.                      *)
LEMMA UnlinkStagedOK ==
  ASSUME SInv, NEW s \in Share, UnlinkOrphan(s), cleaner.at = "staging"
  PROVE  SInv'
<1> USE DEF UnlinkOrphan, dbVars, readerVars, ghostVars
<1>1. /\ cleaner' \in CleanerType
      /\ cleaner'.at = cleaner.at /\ cleaner'.valid = cleaner.valid
      /\ cleaner'.todo = cleaner.todo /\ cleaner'.before = cleaner.before
      /\ cleaner'.hand = s
  BY DEF SInv, STypeOK, CleanerType
<1>2. s \in cleaner.before.stage
  BY NobodyIsFresh DEF SInv, Deleters, Orphans
<1>3. /\ stage' \in [Share -> {"none", "partial", "whole", "torn"}]
      /\ \A t \in Share \ {s} : stage'[t] = stage[t]
      /\ stage[s] # "none"
      /\ oldStage' = oldStage \ {s}
      /\ UNCHANGED <<files, oldFiles>>
  BY DEF SInv, STypeOK, Unlinked
<1>4. STypeOK'
  BY <1>1, <1>3 DEF SInv, STypeOK, CleanerType
<1>5. FilesInv'
  <2>1. UNCHANGED <<creator, row, overdue, uncertain>>
    OBVIOUS
  <2>2. Untouched' /\ NoRowYet'
    BY <1>1, <1>3, <2>1 DEF SInv, STypeOK, Untouched, NoRowYet
  <2>3. Overdue' /\ Complete'
    BY <1>1, <1>2, <1>3, <2>1 DEF SInv, STypeOK, Overdue, Complete, Making
  <2> QED BY <2>2, <2>3 DEF FilesInv
<1>6. Claimants' /\ PublishedHasFiles' /\ MetadataOutlivesFiles'
  BY <1>3, ClaimantsFrame, PublishedFrame
<1>7. Deleters'
  BY <1>1, <1>2 DEF SInv, STypeOK, Deleters, Protected, Live
<1> QED BY <1>4, <1>5, <1>6, <1>7 DEF SInv, FilesInv

(* Removing an orphan of shares: one without metadata, so that it cannot   *)
(* be read, or its creation was overdue.                                   *)
LEMMA UnlinkSharedOK ==
  ASSUME SInv, NEW s \in Share, UnlinkOrphan(s), cleaner.at = "shares"
  PROVE  SInv'
<1> USE DEF UnlinkOrphan, dbVars, readerVars, ghostVars
<1>1. /\ cleaner'.at = cleaner.at /\ cleaner'.valid = cleaner.valid
      /\ cleaner'.todo = cleaner.todo /\ cleaner'.before = cleaner.before
      /\ cleaner'.hand = s
  BY DEF SInv, STypeOK
<1>2. s \in cleaner.before.files /\ s \notin cleaner.valid
  BY NobodyIsFresh DEF SInv, Deleters, Orphans
<1>3. ~Protected(s) /\ (creator[s] \notin Making \/ s \in overdue)
  BY <1>2 DEF SInv, Deleters, Overdue
<1>4. Claimants'
  BY ClaimantsFrame
<1>5. Deleters'
  BY <1>1, <1>2 DEF SInv, STypeOK, Deleters, Protected, Live
<1>6. STypeOK' /\ FilesInv' /\ PublishedHasFiles' /\ MetadataOutlivesFiles'
  BY <1>3, Unlinking
<1> QED BY <1>4, <1>5, <1>6 DEF SInv, FilesInv

(* Going on with the next orphan, or with the other directory, or not.     *)
LEMMA CleanupGoesOnOK ==
  ASSUME SInv, OrphanGone \/ OrphansDone \/ CleanupFails
  PROVE  SInv'
<1> USE DEF OrphanGone, OrphansDone, CleanupFails, dbVars, diskVars, readerVars, ghostVars
<1>1. \/ cleaner' = [cleaner EXCEPT !.hand = NoShare]
      \/ /\ cleaner' = [cleaner EXCEPT !.at = "shares"]
         /\ cleaner.at = "staging" /\ cleaner.hand = NoShare
      \/ cleaner' = Idle
  OBVIOUS
<1>2. /\ cleaner' \in CleanerType
      /\ cleaner'.before \in {cleaner.before, Idle.before}
  BY <1>1 DEF SInv, STypeOK, CleanerType, Idle
<1>3. STypeOK'
  BY <1>2, MaxMishapsIsNat DEF SInv, STypeOK, CleanerType
<1>4. FilesInv'
  BY <1>2 DEF SInv, FilesInv, Untouched, NoRowYet, Overdue, Complete, Idle
<1>5. Claimants' /\ PublishedHasFiles' /\ MetadataOutlivesFiles'
  BY ClaimantsFrame, PublishedFrame
<1>6. Deleters'
  <2>1. CASE cleaner' = [cleaner EXCEPT !.hand = NoShare]
    BY <2>1 DEF SInv, STypeOK, Deleters, Protected, Live
  <2>2. CASE cleaner' = [cleaner EXCEPT !.at = "shares"] /\ cleaner.at = "staging"
                                                        /\ cleaner.hand = NoShare
    BY <2>2 DEF SInv, STypeOK, Deleters, Protected, Live
  <2>3. CASE cleaner' = Idle
    BY <2>3 DEF SInv, STypeOK, Deleters, Idle
  <2> QED BY <1>1, <2>1, <2>2, <2>3
<1> QED BY <1>3, <1>4, <1>5, <1>6 DEF SInv, FilesInv

LEMMA CleanupSkipsOK ==
  ASSUME SInv, NEW s \in Share, CleanupSkips(s)
  PROVE  SInv'
<1> USE DEF CleanupSkips, dbVars, diskVars, readerVars, ghostVars
<1>1. /\ cleaner' \in CleanerType
      /\ cleaner'.at = cleaner.at /\ cleaner'.before = cleaner.before
      /\ cleaner'.todo \subseteq cleaner.todo /\ cleaner'.hand = NoShare
  BY DEF SInv, STypeOK, CleanerType
<1>2. STypeOK'
  BY <1>1, MaxMishapsIsNat DEF SInv, STypeOK, CleanerType
<1>3. FilesInv'
  BY <1>1 DEF SInv, FilesInv, Untouched, NoRowYet, Overdue, Complete
<1>4. Claimants' /\ PublishedHasFiles' /\ MetadataOutlivesFiles'
  BY ClaimantsFrame, PublishedFrame
<1>5. Deleters'
  BY <1>1 DEF SInv, STypeOK, Deleters, Live
<1> QED BY <1>2, <1>3, <1>4, <1>5 DEF SInv, FilesInv

-----------------------------------------------------------------------------
(* Time, and the end of the process.                                       *)

(* What cannot be read stays so. *)
LEMMA ExpiresOK ==
  ASSUME SInv, NEW s \in Share, Expire(s) \/ ClaimEnds(s)
  PROVE  SInv'
<1> USE DEF Expire, ClaimEnds, diskVars, readerVars, ghostVars
<1>1. STypeOK'
  BY DEF SInv, STypeOK
<1>2. FilesInv' /\ Claimants'
  BY FilesFrame, ClaimantsFrame DEF diskVars
<1>3. \A t \in Share : Live(t)' => Live(t)
  BY DEF Live
<1>4. Deleters'
  BY <1>3 DEF SInv, STypeOK, Deleters, Protected
<1>5. PublishedHasFiles' /\ MetadataOutlivesFiles'
  BY <1>3 DEF SInv, PublishedHasFiles, MetadataOutlivesFiles
<1> QED BY <1>1, <1>2, <1>4, <1>5 DEF SInv, FilesInv

(* A directory of a creation under way that grows old makes it overdue.    *)
LEMMA GrowsOldOK ==
  ASSUME SInv, NEW s \in Share, GrowsOld(s)
  PROVE  SInv'
<1> USE DEF GrowsOld, dbVars, readerVars
<1>1. STypeOK'
  BY DEF SInv, STypeOK
<1>2. overdue \subseteq overdue'
  OBVIOUS
<1>3. FilesInv'
  BY <1>2 DEF SInv, STypeOK, FilesInv, Untouched, NoRowYet, Overdue, Complete, Making
<1>4. Claimants'
  BY ClaimantsFrame
<1>5. Deleters'
  BY <1>2 DEF SInv, Deleters, Protected, Live
<1>6. PublishedHasFiles' /\ MetadataOutlivesFiles'
  BY <1>2 DEF SInv, PublishedHasFiles, MetadataOutlivesFiles, Live
<1> QED BY <1>1, <1>3, <1>4, <1>5, <1>6 DEF SInv, FilesInv

LEMMA CrashOK ==
  ASSUME SInv, Crash
  PROVE  SInv'
<1> USE DEF Crash, dbVars, diskVars, ghostVars
<1>1. STypeOK'
  BY MaxMishapsIsNat DEF SInv, STypeOK, Idle, Away
<1>2. FilesInv'
  BY DEF SInv, STypeOK, FilesInv, Untouched, NoRowYet, Overdue, Complete, Making, Idle
<1>3. Claimants'
  BY DEF SInv, Claimants, Away
<1>4. Deleters'
  BY DEF SInv, Deleters, Idle
<1>5. PublishedHasFiles' /\ MetadataOutlivesFiles'
  BY PublishedFrame
<1> QED BY <1>1, <1>2, <1>3, <1>4, <1>5 DEF SInv, FilesInv

-----------------------------------------------------------------------------
(* Readers.                                                                *)

LEMMA ReadingOK ==
  ASSUME SInv, NEW b \in Browser, Reading(b)
  PROVE  SInv'
<1> USE DEF Asks, Leaves, Away
<1>1. FilesInv' /\ Deleters' /\ PublishedHasFiles' /\ MetadataOutlivesFiles'
  <2>1. UNCHANGED <<kind, row, meta, expired, claimOver, diskVars, creator, revoker,
                    cleaner, ghostVars>>
    BY DEF Reading, ClaimShare, AnswerClaim, AccessPage, OpenAttachment, PeekPage,
           ReadAttachment, dbVars
  <2> QED BY <2>1, FilesFrame, DeletersFrame, PublishedFrame DEF diskVars
<1>2. ASSUME NEW s \in Share, PeekPage(b, s) \/ ReadAttachment(b, s)
      PROVE STypeOK' /\ Claimants'
  <2>1. \E req \in RequestType :
          /\ request' = [request EXCEPT ![b] = req]
          /\ req.share = s /\ req.at # "claimed"
          /\ req.at = "opening" /\ kind[s] = "once" => claim[s] = b
    <3> DEFINE req(at) == [at |-> at, share |-> s, cookie |-> <<b, s>> \in holds,
                           late |-> s \in claimOver]
    <3>1. req("peeked") \in RequestType /\ req("opening") \in RequestType
      BY DEF RequestType
    <3>2. CASE PeekPage(b, s)
      <4>1. request' = [request EXCEPT ![b] = req("peeked")]
        BY <3>2 DEF PeekPage
      <4> QED BY <3>1, <4>1
    <3>3. CASE ReadAttachment(b, s)
      <4>1. request' = [request EXCEPT ![b] = req("opening")]
        BY <3>3 DEF ReadAttachment
      <4>2. kind[s] = "once" => claim[s] = b
        BY <3>3 DEF ReadAttachment
      <4> QED BY <3>1, <4>1, <4>2
    <3> QED BY <1>2, <3>2, <3>3
  <2>2. UNCHANGED <<dbVars, diskVars, creator, revoker, cleaner, holds, served, ghostVars, mishaps>>
    BY <1>2 DEF PeekPage, ReadAttachment
  <2>3. PICK req \in RequestType :
          /\ request' = [request EXCEPT ![b] = req]
          /\ req.share = s /\ req.at # "claimed"
          /\ req.at = "opening" /\ kind[s] = "once" => claim[s] = b
    BY <2>1
  <2>4. STypeOK'
    BY <2>2, <2>3 DEF SInv, STypeOK, RequestType, dbVars, diskVars, ghostVars
  <2>5. Claimants'
    BY <2>2, <2>3 DEF SInv, STypeOK, Claimants, dbVars
  <2> QED BY <2>4, <2>5
<1>3. CASE ClaimShare(b)
  <2> DEFINE s == request[b].share
  <2>1. /\ s \in Share /\ row[s] = "live" /\ claim[s] = NoBrowser
        /\ claim' = [claim EXCEPT ![s] = b]
    BY <1>3 DEF SInv, Claimants, ClaimShare, Unclaimed
  <2>2. \E req \in RequestType :
          /\ request' = [request EXCEPT ![b] = req]
          /\ req.at \in {"away", "claimed"}
          /\ req.at = "claimed" => req.share = s
    <3>1. Away \in RequestType
      BY DEF RequestType
    <3>2. [request[b] EXCEPT !.at = "claimed"] \in RequestType
      BY DEF SInv, STypeOK, RequestType
    <3> QED BY <1>3, <3>1, <3>2 DEF ClaimShare, SInv, STypeOK, RequestType
  <2>3. UNCHANGED <<kind, row, meta, expired, claimOver, diskVars, creator, revoker,
                    cleaner, holds, served, ghostVars, mishaps>>
    BY <1>3 DEF ClaimShare
  <2> HIDE DEF s
  <2>4. PICK req \in RequestType :
          /\ request' = [request EXCEPT ![b] = req]
          /\ req.at \in {"away", "claimed"}
          /\ req.at = "claimed" => req.share = s
    BY <2>2
  <2>5. STypeOK'
    BY <2>1, <2>3, <2>4 DEF SInv, STypeOK, RequestType, diskVars, ghostVars
  <2>6. /\ \A c \in Browser \ {b} : request'[c] = request[c]
        /\ request'[b] = req
        /\ \A t \in Share : claim[t] # NoBrowser => claim'[t] = claim[t]
        /\ claim'[s] = b
    BY <2>1, <2>4 DEF SInv, STypeOK
  <2>7. ASSUME NEW c \in Browser
        PROVE  /\ request'[c].at # "away" => request'[c].share \in Share
               /\ request'[c].at = "claimed" => claim'[request'[c].share] = c
               /\ request'[c].at = "opening" /\ kind[request'[c].share] = "once"
                    => claim'[request'[c].share] = c
    <3>1. CASE c = b
      BY <2>1, <2>4, <2>6, <3>1
    <3>2. CASE c # b
      BY <2>6, <3>2, NobodyIsFresh DEF SInv, Claimants
    <3> QED BY <3>1, <3>2
  <2>8. ASSUME NEW c \in Browser, NEW x \in Share, <<c, x>> \in served'
        PROVE  claim'[x] = c
    BY <2>3, <2>6, <2>8, NobodyIsFresh DEF SInv, Claimants
  <2>9. Claimants'
    BY <2>3, <2>7, <2>8 DEF Claimants
  <2> QED BY <1>1, <2>5, <2>9 DEF SInv, FilesInv
<1>4. CASE AnswerClaim(b) \/ AccessPage(b) \/ OpenAttachment(b)
  <2> DEFINE s == request[b].share
  <2>1. s \in Share
    BY <1>4 DEF SInv, Claimants, AnswerClaim, AccessPage, OpenAttachment
  <2>2. /\ UNCHANGED <<kind, claim>>
        /\ request' = [request EXCEPT ![b] = Away]
        /\ holds' \subseteq holds \cup {<<b, s>>}
        /\ served' \subseteq served \cup {<<b, s>>}
        /\ served' # served => claim[s] = b
    BY <1>4 DEF SInv, Claimants, AnswerClaim, AccessPage, OpenAttachment, Shown,
                Claimant, dbVars
  <2> HIDE DEF s
  <2>3. STypeOK'
    BY <1>4, <2>1, <2>2 DEF SInv, STypeOK, AnswerClaim, AccessPage, OpenAttachment,
                            dbVars, diskVars, ghostVars
  <2>4. Claimants'
    <3>1. \A c \in Browser : request'[c] = IF c = b THEN Away ELSE request[c]
      BY <2>2 DEF SInv, STypeOK
    <3>2. \A c \in Browser, x \in Share :
            <<c, x>> \in served' => <<c, x>> \in served \/ claim[x] = c
      BY <2>1, <2>2
    <3>3. UNCHANGED <<kind, claim>>
      BY <2>2
    <3>4. \A c \in Browser :
            /\ request'[c].at # "away" => request'[c].share \in Share
            /\ request'[c].at = "claimed" => claim'[request'[c].share] = c
            /\ request'[c].at = "opening" /\ kind'[request'[c].share] = "once"
                 => claim'[request'[c].share] = c
      BY <3>1, <3>3 DEF SInv, Claimants
    <3>5. \A c \in Browser, x \in Share : <<c, x>> \in served' => claim'[x] = c
      BY <3>2, <3>3 DEF SInv, Claimants
    <3> QED BY <3>4, <3>5 DEF Claimants
  <2> QED BY <1>1, <2>3, <2>4 DEF SInv, FilesInv
<1> QED BY <1>1, <1>2, <1>3, <1>4 DEF Reading, SInv, FilesInv

-----------------------------------------------------------------------------
LEMMA StartOK == SInit => SInv
<1> SUFFICES ASSUME SInit PROVE SInv
  OBVIOUS
<1> USE DEF SInit
<1>1. STypeOK
  <2>1. Idle \in CleanerType /\ Away \in RequestType
    BY DEF Idle, Away, CleanerType, RequestType
  <2> QED BY <2>1, MaxMishapsIsNat DEF STypeOK, CleanerType, RequestType
<1>2. FilesInv
  BY DEF FilesInv, Untouched, NoRowYet, Overdue, Complete, Idle, Making
<1>3. Deleters /\ Claimants
  BY DEF Deleters, Claimants, Idle, Away
<1>4. PublishedHasFiles /\ MetadataOutlivesFiles
  BY DEF PublishedHasFiles, MetadataOutlivesFiles, Live
<1> QED BY <1>1, <1>2, <1>3, <1>4 DEF SInv, FilesInv

LEMMA StepOK == SInv /\ [SNext]_svars => SInv'
<1> SUFFICES ASSUME SInv, [SNext]_svars PROVE SInv'
  OBVIOUS
<1>1. ASSUME NEW s \in Share, Creation(s) PROVE SInv'
  BY <1>1, BeginOK, UploadOK, CommitOK, AbortOK, InsertOK, UndoOK DEF Creation
<1>2. ASSUME NEW s \in Share, Revocation(s) PROVE SInv'
  BY <1>2, RevokeRowOK, RevokeFilesOK, RevokeEndsOK DEF Revocation
<1>3. ASSUME NEW s \in Share, CleanupSkips(s) PROVE SInv'
  BY <1>3, CleanupSkipsOK
<1>4. ASSUME NEW s \in Share, Expire(s) \/ ClaimEnds(s) \/ GrowsOld(s) PROVE SInv'
  BY <1>4, ExpiresOK, GrowsOldOK
<1>5. ASSUME NEW b \in Browser, Reading(b) PROVE SInv'
  BY <1>5, ReadingOK
<1>6. CASE CleanupProgress
  <2>1. ASSUME NEW s \in Share, UnlinkOrphan(s) PROVE SInv'
    <3>1. cleaner.at \in {"staging", "shares"}
      BY <2>1 DEF UnlinkOrphan
    <3> QED BY <2>1, <3>1, UnlinkStagedOK, UnlinkSharedOK
  <2>2. CASE CleanupStarts \/ ReadValidIDs
    BY <2>2, CleanupStartsOK, ReadValidIDsOK
  <2>3. CASE OrphanGone \/ OrphansDone
    BY <2>3, CleanupGoesOnOK
  <2>4. ASSUME NEW s \in Share, CleanupUnlinks(s) \/ CleanupForgets(s) PROVE SInv'
    BY <2>4, CleanupUnlinksOK, CleanupForgetsOK
  <2> QED BY <1>6, <2>1, <2>2, <2>3, <2>4 DEF CleanupProgress
<1>7. CASE CleanupFails
  BY <1>7, CleanupGoesOnOK
<1>8. CASE Crash
  BY <1>8, CrashOK
<1>9. CASE UNCHANGED svars
  <2> USE <1>9 DEF svars, dbVars, diskVars, readerVars, ghostVars
  <2>1. STypeOK'
    BY DEF SInv, STypeOK
  <2>2. FilesInv' /\ Deleters' /\ Claimants' /\ PublishedHasFiles' /\ MetadataOutlivesFiles'
    BY FilesFrame, DeletersFrame, ClaimantsFrame, PublishedFrame
  <2> QED BY <2>1, <2>2 DEF SInv, FilesInv
<1> QED BY <1>1, <1>2, <1>3, <1>4, <1>5, <1>6, <1>7, <1>8, <1>9 DEF SNext

LEMMA Inductive == SSpec => []SInv
BY StartOK, StepOK, PTL DEF SSpec

(* The tables, directories and positions keep their types. *)
THEOREM SharesTypeCorrect == SSpec => []STypeOK
<1>1. SInv => STypeOK
  BY DEF SInv
<1> QED BY <1>1, Inductive, PTL

(* Whatever the cleanup, other handlers and crashes do, a share that can   *)
(* be read has its metadata and all its files, unless its insert was       *)
(* reported as failed or its creation took an hour.                        *)
THEOREM SharesAreComplete == SSpec => []PublishedHasFiles
<1>1. SInv => PublishedHasFiles
  BY DEF SInv
<1> QED BY <1>1, Inductive, PTL

(* No metadata is forgotten while files are left that it leads to. *)
THEOREM FilesGoFirst == SSpec => []MetadataOutlivesFiles
<1>1. SInv => MetadataOutlivesFiles
  BY DEF SInv
<1> QED BY <1>1, Inductive, PTL

(* Of any number of browsers, one at most is ever shown a single-use share. *)
THEOREM OneReader == SSpec => []SingleReader
<1>1. SInv => SingleReader
  <2> SUFFICES ASSUME SInv, NEW s \in Share
               PROVE  Cardinality({b \in Browser : <<b, s>> \in served}) <= 1
    BY DEF SingleReader
  <2>1. {b \in Browser : <<b, s>> \in served} \subseteq {claim[s]}
    BY DEF SInv, Claimants
  <2>2. IsFiniteSet({claim[s]}) /\ Cardinality({claim[s]}) = 1
    BY FS_Singleton
  <2>3. Cardinality({b \in Browser : <<b, s>> \in served}) <= Cardinality({claim[s]})
    BY <2>1, <2>2, FS_Subset
  <2> QED BY <2>2, <2>3
<1> QED BY <1>1, Inductive, PTL

=============================================================================

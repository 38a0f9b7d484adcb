----------------------------- MODULE UploadStore -----------------------------
(***************************************************************************)
(* A row of the uploads table and the operations every session applies to  *)
(* it.  The database is PostgreSQL at READ COMMITTED: a session reads      *)
(* committed rows, an UPDATE takes the row lock until the transaction      *)
(* ends, and the ORM writes only the columns whose value it changed.       *)
(***************************************************************************)
EXTENDS Naturals

CONSTANTS
  Uploads,      \* videos that have, or may get, an upload row (video_id is unique)
  MaxRetries,   \* Upload.max_retries
  MaxCopies,    \* bound: YouTube videos ever created for one upload
  MaxRows       \* bound: rows inserted for one video over time

ASSUME StoreAssumption ==
  /\ Uploads # {}
  /\ MaxRetries \in Nat
  /\ MaxCopies \in Nat \ {0}
  /\ MaxRows \in Nat \ {0}

UploadStatus == {"pending", "uploading", "published", "failed", "scheduled"}
PublishStatus == {"draft", "approved", "scheduled", "rejected"}

\* id 0: there is no row.  yt 0: youtube_video_id is NULL.
Row == [id : 0..MaxRows, publish : PublishStatus, status : UploadStatus,
        yt : 0..MaxCopies, retries : 0..MaxRetries]

NoRow == [id |-> 0, publish |-> "draft", status |-> "pending",
          yt |-> 0, retries |-> 0]

NewRow(id, publish, status) ==
  [NoRow EXCEPT !.id = id, !.publish = publish, !.status = status]

\* UploadRepository.get_due_for_publish, but for the time comparison.
IsDue(r) ==
  /\ r.id # 0
  /\ r.publish = "scheduled"
  /\ r.yt = 0
  /\ r.status \notin {"published", "uploading", "failed"}

\* Faulty variant: every column is written, the last writer wins.
FlushedAll(db, m, n) == n

\* BaseRepository.update: setattr on the loaded object m gives n; the flush
\* emits the changed columns only and the refresh reads the others from db.
Flushed(db, m, n) ==
  [id |-> db.id,
   publish |-> IF n.publish # m.publish THEN n.publish ELSE db.publish,
   status |-> IF n.status # m.status THEN n.status ELSE db.status,
   yt |-> IF n.yt # m.yt THEN n.yt ELSE db.yt,
   retries |-> IF n.retries # m.retries THEN n.retries ELSE db.retries]

\* PublishingService._LEGAL_TRANSITIONS.
LegalTransition(from, to) ==
  to \in CASE from = "draft" -> {"approved"}
           [] from = "approved" -> {"scheduled", "rejected"}
           [] from = "scheduled" -> {"rejected"}
           [] from = "rejected" -> {}
=============================================================================

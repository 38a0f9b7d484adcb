------------------------ MODULE PublishSchedulerProofs ------------------------
(***************************************************************************)
(* Invariants of the publish scheduler, for any number of uploads, ticks,  *)
(* upload requests, operators and failures, and its refinement of          *)
(* UploadLifecycle for one of each.                                        *)
(***************************************************************************)
EXTENDS PublishScheduler, TLAPS

\* A retry is only scheduled while the listed retry_count is below the limit.
RetryBelowLimit ==
  \A t \in Ticks : pc[t] = "retry" => listed[t][cur[t]].retries < MaxRetries

TypeInv == TypeOK /\ RetryBelowLimit

\* A row lock belongs to a session inside run_upload_for_video for that upload,
\* and a session that talks to YouTube, or is about to commit, holds the lock.
LockInv ==
  /\ \A u \in Uploads : lock[u] # NoOne =>
       lock[u] \in Publishers /\ cur[lock[u]] = u /\ pc[lock[u]] \in UploadPcs
  /\ \A s \in Publishers : pc[s] \in {"sending", "commit"} => lock[cur[s]] = s

\* By the time of the commit UPLOADING has been overwritten.
StatusInv ==
  /\ UploadingNeverCommitted
  /\ \A s \in Publishers : pc[s] = "commit" => mem[s].status # "uploading"

\* Whoever believes an upload is on YouTube, row or loaded object, is right.
Knows(r) == r.yt # 0 \/ r.status = "published"
AcceptedInv ==
  /\ \A u \in Uploads : Knows(row[u]) => created[u] > 0
  /\ \A s \in Sessions : Knows(mem[s]) => created[cur[s]] > 0
  /\ \A t \in Ticks :
       pc[t] \in {"idle", "next", "fetch", "retry", "giveup", "aborted"} => mem[t] = NoRow
  /\ \A t \in Ticks : pc[t] = "guard" => Knows(mem[t])

\* The holder of a row lock has the committed decision in its object.
DecisionInv ==
  \A u \in Uploads : lock[u] # NoOne /\ row[u].id # 0 =>
    mem[lock[u]].publish = row[u].publish

-----------------------------------------------------------------------------
\* The row operations stay within the type of a row.

\* The placeholder for a missing row has the type of a row.
LEMMA NoRowType == NoRow \in Row
BY StoreAssumption DEF NoRow, Row, PublishStatus, UploadStatus

\* So has every row the pipeline or trigger_upload inserts.
LEMMA NewRowType ==
  ASSUME NEW id \in 0..MaxRows, NEW p \in PublishStatus, NEW st \in UploadStatus
  PROVE  NewRow(id, p, st) \in Row
BY NoRowType DEF NewRow, Row

\* Merging the changed columns of two rows (BaseRepository.update) gives a row.
LEMMA FlushedType ==
  ASSUME NEW d \in Row, NEW m \in Row, NEW n \in Row
  PROVE  Flushed(d, m, n) \in Row
BY DEF Flushed, Row

\* mark_uploading, mark_failed and the guard's promotion write a legal status.
LEMMA StatusType ==
  ASSUME NEW r \in Row, NEW st \in UploadStatus
  PROVE  [r EXCEPT !.status = st] \in Row
BY DEF Row

\* The retry handler adds one to a counter below the limit: it stays within it.
LEMMA RetriesType ==
  ASSUME NEW r \in Row, NEW n \in Nat, n < MaxRetries
  PROVE  [r EXCEPT !.retries = n + 1] \in Row
BY StoreAssumption DEF Row

\* mark_published writes a status and the id of a video.
LEMMA PublishedType ==
  ASSUME NEW r \in Row, NEW id \in 0..MaxCopies
  PROVE  [r EXCEPT !.status = "published", !.yt = id] \in Row
BY DEF Row, UploadStatus

\* trigger_upload resets both.
LEMMA ResetType ==
  ASSUME NEW r \in Row
  PROVE  [r EXCEPT !.status = "pending", !.yt = 0] \in Row
<1>1. 0 \in 0..MaxCopies
  BY StoreAssumption
<1>. QED  BY <1>1 DEF Row, UploadStatus

\* The publishing API writes legal decisions.
LEMMA EditedType ==
  ASSUME NEW r \in Row, NEW k \in Requests
  PROVE  Edited(r, k) \in Row
BY DEF Edited, Row, Requests, PublishStatus, UploadStatus

\* How the kinds of sessions are nested.
LEMMA SessionKinds ==
  /\ Ticks \subseteq Publishers /\ Triggers \subseteq Publishers
  /\ Publishers \subseteq Sessions /\ Editors \subseteq Sessions
BY DEF Publishers, Sessions

-----------------------------------------------------------------------------
\* There is nothing yet: no row, no object, no lock.
LEMMA TypeInit == Init => TypeInv
<1> SUFFICES ASSUME Init PROVE TypeInv
  OBVIOUS
<1>1. (CHOOSE u \in Uploads : TRUE) \in Uploads
  BY StoreAssumption
<1>2. cur \in [Sessions -> Uploads]
  BY <1>1 DEF Init
<1>3. /\ row \in [Uploads -> Row]
      /\ mem \in [Sessions -> Row]
      /\ listed \in [Ticks -> [Uploads -> Row]]
  BY NoRowType DEF Init
<1>4. /\ lastId \in [Uploads -> 0..MaxRows]
      /\ created \in [Uploads -> 0..MaxCopies]
      /\ sends \in [Uploads -> Nat]
      /\ faults \in 0..MaxFaults
  BY StoreAssumption, SessionAssumption DEF Init
<1>5. /\ lock \in [Uploads -> Publishers \union {NoOne}]
      /\ due \subseteq Uploads
      /\ pc \in [Sessions -> TickPcs \union TriggerPcs \union UploadPcs \union EditorPcs]
      /\ queue \in [Ticks -> SUBSET Uploads]
      /\ live \in [Uploads -> SUBSET (1..MaxCopies)]
  BY DEF Init, TickPcs
<1>6. RetryBelowLimit
  BY SessionKinds DEF Init, RetryBelowLimit
<1>. QED  BY <1>2, <1>3, <1>4, <1>5, <1>6 DEF TypeInv, TypeOK
\* What the failure handlers' short sessions may do to the rows.
LEMMA WriteOrLogType ==
  ASSUME TypeOK, NEW t \in Ticks, NEW new \in Row, WriteOrLog(t, new)
  PROVE  row' \in [Uploads -> Row] /\ faults' \in 0..MaxFaults
BY SessionAssumption, SessionKinds DEF WriteOrLog, Fault, NoFault, TypeOK

\* ... and such a session touches the row of its own upload only.
LEMMA WriteOrLogEffect ==
  ASSUME TypeOK, NEW t \in Ticks, NEW new, WriteOrLog(t, new), NEW u \in Uploads
  PROVE  row'[u] = row[u] \/ (u = cur[t] /\ row'[u] = new)
BY DEF WriteOrLog, TypeOK

\* A new video on YouTube.
LEMMA AcceptsType ==
  ASSUME TypeOK, NEW u \in Uploads, YouTubeAccepts(u)
  PROVE  /\ created[u] + 1 \in 0..MaxCopies
         /\ created' \in [Uploads -> 0..MaxCopies]
         /\ live' \in [Uploads -> SUBSET (1..MaxCopies)]
<1>1. created[u] \in Nat /\ created[u] + 1 \in 1..MaxCopies
  BY StoreAssumption DEF YouTubeAccepts, TypeOK
<1>2. created[u] + 1 \in 0..MaxCopies
  BY <1>1, StoreAssumption
<1>3. created' \in [Uploads -> 0..MaxCopies]
  BY <1>2 DEF YouTubeAccepts, TypeOK
<1>4. live' \in [Uploads -> SUBSET (1..MaxCopies)]
  BY <1>1 DEF YouTubeAccepts, TypeOK
<1>. QED  BY <1>2, <1>3, <1>4

\* A publisher's flush.
LEMMA FlushType ==
  ASSUME TypeOK, NEW s \in Publishers, NEW new \in Row, Flush(s, new)
  PROVE  /\ mem' \in [Sessions -> Row]
         /\ lock' \in [Uploads -> Publishers \union {NoOne}]
<1>1. Visible(s) \in Row /\ mem[s] \in Row
  BY SessionKinds DEF Visible, TypeOK
<1>2. Flushed(Visible(s), mem[s], new) \in Row
  BY <1>1, FlushedType
<1>. QED  BY <1>2, SessionKinds DEF Flush, TypeOK

-----------------------------------------------------------------------------
\* Every handler, in any order with the others, keeps the types and the retry limit.
LEMMA TypeStep == TypeInv /\ [Next]_vars => TypeInv'
<1> SUFFICES ASSUME TypeInv, [Next]_vars PROVE TypeInv'
  OBVIOUS
<1> USE SessionKinds DEF TypeInv, RetryBelowLimit
<1>1. ASSUME NEW u \in Uploads, PipelineCreates(u) PROVE TypeInv'
  <2>1. NewRow(1, IF AutoPublish THEN "scheduled" ELSE "draft", "scheduled") \in Row
    BY StoreAssumption, SessionAssumption, NewRowType DEF PublishStatus, UploadStatus
  <2>. QED
    BY <1>1, <2>1, StoreAssumption DEF PipelineCreates, TypeOK, youtube
<1>2. ASSUME NEW u \in Uploads, TimePasses(u) PROVE TypeInv'
  BY <1>2 DEF TimePasses, TypeOK, youtube
<1>3. ASSUME NEW t \in Ticks, TickList(t) PROVE TypeInv'
  BY <1>3 DEF TickList, TypeOK, Goto, youtube, db, TickPcs
<1>4. ASSUME NEW t \in Ticks, TickTake(t) PROVE TypeInv'
  BY <1>4 DEF TickTake, TypeOK, Goto, youtube, db, TickPcs
<1>5. ASSUME NEW t \in Ticks, TickEnd(t) PROVE TypeInv'
  BY <1>5, NoRowType DEF TickEnd, TypeOK, Goto, youtube, db, TickPcs
<1>6. ASSUME NEW t \in Ticks, TickFetch(t) PROVE TypeInv'
  <2>1. \E p \in {"guard", "next", "prepare"}, r \in Row :
          Goto(t, p) /\ mem' = [mem EXCEPT ![t] = r]
    BY <1>6, NoRowType DEF TickFetch, AfterGuards, Close, TypeOK
  <2>2. UNCHANGED <<row, lastId, lock, due, cur, queue, listed, created, live, sends, faults>>
    BY <1>6 DEF TickFetch, db, youtube
  <2>. QED
    BY <2>1, <2>2 DEF TypeOK, Goto, TickPcs, UploadPcs
<1>7. ASSUME NEW t \in Ticks, TickFetchFails(t) PROVE TypeInv'
  <2>1. Goto(t, "giveup") \/ (Goto(t, "retry") /\ listed[t][cur[t]].retries < MaxRetries)
    BY <1>7 DEF TickFetchFails
  <2>2. UNCHANGED <<row, lastId, lock, due, cur, mem, queue, listed, created, live, sends>>
    BY <1>7 DEF TickFetchFails, db, youtube
  <2>3. faults' \in 0..MaxFaults
    BY <1>7, SessionAssumption DEF TickFetchFails, Fault, TypeOK
  <2>. QED
    BY <2>1, <2>2, <2>3 DEF TypeOK, Goto, TickPcs
<1>8. ASSUME NEW t \in Ticks, TickRetry(t) PROVE TypeInv'
  <2>1. listed[t][cur[t]] \in Row /\ row[cur[t]] \in Row
    BY DEF TypeOK
  <2>2. listed[t][cur[t]].retries \in Nat /\ listed[t][cur[t]].retries < MaxRetries
    BY <1>8, <2>1, StoreAssumption DEF TickRetry, Row
  <2>3. [row[cur[t]] EXCEPT !.retries = listed[t][cur[t]].retries + 1] \in Row
    BY <2>1, <2>2, RetriesType
  <2>4. row' \in [Uploads -> Row] /\ faults' \in 0..MaxFaults
    BY <1>8, <2>3, WriteOrLogType DEF TickRetry
  <2>. QED
    BY <1>8, <2>4 DEF TickRetry, TypeOK, Goto, youtube, TickPcs
<1>9. ASSUME NEW t \in Ticks, TickGiveUp(t) PROVE TypeInv'
  <2>1. [row[cur[t]] EXCEPT !.status = "failed"] \in Row
    BY StatusType DEF TypeOK, UploadStatus
  <2>2. row' \in [Uploads -> Row] /\ faults' \in 0..MaxFaults
    BY <1>9, <2>1, WriteOrLogType DEF TickGiveUp
  <2>. QED
    BY <1>9, <2>2 DEF TickGiveUp, TypeOK, Goto, youtube, TickPcs
<1>10. ASSUME NEW t \in Ticks, TickGuard(t) PROVE TypeInv'
  BY <1>10, NoRowType, FlushedType, StatusType DEF TickGuard, TypeOK, Close, Goto, youtube, db, TickPcs, UploadStatus
<1>11. ASSUME NEW t \in Ticks, TickRecover(t) PROVE TypeInv'
  BY <1>11, NoRowType DEF TickRecover, TypeOK, Goto, youtube, db, TickPcs
<1>12. ASSUME NEW s \in Publishers, Prepare(s) PROVE TypeInv'
  <2>1. \E p \in UploadPcs : Goto(s, p)
    BY <1>12 DEF Prepare, UploadPcs
  <2>2. \A t \in Ticks : pc'[t] = "retry" => pc[t] = "retry"
    BY <1>12 DEF Prepare, Goto, TypeOK
  <2>3. faults' \in 0..MaxFaults
    BY <1>12, SessionAssumption DEF Prepare, Fault, NoFault, TypeOK
  <2>4. UNCHANGED <<row, lastId, lock, due, cur, mem, queue, listed, created, live, sends>>
    BY <1>12 DEF Prepare, db, youtube
  <2>. QED
    BY <2>1, <2>2, <2>3, <2>4 DEF TypeOK, Goto
<1>13. ASSUME NEW s \in Publishers, Raises(s) PROVE TypeInv'
  BY <1>13, NoRowType, SessionAssumption DEF Raises, Abort, Fault, TypeOK, Close, Goto, youtube, TickPcs
<1>14. ASSUME NEW s \in Publishers, MarkUploading(s) PROVE TypeInv'
  <2>1. [mem[s] EXCEPT !.status = "uploading"] \in Row
    BY StatusType DEF TypeOK, UploadStatus
  <2>2. mem' \in [Sessions -> Row] /\ lock' \in [Uploads -> Publishers \union {NoOne}]
    BY <1>14, <2>1, FlushType DEF MarkUploading
  <2>3. sends' \in [Uploads -> Nat]
    BY <1>14 DEF MarkUploading, TypeOK
  <2>. QED
    BY <1>14, <2>2, <2>3 DEF MarkUploading, TypeOK, Goto, youtube, UploadPcs
<1>15. ASSUME NEW s \in Publishers, MarkFailed(s) PROVE TypeInv'
  <2>1. [mem[s] EXCEPT !.status = "failed"] \in Row
    BY StatusType DEF TypeOK, UploadStatus
  <2>2. mem' \in [Sessions -> Row] /\ lock' \in [Uploads -> Publishers \union {NoOne}]
    BY <1>15, <2>1, FlushType DEF MarkFailed
  <2>. QED
    BY <1>15, <2>2 DEF MarkFailed, TypeOK, Goto, youtube, UploadPcs
<1>16. ASSUME NEW s \in Publishers, Answered(s) PROVE TypeInv'
  <2>1. /\ created[cur[s]] + 1 \in 0..MaxCopies
        /\ created' \in [Uploads -> 0..MaxCopies]
        /\ live' \in [Uploads -> SUBSET (1..MaxCopies)]
    BY <1>16, AcceptsType DEF Answered, TypeOK
  <2>2. PublishedMem(s, created[cur[s]] + 1) \in Row
    BY <2>1, PublishedType DEF PublishedMem, TypeOK
  <2>. QED
    BY <1>16, <2>1, <2>2
    DEF Answered, NoFault, TypeOK, Goto, db, UploadPcs
<1>17. ASSUME NEW s \in Publishers, Refused(s) PROVE TypeInv'
  <2>1. FailedMem(s) \in Row
    BY StatusType DEF FailedMem, TypeOK, UploadStatus
  <2>2. /\ created' \in [Uploads -> 0..MaxCopies]
        /\ live' \in [Uploads -> SUBSET (1..MaxCopies)]
        /\ faults' \in 0..MaxFaults
    BY <1>17, AcceptsType, SessionAssumption DEF Refused, Fault, youtube, TypeOK
  <2>. QED
    BY <1>17, <2>1, <2>2 DEF Refused, TypeOK, Goto, db, UploadPcs
<1>18. ASSUME NEW s \in Publishers, TimedOut(s) PROVE TypeInv'
  <2>1. FailedMem(s) \in Row
    BY StatusType DEF FailedMem, TypeOK, UploadStatus
  <2>2. /\ created' \in [Uploads -> 0..MaxCopies]
        /\ live' \in [Uploads -> SUBSET (1..MaxCopies)]
        /\ faults' \in 0..MaxFaults
    BY <1>18, AcceptsType, SessionAssumption DEF TimedOut, Fault, youtube, TypeOK
  <2>3. CASE s \in Ticks /\ Abort(s)
    BY <1>18, <2>2, <2>3, NoRowType DEF TimedOut, Abort, TypeOK, Close, Goto, TickPcs
  <2>4. CASE mem' = [mem EXCEPT ![s] = FailedMem(s)] /\ Goto(s, "commit")
             /\ UNCHANGED <<db, cur, queue, listed>>
    BY <1>18, <2>1, <2>2, <2>4 DEF TimedOut, TypeOK, Goto, db, UploadPcs
  <2>. QED
    BY <1>18, <2>3, <2>4 DEF TimedOut
<1>19. ASSUME NEW s \in Publishers, Commit(s) PROVE TypeInv'
  BY <1>19, NoRowType DEF Commit, TypeOK, Close, Goto, youtube, TickPcs
<1>20. ASSUME NEW s \in Publishers, StaleWrite(s) PROVE TypeInv'
  BY <1>20, NoRowType DEF StaleWrite, Abort, TypeOK, Close, Goto, youtube, TickPcs
<1>21. ASSUME NEW m \in Triggers, NEW u \in Uploads, TriggerRead(m, u) PROVE TypeInv'
  BY <1>21 DEF TriggerRead, TypeOK, Goto, youtube, db, TriggerPcs
<1>22. ASSUME NEW m \in Triggers, TriggerReset(m) PROVE TypeInv'
  <2>1. [mem[m] EXCEPT !.status = "pending", !.yt = 0] \in Row
    BY ResetType DEF TypeOK
  <2>2. mem' \in [Sessions -> Row] /\ lock' \in [Uploads -> Publishers \union {NoOne}]
    BY <1>22, <2>1, FlushType DEF TriggerReset
  <2>. QED
    BY <1>22, <2>2 DEF TriggerReset, TypeOK, Goto, youtube, UploadPcs
<1>23. ASSUME NEW m \in Triggers, TriggerInsert(m) PROVE TypeInv'
  <2>1. lastId[cur[m]] + 1 \in 0..MaxRows
    BY <1>23, StoreAssumption DEF TriggerInsert, TypeOK
  <2>2. NewRow(lastId[cur[m]] + 1, "draft", "pending") \in Row
    BY <2>1, NewRowType DEF PublishStatus, UploadStatus
  <2>. QED
    BY <1>23, <2>1, <2>2 DEF TriggerInsert, TypeOK, Goto, youtube, UploadPcs
<1>24. ASSUME NEW m \in Triggers, TriggerInsertFails(m) PROVE TypeInv'
  BY <1>24, NoRowType DEF TriggerInsertFails, Abort, TypeOK, Close, Goto, youtube, TickPcs
<1>25. ASSUME NEW e \in Editors, NEW u \in Uploads, NEW k \in Requests,
              EditorRead(e, u, k) PROVE TypeInv'
  BY <1>25 DEF EditorRead, TypeOK, Goto, youtube, db, EditorPcs, Requests
<1>26. ASSUME NEW e \in Editors, EditorYouTubeDelete(e) PROVE TypeInv'
  <2>1. live' \in [Uploads -> SUBSET (1..MaxCopies)] /\ faults' \in 0..MaxFaults
    BY <1>26, SessionAssumption DEF EditorYouTubeDelete, Fault, NoFault, TypeOK
  <2>. QED
    BY <1>26, <2>1, NoRowType
    DEF EditorYouTubeDelete, TypeOK, Close, Goto, db, EditorPcs, Requests
<1>27. ASSUME NEW e \in Editors, EditorUpdate(e) PROVE TypeInv'
  <2>1. row[cur[e]] \in Row /\ mem[e] \in Row
    BY DEF TypeOK
  <2>2. Edited(mem[e], pc[e]) \in Row
    BY <1>27, <2>1, EditedType DEF EditorUpdate, Requests
  <2>3. Flushed(row[cur[e]], mem[e], Edited(mem[e], pc[e])) \in Row
    BY <2>1, <2>2, FlushedType
  <2>4. row' \in [Uploads -> Row] /\ due' \subseteq Uploads
    BY <1>27, <2>3 DEF EditorUpdate, TypeOK
  <2>. QED
    BY <1>27, <2>4, NoRowType DEF EditorUpdate, TypeOK, Close, Goto, youtube, EditorPcs
<1>28. ASSUME NEW e \in Editors, EditorDelete(e) PROVE TypeInv'
  BY <1>28, NoRowType DEF EditorDelete, TypeOK, Close, Goto, youtube, EditorPcs
<1>29. CASE Crash
  BY <1>29, NoRowType, SessionAssumption DEF Crash, Fault, TypeOK, TickPcs, youtube
<1>30. CASE UNCHANGED vars
  BY <1>30 DEF vars, TypeOK
<1>. QED
  BY <1>1, <1>2, <1>3, <1>4, <1>5, <1>6, <1>7, <1>8, <1>9, <1>10, <1>11, <1>12, <1>13,
     <1>14, <1>15, <1>16, <1>17, <1>18, <1>19, <1>20, <1>21, <1>22, <1>23, <1>24, <1>25,
     <1>26, <1>27, <1>28, <1>29, <1>30
  DEF Next, TickStep, UploadStep, TriggerStep, EditorStep

\* Every reachable state is well typed, whatever the number of uploads, sessions
\* and failures; in particular retry_count never passes max_retries.
THEOREM TypeCorrect == Spec => []TypeOK
<1>1. Init => TypeInv
  BY TypeInit
<1>2. TypeInv /\ [Next]_vars => TypeInv'
  BY TypeStep
<1>3. TypeInv => TypeOK
  BY DEF TypeInv
<1>. QED  BY <1>1, <1>2, <1>3, PTL DEF Spec

-----------------------------------------------------------------------------
\* Nobody holds a row lock at first.
LEMMA LockInit == Init => LockInv
BY SessionKinds DEF Init, LockInv

\* A lock is taken by a flush or an insert inside run_upload_for_video, kept until
\* the commit or the rollback of the same session, and never left behind.
LEMMA LockStep == TypeOK /\ LockInv /\ [Next]_vars => LockInv'
<1> SUFFICES ASSUME TypeOK, LockInv, [Next]_vars PROVE LockInv'
  OBVIOUS
<1> USE SessionKinds, SessionAssumption DEF LockInv, UploadPcs
\* Only Flush, TriggerInsert, Commit, Abort and Crash touch a lock.
<1>1. ASSUME NEW u \in Uploads, PipelineCreates(u) \/ TimePasses(u) PROVE LockInv'
  BY <1>1 DEF PipelineCreates, TimePasses
<1>2. ASSUME NEW t \in Ticks,
             TickList(t) \/ TickTake(t) \/ TickEnd(t) \/ TickFetch(t) \/ TickFetchFails(t)
             \/ TickRetry(t) \/ TickGiveUp(t) \/ TickGuard(t) \/ TickRecover(t)
      PROVE  LockInv'
  <2>1. pc[t] \notin UploadPcs /\ lock' = lock
    BY <1>2 DEF TickList, TickTake, TickEnd, TickFetch, TickFetchFails, TickRetry,
                TickGiveUp, TickGuard, TickRecover, db
  <2>2. /\ \A s \in Sessions \ {t} : pc'[s] = pc[s] /\ cur'[s] = cur[s]
        /\ pc'[t] \notin {"sending", "commit"}
    BY <1>2 DEF TickList, TickTake, TickEnd, TickFetch, TickFetchFails, TickRetry, AfterGuards,
                TickGiveUp, TickGuard, TickRecover, Goto, Close, TypeOK
  <2>. QED
    BY <2>1, <2>2 DEF TypeOK
<1>3. ASSUME NEW s \in Publishers, Prepare(s) PROVE LockInv'
  <2>1. UNCHANGED <<lock, cur>> /\ \E p \in {"mark", "markfailed"} : Goto(s, p)
    BY <1>3 DEF Prepare, db
  <2>. QED  BY <2>1 DEF Goto, TypeOK
<1>4. ASSUME NEW s \in Publishers, Abort(s) PROVE LockInv'
  <2>1. /\ \A r \in Sessions \ {s} : pc'[r] = pc[r]
        /\ pc'[s] \notin {"sending", "commit"}
        /\ cur' = cur
    BY <1>4 DEF Abort, Close, Goto, TypeOK
  <2>2. \A u \in Uploads : lock'[u] = IF lock[u] = s THEN NoOne ELSE lock[u]
    BY <1>4 DEF Abort
  <2>3. \A u \in Uploads : lock'[u] # NoOne => lock'[u] = lock[u] /\ lock[u] # s
    BY <2>2
  <2>. QED
    BY <2>1, <2>2, <2>3 DEF TypeOK
<1>5. ASSUME NEW s \in Publishers, MarkUploading(s) \/ MarkFailed(s) PROVE LockInv'
  <2>1. /\ \A r \in Sessions \ {s} : pc'[r] = pc[r]
        /\ pc'[s] \in UploadPcs
        /\ cur' = cur
    BY <1>5 DEF MarkUploading, MarkFailed, Goto, TypeOK
  <2>2. lock[cur[s]] \in {NoOne, s} /\ lock' = [lock EXCEPT ![cur[s]] = s]
    BY <1>5 DEF MarkUploading, MarkFailed, Flush
  <2>3. /\ lock'[cur[s]] = s
        /\ \A u \in Uploads \ {cur[s]} : lock'[u] = lock[u]
    BY <2>2 DEF TypeOK
  <2>4. ASSUME NEW r \in Publishers, pc'[r] \in {"sending", "commit"} PROVE lock'[cur'[r]] = r
    <3>1. CASE r = s
      BY <2>1, <2>3, <3>1
    <3>2. CASE r # s
      BY <2>1, <2>2, <2>3, <2>4, <3>2 DEF TypeOK
    <3>. QED  BY <3>1, <3>2
  <2>5. ASSUME NEW u \in Uploads, lock'[u] # NoOne
        PROVE  lock'[u] \in Publishers /\ cur'[lock'[u]] = u /\ pc'[lock'[u]] \in UploadPcs
    BY <2>1, <2>3, <2>5 DEF TypeOK
  <2>. QED
    BY <2>4, <2>5
<1>6. ASSUME NEW s \in Publishers, Answered(s) \/ Refused(s) PROVE LockInv'
  <2>1. pc[s] = "sending" /\ pc' = [pc EXCEPT ![s] = "commit"]
    BY <1>6 DEF Answered, Refused, Goto
  <2>2. lock' = lock /\ cur' = cur
    BY <1>6 DEF Answered, Refused, db
  <2>. QED
    BY <2>1, <2>2 DEF TypeOK
<1>7. ASSUME NEW s \in Publishers, TimedOut(s), ~Abort(s) PROVE LockInv'
  <2>1. pc[s] = "sending" /\ pc' = [pc EXCEPT ![s] = "commit"]
    BY <1>7 DEF TimedOut, Goto
  <2>2. lock' = lock /\ cur' = cur
    BY <1>7 DEF TimedOut, db
  <2>. QED
    BY <2>1, <2>2 DEF TypeOK
<1>8. ASSUME NEW s \in Publishers, Commit(s) PROVE LockInv'
  <2>1. /\ \A r \in Sessions \ {s} : pc'[r] = pc[r]
        /\ pc'[s] \notin {"sending", "commit"}
        /\ cur' = cur
    BY <1>8 DEF Commit, Close, Goto, TypeOK
  <2>2. /\ lock[cur[s]] = s
        /\ lock'[cur[s]] = NoOne
        /\ \A u \in Uploads \ {cur[s]} : lock'[u] = lock[u]
    BY <1>8 DEF Commit, TypeOK
  <2>3. ASSUME NEW r \in Publishers, pc'[r] \in {"sending", "commit"} PROVE lock'[cur'[r]] = r
    <3>1. r # s
      BY <2>1, <2>3
    <3>2. pc[r] \in {"sending", "commit"} /\ lock[cur[r]] = r
      BY <2>1, <2>3, <3>1
    <3>. QED  BY <2>1, <2>2, <3>1, <3>2 DEF TypeOK
  <2>4. ASSUME NEW u \in Uploads, lock'[u] # NoOne
        PROVE  lock'[u] \in Publishers /\ cur'[lock'[u]] = u /\ pc'[lock'[u]] \in UploadPcs
    <3>1. u # cur[s] /\ lock'[u] = lock[u]
      BY <2>2, <2>4
    <3>2. lock[u] # s
      BY <3>1, <2>4 DEF TypeOK
    <3>. QED  BY <2>1, <2>4, <3>1, <3>2 DEF TypeOK
  <2>. QED
    BY <2>3, <2>4
<1>9. ASSUME NEW m \in Triggers, NEW u \in Uploads, TriggerRead(m, u) PROVE LockInv'
  BY <1>9 DEF TriggerRead, Goto, db, TypeOK
<1>10. ASSUME NEW m \in Triggers, TriggerReset(m) PROVE LockInv'
  BY <1>10 DEF TriggerReset, Flush, Goto, TypeOK
<1>11. ASSUME NEW m \in Triggers, TriggerInsert(m) PROVE LockInv'
  BY <1>11 DEF TriggerInsert, Free, Goto, TypeOK
<1>12. ASSUME NEW e \in Editors,
              (\E u \in Uploads, k \in Requests : EditorRead(e, u, k))
              \/ EditorYouTubeDelete(e) \/ EditorUpdate(e) \/ EditorDelete(e)
       PROVE  LockInv'
  <2>1. \A s \in Sessions \ {e} : pc'[s] = pc[s] /\ cur'[s] = cur[s]
    BY <1>12 DEF EditorRead, EditorYouTubeDelete, EditorUpdate, EditorDelete, Goto, Close, TypeOK
  <2>2. lock' = lock
    BY <1>12 DEF EditorRead, EditorYouTubeDelete, EditorUpdate, EditorDelete, db
  <2>. QED
    BY <2>1, <2>2 DEF TypeOK
<1>13. CASE Crash
  BY <1>13 DEF Crash
<1>14. CASE UNCHANGED vars
  BY <1>14 DEF vars
<1>. QED
  BY <1>1, <1>2, <1>3, <1>4, <1>5, <1>6, <1>7, <1>8, <1>9, <1>10, <1>11, <1>12, <1>13, <1>14
  DEF Next, TickStep, UploadStep, TriggerStep, EditorStep, Raises, StaleWrite, TriggerInsertFails

-----------------------------------------------------------------------------
\* A merged row has a status that the database or the writer put there.
LEMMA FlushedStatus ==
  ASSUME NEW d, NEW m, NEW n
  PROVE  /\ Flushed(d, m, n).status \in {n.status, d.status}
         /\ n.status # m.status => Flushed(d, m, n).status = n.status
BY DEF Flushed

\* The publishing API changes the upload status to SCHEDULED or leaves it.
LEMMA EditedStatus ==
  ASSUME NEW r \in Row, NEW k
  PROVE  Edited(r, k).status \in {r.status, "scheduled"}
BY DEF Edited, Row

\* mark_published and mark_failed overwrite the status and keep the decision.
LEMMA OutcomeMem ==
  ASSUME NEW s, mem[s] \in Row, NEW id
  PROVE  /\ PublishedMem(s, id).status = "published" /\ FailedMem(s).status = "failed"
         /\ PublishedMem(s, id).publish = mem[s].publish
         /\ FailedMem(s).publish = mem[s].publish
BY DEF PublishedMem, FailedMem, Row

\* No row says UPLOADING at first.
LEMMA StatusInit == Init => StatusInv
BY SessionKinds DEF Init, StatusInv, UploadingNeverCommitted, NoRow

\* UPLOADING stays in the transaction that flushed it.
LEMMA StatusStep == TypeOK /\ LockInv /\ StatusInv /\ [Next]_vars => StatusInv'
<1> SUFFICES ASSUME TypeOK, LockInv, StatusInv, [Next]_vars PROVE StatusInv'
  OBVIOUS
<1> USE SessionKinds, SessionAssumption DEF StatusInv, UploadingNeverCommitted
<1>1. ASSUME row' = row,
             \A s \in Publishers : pc'[s] = "commit" => pc[s] = "commit" /\ mem'[s] = mem[s]
      PROVE  StatusInv'
  BY <1>1
<1>2. ASSUME NEW u \in Uploads, PipelineCreates(u) \/ TimePasses(u) PROVE StatusInv'
  <2>1. /\ \A v \in Uploads : row'[v] = row[v] \/ row'[v].status = "scheduled"
        /\ pc' = pc /\ mem' = mem
    <3>1. \A p : NewRow(1, p, "scheduled").status = "scheduled"
      BY DEF NewRow, NoRow
    <3>. QED  BY <1>2, <3>1 DEF PipelineCreates, TimePasses, TypeOK
  <2>. QED  BY <2>1
<1>3. ASSUME NEW t \in Ticks,
             TickList(t) \/ TickTake(t) \/ TickEnd(t) \/ TickFetch(t) \/ TickFetchFails(t)
             \/ TickRecover(t)
      PROVE  StatusInv'
  BY <1>1, <1>3 DEF TickList, TickTake, TickEnd, TickFetch, AfterGuards, TickFetchFails,
                    TickRecover, Close, Goto, db, TypeOK
<1>4. ASSUME NEW t \in Ticks, TickRetry(t) \/ TickGiveUp(t) PROVE StatusInv'
  <2>1. \A u \in Uploads : row'[u].status \in {row[u].status, "failed"}
    <3>1. CASE TickRetry(t)
      <4> DEFINE new == [row[cur[t]] EXCEPT !.retries = listed[t][cur[t]].retries + 1]
      <4>1. new.status = row[cur[t]].status
        BY DEF TypeOK, Row
      <4>2. WriteOrLog(t, new)
        BY <3>1 DEF TickRetry
      <4> HIDE DEF new
      <4>. QED  BY <4>1, <4>2, WriteOrLogEffect
    <3>2. CASE TickGiveUp(t)
      <4> DEFINE new == [row[cur[t]] EXCEPT !.status = "failed"]
      <4>1. new.status = "failed"
        BY DEF TypeOK, Row
      <4>2. WriteOrLog(t, new)
        BY <3>2 DEF TickGiveUp
      <4> HIDE DEF new
      <4>. QED  BY <4>1, <4>2, WriteOrLogEffect
    <3>. QED  BY <1>4, <3>1, <3>2
  <2>2. \A s \in Publishers : pc'[s] = "commit" => pc[s] = "commit" /\ mem'[s] = mem[s]
    BY <1>4 DEF TickRetry, TickGiveUp, Goto, TypeOK
  <2>. QED  BY <2>1, <2>2
<1>5. ASSUME NEW t \in Ticks, TickGuard(t) PROVE StatusInv'
  <2>1. \A s \in Publishers : pc'[s] = "commit" => pc[s] = "commit" /\ mem'[s] = mem[s]
    <3>1. Close(t, "next")
      BY <1>5 DEF TickGuard
    <3>. QED  BY <3>1 DEF Close, Goto, TypeOK
  <2> DEFINE new == [mem[t] EXCEPT !.status = "published"]
  <2>2. new.status = "published"
    BY DEF TypeOK, Row
  <2>3. row' = [row EXCEPT ![cur[t]] = Flushed(row[cur[t]], mem[t], new)]
    BY <1>5 DEF TickGuard
  <2>. HIDE DEF new
  <2>4. Flushed(row[cur[t]], mem[t], new).status \in {"published", row[cur[t]].status}
    BY <2>2, FlushedStatus
  <2>5. /\ \A u \in Uploads \ {cur[t]} : row'[u] = row[u]
        /\ row'[cur[t]] = Flushed(row[cur[t]], mem[t], new)
    BY <2>3 DEF TypeOK
  <2>6. row'[cur[t]].status \in {"published", row[cur[t]].status}
    BY <2>4, <2>5
  <2>. QED  BY <2>1, <2>5, <2>6
<1>6. ASSUME NEW s \in Publishers, Prepare(s) \/ MarkUploading(s) PROVE StatusInv'
  BY <1>1, <1>6 DEF Prepare, MarkUploading, Flush, Goto, db, TypeOK
<1>7. ASSUME NEW s \in Publishers, Abort(s) PROVE StatusInv'
  BY <1>1, <1>7 DEF Abort, Close, Goto, TypeOK
<1>8. ASSUME NEW s \in Publishers, MarkFailed(s) PROVE StatusInv'
  <2> DEFINE new == [mem[s] EXCEPT !.status = "failed"]
  <2>1. new.status = "failed" /\ Visible(s) \in Row /\ mem[s] \in Row
    BY DEF Visible, TypeOK, Row
  <2>2. mem' = [mem EXCEPT ![s] = Flushed(Visible(s), mem[s], new)]
    BY <1>8 DEF MarkFailed, Flush
  <2>3. Visible(s).status # "uploading" \/ mem[s].status = Visible(s).status
    BY DEF Visible, TypeOK
  <2>4. Flushed(Visible(s), mem[s], new).status # "uploading"
    BY <2>1, <2>3 DEF Flushed
  <2>5. /\ row' = row
        /\ \A r \in Publishers \ {s} : pc'[r] = pc[r] /\ mem'[r] = mem[r]
        /\ mem'[s] = Flushed(Visible(s), mem[s], new)
    BY <1>8, <2>2 DEF MarkFailed, Goto, TypeOK
  <2>. QED  BY <2>4, <2>5
<1>9. ASSUME NEW s \in Publishers, Answered(s) \/ Refused(s) \/ (TimedOut(s) /\ ~Abort(s))
      PROVE  StatusInv'
  <2>1. /\ row' = row
        /\ \A r \in Publishers \ {s} : pc'[r] = pc[r] /\ mem'[r] = mem[r]
    BY <1>9, SMTT(30) DEF Answered, Refused, TimedOut, Goto, db, TypeOK
  <2>2. mem'[s] = PublishedMem(s, created[cur[s]] + 1) \/ mem'[s] = FailedMem(s)
    <3>1. \/ mem' = [mem EXCEPT ![s] = PublishedMem(s, created[cur[s]] + 1)]
          \/ mem' = [mem EXCEPT ![s] = FailedMem(s)]
      BY <1>9 DEF Answered, Refused, TimedOut
    <3>. QED  BY <3>1 DEF TypeOK
  <2>3. mem'[s].status # "uploading"
    BY <2>2, OutcomeMem DEF TypeOK
  <2>. QED  BY <2>1, <2>3
<1>10. ASSUME NEW s \in Publishers, Commit(s) PROVE StatusInv'
  BY <1>10 DEF Commit, Close, Goto, TypeOK
<1>11. ASSUME NEW m \in Triggers,
              (\E u \in Uploads : TriggerRead(m, u)) \/ TriggerReset(m) \/ TriggerInsert(m)
       PROVE  StatusInv'
  BY <1>1, <1>11 DEF TriggerRead, TriggerReset, TriggerInsert, Flush, Goto, db, TypeOK
<1>12. ASSUME NEW e \in Editors,
              (\E u \in Uploads, k \in Requests : EditorRead(e, u, k)) \/ EditorYouTubeDelete(e)
       PROVE  StatusInv'
  BY <1>1, <1>12 DEF EditorRead, EditorYouTubeDelete, Requests, Close, Goto, db, TypeOK
<1>13. ASSUME NEW e \in Editors, EditorUpdate(e) PROVE StatusInv'
  <2>1. \A s \in Publishers : pc'[s] = pc[s] /\ mem'[s] = mem[s]
    BY <1>13 DEF EditorUpdate, Close, Goto, TypeOK
  <2> DEFINE new == Edited(mem[e], pc[e])
  <2>2. new.status \in {mem[e].status, "scheduled"}
    BY EditedStatus DEF TypeOK
  <2>3. Flushed(row[cur[e]], mem[e], new).status \in {"scheduled", row[cur[e]].status}
    BY <2>2 DEF Flushed
  <2>4. row' = row \/ row' = [row EXCEPT ![cur[e]] = Flushed(row[cur[e]], mem[e], new)]
    BY <1>13 DEF EditorUpdate
  <2>. QED  BY <2>1, <2>3, <2>4 DEF TypeOK
<1>14. ASSUME NEW e \in Editors, EditorDelete(e) PROVE StatusInv'
  BY <1>14 DEF EditorDelete, Close, Goto, TypeOK, NoRow
<1>15. CASE Crash
  BY <1>1, <1>15 DEF Crash
<1>16. CASE UNCHANGED vars
  BY <1>1, <1>16 DEF vars
<1>. QED
  BY <1>2, <1>3, <1>4, <1>5, <1>6, <1>7, <1>8, <1>9, <1>10, <1>11, <1>12, <1>13, <1>14, <1>15,
     <1>16
  DEF Next, TickStep, UploadStep, TriggerStep, EditorStep, Raises, StaleWrite, TriggerInsertFails

-----------------------------------------------------------------------------
\* A merged row mentions a video only if one of the merged rows did.
LEMMA FlushedKnows ==
  ASSUME NEW d, NEW m, NEW n, Knows(Flushed(d, m, n))
  PROVE  Knows(d) \/ Knows(n)
BY DEF Flushed, Knows

\* A missing row mentions no video.
LEMMA NoRowKnows == ~Knows(NoRow)
BY DEF NoRow, Knows

\* Nor does a new one.
LEMMA NewRowKnows ==
  ASSUME NEW id, NEW p, NEW st, st # "published"
  PROVE  ~Knows(NewRow(id, p, st))
BY DEF NewRow, NoRow, Knows

\* No row mentions a video at first.
LEMMA AcceptedInit == Init => AcceptedInv
BY SessionKinds, NoRowKnows DEF Init, AcceptedInv

\* Only an answer from YouTube makes an object mention a video, and every row and
\* object that mentions one got it from there.
LEMMA AcceptedStep == TypeOK /\ AcceptedInv /\ [Next]_vars => AcceptedInv'
<1> SUFFICES ASSUME TypeOK, AcceptedInv, [Next]_vars PROVE AcceptedInv'
  OBVIOUS
<1> USE SessionKinds, SessionAssumption, NoRowKnows DEF AcceptedInv
<1>1. ASSUME NEW u \in Uploads, PipelineCreates(u) \/ TimePasses(u) PROVE AcceptedInv'
  <2>1. \A v \in Uploads : row'[v] = row[v] \/ ~Knows(row'[v])
    BY <1>1, NewRowKnows DEF PipelineCreates, TimePasses, TypeOK
  <2>. QED  BY <1>1, <2>1 DEF PipelineCreates, TimePasses, youtube
<1>2. ASSUME NEW t \in Ticks, TickList(t) \/ TickEnd(t) \/ TickRecover(t) PROVE AcceptedInv'
  BY <1>2 DEF TickList, TickEnd, TickRecover, Goto, db, youtube, TypeOK
<1>3. ASSUME NEW t \in Ticks, TickTake(t) PROVE AcceptedInv'
  <2>1. mem[t] = NoRow /\ pc'[t] = "fetch"
    BY <1>3 DEF TickTake, Goto, TypeOK
  <2>. QED  BY <1>3, <2>1 DEF TickTake, Goto, db, youtube, TypeOK
<1>4. ASSUME NEW t \in Ticks, TickFetch(t) PROVE AcceptedInv'
  <2>1. /\ row' = row /\ created' = created /\ cur' = cur
        /\ \A s \in Sessions \ {t} : pc'[s] = pc[s] /\ mem'[s] = mem[s]
    BY <1>4 DEF TickFetch, Goto, Close, db, youtube, TypeOK
  <2>2. CASE pc'[t] = "next" /\ mem'[t] = NoRow
    BY <2>1, <2>2
  <2>3. CASE pc'[t] = AfterGuards(row[cur[t]]) /\ mem'[t] = row[cur[t]] /\ pc'[t] # "next"
    <3>1. pc'[t] \in {"guard", "prepare"} /\ (pc'[t] = "guard" => Knows(mem'[t]))
      BY <2>3 DEF AfterGuards, Knows
    <3>2. Knows(mem'[t]) => created[cur[t]] > 0
      BY <2>3 DEF TypeOK
    <3>. QED  BY <2>1, <3>1, <3>2
  <2>. QED
    BY <1>4, <2>2, <2>3 DEF TickFetch, Goto, Close, TypeOK
<1>5. ASSUME NEW t \in Ticks, TickFetchFails(t) PROVE AcceptedInv'
  BY <1>5 DEF TickFetchFails, Goto, db, youtube, TypeOK
<1>6. ASSUME NEW t \in Ticks, TickRetry(t) \/ TickGiveUp(t) PROVE AcceptedInv'
  <2>1. \A u \in Uploads : Knows(row'[u]) => Knows(row[u])
    <3>1. CASE TickRetry(t)
      <4> DEFINE new == [row[cur[t]] EXCEPT !.retries = listed[t][cur[t]].retries + 1]
      <4>1. Knows(new) => Knows(row[cur[t]])
        BY DEF Knows, TypeOK, Row
      <4>2. WriteOrLog(t, new)
        BY <3>1 DEF TickRetry
      <4> HIDE DEF new
      <4>. QED  BY <4>1, <4>2, WriteOrLogEffect
    <3>2. CASE TickGiveUp(t)
      <4> DEFINE new == [row[cur[t]] EXCEPT !.status = "failed"]
      <4>1. Knows(new) => Knows(row[cur[t]])
        BY DEF Knows, TypeOK, Row
      <4>2. WriteOrLog(t, new)
        BY <3>2 DEF TickGiveUp
      <4> HIDE DEF new
      <4>. QED  BY <4>1, <4>2, WriteOrLogEffect
    <3>. QED  BY <1>6, <3>1, <3>2
  <2>2. /\ created' = created /\ cur' = cur /\ mem' = mem
        /\ \A s \in Sessions \ {t} : pc'[s] = pc[s]
        /\ pc[t] \in {"retry", "giveup"} /\ pc'[t] # "guard"
    BY <1>6 DEF TickRetry, TickGiveUp, Goto, youtube, TypeOK
  <2>. QED  BY <2>1, <2>2
<1>7. ASSUME NEW t \in Ticks, TickGuard(t) PROVE AcceptedInv'
  <2> DEFINE new == [mem[t] EXCEPT !.status = "published"]
  <2>1. created[cur[t]] > 0
    BY <1>7 DEF TickGuard
  <2>2. row' = [row EXCEPT ![cur[t]] = Flushed(row[cur[t]], mem[t], new)]
    BY <1>7 DEF TickGuard
  <2>3. \A u \in Uploads \ {cur[t]} : row'[u] = row[u]
    BY <2>2 DEF TypeOK
  <2>4. /\ created' = created /\ cur' = cur /\ mem'[t] = NoRow /\ pc'[t] = "next"
        /\ \A s \in Sessions \ {t} : pc'[s] = pc[s] /\ mem'[s] = mem[s]
    BY <1>7 DEF TickGuard, Close, Goto, youtube, TypeOK
  <2>. QED  BY <2>1, <2>3, <2>4
<1>8. ASSUME NEW s \in Publishers, Prepare(s) PROVE AcceptedInv'
  BY <1>8 DEF Prepare, Goto, db, youtube, TypeOK
<1>9. ASSUME NEW s \in Sessions, Abort(s), UNCHANGED created PROVE AcceptedInv'
  BY <1>9 DEF Abort, Close, Goto, TypeOK
<1>10. ASSUME NEW s \in Publishers, NEW new \in Row, Flush(s, new), ~Knows(new) \/ Knows(mem[s]),
              \E p \in UploadPcs : Goto(s, p), UNCHANGED <<row, cur, created>>
       PROVE  AcceptedInv'
  <2>1. Knows(Visible(s)) => created[cur[s]] > 0
    BY DEF Visible, TypeOK
  <2>2. Knows(mem'[s]) => created[cur[s]] > 0
    BY <1>10, <2>1, FlushedKnows DEF Flush, TypeOK
  <2>3. \A r \in Sessions \ {s} : pc'[r] = pc[r] /\ mem'[r] = mem[r]
    BY <1>10 DEF Flush, Goto, TypeOK
  <2>4. pc'[s] \in UploadPcs
    BY <1>10 DEF Goto, TypeOK
  <2>. QED  BY <1>10, <2>2, <2>3, <2>4 DEF UploadPcs
<1>11. ASSUME NEW s \in Publishers, MarkUploading(s) \/ MarkFailed(s) PROVE AcceptedInv'
  <2>1. ASSUME NEW st \in {"uploading", "failed"}
        PROVE  /\ [mem[s] EXCEPT !.status = st] \in Row
               /\ Knows([mem[s] EXCEPT !.status = st]) => Knows(mem[s])
    <3>1. [mem[s] EXCEPT !.status = st] \in Row
      BY StatusType DEF TypeOK, UploadStatus
    <3>2. Knows([mem[s] EXCEPT !.status = st]) => Knows(mem[s])
      BY DEF Knows, TypeOK, Row
    <3>. QED  BY <3>1, <3>2
  <2>2. /\ \E st \in {"uploading", "failed"} : Flush(s, [mem[s] EXCEPT !.status = st])
        /\ \E p \in UploadPcs : Goto(s, p)
        /\ UNCHANGED <<row, cur, created>>
    BY <1>11 DEF MarkUploading, MarkFailed, UploadPcs, youtube
  <2>. QED  BY <1>10, <2>1, <2>2
<1>12. ASSUME NEW s \in Publishers, YouTubeAccepts(cur[s]) \/ UNCHANGED created,
              mem' = [mem EXCEPT ![s] = FailedMem(s)] \/
                (YouTubeAccepts(cur[s]) /\ \E id \in Nat : mem' = [mem EXCEPT ![s] = PublishedMem(s, id)]),
              Goto(s, "commit"), UNCHANGED <<row, cur>>
       PROVE  AcceptedInv'
  <2>1. \A u \in Uploads : created[u] > 0 => created'[u] > 0
    BY <1>12, StoreAssumption DEF YouTubeAccepts, TypeOK
  <2>2. YouTubeAccepts(cur[s]) => created'[cur[s]] > 0
    BY StoreAssumption DEF YouTubeAccepts, TypeOK
  <2>3. Knows(FailedMem(s)) => Knows(mem[s])
    BY DEF Knows, FailedMem, TypeOK, Row
  <2>4. Knows(mem'[s]) => created'[cur[s]] > 0
    BY <1>12, <2>1, <2>2, <2>3 DEF TypeOK
  <2>5. /\ \A r \in Sessions \ {s} : pc'[r] = pc[r] /\ mem'[r] = mem[r]
        /\ pc'[s] = "commit"
    BY <1>12 DEF Goto, TypeOK
  <2>. QED  BY <1>12, <2>1, <2>4, <2>5 DEF TypeOK
<1>13. ASSUME NEW s \in Publishers, Answered(s) PROVE AcceptedInv'
  <2>1. created[cur[s]] + 1 \in Nat
    BY <1>13, StoreAssumption DEF TypeOK
  <2>. QED  BY <1>12, <1>13, <2>1 DEF Answered, db
<1>14. ASSUME NEW s \in Publishers, Refused(s) PROVE AcceptedInv'
  BY <1>12, <1>14 DEF Refused, db, youtube
<1>15. ASSUME NEW s \in Publishers, TimedOut(s) PROVE AcceptedInv'
  <2>1. CASE Abort(s) /\ YouTubeAccepts(cur[s])
    <3>1. \A u \in Uploads : created[u] > 0 => created'[u] > 0
      BY <2>1, StoreAssumption DEF YouTubeAccepts, TypeOK
    <3>2. /\ row' = row /\ cur' = cur /\ mem'[s] = NoRow
          /\ pc'[s] \in {"aborted", "idle"}
          /\ \A r \in Sessions \ {s} : pc'[r] = pc[r] /\ mem'[r] = mem[r]
      BY <2>1 DEF Abort, Close, Goto, TypeOK
    <3>. QED  BY <3>1, <3>2 DEF TypeOK
  <2>2. CASE Abort(s) /\ UNCHANGED youtube
    BY <1>9, <2>2 DEF youtube
  <2>3. CASE mem' = [mem EXCEPT ![s] = FailedMem(s)] /\ Goto(s, "commit")
             /\ UNCHANGED <<db, cur, queue, listed>>
    BY <1>12, <1>15, <2>3 DEF TimedOut, db, youtube
  <2>. QED  BY <1>15, <2>1, <2>2, <2>3 DEF TimedOut
<1>16. ASSUME NEW s \in Publishers, Commit(s) PROVE AcceptedInv'
  <2>1. /\ \A u \in Uploads : row'[u] = row[u] \/ (u = cur[s] /\ row'[u] = mem[s])
        /\ created' = created /\ cur' = cur /\ mem'[s] = NoRow /\ pc'[s] \in {"next", "idle"}
        /\ \A r \in Sessions \ {s} : pc'[r] = pc[r] /\ mem'[r] = mem[r]
    BY <1>16 DEF Commit, Close, Goto, youtube, TypeOK
  <2>. QED  BY <2>1
<1>17. ASSUME NEW m \in Triggers, NEW u \in Uploads, TriggerRead(m, u) PROVE AcceptedInv'
  BY <1>17 DEF TriggerRead, Goto, db, youtube, TypeOK
<1>18. ASSUME NEW m \in Triggers, TriggerReset(m) PROVE AcceptedInv'
  <2> DEFINE new == [mem[m] EXCEPT !.status = "pending", !.yt = 0]
  <2>1. new \in Row
    BY ResetType DEF TypeOK
  <2>2. ~Knows(new)
    BY DEF Knows, TypeOK, Row
  <2>3. Flush(m, new) /\ Goto(m, "prepare") /\ UNCHANGED <<row, cur, created>>
    BY <1>18 DEF TriggerReset, youtube
  <2> HIDE DEF new
  <2>4. "prepare" \in UploadPcs
    BY DEF UploadPcs
  <2>. QED  BY <1>10, <2>1, <2>2, <2>3, <2>4
<1>19. ASSUME NEW m \in Triggers, TriggerInsert(m) PROVE AcceptedInv'
  <2>1. ~Knows(mem'[m]) /\ pc'[m] = "prepare"
    BY <1>19, NewRowKnows DEF TriggerInsert, Goto, TypeOK
  <2>. QED  BY <1>19, <2>1 DEF TriggerInsert, Goto, youtube, TypeOK
<1>20. ASSUME NEW e \in Editors, NEW u \in Uploads, NEW k \in Requests, EditorRead(e, u, k)
       PROVE  AcceptedInv'
  BY <1>20 DEF EditorRead, Requests, Goto, db, youtube, TypeOK
<1>21. ASSUME NEW e \in Editors, EditorYouTubeDelete(e) PROVE AcceptedInv'
  BY <1>21 DEF EditorYouTubeDelete, Close, Goto, db, youtube, TypeOK
<1>22. ASSUME NEW e \in Editors, EditorUpdate(e) PROVE AcceptedInv'
  <2> DEFINE new == Edited(mem[e], pc[e])
  <2>1. Knows(new) => Knows(mem[e])
    BY DEF Edited, Knows, TypeOK, Row
  <2>2. /\ \A u \in Uploads : row'[u] = row[u] \/
             (u = cur[e] /\ row'[u] = Flushed(row[u], mem[e], new) /\ row[u].id = mem[e].id)
        /\ created' = created /\ cur' = cur /\ mem'[e] = NoRow /\ pc'[e] = "idle"
        /\ \A r \in Sessions \ {e} : pc'[r] = pc[r] /\ mem'[r] = mem[r]
    BY <1>22 DEF EditorUpdate, SameRow, Close, Goto, youtube, TypeOK
  <2> HIDE DEF new
  <2>3. \A u \in Uploads : Knows(row'[u]) => created'[u] > 0
    BY <2>1, <2>2, FlushedKnows
  <2>. QED  BY <2>2, <2>3
<1>23. ASSUME NEW e \in Editors, EditorDelete(e) PROVE AcceptedInv'
  BY <1>23 DEF EditorDelete, Close, Goto, youtube, TypeOK
<1>24. CASE Crash
  BY <1>24 DEF Crash, youtube
<1>25. CASE UNCHANGED vars
  BY <1>25 DEF vars
<1>. QED
  BY <1>1, <1>2, <1>3, <1>4, <1>5, <1>6, <1>7, <1>8, <1>9, <1>11, <1>13, <1>14, <1>15, <1>16,
     <1>17, <1>18, <1>19, <1>20, <1>21, <1>22, <1>23, <1>24, <1>25
  DEF Next, TickStep, UploadStep, TriggerStep, EditorStep, Raises, StaleWrite,
      TriggerInsertFails, youtube

-----------------------------------------------------------------------------
\* No lock, nothing to compare.
LEMMA DecisionInit == Init => DecisionInv
BY DEF Init, DecisionInv

\* Nobody can change publish_status while the row lock is held, and its holder has
\* refreshed the object after taking it.
LEMMA DecisionStep == TypeOK /\ LockInv /\ DecisionInv /\ [Next]_vars => DecisionInv'
<1> SUFFICES ASSUME TypeOK, LockInv, DecisionInv, [Next]_vars PROVE DecisionInv'
  OBVIOUS
<1> USE SessionKinds, SessionAssumption DEF DecisionInv
<1>1. \A u \in Uploads : lock[u] # NoOne =>
        lock[u] \in Publishers /\ cur[lock[u]] = u /\ pc[lock[u]] \in UploadPcs
  BY DEF LockInv
\* A session that holds no lock writes only rows nobody has locked.
<1>2. ASSUME NEW s \in Sessions, \A u \in Uploads : lock[u] # s, lock' = lock,
             \A r \in Sessions \ {s} : mem'[r] = mem[r],
             \A u \in Uploads : row'[u] = row[u] \/ Free(u)
      PROVE  DecisionInv'
  BY <1>1, <1>2 DEF Free
<1>3. ASSUME NEW u \in Uploads, PipelineCreates(u) \/ TimePasses(u) PROVE DecisionInv'
  BY <1>3 DEF PipelineCreates, TimePasses, Free, TypeOK
<1>4. ASSUME NEW t \in Ticks,
             TickList(t) \/ TickTake(t) \/ TickEnd(t) \/ TickFetch(t) \/ TickFetchFails(t)
             \/ TickRetry(t) \/ TickGiveUp(t) \/ TickGuard(t) \/ TickRecover(t)
      PROVE  DecisionInv'
  <2>1. pc[t] \notin UploadPcs /\ lock' = lock
    BY <1>4 DEF TickList, TickTake, TickEnd, TickFetch, TickFetchFails, TickRetry,
                TickGiveUp, TickGuard, TickRecover, db, UploadPcs
  <2>2. \A r \in Sessions \ {t} : mem'[r] = mem[r]
    BY <1>4 DEF TickList, TickTake, TickEnd, TickFetch, TickFetchFails, TickRetry,
                TickGiveUp, TickGuard, TickRecover, Close, TypeOK
  <2>3. \A u \in Uploads : row'[u] = row[u] \/ Free(u)
    BY <1>4 DEF TickList, TickTake, TickEnd, TickFetch, TickFetchFails, TickRetry, WriteOrLog,
                TickGiveUp, TickGuard, TickRecover, db, TypeOK
  <2>. QED  BY <1>1, <1>2, <2>1, <2>2, <2>3
<1>5. ASSUME NEW s \in Publishers, Prepare(s) PROVE DecisionInv'
  BY <1>5 DEF Prepare, db
<1>6. ASSUME NEW s \in Publishers, Abort(s) PROVE DecisionInv'
  <2>1. \A u \in Uploads : lock'[u] # NoOne => lock'[u] = lock[u] /\ lock[u] # s
    BY <1>6 DEF Abort
  <2>2. row' = row /\ \A r \in Sessions \ {s} : mem'[r] = mem[r]
    BY <1>6 DEF Abort, Close, TypeOK
  <2>. QED  BY <1>1, <2>1, <2>2
<1>7. ASSUME NEW s \in Publishers, NEW new, Flush(s, new), new.publish = mem[s].publish, row' = row
      PROVE  DecisionInv'
  <2>1. /\ lock[cur[s]] \in {NoOne, s} /\ lock'[cur[s]] = s
        /\ \A u \in Uploads \ {cur[s]} : lock'[u] = lock[u] /\ lock[u] # s
    BY <1>1, <1>7 DEF Flush, TypeOK
  <2>2. /\ mem'[s].publish = Visible(s).publish
        /\ \A r \in Sessions \ {s} : mem'[r] = mem[r]
    BY <1>7 DEF Flush, Flushed, TypeOK
  <2>3. row[cur[s]].id # 0 => Visible(s).publish = row[cur[s]].publish
    BY DEF Visible, TypeOK
  <2>. QED  BY <1>1, <1>7, <2>1, <2>2, <2>3 DEF TypeOK
<1>8. ASSUME NEW s \in Publishers, MarkUploading(s) \/ MarkFailed(s) PROVE DecisionInv'
  <2>1. \A st : [mem[s] EXCEPT !.status = st].publish = mem[s].publish
    BY DEF TypeOK, Row
  <2>. QED  BY <1>7, <1>8, <2>1 DEF MarkUploading, MarkFailed
<1>9. ASSUME NEW s \in Publishers, Answered(s) \/ Refused(s) \/ (TimedOut(s) /\ ~Abort(s))
      PROVE  DecisionInv'
  <2>1. mem'[s] = PublishedMem(s, created[cur[s]] + 1) \/ mem'[s] = FailedMem(s)
    <3>1. \/ mem' = [mem EXCEPT ![s] = PublishedMem(s, created[cur[s]] + 1)]
          \/ mem' = [mem EXCEPT ![s] = FailedMem(s)]
      BY <1>9 DEF Answered, Refused, TimedOut
    <3>. QED  BY <3>1 DEF TypeOK
  <2>2. mem'[s].publish = mem[s].publish
    BY <2>1, OutcomeMem DEF TypeOK
  <2>3. /\ row' = row /\ lock' = lock
        /\ \A r \in Sessions \ {s} : mem'[r] = mem[r]
    BY <1>9 DEF Answered, Refused, TimedOut, db, TypeOK
  <2>. QED  BY <1>1, <2>2, <2>3
<1>10. ASSUME NEW s \in Publishers, Commit(s) PROVE DecisionInv'
  <2>1. /\ lock[cur[s]] = s /\ lock'[cur[s]] = NoOne
        /\ \A u \in Uploads \ {cur[s]} : lock'[u] = lock[u] /\ row'[u] = row[u] /\ lock[u] # s
        /\ \A r \in Sessions \ {s} : mem'[r] = mem[r]
    BY <1>1, <1>10 DEF Commit, LockInv, Close, TypeOK
  <2>. QED  BY <1>1, <2>1
<1>11. ASSUME NEW m \in Triggers, NEW u \in Uploads, TriggerRead(m, u) PROVE DecisionInv'
  <2>1. pc[m] \notin UploadPcs /\ lock' = lock /\ row' = row
        /\ \A r \in Sessions \ {m} : mem'[r] = mem[r]
    BY <1>11 DEF TriggerRead, UploadPcs, db, TypeOK
  <2>. QED  BY <1>1, <1>2, <2>1
<1>12. ASSUME NEW m \in Triggers, TriggerReset(m) PROVE DecisionInv'
  <2>1. [mem[m] EXCEPT !.status = "pending", !.yt = 0].publish = mem[m].publish
    BY DEF TypeOK, Row
  <2>. QED  BY <1>7, <1>12, <2>1 DEF TriggerReset
<1>13. ASSUME NEW m \in Triggers, TriggerInsert(m) PROVE DecisionInv'
  <2>1. /\ row' = row /\ row[cur[m]].id = 0 /\ pc[m] \notin UploadPcs
        /\ \A u \in Uploads \ {cur[m]} : lock'[u] = lock[u]
        /\ \A r \in Sessions \ {m} : mem'[r] = mem[r]
    BY <1>13 DEF TriggerInsert, UploadPcs, TypeOK
  <2>. QED  BY <1>1, <2>1
<1>14. ASSUME NEW e \in Editors,
              (\E u \in Uploads, k \in Requests : EditorRead(e, u, k))
              \/ EditorYouTubeDelete(e) \/ EditorUpdate(e) \/ EditorDelete(e)
       PROVE  DecisionInv'
  <2>1. lock' = lock /\ \A r \in Sessions \ {e} : mem'[r] = mem[r]
    BY <1>14 DEF EditorRead, EditorYouTubeDelete, EditorUpdate, EditorDelete, Close, db, TypeOK
  <2>2. \A u \in Uploads : row'[u] = row[u] \/ Free(u)
    BY <1>14 DEF EditorRead, EditorYouTubeDelete, EditorUpdate, EditorDelete, db, TypeOK
  <2>3. \A u \in Uploads : lock[u] # e
    BY <1>1
  <2>. QED  BY <1>2, <2>1, <2>2, <2>3
<1>15. CASE Crash
  BY <1>15 DEF Crash
<1>16. CASE UNCHANGED vars
  BY <1>16 DEF vars
<1>. QED
  BY <1>3, <1>4, <1>5, <1>6, <1>8, <1>9, <1>10, <1>11, <1>12, <1>13, <1>14, <1>15, <1>16
  DEF Next, TickStep, UploadStep, TriggerStep, EditorStep, Raises, StaleWrite, TriggerInsertFails

-----------------------------------------------------------------------------
IInv == TypeInv /\ LockInv /\ StatusInv /\ AcceptedInv /\ DecisionInv

\* The conjunction of the five parts is an invariant of every behaviour.
THEOREM InductiveInvariant == Spec => []IInv
<1>1. Init => IInv
  BY TypeInit, LockInit, StatusInit, AcceptedInit, DecisionInit DEF IInv
<1>2. IInv /\ [Next]_vars => IInv'
  BY TypeStep, LockStep, StatusStep, AcceptedStep, DecisionStep DEF IInv, TypeInv
<1>. QED  BY <1>1, <1>2, PTL DEF Spec

\* For any number of sessions: UPLOADING is never read by anybody but its writer.
THEOREM UploadingIsInvisible == Spec => []UploadingNeverCommitted
<1>1. IInv => UploadingNeverCommitted
  BY DEF IInv, StatusInv
<1>. QED  BY <1>1, InductiveInvariant, PTL

\* For any number of ticks and requests: the row lock makes the call to YouTube
\* mutually exclusive per upload.
THEOREM TransmitExclusion == Spec => []AtMostOneTransmit
<1>1. IInv => AtMostOneTransmit
  BY DEF IInv, LockInv, AtMostOneTransmit, Sending
<1>. QED  BY <1>1, InductiveInvariant, PTL

\* However often an upload was retried, refused or edited: PUBLISHED is no lie.
THEOREM PublishedIsTrue == Spec => []PublishedWasAccepted
<1>1. IInv => PublishedWasAccepted
  BY DEF IInv, AcceptedInv, Knows, PublishedWasAccepted
<1>. QED  BY <1>1, InductiveInvariant, PTL

\* However operators and publishers interleave: a commit keeps the decision.
THEOREM CommitKeepsDecision == Spec => DecisionKept
<1>1. IInv /\ [Next]_vars =>
        [\A s \in Publishers : Commit(s) /\ row[cur[s]].id # 0
           => row'[cur[s]].publish = row[cur[s]].publish]_vars
  <2> SUFFICES ASSUME IInv, NEW s \in Publishers, Commit(s), row[cur[s]].id # 0
               PROVE  row'[cur[s]].publish = row[cur[s]].publish
    OBVIOUS
  <2>1. cur[s] \in Uploads /\ lock[cur[s]] = s /\ s # NoOne
    BY SessionKinds, SessionAssumption DEF IInv, TypeInv, TypeOK, LockInv, Commit
  <2>2. mem[s].publish = row[cur[s]].publish
    BY <2>1 DEF IInv, DecisionInv
  <2>3. row'[cur[s]] = mem[s]
    BY <2>1 DEF Commit, IInv, TypeInv, TypeOK
  <2>. QED  BY <2>2, <2>3
<1>. QED  BY <1>1, InductiveInvariant, PTL DEF Spec, DecisionKept

-----------------------------------------------------------------------------
(* The refinement of UploadLifecycle.  It needs what the code does not     *)
(* guarantee by itself: one publish tick, one operator and no manual       *)
(* upload at a time, and neither an answer of YouTube nor the commit after *)
(* it lost.                                                                *)

OneAtATime ==
  /\ \A s, t \in Ticks : s = t
  /\ \A e, f \in Editors : e = f
  /\ Triggers = {}
  /\ Faults \intersect {"lost", "garbled", "commit", "crash"} = {}

\* Rows are inserted once, and the holder of a lock has the row it holds.
RowInv ==
  \A u \in Uploads :
    /\ row[u].id # 0 => lastId[u] # 0
    /\ row[u].id = 0 => row[u].publish = "draft"
    /\ lock[u] # NoOne => row[u].id # 0 /\ mem[lock[u]].id = row[u].id

\* A video YouTube made is known to the row, unless it is deleted, or to the tick
\* that is about to commit it; until then the tick's upload has none.
VideoInv ==
  /\ \A u \in Uploads : created[u] # 0 =>
       /\ lastId[u] # 0
       /\ \/ row[u].yt # 0 \/ row[u].id = 0
          \/ \E s \in Publishers : cur[s] = u /\ pc[s] = "commit"
  /\ \A s \in Publishers : pc[s] \in UploadPcs \ {"commit"} => created[cur[s]] = 0
  /\ \A s \in Publishers : pc[s] = "commit" /\ created[cur[s]] # 0 => mem[s].yt # 0

\* What an operator's request has checked still holds when it writes.
EditInv ==
  \A e \in Editors : pc[e] \in {"approve", "reject", "schedule"} =>
    /\ lastId[cur[e]] # 0
    /\ Allowed(mem[e], pc[e])
    /\ SameRow(e) => mem[e].publish = row[cur[e]].publish

\* A row keeps what an operator sees of it.
SameFace(u) ==
  row'[u].id = row[u].id /\ row'[u].publish = row[u].publish /\ lastId'[u] = lastId[u]

\* There is one publisher, a tick.
LEMMA OnePublisher ==
  ASSUME OneAtATime
  PROVE  /\ Publishers = Ticks
         /\ \A s, t \in Publishers : s = t
BY DEF OneAtATime, Publishers

\* Bookkeeping leaves the rest of a row alone.
LEMMA OtherColumns ==
  ASSUME NEW r \in Row, NEW new,
         (\E n : new = [r EXCEPT !.retries = n]) \/ (\E st : new = [r EXCEPT !.status = st])
  PROVE  new.id = r.id /\ new.publish = r.publish /\ new.yt = r.yt
BY DEF Row

\* A step of a tick's loop: it holds no lock, makes no video and keeps the row's face.
LEMMA TickEffect ==
  ASSUME TypeOK, AcceptedInv, NEW t \in Ticks, TickStep(t)
  PROVE  /\ UNCHANGED <<lock, created, lastId>>
         /\ \A u \in Uploads : SameFace(u) /\ row'[u].yt = row[u].yt
         /\ pc[t] \notin UploadPcs
         /\ pc'[t] \in TickPcs \union {"prepare"}
         /\ pc'[t] = "prepare" => /\ cur'[t] = cur[t]
                                  /\ pc[t] = "fetch"
                                  /\ row[cur[t]].publish = "scheduled"
                                  /\ row[cur[t]].yt = 0
         /\ \A s \in Sessions \ {t} : pc'[s] = pc[s] /\ cur'[s] = cur[s] /\ mem'[s] = mem[s]
<1> USE SessionKinds
<1>1. ASSUME TickList(t) \/ TickTake(t) \/ TickEnd(t) \/ TickFetchFails(t) \/ TickRecover(t)
      PROVE  /\ UNCHANGED <<lock, created, lastId, row, mem>>
             /\ pc[t] \notin UploadPcs /\ pc'[t] \in TickPcs
             /\ \A s \in Sessions \ {t} : pc'[s] = pc[s] /\ cur'[s] = cur[s]
  BY <1>1 DEF TickList, TickTake, TickEnd, TickFetchFails, TickRecover, db, youtube, Goto,
              UploadPcs, TickPcs, TypeOK
<1>2. CASE TickList(t) \/ TickTake(t) \/ TickEnd(t) \/ TickFetchFails(t) \/ TickRecover(t)
  BY <1>1, <1>2 DEF SameFace, TickPcs
<1>3. CASE TickFetch(t)
  <2>1. \/ pc'[t] = "next"
        \/ pc'[t] = AfterGuards(row[cur[t]])
    BY <1>3 DEF TickFetch, Goto, Close, TypeOK
  <2>2. /\ UNCHANGED <<row, lastId, lock, created, cur>> /\ pc[t] = "fetch"
        /\ \A s \in Sessions \ {t} : pc'[s] = pc[s] /\ mem'[s] = mem[s]
    BY <1>3 DEF TickFetch, Goto, Close, TypeOK, db, youtube
  <2>3. /\ pc'[t] \in {"next", "guard", "prepare"}
        /\ pc'[t] = "prepare" => row[cur[t]].publish = "scheduled" /\ row[cur[t]].yt = 0
    BY <2>1 DEF AfterGuards
  <2>. QED  BY <2>2, <2>3 DEF SameFace, UploadPcs, TickPcs
<1>4. CASE TickRetry(t) \/ TickGiveUp(t)
  <2>1. /\ UNCHANGED <<lastId, lock, created, cur, mem>>
        /\ pc[t] \in {"retry", "giveup"} /\ pc'[t] \in {"fetch", "next"}
        /\ \A s \in Sessions \ {t} : pc'[s] = pc[s]
    BY <1>4 DEF TickRetry, TickGiveUp, Goto, TypeOK, youtube
  <2>2. PICK new : /\ WriteOrLog(t, new)
                   /\ \/ new = [row[cur[t]] EXCEPT !.retries = listed[t][cur[t]].retries + 1]
                      \/ new = [row[cur[t]] EXCEPT !.status = "failed"]
    BY <1>4 DEF TickRetry, TickGiveUp
  <2>3. /\ new.id = row[cur[t]].id /\ new.publish = row[cur[t]].publish
        /\ new.yt = row[cur[t]].yt
    <3>1. row[cur[t]] \in Row  BY DEF TypeOK
    <3>. QED  BY <2>2, <3>1, OtherColumns
  <2>4. \A u \in Uploads : SameFace(u) /\ row'[u].yt = row[u].yt
    BY <2>1, <2>2, <2>3, WriteOrLogEffect DEF SameFace
  <2>. QED  BY <2>1, <2>4 DEF UploadPcs, TickPcs
<1>5. CASE TickGuard(t)
  <2> DEFINE new == [mem[t] EXCEPT !.status = "published"]
  <2>1. new.publish = mem[t].publish /\ new.yt = mem[t].yt
    <3>1. mem[t] \in Row  BY DEF TypeOK
    <3>. QED  BY <3>1, OtherColumns
  <2>2. /\ row' = [row EXCEPT ![cur[t]] = Flushed(row[cur[t]], mem[t], new)]
        /\ UNCHANGED <<lastId, lock, created, cur>>
        /\ pc[t] = "guard" /\ pc'[t] = "next"
        /\ \A s \in Sessions \ {t} : pc'[s] = pc[s] /\ mem'[s] = mem[s]
    BY <1>5 DEF TickGuard, Goto, Close, TypeOK, youtube
  <2> HIDE DEF new
  <2>3. \A u \in Uploads : SameFace(u) /\ row'[u].yt = row[u].yt
    BY <2>1, <2>2 DEF SameFace, Flushed, TypeOK
  <2>. QED  BY <2>2, <2>3 DEF UploadPcs, TickPcs
<1>. QED  BY <1>2, <1>3, <1>4, <1>5 DEF TickStep

\* A publisher rolls back: only its own object and lock are gone.
LEMMA AbortEffect ==
  ASSUME TypeOK, NEW s \in Publishers, Abort(s)
  PROVE  /\ UNCHANGED <<row, lastId, cur>>
         /\ \A u \in Uploads : lock'[u] # NoOne => lock'[u] = lock[u] /\ lock[u] # s
         /\ pc'[s] \in {"aborted", "idle"}
         /\ \A r \in Sessions \ {s} : pc'[r] = pc[r] /\ mem'[r] = mem[r]
BY SessionKinds DEF Abort, Close, Goto, TypeOK

\* A flush keeps the primary key, since it finds the row or fails.
LEMMA FlushEffect ==
  ASSUME TypeOK, LockInv, RowInv, NEW s \in Publishers, HasRow(s), NEW new, Flush(s, new)
  PROVE  /\ lock'[cur[s]] = s /\ row[cur[s]].id # 0 /\ mem'[s].id = row[cur[s]].id
         /\ \A u \in Uploads \ {cur[s]} : lock'[u] = lock[u]
         /\ \A r \in Sessions \ {s} : mem'[r] = mem[r]
<1> USE SessionKinds, SessionAssumption
<1>1. cur[s] \in Uploads /\ s # NoOne  BY DEF TypeOK
<1>2. row[cur[s]].id # 0 /\ Visible(s).id = row[cur[s]].id
  BY <1>1 DEF HasRow, SameRow, Visible, RowInv
<1>. QED  BY <1>1, <1>2 DEF Flush, Flushed, TypeOK

\* A publisher's own steps keep the face of every row: it writes only the row it
\* holds, and of that not the decision.
LEMMA UploadEffect ==
  ASSUME OneAtATime, IInv, RowInv, NEW s \in Publishers, UploadStep(s)
  PROVE  /\ UNCHANGED <<lastId, cur>>
         /\ \A u \in Uploads : SameFace(u) /\ (u # cur[s] \/ ~Commit(s) => row'[u].yt = row[u].yt)
         /\ \A r \in Sessions \ {s} : pc'[r] = pc[r] /\ mem'[r] = mem[r]
<1> USE SessionKinds, SessionAssumption DEF IInv, TypeInv
<1>1. cur[s] \in Uploads /\ s # NoOne  BY DEF TypeOK
<1>2. ASSUME Abort(s) PROVE
        /\ UNCHANGED <<lastId, cur, row>>
        /\ \A r \in Sessions \ {s} : pc'[r] = pc[r] /\ mem'[r] = mem[r]
  BY <1>2, AbortEffect
<1>3. ASSUME Prepare(s) \/ Answered(s) \/ Refused(s) \/ (TimedOut(s) /\ ~Abort(s)) PROVE
        /\ UNCHANGED <<lastId, cur, row>>
        /\ \A r \in Sessions \ {s} : pc'[r] = pc[r] /\ mem'[r] = mem[r]
  BY <1>3 DEF Prepare, Answered, Refused, TimedOut, Goto, db, TypeOK
<1>4. ASSUME MarkUploading(s) \/ MarkFailed(s) PROVE
        /\ UNCHANGED <<lastId, cur, row>>
        /\ \A r \in Sessions \ {s} : pc'[r] = pc[r] /\ mem'[r] = mem[r]
  BY <1>4 DEF MarkUploading, MarkFailed, Flush, Goto, TypeOK
<1>5. CASE UNCHANGED <<lastId, cur, row>> /\
           \A r \in Sessions \ {s} : pc'[r] = pc[r] /\ mem'[r] = mem[r]
  BY <1>5 DEF SameFace
<1>6. CASE Commit(s)
  <2>1. lock[cur[s]] = s  BY <1>6 DEF LockInv, Commit
  <2>2. row[cur[s]].id # 0 /\ mem[s].id = row[cur[s]].id /\ mem[s].publish = row[cur[s]].publish
    BY <1>1, <2>1 DEF RowInv, DecisionInv
  <2>3. /\ UNCHANGED <<lastId, cur>> /\ row' = [row EXCEPT ![cur[s]] = mem[s]]
        /\ \A r \in Sessions \ {s} : pc'[r] = pc[r] /\ mem'[r] = mem[r]
    BY <1>6 DEF Commit, Close, Goto, TypeOK
  <2>. QED  BY <1>1, <1>6, <2>2, <2>3 DEF SameFace, TypeOK
<1>. QED
  BY <1>2, <1>3, <1>4, <1>5, <1>6 DEF UploadStep, Raises, StaleWrite

\* Operators' requests touch neither the publisher nor the lock, and write only rows
\* nobody has locked.
LEMMA EditEffect ==
  ASSUME TypeOK, NEW e \in Editors, EditorStep(e)
  PROVE  /\ UNCHANGED <<lock, created, lastId>>
         /\ \A u \in Uploads : row'[u] = row[u] \/ Free(u)
         /\ \A r \in Sessions \ {e} : pc'[r] = pc[r] /\ cur'[r] = cur[r] /\ mem'[r] = mem[r]
<1> USE SessionKinds
<1>. QED
  BY DEF EditorStep, EditorRead, EditorYouTubeDelete, EditorUpdate, EditorDelete, Close, Goto,
         db, youtube, TypeOK

\* What a request does to the row it is about: it writes the decision it was asked
\* for, or deletes the row.
LEMMA EditRow ==
  ASSUME TypeOK, NEW e \in Editors, EditorStep(e), NEW u \in Uploads
  PROVE  \/ row'[u] = row[u]
         \/ /\ u = cur[e] /\ SameRow(e) /\ Free(u) /\ pc[e] \in {"approve", "reject", "schedule"}
            /\ row'[u].id = row[u].id /\ row'[u].yt = row[u].yt
            /\ row'[u].publish = IF Edited(mem[e], pc[e]).publish # mem[e].publish
                                 THEN Edited(mem[e], pc[e]).publish ELSE row[u].publish
         \/ u = cur[e] /\ SameRow(e) /\ Free(u) /\ row'[u] = NoRow
<1> USE SessionKinds
<1>1. CASE (\E v \in Uploads, k \in Requests : EditorRead(e, v, k)) \/ EditorYouTubeDelete(e)
  BY <1>1 DEF EditorRead, EditorYouTubeDelete, db
<1>2. CASE EditorUpdate(e)
  <2>1. mem[e] \in Row /\ cur[e] \in Uploads  BY DEF TypeOK
  <2>2. Edited(mem[e], pc[e]).yt = mem[e].yt
    BY <2>1 DEF Edited, Row
  <2>. QED  BY <1>2, <2>1, <2>2 DEF EditorUpdate, Flushed, TypeOK
<1>3. CASE EditorDelete(e)
  BY <1>3 DEF EditorDelete, TypeOK
<1>. QED  BY <1>1, <1>2, <1>3 DEF EditorStep

\* With what OneAtATime leaves out, the steps are these.
LEMMA StepKinds ==
  ASSUME OneAtATime, [Next]_vars
  PROVE  \/ \E u \in Uploads : PipelineCreates(u) \/ TimePasses(u)
         \/ \E t \in Ticks : TickStep(t)
         \/ \E s \in Publishers : UploadStep(s)
         \/ \E e \in Editors : EditorStep(e)
         \/ UNCHANGED vars
<1>1. ~Crash  BY DEF OneAtATime, Crash, Fault
<1>2. ~\E m \in Triggers : TriggerStep(m)  BY DEF OneAtATime
<1>. QED  BY <1>1, <1>2 DEF Next

-----------------------------------------------------------------------------
\* No row, no lock.
LEMMA RowInit == Init => RowInv
<1>1. NoRow.id = 0 /\ NoRow.publish = "draft"
  BY DEF NoRow
<1>2. ASSUME Init, NEW u \in Uploads PROVE row[u] = NoRow /\ lock[u] = NoOne
  BY <1>2 DEF Init
<1>. QED  BY <1>1, <1>2 DEF RowInv

\* Only PipelineCreates makes a row and only a request deletes one, and it waits
\* for the lock.
LEMMA RowStep == OneAtATime /\ IInv /\ RowInv /\ [Next]_vars => RowInv'
<1> SUFFICES ASSUME OneAtATime, IInv, RowInv, [Next]_vars PROVE RowInv'
  OBVIOUS
<1> USE SessionKinds, SessionAssumption DEF RowInv, IInv, TypeInv
<1>1. \A u \in Uploads : lock[u] # NoOne =>
        lock[u] \in Publishers /\ cur[lock[u]] = u /\ pc[lock[u]] \in UploadPcs
  BY DEF LockInv
<1>2. ASSUME NEW v \in Uploads, PipelineCreates(v) PROVE RowInv'
  <2>1. \A p, st : NewRow(1, p, st).id = 1
    BY DEF NewRow, NoRow
  <2>2. /\ row'[v].id = 1 /\ lastId'[v] = 1 /\ lock[v] = NoOne
        /\ \A u \in Uploads \ {v} : row'[u] = row[u] /\ lastId'[u] = lastId[u]
        /\ UNCHANGED <<lock, mem>>
    BY <1>2, <2>1 DEF PipelineCreates, Free, TypeOK
  <2>. QED  BY <2>2
<1>7. ASSUME NEW v \in Uploads, TimePasses(v) PROVE RowInv'
  BY <1>7 DEF TimePasses
<1>3. ASSUME NEW t \in Ticks, TickStep(t) PROVE RowInv'
  BY <1>1, <1>3, TickEffect DEF SameFace
<1>4. ASSUME NEW s \in Publishers, UploadStep(s) PROVE RowInv'
  <2>1. \A u \in Uploads : SameFace(u)  BY <1>4, UploadEffect
  <2>2. \A r \in Sessions \ {s} : mem'[r] = mem[r]  BY <1>4, UploadEffect
  <2>3. ASSUME NEW u \in Uploads, lock'[u] # NoOne
        PROVE  row[u].id # 0 /\ mem'[lock'[u]].id = row[u].id
    <3>1. cur[s] \in Uploads /\ s # NoOne /\ mem[s] \in Row  BY DEF TypeOK
    <3>2. CASE Abort(s)
      BY <1>1, <2>2, <2>3, <3>2, AbortEffect
    <3>3. CASE Prepare(s)
      BY <2>3, <3>3 DEF Prepare, db
    <3>4. CASE MarkUploading(s) \/ MarkFailed(s)
      <4>1. HasRow(s) /\ \E new : Flush(s, new)
        BY <3>4 DEF MarkUploading, MarkFailed
      <4>2. /\ lock'[cur[s]] = s /\ row[cur[s]].id # 0 /\ mem'[s].id = row[cur[s]].id
            /\ \A v \in Uploads \ {cur[s]} : lock'[v] = lock[v]
        BY <4>1, FlushEffect
      <4>. QED  BY <1>1, <2>2, <2>3, <4>2
    <3>5. CASE Answered(s) \/ Refused(s) \/ (TimedOut(s) /\ ~Abort(s))
      <4>1. lock' = lock
        BY <3>5 DEF Answered, Refused, TimedOut, db
      <4>2. mem'[s] = PublishedMem(s, created[cur[s]] + 1) \/ mem'[s] = FailedMem(s)
        <5>1. \/ mem' = [mem EXCEPT ![s] = PublishedMem(s, created[cur[s]] + 1)]
              \/ mem' = [mem EXCEPT ![s] = FailedMem(s)]
          BY <3>5 DEF Answered, Refused, TimedOut
        <5>. QED  BY <5>1 DEF TypeOK
      <4>3. mem'[s].id = mem[s].id
        BY <3>1, <4>2 DEF PublishedMem, FailedMem, Row
      <4>. QED  BY <1>1, <2>2, <2>3, <4>1, <4>3
    <3>6. CASE Commit(s)
      BY <1>1, <2>2, <2>3, <3>1, <3>6 DEF Commit, LockInv, TypeOK
    <3>. QED
      BY <1>4, <3>2, <3>3, <3>4, <3>5, <3>6 DEF UploadStep, Raises, StaleWrite
  <2>. QED  BY <2>1, <2>3 DEF SameFace
<1>5. ASSUME NEW e \in Editors, EditorStep(e) PROVE RowInv'
  <2>1. /\ UNCHANGED <<lock, lastId>>
        /\ \A r \in Sessions \ {e} : mem'[r] = mem[r]
    BY <1>5, EditEffect
  <2>2. ASSUME NEW u \in Uploads
        PROVE  \/ row'[u] = row[u]
               \/ /\ Free(u) /\ row[u].id # 0
                  /\ row'[u].id = row[u].id \/ row'[u] = NoRow
    BY <1>5, EditRow DEF SameRow
  <2>3. \A u \in Uploads : lock[u] # e  BY <1>1
  <2>. QED  BY <1>1, <2>1, <2>2, <2>3 DEF Free, NoRow
<1>6. CASE UNCHANGED vars
  BY <1>6 DEF vars
<1>. QED  BY <1>2, <1>3, <1>4, <1>5, <1>6, <1>7, StepKinds

-----------------------------------------------------------------------------
\* At first there is no video and no upload under way.
LEMMA VideoInit == Init => VideoInv
<1> SUFFICES ASSUME Init PROVE VideoInv
  OBVIOUS
<1>1. \A u \in Uploads : created[u] = 0  BY DEF Init
<1>2. \A s \in Publishers : pc[s] = "idle"  BY SessionKinds DEF Init
<1>. QED  BY <1>1, <1>2 DEF VideoInv, UploadPcs

\* A tick takes up a row without a video, makes one for it at most and writes it down
\* before it takes up another.
LEMMA VideoStep == OneAtATime /\ IInv /\ RowInv /\ VideoInv /\ [Next]_vars => VideoInv'
<1> SUFFICES ASSUME OneAtATime, IInv, RowInv, VideoInv, [Next]_vars PROVE VideoInv'
  OBVIOUS
<1> USE SessionKinds, SessionAssumption, OnePublisher DEF VideoInv, IInv, TypeInv
<1>1. ASSUME NEW v \in Uploads, PipelineCreates(v) PROVE VideoInv'
  <2>1. /\ created[v] = 0 /\ UNCHANGED <<created, pc, cur, mem>>
        /\ \A u \in Uploads \ {v} : row'[u] = row[u] /\ lastId'[u] = lastId[u]
    BY <1>1 DEF PipelineCreates, youtube, TypeOK
  <2>. QED  BY <2>1
<1>2. ASSUME NEW v \in Uploads, TimePasses(v) PROVE VideoInv'
  BY <1>2 DEF TimePasses, youtube
<1>3. ASSUME NEW t \in Ticks, TickStep(t) PROVE VideoInv'
  <2>1. /\ UNCHANGED <<created, lastId>>
        /\ \A u \in Uploads : row'[u].id = row[u].id /\ row'[u].yt = row[u].yt
    BY <1>3, TickEffect DEF SameFace
  <2>2. \A s \in Publishers : s = t  BY OnePublisher
  <2>3. pc[t] # "commit" /\ pc'[t] # "commit"
    BY <1>3, TickEffect DEF UploadPcs, TickPcs
  <2>4. pc'[t] \in UploadPcs => pc'[t] = "prepare"
    BY <1>3, TickEffect DEF UploadPcs, TickPcs
  <2>5. ASSUME pc'[t] = "prepare" PROVE created[cur'[t]] = 0
    <3>1. /\ cur'[t] = cur[t] /\ row[cur[t]].publish = "scheduled" /\ row[cur[t]].yt = 0
      BY <1>3, <2>5, TickEffect
    <3>2. cur[t] \in Uploads /\ row[cur[t]].id # 0
      BY <3>1 DEF RowInv, TypeOK
    <3>. QED  BY <2>2, <2>3, <3>1, <3>2
  <2>. QED  BY <2>1, <2>2, <2>3, <2>4, <2>5
<1>4. ASSUME NEW s \in Publishers, UploadStep(s) PROVE VideoInv'
  <2>1. /\ UNCHANGED <<lastId, cur>> /\ cur[s] \in Uploads
        /\ \A u \in Uploads : row'[u].id = row[u].id
        /\ \A u \in Uploads : u # cur[s] \/ ~Commit(s) => row'[u].yt = row[u].yt
    BY <1>4, UploadEffect DEF SameFace, TypeOK
  <2>2. \A r \in Publishers : r = s  BY OnePublisher
  <2>3. CASE Abort(s) /\ UNCHANGED created /\ pc[s] # "commit"
    <3>1. pc'[s] \in {"aborted", "idle"}  BY <2>3, AbortEffect
    <3>2. ~Commit(s)  BY <2>3 DEF Commit
    <3>. QED  BY <2>1, <2>2, <2>3, <3>1, <3>2 DEF UploadPcs
  <2>4. CASE Prepare(s) \/ MarkUploading(s) \/ MarkFailed(s)
    <3>1. /\ pc[s] \in UploadPcs \ {"commit"} /\ pc'[s] \in UploadPcs
          /\ UNCHANGED created /\ ~Commit(s)
      BY <2>4 DEF Prepare, MarkUploading, MarkFailed, Commit, UploadPcs, Goto, youtube, TypeOK
    <3>. QED  BY <2>1, <2>2, <3>1
  <2>5. CASE Answered(s)
    <3>1. pc[s] = "sending" /\ created[cur[s]] = 0
      BY <2>5 DEF Answered, UploadPcs
    <3>2. lastId[cur[s]] # 0
      BY <2>1, <3>1 DEF LockInv, RowInv
    <3>3. /\ pc'[s] = "commit" /\ ~Commit(s)
          /\ \A u \in Uploads \ {cur[s]} : created'[u] = created[u]
      BY <2>5 DEF Answered, Goto, YouTubeAccepts, Commit, TypeOK
    <3>4. mem'[s].yt = 1
      <4>1. mem'[s] = PublishedMem(s, 0 + 1)
        BY <2>5, <3>1 DEF Answered, TypeOK
      <4>2. mem[s] \in Row  BY DEF TypeOK
      <4>. QED  BY <4>1, <4>2 DEF PublishedMem, Row
    <3>. QED  BY <2>1, <2>2, <3>1, <3>2, <3>3, <3>4
  <2>6. CASE Refused(s) \/ (TimedOut(s) /\ ~Abort(s))
    <3>1. /\ pc[s] \in UploadPcs \ {"commit"} /\ pc'[s] = "commit" /\ ~Commit(s)
      BY <2>6 DEF Refused, TimedOut, Goto, UploadPcs, Commit, TypeOK
    <3>2. UNCHANGED created
      BY <2>6 DEF Refused, TimedOut, OneAtATime, Fault, youtube
    <3>. QED  BY <2>1, <2>2, <3>1, <3>2
  <2>7. CASE Commit(s)
    <3>1. /\ UNCHANGED created /\ pc[s] = "commit" /\ pc'[s] \notin UploadPcs
          /\ row'[cur[s]] = mem[s]
      BY <2>1, <2>7 DEF Commit, Close, Goto, UploadPcs, youtube, TypeOK
    <3>. QED  BY <2>1, <2>2, <3>1 DEF UploadPcs
  <2>8. Raises(s) \/ StaleWrite(s) \/ (TimedOut(s) /\ Abort(s)) =>
          Abort(s) /\ UNCHANGED created /\ pc[s] # "commit"
    BY DEF Raises, StaleWrite, TimedOut, OneAtATime, Fault, youtube
  <2>. QED  BY <1>4, <2>3, <2>4, <2>5, <2>6, <2>7, <2>8 DEF UploadStep
<1>5. ASSUME NEW e \in Editors, EditorStep(e) PROVE VideoInv'
  <2>1. /\ UNCHANGED <<created, lastId>>
        /\ \A s \in Publishers : pc'[s] = pc[s] /\ cur'[s] = cur[s] /\ mem'[s] = mem[s]
    BY <1>5, EditEffect
  <2>2. \A u \in Uploads : row'[u].id = 0 \/ (row'[u].id = row[u].id /\ row'[u].yt = row[u].yt)
    BY <1>5, EditRow DEF NoRow
  <2>. QED  BY <2>1, <2>2
<1>6. CASE UNCHANGED vars
  BY <1>6 DEF vars
<1>. QED  BY <1>1, <1>2, <1>3, <1>4, <1>5, <1>6, StepKinds

-----------------------------------------------------------------------------
\* At first no request is under way.
LEMMA EditInit == Init => EditInv
BY SessionKinds DEF Init, EditInv

\* Publishers keep decisions, and there is no second operator.
LEMMA EditStep == OneAtATime /\ IInv /\ RowInv /\ EditInv /\ [Next]_vars => EditInv'
<1> SUFFICES ASSUME OneAtATime, IInv, RowInv, EditInv, [Next]_vars PROVE EditInv'
  OBVIOUS
<1> USE SessionKinds, SessionAssumption DEF EditInv, IInv, TypeInv
<1>1. \A e \in Editors : cur[e] \in Uploads  BY DEF TypeOK
<1>2. ASSUME NEW v \in Uploads, PipelineCreates(v) PROVE EditInv'
  <2>1. /\ lastId[v] = 0 /\ UNCHANGED <<pc, cur, mem>>
        /\ \A u \in Uploads \ {v} : row'[u] = row[u] /\ lastId'[u] = lastId[u]
    BY <1>2 DEF PipelineCreates, TypeOK
  <2>. QED  BY <1>1, <2>1 DEF SameRow
<1>3. ASSUME NEW v \in Uploads, TimePasses(v) PROVE EditInv'
  BY <1>3 DEF TimePasses, SameRow
<1>4. ASSUME NEW s \in Publishers, \A u \in Uploads : SameFace(u),
             \A r \in Sessions \ {s} : pc'[r] = pc[r] /\ cur'[r] = cur[r] /\ mem'[r] = mem[r]
      PROVE  EditInv'
  <2>1. \A e \in Editors : pc'[e] = pc[e] /\ cur'[e] = cur[e] /\ mem'[e] = mem[e]
    BY <1>4
  <2>. QED  BY <1>1, <1>4, <2>1 DEF SameFace, SameRow
<1>5. ASSUME NEW t \in Ticks, TickStep(t) PROVE EditInv'
  BY <1>4, <1>5, TickEffect
<1>6. ASSUME NEW s \in Publishers, UploadStep(s) PROVE EditInv'
  BY <1>4, <1>6, UploadEffect
<1>7. ASSUME NEW e \in Editors, EditorStep(e) PROVE EditInv'
  <2>1. \A f \in Editors : f = e  BY DEF OneAtATime
  <2>2. ASSUME NEW u \in Uploads, NEW k \in Requests, EditorRead(e, u, k) PROVE EditInv'
    <3>1. /\ row[u].id # 0 /\ Allowed(row[u], k) /\ UNCHANGED <<row, lastId>>
          /\ cur'[e] = u /\ mem'[e] = row[u] /\ pc'[e] \in {k, "ytdelete"}
      BY <2>2 DEF EditorRead, Goto, db, TypeOK
    <3>. QED  BY <2>1, <3>1 DEF RowInv, SameRow
  <2>3. CASE EditorYouTubeDelete(e) \/ EditorUpdate(e) \/ EditorDelete(e)
    <3>1. pc'[e] \in {"idle", "delete"}
      BY <2>3 DEF EditorYouTubeDelete, EditorUpdate, EditorDelete, Close, Goto, TypeOK
    <3>. QED  BY <2>1, <3>1
  <2>. QED  BY <1>7, <2>2, <2>3 DEF EditorStep
<1>8. CASE UNCHANGED vars
  BY <1>8 DEF vars, SameRow
<1>. QED  BY <1>2, <1>3, <1>5, <1>6, <1>7, <1>8, StepKinds

-----------------------------------------------------------------------------
SerialInv == IInv /\ RowInv /\ VideoInv /\ EditInv

\* Nothing is decided, taken or made at first.
LEMMA LifecycleInit == Init => Lifecycle!Init
<1> SUFFICES ASSUME Init PROVE Lifecycle!Init
  OBVIOUS
<1>1. \A u \in Uploads : Stage(u) = "none"
  <2>1. NoRow.id = 0  BY DEF NoRow
  <2>. QED  BY <2>1 DEF Init, Stage
<1>2. \A u \in Uploads : Taken(u) = FALSE
  BY SessionKinds DEF Init, Taken
<1>. QED  BY <1>1, <1>2 DEF Lifecycle!Init, Init

\* The same to an operator: neither a decision nor a video is new.
SameStage == \A u \in Uploads : Stage(u)' = Stage(u)
SameTaken == \A u \in Uploads : Taken(u)' = Taken(u)

\* A row that keeps its face keeps its stage.
LEMMA FaceStage ==
  ASSUME \A u \in Uploads : SameFace(u)
  PROVE  SameStage
BY DEF SameFace, SameStage, Stage

\* What no operator can see is a stutter of UploadLifecycle.
LEMMA Unseen ==
  ASSUME SameStage, SameTaken, UNCHANGED created
  PROVE  UNCHANGED Lifecycle!vars
BY DEF SameStage, SameTaken, Lifecycle!vars

\* With one publisher, its upload is the one that is taken, if any is.
LEMMA TakenBy ==
  ASSUME OneAtATime, NEW s \in Publishers, NEW u \in Uploads
  PROVE  Taken(u) <=> cur[s] = u /\ pc[s] \in {"prepare", "mark", "sending"}
<1>1. \A r \in Publishers : r = s  BY OnePublisher
<1>. QED  BY <1>1 DEF Taken

\* ... and so it is after a step.
LEMMA TakenByNext ==
  ASSUME OneAtATime, NEW s \in Publishers, NEW u \in Uploads
  PROVE  Taken(u)' <=> cur'[s] = u /\ pc'[s] \in {"prepare", "mark", "sending"}
<1>1. \A r \in Publishers : r = s  BY OnePublisher
<1>. QED  BY <1>1 DEF Taken

\* The tick takes up an upload.
LEMMA IsTake ==
  ASSUME NEW u \in Uploads, SameStage, UNCHANGED created,
         Stage(u) = "scheduled", created[u] = 0, ~Taken(u), Taken(u)',
         \A v \in Uploads \ {u} : Taken(v)' = Taken(v)
  PROVE  Lifecycle!Next
<1>1. Lifecycle!Take(u)
  <2>1. Taken(u) = FALSE /\ Taken(u)' = TRUE  BY DEF Taken
  <2>. QED  BY <2>1 DEF Lifecycle!Take, SameStage
<1>. QED  BY <1>1 DEF Lifecycle!Next

\* The tick gives an upload up, for now or for good.
LEMMA IsRelease ==
  ASSUME NEW u \in Uploads, SameStage, UNCHANGED created, Taken(u), ~Taken(u)',
         \A v \in Uploads \ {u} : Taken(v)' = Taken(v)
  PROVE  Lifecycle!Next
<1>1. Lifecycle!Release(u)
  <2>1. Taken(u) = TRUE /\ Taken(u)' = FALSE  BY DEF Taken
  <2>. QED  BY <2>1 DEF Lifecycle!Release, SameStage
<1>. QED  BY <1>1 DEF Lifecycle!Next

\* An operator decides.
LEMMA IsDecision ==
  ASSUME NEW u \in Uploads, SameTaken, UNCHANGED created,
         LegalTransition(Stage(u), Stage(u)'), Stage(u) \in PublishStatus,
         \A v \in Uploads \ {u} : Stage(v)' = Stage(v)
  PROVE  Lifecycle!Next
<1>1. \A from, to : Stage(u) = from /\ Stage(u)' = to => Lifecycle!Decide(u, from, to)
  BY DEF Lifecycle!Decide, SameTaken
<1>2. \/ Stage(u) = "draft" /\ Stage(u)' = "approved"
      \/ Stage(u) = "approved" /\ Stage(u)' = "scheduled"
      \/ Stage(u) = "approved" /\ Stage(u)' = "rejected"
      \/ Stage(u) = "scheduled" /\ Stage(u)' = "rejected"
  BY DEF LegalTransition, PublishStatus
<1>3. Lifecycle!Approve(u) \/ Lifecycle!Schedule(u) \/ Lifecycle!Reject(u)
  BY <1>1, <1>2 DEF Lifecycle!Approve, Lifecycle!Schedule, Lifecycle!Reject
<1>. QED  BY <1>3 DEF Lifecycle!Next

\* The pipeline's insert is Insert.
LEMMA CreateRefines ==
  ASSUME IInv, RowInv, NEW u \in Uploads, PipelineCreates(u)
  PROVE  Lifecycle!Next
<1> USE DEF IInv, TypeInv
<1>1. SameTaken /\ UNCHANGED created
  BY DEF PipelineCreates, SameTaken, Taken, youtube
<1>2. LET p == IF AutoPublish THEN "scheduled" ELSE "draft" IN
        row'[u] = NewRow(1, p, "scheduled")
  BY DEF PipelineCreates, TypeOK
<1>3. \A p, st : NewRow(1, p, st).id = 1 /\ NewRow(1, p, st).publish = p
  BY DEF NewRow, NoRow
<1>4. Stage(u) = "none"
  BY DEF PipelineCreates, RowInv, Stage
<1>5. Stage(u)' = IF AutoPublish THEN "scheduled" ELSE "draft"
  BY <1>2, <1>3 DEF Stage
<1>6. \A v \in Uploads \ {u} : Stage(v)' = Stage(v)
  BY DEF PipelineCreates, Stage, TypeOK
<1>7. Lifecycle!Insert(u)
  BY <1>1, <1>4, <1>5, <1>6 DEF Lifecycle!Insert, SameTaken
<1>. QED  BY <1>7 DEF Lifecycle!Next

\* The tick's loop: a re-fetched row that passes the guards is taken, all else is
\* invisible.
LEMMA TickRefines ==
  ASSUME OneAtATime, SerialInv, NEW t \in Ticks, TickStep(t)
  PROVE  [Lifecycle!Next]_(Lifecycle!vars)
<1> USE SessionKinds DEF SerialInv, IInv, TypeInv
<1>1. /\ SameStage /\ UNCHANGED created /\ pc[t] \notin UploadPcs
      /\ pc'[t] \in TickPcs \union {"prepare"}
  BY TickEffect, FaceStage
<1>2. \A u \in Uploads : ~Taken(u)
  BY <1>1, TakenBy DEF UploadPcs
<1>3. CASE pc'[t] = "prepare"
  <2>1. /\ cur'[t] = cur[t] /\ cur[t] \in Uploads
        /\ row[cur[t]].publish = "scheduled" /\ row[cur[t]].yt = 0
    BY <1>3, TickEffect DEF TypeOK
  <2>2. row[cur[t]].id # 0
    BY <2>1 DEF RowInv
  <2>3. created[cur[t]] = 0
    <3>1. \A s \in Publishers : pc[s] # "commit"
      BY <1>1, OnePublisher DEF UploadPcs
    <3>. QED  BY <2>1, <2>2, <3>1 DEF VideoInv
  <2>4. Stage(cur[t]) = "scheduled"
    BY <2>1, <2>2 DEF Stage
  <2>5. \A u \in Uploads : Taken(u)' <=> u = cur[t]
    BY <1>3, <2>1, TakenByNext
  <2>6. \A u \in Uploads \ {cur[t]} : Taken(u)' = Taken(u)
    <3>1. \A u \in Uploads : Taken(u) \in BOOLEAN /\ Taken(u)' \in BOOLEAN
      BY DEF Taken
    <3>. QED  BY <1>2, <2>5, <3>1
  <2>. QED  BY <1>1, <1>2, <2>1, <2>3, <2>4, <2>5, <2>6, IsTake
<1>4. CASE pc'[t] # "prepare"
  <2>1. \A u \in Uploads : ~Taken(u)'
    BY <1>1, <1>4, TakenByNext DEF TickPcs
  <2>2. SameTaken
    <3>1. \A u \in Uploads : Taken(u) \in BOOLEAN /\ Taken(u)' \in BOOLEAN
      BY DEF Taken
    <3>. QED  BY <1>2, <2>1, <3>1 DEF SameTaken
  <2>. QED  BY <1>1, <2>2, Unseen
<1>. QED  BY <1>3, <1>4

\* run_upload_for_video: YouTube's answer is Upload, every way to give up is Release.
LEMMA UploadRefines ==
  ASSUME OneAtATime, SerialInv, NEW s \in Publishers, UploadStep(s)
  PROVE  [Lifecycle!Next]_(Lifecycle!vars)
<1> USE SessionKinds, SessionAssumption DEF SerialInv, IInv, TypeInv
<1> DEFINE Busy == {"prepare", "mark", "sending"}
<1>1. SameStage /\ cur' = cur /\ cur[s] \in Uploads
  BY UploadEffect, FaceStage DEF TypeOK
<1>2. \A u \in Uploads : /\ Taken(u) <=> cur[s] = u /\ pc[s] \in Busy
                         /\ Taken(u)' <=> cur[s] = u /\ pc'[s] \in Busy
  BY <1>1, TakenBy, TakenByNext
<1>3. \A u \in Uploads : Taken(u) \in BOOLEAN /\ Taken(u)' \in BOOLEAN
  BY DEF Taken
<1> HIDE DEF Busy
<1>4. \A u \in Uploads \ {cur[s]} : Taken(u)' = Taken(u)
  BY <1>2, <1>3
<1>5. ASSUME UNCHANGED created, pc[s] \in Busy, pc'[s] \notin Busy
      PROVE  Lifecycle!Next
  BY <1>1, <1>2, <1>4, <1>5, IsRelease
<1>6. ASSUME UNCHANGED created, pc[s] \in Busy <=> pc'[s] \in Busy
      PROVE  UNCHANGED Lifecycle!vars
  <2>1. SameTaken  BY <1>2, <1>3, <1>6 DEF SameTaken
  <2>. QED  BY <1>1, <1>6, <2>1, Unseen
<1>7. CASE Answered(s)
  <2>1. pc[s] = "sending" /\ pc'[s] = "commit" /\ created[cur[s]] = 0
    BY <1>7 DEF Answered, Goto, TypeOK, VideoInv, UploadPcs
  <2>2. created' = [created EXCEPT ![cur[s]] = 1]
    BY <1>7, <2>1 DEF Answered, YouTubeAccepts, TypeOK
  <2>3. Stage(cur[s]) # "deleted"
    <3>1. row[cur[s]].id # 0 /\ row[cur[s]] \in Row
      BY <1>1, <2>1 DEF LockInv, RowInv, TypeOK
    <3>. QED  BY <3>1 DEF Stage, Row, PublishStatus
  <2>4. Taken(cur[s]) = TRUE /\ Taken(cur[s])' = FALSE
    BY <1>1, <1>2, <1>3, <2>1 DEF Busy
  <2>5. Lifecycle!Upload(cur[s])
    BY <1>1, <1>4, <2>1, <2>2, <2>3, <2>4 DEF Lifecycle!Upload, SameStage
  <2>. QED  BY <1>1, <2>5 DEF Lifecycle!Next
<1>8. Raises(s) \/ StaleWrite(s) \/ TimedOut(s) \/ Refused(s) \/ Prepare(s) \/ MarkUploading(s)
      \/ MarkFailed(s) \/ Commit(s) => UNCHANGED created
  BY DEF Raises, StaleWrite, TimedOut, Refused, Prepare, MarkUploading, MarkFailed, Commit,
         OneAtATime, Fault, youtube
<1>9. Raises(s) \/ StaleWrite(s) \/ TimedOut(s) \/ Refused(s) \/ Commit(s) => pc'[s] \notin Busy
  <2>1. Abort(s) => pc'[s] \in {"aborted", "idle"}  BY AbortEffect
  <2>2. Goto(s, "commit") => pc'[s] = "commit"  BY DEF Goto, TypeOK
  <2>3. Commit(s) => pc'[s] \in {"next", "idle"}  BY DEF Commit, Close, Goto, TypeOK
  <2>. QED  BY <2>1, <2>2, <2>3 DEF Raises, StaleWrite, TimedOut, Refused, Busy
<1>10. Prepare(s) => pc[s] \in Busy
  BY DEF Prepare, Busy
<1>11. MarkUploading(s) => pc[s] \in Busy /\ pc'[s] \in Busy
  BY DEF MarkUploading, Goto, Busy, TypeOK
<1>12. MarkFailed(s) => pc[s] \notin Busy /\ pc'[s] \notin Busy
  BY DEF MarkFailed, Goto, Busy, TypeOK
<1>. QED
  BY <1>5, <1>6, <1>7, <1>8, <1>9, <1>10, <1>11, <1>12 DEF UploadStep

\* The publishing API: the transition table is that of UploadLifecycle.
LEMMA EditRefines ==
  ASSUME OneAtATime, SerialInv, NEW e \in Editors, EditorStep(e)
  PROVE  [Lifecycle!Next]_(Lifecycle!vars)
<1> USE SessionKinds, SessionAssumption DEF SerialInv, IInv, TypeInv
<1> SUFFICES ASSUME NEW u \in Uploads, u = cur[e] PROVE [Lifecycle!Next]_(Lifecycle!vars)
  BY DEF TypeOK
<1>1. /\ UNCHANGED <<created, lastId>>
      /\ \A r \in Publishers : pc'[r] = pc[r] /\ cur'[r] = cur[r]
  BY EditEffect
<1>2. SameTaken
  BY <1>1 DEF SameTaken, Taken
<1>3. \A v \in Uploads \ {u} : row'[v] = row[v]
  BY EditRow
<1>4. \A v \in Uploads \ {u} : Stage(v)' = Stage(v)
  BY <1>1, <1>3 DEF Stage
<1>5. CASE row'[u] = row[u]
  <2>1. SameStage
    BY <1>1, <1>3, <1>5 DEF SameStage, Stage
  <2>. QED  BY <1>1, <1>2, <2>1, Unseen
<1>6. CASE /\ SameRow(e) /\ pc[e] \in {"approve", "reject", "schedule"}
           /\ row'[u].id = row[u].id
           /\ row'[u].publish = IF Edited(mem[e], pc[e]).publish # mem[e].publish
                                     THEN Edited(mem[e], pc[e]).publish ELSE row[u].publish
  <2>1. /\ Allowed(mem[e], pc[e]) /\ mem[e].publish = row[u].publish
        /\ row[u].id # 0 /\ mem[e] \in Row
    BY <1>6 DEF EditInv, SameRow, TypeOK
  <2>2. LegalTransition(mem[e].publish, Edited(mem[e], pc[e]).publish)
    BY <1>6, <2>1 DEF Allowed, Edited, Row
  <2>3. Edited(mem[e], pc[e]).publish # mem[e].publish
    BY <2>1, <2>2 DEF LegalTransition, Row, PublishStatus
  <2>4. Stage(u) = mem[e].publish /\ Stage(u)' = Edited(mem[e], pc[e]).publish
    BY <1>1, <1>6, <2>1, <2>3 DEF Stage
  <2>5. Stage(u) \in PublishStatus
    BY <2>1, <2>4 DEF Row
  <2>. QED  BY <1>1, <1>2, <1>4, <2>2, <2>4, <2>5, IsDecision
<1>7. CASE SameRow(e) /\ row'[u] = NoRow
  <2>1. row[u].id # 0 /\ row[u].publish \in PublishStatus /\ lastId[u] # 0
    BY <1>1, <1>7 DEF SameRow, RowInv, TypeOK, Row
  <2>2. Stage(u) # "none"
    BY <2>1 DEF Stage, PublishStatus
  <2>3. Stage(u)' = "deleted"
    <3>1. row'[u].id = 0  BY <1>7 DEF NoRow
    <3>. QED  BY <1>1, <2>1, <3>1 DEF Stage
  <2>4. Lifecycle!Delete(u)
    BY <1>1, <1>2, <1>4, <2>2, <2>3 DEF Lifecycle!Delete, SameTaken
  <2>. QED  BY <1>1, <2>4 DEF Lifecycle!Next
<1>. QED  BY <1>1, <1>5, <1>6, <1>7, EditRow

\* Every step is one of UploadLifecycle or changes nothing an operator sees.
LEMMA LifecycleStep ==
  OneAtATime /\ SerialInv /\ [Next]_vars => [Lifecycle!Next]_(Lifecycle!vars)
<1> SUFFICES ASSUME OneAtATime, SerialInv, [Next]_vars
             PROVE  [Lifecycle!Next]_(Lifecycle!vars)
  OBVIOUS
<1>1. ASSUME NEW u \in Uploads, PipelineCreates(u) PROVE Lifecycle!Next
  BY <1>1, CreateRefines DEF SerialInv
<1>2. CASE (\E u \in Uploads : TimePasses(u)) \/ UNCHANGED vars
  <2>1. UNCHANGED <<row, lastId, pc, cur, created>>
    BY <1>2 DEF TimePasses, youtube, vars
  <2>2. SameStage /\ SameTaken
    BY <2>1 DEF SameStage, SameTaken, Stage, Taken
  <2>. QED  BY <2>1, <2>2, Unseen
<1>. QED  BY <1>1, <1>2, TickRefines, UploadRefines, EditRefines, StepKinds

(***************************************************************************)
(* With one publish tick and one operator at a time, no manual upload      *)
(* requests, and neither an answer of YouTube nor the commit after it      *)
(* lost, publishing implements UploadLifecycle: an upload is taken up only *)
(* when scheduled, at most one video is ever made of it, and decisions     *)
(* follow the transition table, for any number of uploads and failures.    *)
(***************************************************************************)
THEOREM Refinement ==
  ASSUME OneAtATime
  PROVE  Spec => ImplementsLifecycle
<1>1. Init => SerialInv /\ Lifecycle!Init
  BY TypeInit, LockInit, StatusInit, AcceptedInit, DecisionInit, RowInit, VideoInit, EditInit,
     LifecycleInit
  DEF SerialInv, IInv
<1>2. SerialInv /\ [Next]_vars => SerialInv'
  BY TypeStep, LockStep, StatusStep, AcceptedStep, DecisionStep, RowStep, VideoStep, EditStep
  DEF SerialInv, IInv, TypeInv
<1>3. SerialInv /\ [Next]_vars => [Lifecycle!Next]_(Lifecycle!vars)
  BY LifecycleStep
<1>. QED  BY <1>1, <1>2, <1>3, PTL DEF Spec, ImplementsLifecycle, Lifecycle!Spec
=============================================================================

--------------------------- MODULE PublishScheduler ---------------------------
(***************************************************************************)
(* The writers of an upload's publishing state: the publish scheduler's    *)
(* ticks (the interval job and POST /internal/tick/publish), the manual    *)
(* upload endpoint, the publishing API, the delete endpoints, and the      *)
(* pipeline that inserts the row.  YouTube is external: it creates videos  *)
(* and may answer late, wrongly or never.                                  *)
(***************************************************************************)
EXTENDS UploadStore

CONSTANTS
  Ticks,        \* publish ticks that may be in flight at once
  Triggers,     \* concurrent POST /upload requests
  Editors,      \* concurrent publishing-API and delete requests
  NoOne,        \* nobody holds the row lock
  AutoPublish,  \* settings.auto_publish_enabled
  Faults,       \* kinds of failure that may happen
  MaxFaults     \* bound: how many failures happen in one behaviour

FaultKinds == {"transient", "lost", "refused", "garbled",
               "config", "llm", "db", "commit", "crash", "ytdelete"}
Publishers == Ticks \union Triggers
Sessions == Publishers \union Editors

ASSUME SessionAssumption ==
  /\ Ticks \intersect Triggers = {}
  /\ Publishers \intersect Editors = {}
  /\ NoOne \notin Sessions
  /\ AutoPublish \in BOOLEAN
  /\ Faults \subseteq FaultKinds
  /\ MaxFaults \in Nat

VARIABLES
  row,      \* committed rows
  lastId,   \* rows inserted so far, per video
  lock,     \* holder of each row lock (or of the uncommitted unique key)
  due,      \* uploads whose scheduled_at has passed
  pc,       \* where each session is
  cur,      \* the upload a session works on
  mem,      \* the ORM object a session holds; its uncommitted row once flushed
  queue,    \* uploads a tick has listed and not yet taken
  listed,   \* the detached objects of that list
  created,  \* videos YouTube ever created, per upload
  live,     \* those still on YouTube
  sends,    \* upload attempts ticks made, per upload
  faults    \* failures still to come

db == <<row, lastId, lock, due>>
youtube == <<created, live>>
vars == <<row, lastId, lock, due, pc, cur, mem, queue, listed,
          created, live, sends, faults>>

TickPcs == {"idle", "next", "fetch", "retry", "giveup", "guard", "aborted"}
TriggerPcs == {"idle", "reset", "insert"}
UploadPcs == {"prepare", "mark", "markfailed", "sending", "commit"}
Requests == {"approve", "reject", "schedule", "delete", "deletelocal"}
EditorPcs == {"idle", "ytdelete"} \union Requests   \* a request: its write is next

TypeOK ==
  /\ row \in [Uploads -> Row]
  /\ lastId \in [Uploads -> 0..MaxRows]
  /\ lock \in [Uploads -> Publishers \union {NoOne}]
  /\ due \subseteq Uploads
  /\ pc \in [Sessions -> TickPcs \union TriggerPcs \union UploadPcs \union EditorPcs]
  /\ cur \in [Sessions -> Uploads]
  /\ mem \in [Sessions -> Row]
  /\ queue \in [Ticks -> SUBSET Uploads]
  /\ listed \in [Ticks -> [Uploads -> Row]]
  /\ created \in [Uploads -> 0..MaxCopies]
  /\ live \in [Uploads -> SUBSET (1..MaxCopies)]
  /\ sends \in [Uploads -> Nat]
  /\ faults \in 0..MaxFaults

Init ==
  /\ row = [u \in Uploads |-> NoRow]
  /\ lastId = [u \in Uploads |-> 0]
  /\ lock = [u \in Uploads |-> NoOne]
  /\ due = {}
  /\ pc = [s \in Sessions |-> "idle"]
  /\ cur = [s \in Sessions |-> CHOOSE u \in Uploads : TRUE]
  /\ mem = [s \in Sessions |-> NoRow]
  /\ queue = [t \in Ticks |-> {}]
  /\ listed = [t \in Ticks |-> [u \in Uploads |-> NoRow]]
  /\ created = [u \in Uploads |-> 0]
  /\ live = [u \in Uploads |-> {}]
  /\ sends = [u \in Uploads |-> 0]
  /\ faults = MaxFaults

Fault(kind) == kind \in Faults /\ faults > 0 /\ faults' = faults - 1
NoFault == UNCHANGED faults

Goto(s, p) == pc' = [pc EXCEPT ![s] = p]
\* The session ends: its objects are gone.
Close(s, p) == Goto(s, p) /\ mem' = [mem EXCEPT ![s] = NoRow]
Free(u) == lock[u] = NoOne
\* The row session s updates is still there: same primary key.
SameRow(s) == row[cur[s]].id = mem[s].id /\ mem[s].id # 0

-----------------------------------------------------------------------------
(* The rows come from the pipeline, and time passes.                       *)

\* PipelineAgentService, stage "upload": insert and auto-approve in one commit.
PipelineCreates(u) ==
  /\ lastId[u] = 0 /\ Free(u)
  /\ lastId' = [lastId EXCEPT ![u] = 1]
  /\ row' = [row EXCEPT ![u] =
       NewRow(1, IF AutoPublish THEN "scheduled" ELSE "draft", "scheduled")]
  /\ UNCHANGED <<lock, due, pc, cur, mem, queue, listed, youtube, sends, faults>>

\* scheduled_at <= now() becomes true.
TimePasses(u) ==
  /\ row[u].id # 0 /\ u \notin due
  /\ due' = due \union {u}
  /\ UNCHANGED <<row, lastId, lock, pc, cur, mem, queue, listed, youtube, sends, faults>>

-----------------------------------------------------------------------------
(* VideoPublishScheduler._publish_due_videos.                              *)

\* The short read session: the due uploads, in whatever order.
TickList(t) ==
  LET found == {u \in due : IsDue(row[u])} IN
  /\ pc[t] = "idle"
  /\ found # {}      \* an empty list is a tick without effect
  /\ queue' = [queue EXCEPT ![t] = found]
  /\ listed' = [listed EXCEPT ![t] = row]
  /\ Goto(t, "next")
  /\ UNCHANGED <<db, cur, mem, youtube, sends, faults>>

TickTake(t) ==
  /\ pc[t] = "next"
  /\ \E u \in queue[t] :
       /\ queue' = [queue EXCEPT ![t] = @ \ {u}]
       /\ cur' = [cur EXCEPT ![t] = u]
  /\ Goto(t, "fetch")
  /\ UNCHANGED <<db, mem, listed, youtube, sends, faults>>

TickEnd(t) ==
  /\ pc[t] = "next" /\ queue[t] = {}
  /\ Goto(t, "idle")
  /\ listed' = [listed EXCEPT ![t] = [u \in Uploads |-> NoRow]]
  /\ UNCHANGED <<db, cur, mem, queue, youtube, sends, faults>>

\* What the guards after the re-fetch decide for the row they see.
AfterGuards(r) ==
  IF r.yt # 0 \/ r.status = "published" THEN "guard"
  ELSE IF r.publish # "scheduled" \/ r.status = "uploading" THEN "next"
  ELSE "prepare"

\* get_or_raise in a fresh session.  A row that is gone raises NotFoundError,
\* and the failure session that would mark it FAILED does not find it either.
TickFetch(t) ==
  LET u == cur[t] IN
  /\ pc[t] = "fetch"
  /\ IF row[u].id = listed[t][u].id /\ AfterGuards(row[u]) # "next"
     THEN mem' = [mem EXCEPT ![t] = row[u]] /\ Goto(t, AfterGuards(row[u]))
     ELSE Close(t, "next")
  /\ UNCHANGED <<db, cur, queue, listed, youtube, sends, faults>>

\* The re-fetch fails, for a reason that is retryable (the connection dropped)
\* or not; "upload" is still the detached object of the list, whose retry_count
\* the handler reads.
TickFetchFails(t) ==
  /\ pc[t] = "fetch" /\ Fault("db")
  /\ \/ listed[t][cur[t]].retries < MaxRetries /\ Goto(t, "retry")
     \/ Goto(t, "giveup")
  /\ UNCHANGED <<db, cur, mem, queue, listed, youtube, sends>>

\* A short session of the failure handlers writes the row, unless the row is
\* gone or the session fails too: that is only logged.
WriteOrLog(t, new) ==
  LET u == cur[t] IN
  \/ /\ row[u].id = listed[t][u].id /\ Free(u) /\ NoFault
     /\ row' = [row EXCEPT ![u] = new]
  \/ /\ row[u].id # listed[t][u].id /\ NoFault
     /\ UNCHANGED row
  \/ Fault("db") /\ UNCHANGED row

\* Retry metadata, the sleep, then the loop again.
TickRetry(t) ==
  LET u == cur[t] IN
  /\ pc[t] = "retry"
  /\ WriteOrLog(t, [row[u] EXCEPT !.retries = listed[t][u].retries + 1])
  /\ Goto(t, "fetch")
  /\ UNCHANGED <<lastId, lock, due, cur, mem, queue, listed, youtube, sends>>

\* Retries exhausted: mark_failed.
TickGiveUp(t) ==
  /\ pc[t] = "giveup"
  /\ WriteOrLog(t, [row[cur[t]] EXCEPT !.status = "failed"])
  /\ Goto(t, "next")
  /\ UNCHANGED <<lastId, lock, due, cur, mem, queue, listed, youtube, sends>>

\* Idempotency guard: promote the status without uploading.
TickGuard(t) ==
  LET u == cur[t] IN
  /\ pc[t] = "guard" /\ Free(u) /\ SameRow(t)
  /\ row' = [row EXCEPT ![u] =
       Flushed(@, mem[t], [mem[t] EXCEPT !.status = "published"])]
  /\ Close(t, "next")
  /\ UNCHANGED <<lastId, lock, due, cur, queue, listed, youtube, sends, faults>>

-----------------------------------------------------------------------------
(* An exception after the ORM object was loaded.  A tick's handler rolls   *)
(* back, which expires the object, and then reads upload.retry_count: that *)
(* raises MissingGreenlet out of the loop, so the tick ends there.  The    *)
(* upload endpoint answers 500 and get_db rolls back.                      *)

\* Faulty variant: the session is never closed, its row lock stays.
AbortKeepsLock(s) ==
  /\ Close(s, IF s \in Ticks THEN "aborted" ELSE "idle")
  /\ UNCHANGED <<row, lock, lastId, due, cur, queue, listed>>

Abort(s) ==
  /\ lock' = [u \in Uploads |-> IF lock[u] = s THEN NoOne ELSE lock[u]]
  /\ Close(s, IF s \in Ticks THEN "aborted" ELSE "idle")
  /\ UNCHANGED <<row, lastId, due, cur, queue, listed>>

\* APScheduler logs the exception; the next interval starts from scratch.
TickRecover(t) ==
  /\ pc[t] = "aborted"
  /\ queue' = [queue EXCEPT ![t] = {}]
  /\ listed' = [listed EXCEPT ![t] = [u \in Uploads |-> NoRow]]
  /\ Goto(t, "idle")
  /\ UNCHANGED <<db, cur, mem, youtube, sends, faults>>

\* The UPDATE of a session finds its row deleted: StaleDataError.
StaleWrite(s) ==
  /\ pc[s] \in {"guard", "mark", "markfailed", "reset"}
  /\ Free(cur[s]) /\ ~SameRow(s)
  /\ Abort(s)
  /\ UNCHANGED <<youtube, sends, faults>>

-----------------------------------------------------------------------------
(* UploadAgentService.run_upload_for_video.                                *)

\* The row as session s sees it: its own flushed version, else the committed.
Visible(s) == IF lock[cur[s]] = s THEN mem[s] ELSE row[cur[s]]

\* A flush by a publisher: takes the lock, keeps it, refreshes the object.
Flush(s, new) ==
  /\ lock[cur[s]] \in {NoOne, s}
  /\ lock' = [lock EXCEPT ![cur[s]] = s]
  /\ mem' = [mem EXCEPT ![s] = Flushed(Visible(s), mem[s], new)]

\* Credentials and file present, metadata prepared by the LLM.
Prepare(s) ==
  /\ pc[s] = "prepare"
  /\ \/ Goto(s, "mark") /\ NoFault
     \/ Goto(s, "markfailed") /\ Fault("config")
  /\ UNCHANGED <<db, cur, mem, queue, listed, youtube, sends>>

\* The LLM raises; a short statement fails; the connection, idle during the
\* long upload, was dropped and the commit fails.
Raises(s) ==
  /\ \/ pc[s] = "prepare" /\ Fault("llm")
     \/ pc[s] \in {"guard", "mark", "markfailed", "reset"} /\ Fault("db")
     \/ pc[s] = "commit" /\ Fault("commit")
  /\ Abort(s)
  /\ UNCHANGED <<youtube, sends>>

HasRow(s) == lock[cur[s]] = s \/ SameRow(s)

\* Faulty variant: the new status is committed at once, which frees the lock.
MarkUploadingCommitted(s) ==
  /\ pc[s] = "mark" /\ Free(cur[s]) /\ SameRow(s)
  /\ mem' = [mem EXCEPT ![s] =
       Flushed(row[cur[s]], mem[s], [mem[s] EXCEPT !.status = "uploading"])]
  /\ row' = [row EXCEPT ![cur[s]] = mem'[s]]
  /\ Goto(s, "sending")
  /\ UNCHANGED <<lock, lastId, due, cur, queue, listed, youtube, sends, faults>>

\* mark_uploading: flushed, not committed.
MarkUploading(s) ==
  /\ pc[s] = "mark" /\ HasRow(s)
  /\ Flush(s, [mem[s] EXCEPT !.status = "uploading"])
  /\ sends' = IF s \in Ticks THEN [sends EXCEPT ![cur[s]] = @ + 1] ELSE sends
  /\ Goto(s, "sending")
  /\ UNCHANGED <<row, lastId, due, cur, queue, listed, youtube, faults>>

MarkFailed(s) ==
  /\ pc[s] = "markfailed" /\ HasRow(s)
  /\ Flush(s, [mem[s] EXCEPT !.status = "failed"])
  /\ Goto(s, "commit")
  /\ UNCHANGED <<row, lastId, due, cur, queue, listed, youtube, sends, faults>>

\* YouTube creates the video (or not) while the request is in flight.
YouTubeAccepts(u) ==
  /\ created[u] < MaxCopies
  /\ created' = [created EXCEPT ![u] = @ + 1]
  /\ live' = [live EXCEPT ![u] = @ \union {created[u] + 1}]

\* The object once the call returned: mark_published or mark_failed.
PublishedMem(s, id) == [mem[s] EXCEPT !.status = "published", !.yt = id]
FailedMem(s) == [mem[s] EXCEPT !.status = "failed"]

Answered(s) ==
  /\ pc[s] = "sending" /\ YouTubeAccepts(cur[s]) /\ NoFault
  /\ mem' = [mem EXCEPT ![s] = PublishedMem(s, created[cur[s]] + 1)]
  /\ Goto(s, "commit")
  /\ UNCHANGED <<db, cur, queue, listed, sends>>

\* Not retryable: quota and auth errors, or an answer that cannot be read.
Refused(s) ==
  /\ pc[s] = "sending"
  /\ \/ Fault("refused") /\ UNCHANGED youtube
     \/ Fault("garbled") /\ YouTubeAccepts(cur[s])
  /\ mem' = [mem EXCEPT ![s] = FailedMem(s)]
  /\ Goto(s, "commit")
  /\ UNCHANGED <<db, cur, queue, listed, sends>>

\* Retryable: 429, 5xx, network error, or the answer timed out.  Re-raised to
\* a tick (raise_on_error=True); marked FAILED for the upload endpoint.
TimedOut(s) ==
  /\ pc[s] = "sending"
  /\ \/ Fault("transient") /\ UNCHANGED youtube
     \/ Fault("lost") /\ YouTubeAccepts(cur[s])
  /\ \/ /\ s \in Ticks
        /\ Abort(s)
     \/ /\ s \in Triggers
        /\ mem' = [mem EXCEPT ![s] = FailedMem(s)]
        /\ Goto(s, "commit")
        /\ UNCHANGED <<db, cur, queue, listed>>
  /\ UNCHANGED sends

Commit(s) ==
  /\ pc[s] = "commit"
  /\ row' = [row EXCEPT ![cur[s]] = mem[s]]
  /\ lock' = [lock EXCEPT ![cur[s]] = NoOne]
  /\ Close(s, IF s \in Ticks THEN "next" ELSE "idle")
  /\ UNCHANGED <<lastId, due, cur, queue, listed, youtube, sends, faults>>

-----------------------------------------------------------------------------
(* UploadService.trigger_upload, inside the request's session.             *)

TriggerRead(m, u) ==
  /\ pc[m] = "idle"
  /\ row[u].status \notin {"published", "uploading"}
  /\ cur' = [cur EXCEPT ![m] = u]
  /\ mem' = [mem EXCEPT ![m] = row[u]]
  /\ Goto(m, IF row[u].id = 0 THEN "insert" ELSE "reset")
  /\ UNCHANGED <<db, queue, listed, youtube, sends, faults>>

TriggerReset(m) ==
  /\ pc[m] = "reset" /\ SameRow(m)
  /\ Flush(m, [mem[m] EXCEPT !.status = "pending", !.yt = 0])
  /\ Goto(m, "prepare")
  /\ UNCHANGED <<row, lastId, due, cur, queue, listed, youtube, sends, faults>>

TriggerInsert(m) ==
  LET u == cur[m] IN
  /\ pc[m] = "insert" /\ Free(u) /\ row[u].id = 0 /\ lastId[u] < MaxRows
  /\ lastId' = [lastId EXCEPT ![u] = @ + 1]
  /\ lock' = [lock EXCEPT ![u] = m]
  /\ mem' = [mem EXCEPT ![m] = NewRow(lastId[u] + 1, "draft", "pending")]
  /\ Goto(m, "prepare")
  /\ UNCHANGED <<row, due, cur, queue, listed, youtube, sends, faults>>

\* Someone inserted the row meanwhile (unique video_id): the request fails.
TriggerInsertFails(m) ==
  /\ pc[m] = "insert" /\ Free(cur[m])
  /\ row[cur[m]].id # 0 \/ lastId[cur[m]] = MaxRows
  /\ Abort(m)
  /\ UNCHANGED <<youtube, sends, faults>>

-----------------------------------------------------------------------------
(* PublishingService: read and check, then write and commit.               *)

\* Faulty variant: the transition table is not consulted.
AllowedAlways(r, k) == k = "reject" => r.status \notin {"uploading", "published"}

\* _assert_transition, and the status guard of /reject.
Allowed(r, k) ==
  CASE k = "approve" -> LegalTransition(r.publish, "approved")
    [] k = "reject" -> /\ LegalTransition(r.publish, "rejected")
                       /\ r.status \notin {"uploading", "published"}
    [] k = "schedule" -> LegalTransition(r.publish, "scheduled")
    [] OTHER -> TRUE

\* The object after the service set its attributes.
Edited(r, k) ==
  CASE k = "approve" -> [r EXCEPT !.publish = "approved"]
    [] k = "reject" -> [r EXCEPT !.publish = "rejected"]
    [] k = "schedule" -> [r EXCEPT !.publish = "scheduled", !.status = "scheduled"]
    [] OTHER -> r

EditorRead(e, u, k) ==
  /\ pc[e] = "idle" /\ row[u].id # 0 /\ Allowed(row[u], k)
  /\ cur' = [cur EXCEPT ![e] = u]
  /\ mem' = [mem EXCEPT ![e] = row[u]]
  /\ Goto(e, IF k = "delete" /\ row[u].yt # 0 THEN "ytdelete" ELSE k)
  /\ UNCHANGED <<db, queue, listed, youtube, sends, faults>>

\* delete_video_everywhere: YouTube first.  When the video is not there any
\* more, or on an error, the local record is kept.
EditorYouTubeDelete(e) ==
  LET u == cur[e] IN
  /\ pc[e] = "ytdelete"
  /\ \/ /\ mem[e].yt \in live[u] /\ NoFault
        /\ live' = [live EXCEPT ![u] = @ \ {mem[e].yt}]
        /\ Goto(e, "delete") /\ UNCHANGED mem
     \/ /\ mem[e].yt \notin live[u] /\ NoFault
        /\ Close(e, "idle") /\ UNCHANGED live
     \/ /\ Fault("ytdelete")
        /\ Close(e, "idle") /\ UNCHANGED live
  /\ UNCHANGED <<db, cur, queue, listed, created, sends>>

\* UPDATE and commit.  A row that is gone: StaleDataError, and nothing changes.
\* The new scheduled_at of /schedule may be in the past or in the future.
EditorUpdate(e) ==
  LET u == cur[e] IN
  /\ pc[e] \in {"approve", "reject", "schedule"} /\ Free(u)
  /\ row' = IF SameRow(e)
            THEN [row EXCEPT ![u] = Flushed(@, mem[e], Edited(mem[e], pc[e]))]
            ELSE row
  /\ due' \in IF SameRow(e) /\ pc[e] = "schedule"
              THEN {due \union {u}, due \ {u}} ELSE {due}
  /\ Close(e, "idle")
  /\ UNCHANGED <<lastId, lock, cur, queue, listed, youtube, sends, faults>>

\* DELETE and commit.
EditorDelete(e) ==
  LET u == cur[e] IN
  /\ pc[e] \in {"delete", "deletelocal"} /\ Free(u)
  /\ row' = IF SameRow(e) THEN [row EXCEPT ![u] = NoRow] ELSE row
  /\ due' = IF SameRow(e) THEN due \ {u} ELSE due
  /\ Close(e, "idle")
  /\ UNCHANGED <<lastId, lock, cur, queue, listed, youtube, sends, faults>>

-----------------------------------------------------------------------------
\* The process dies; PostgreSQL rolls its open transactions back.
Crash ==
  /\ Fault("crash")
  /\ pc' = [s \in Sessions |-> "idle"]
  /\ mem' = [s \in Sessions |-> NoRow]
  /\ lock' = [u \in Uploads |-> NoOne]
  /\ queue' = [t \in Ticks |-> {}]
  /\ listed' = [t \in Ticks |-> [u \in Uploads |-> NoRow]]
  /\ UNCHANGED <<row, lastId, due, cur, youtube, sends>>

TickStep(t) ==
  \/ TickList(t) \/ TickTake(t) \/ TickEnd(t) \/ TickFetch(t)
  \/ TickFetchFails(t) \/ TickRetry(t) \/ TickGiveUp(t) \/ TickGuard(t)
  \/ TickRecover(t)

UploadStep(s) ==
  \/ Prepare(s) \/ Raises(s) \/ MarkUploading(s) \/ MarkFailed(s)
  \/ Answered(s) \/ Refused(s) \/ TimedOut(s) \/ Commit(s)
  \/ StaleWrite(s)

TriggerStep(m) ==
  \/ \E u \in Uploads : TriggerRead(m, u)
  \/ TriggerReset(m) \/ TriggerInsert(m) \/ TriggerInsertFails(m)

EditorStep(e) ==
  \/ \E u \in Uploads, k \in Requests : EditorRead(e, u, k)
  \/ EditorYouTubeDelete(e) \/ EditorUpdate(e) \/ EditorDelete(e)

Next ==
  \/ \E u \in Uploads : PipelineCreates(u) \/ TimePasses(u)
  \/ \E t \in Ticks : TickStep(t)
  \/ \E s \in Publishers : UploadStep(s)
  \/ \E m \in Triggers : TriggerStep(m)
  \/ \E e \in Editors : EditorStep(e)
  \/ Crash

Spec == Init /\ [][Next]_vars

\* The interval job keeps firing, a started request runs on: httpx bounds every
\* call and PostgreSQL grants a freed row lock.  Nobody has to press a button.
Fairness ==
  /\ \A t \in Ticks : WF_vars(TickStep(t))
  /\ \A s \in Publishers : WF_vars(UploadStep(s))
  /\ \A e \in Editors : WF_vars(EditorUpdate(e) \/ EditorDelete(e))

FairSpec == Spec /\ Fairness

-----------------------------------------------------------------------------
(* Properties.                                                             *)

Sending(s, u) == pc[s] = "sending" /\ cur[s] = u

\* mark_uploading is flushed and never committed before the outcome is known,
\* so no other session ever reads UPLOADING.  (Every guard of the code that
\* tests for UPLOADING is therefore decided by the row lock or not at all.)
UploadingNeverCommitted == \A u \in Uploads : row[u].status # "uploading"

\* No two sessions are talking to YouTube for the same upload at a time: the
\* row lock taken by mark_uploading is held until the commit or the rollback.
AtMostOneTransmit ==
  \A u \in Uploads, s, r \in Publishers : Sending(s, u) /\ Sending(r, u) => s = r

\* A row says PUBLISHED only if YouTube did create a video for it, whatever
\* was retried, refused, deleted or edited in between.
PublishedWasAccepted ==
  \A u \in Uploads : row[u].status = "published" => created[u] > 0

\* A publisher's commit never undoes what an operator decided while the upload
\* was in flight: publish_status is not written back from a stale object.
DecisionKept ==
  [][\A s \in Publishers : Commit(s) /\ row[cur[s]].id # 0
        => row'[cur[s]].publish = row[cur[s]].publish]_vars

\* A due upload is eventually published, failed, taken back or deleted, once
\* failures stop: an aborted tick leaves nothing behind that blocks the next.
DueIsSettled ==
  \A u \in Uploads : (u \in due /\ IsDue(row[u])) ~> ~IsDue(row[u])

-----------------------------------------------------------------------------
(* What an operator sees of an upload: the decision taken about it, whether a  *)
(* tick has taken it up, and how many videos YouTube made of it.               *)

Stage(u) == IF row[u].id # 0 THEN row[u].publish
            ELSE IF lastId[u] = 0 THEN "none" ELSE "deleted"
Taken(u) == \E s \in Publishers :
              cur[s] = u /\ pc[s] \in {"prepare", "mark", "sending"}

Lifecycle == INSTANCE UploadLifecycle WITH
  stage <- [u \in Uploads |-> Stage(u)],
  taken <- [u \in Uploads |-> Taken(u)],
  videos <- created

\* With one tick and one operator at a time, and neither an answer nor the
\* commit after it lost, the scheduler implements UploadLifecycle.
ImplementsLifecycle == Lifecycle!Spec
=============================================================================

----------------------------- MODULE PipelineRuns -----------------------------
(***************************************************************************)
(* Pipeline runs: the rows, the background task that takes a run through   *)
(* its stages and retries it, and everybody else who writes the row: the   *)
(* watchdog of the automation tick, the dashboard's retry and delete, and  *)
(* the reconciliation at startup.  The agents behind the stages are        *)
(* external: a stage succeeds, fails its gate, or raises.                  *)
(***************************************************************************)
EXTENDS Naturals, FiniteSets

CONSTANTS
  Runs,        \* pipeline runs ever created
  Topics,
  NoRun,       \* no dashboard retry is in progress
  MaxRetries,  \* settings.retry_max_retries
  Faults,      \* kinds of failure that may happen
  MaxFaults    \* bound: how many failures happen in one behaviour

\* "ack": a commit is applied and its confirmation lost.
FaultKinds == {"transient", "permanent", "db", "ack", "crash"}

ASSUME RunAssumption ==
  /\ Runs # {} /\ Topics # {} /\ NoRun \notin Runs
  /\ MaxRetries \in Nat /\ MaxFaults \in Nat
  /\ Faults \subseteq FaultKinds

PipelineStatus == {"pending", "running", "failed", "complete"}
TopicStatus == {"open", "rejected", "published"}   \* open: every other status

Run == [status : PipelineStatus \union {"none", "deleted"},
        topic : Topics, retries : 0..MaxRetries, upload : BOOLEAN]

VARIABLES
  run,       \* committed rows
  topic,     \* committed topic statuses
  old,       \* updated_at is more than two hours ago
  pc,        \* where the background task of each run is
  mem,       \* status on the ORM object of that task, if it has one
  topicMem,  \* status on its Topic object, if it has one
  stuck,     \* runs the watchdog has read and is about to fail
  asked,     \* the run a dashboard retry is about
  wasRunning,\* that retry read it RUNNING
  attempts,  \* times the stages were entered, per run
  made,      \* Upload rows inserted, per run
  faults     \* failures still to come

vars == <<run, topic, old, pc, mem, topicMem, stuck, asked, wasRunning,
          attempts, made, faults>>
others == <<stuck, asked, wasRunning>>

Stages == {"script", "quality", "seo", "voice", "video", "upload", "finish"}
Pcs == {"none", "queued", "begin", "log", "retryable", "fatal", "backoff",
        "fail", "broken", "escaped"} \union Stages

TypeOK ==
  /\ run \in [Runs -> Run]
  /\ topic \in [Topics -> TopicStatus]
  /\ old \in [Runs -> BOOLEAN]
  /\ pc \in [Runs -> Pcs]
  /\ mem \in [Runs -> PipelineStatus \union {"none"}]
  /\ topicMem \in [Runs -> TopicStatus \union {"none"}]
  /\ stuck \in SUBSET Runs
  /\ asked \in Runs \union {NoRun}
  /\ wasRunning \in BOOLEAN
  /\ attempts \in [Runs -> Nat]
  /\ made \in [Runs -> Nat]
  /\ faults \in 0..MaxFaults

Init ==
  /\ run = [r \in Runs |-> [status |-> "none", topic |-> CHOOSE t \in Topics : TRUE,
                            retries |-> 0, upload |-> FALSE]]
  /\ topic = [t \in Topics |-> "open"]
  /\ old = [r \in Runs |-> FALSE]
  /\ pc = [r \in Runs |-> "none"]
  /\ mem = [r \in Runs |-> "none"]
  /\ topicMem = [r \in Runs |-> "none"]
  /\ stuck = {}
  /\ asked = NoRun
  /\ wasRunning = FALSE
  /\ attempts = [r \in Runs |-> 0]
  /\ made = [r \in Runs |-> 0]
  /\ faults = MaxFaults

Fault(kind) == kind \in Faults /\ faults > 0 /\ faults' = faults - 1
NoFault == UNCHANGED faults
Exists(r) == run[r].status \notin {"none", "deleted"}

\* The task of run r goes to p with these objects, or with none: it ended, or an
\* exception is on its way to the handler, whose rollback expires them.
Task(r, p, status, topicStatus) ==
  /\ pc' = [pc EXCEPT ![r] = p]
  /\ mem' = [mem EXCEPT ![r] = status]
  /\ topicMem' = [topicMem EXCEPT ![r] = topicStatus]
Without(r, p) == Task(r, p, "none", "none")
Raise(r, exceptions) == \E p \in exceptions : Without(r, p)
Idle == UNCHANGED <<pc, mem, topicMem>>

\* PipelineRunRepository.update with a new status s: the flush emits the column
\* if s differs from the object's value, the refresh then reads the row.
Merged(r, s) == IF s # mem[r] THEN s ELSE run[r].status
WithStatus(r, s) == [run[r] EXCEPT !.status = s]

\* The row is committed; updated_at is now.
Save(r, row) ==
  /\ Exists(r)
  /\ run' = [run EXCEPT ![r] = row]
  /\ old' = [old EXCEPT ![r] = FALSE]

\* A commit of the task.  Its confirmation may be lost: the task then handles an
\* exception, retryable or not, of a step that took effect.
Committed(r, p, topicStatus) ==
  \/ Task(r, p, run'[r].status, topicStatus) /\ NoFault
  \/ Fault("ack") /\ Raise(r, {"retryable", "fatal"})

-----------------------------------------------------------------------------
(* PipelineService.start, and the background task until the first stage.    *)

\* The new row and its task.  The task is not created when the refresh after
\* the commit fails.
Enqueue(n, t, rows) ==
  /\ run[n].status = "none"
  /\ run' = [rows EXCEPT ![n].status = "pending", ![n].topic = t]
  /\ \/ Without(n, "queued") /\ NoFault
     \/ Fault("db") /\ Idle

Start(n, t) ==
  /\ Enqueue(n, t, run)
  /\ UNCHANGED <<topic, old, others, attempts, made>>

\* get_or_raise.  On failure the recovery of a run that is still pending does
\* nothing, and the task is over.
Load(r) ==
  /\ pc[r] = "queued"
  /\ \/ Exists(r) /\ NoFault /\ Task(r, "begin", run[r].status, "none")
     \/ ~Exists(r) /\ NoFault /\ Without(r, "none")
     \/ Fault("db") /\ Without(r, "none")
  /\ UNCHANGED <<run, topic, old, others, attempts, made>>

-----------------------------------------------------------------------------
(* PipelineAgentService._execute_stages.                                   *)

\* RUNNING is committed and the topic loaded.  On a retry the update may find
\* every column as it was, and then updated_at does not move.
Begin(r) ==
  /\ pc[r] = "begin" /\ Exists(r)
  /\ run' = [run EXCEPT ![r].status = Merged(r, "running")]
  /\ old' \in {old, [old EXCEPT ![r] = FALSE]}
  /\ attempts' = [attempts EXCEPT ![r] = @ + 1]
  /\ Committed(r, "script", topic[run[r].topic])
  /\ UNCHANGED <<topic, others, made>>

\* A stage's work is done and the next current_stage committed.  After the
\* render the row is read again in a fresh session.
StageDone(r) ==
  /\ pc[r] \in {"script", "quality", "seo", "voice", "video"}
  /\ Save(r, run[r])
  /\ Committed(r, CASE pc[r] = "script" -> "quality"
                    [] pc[r] = "quality" -> "seo"
                    [] pc[r] = "seo" -> "voice"
                    [] pc[r] = "voice" -> "video"
                    [] pc[r] = "video" -> "upload", topicMem[r])
  /\ UNCHANGED <<topic, others, attempts, made>>

\* update(topic, status=s) on the object loaded at the start of the attempt.
SetTopic(r, s) ==
  topic' = IF s # topicMem[r] THEN [topic EXCEPT ![run[r].topic] = s] ELSE topic

\* Nothing is left to do but to log the outcome: the objects are not used again.
Outcome(r) ==
  \/ Without(r, "log") /\ NoFault
  \/ Fault("ack") /\ Raise(r, {"retryable", "fatal"})

\* The quality or SEO gate rejects the script, or the voice stays incomplete.
GateFails(r) ==
  /\ pc[r] \in {"quality", "seo", "voice"}
  /\ SetTopic(r, "rejected")
  /\ Save(r, WithStatus(r, Merged(r, "failed")))
  /\ Outcome(r)
  /\ UNCHANGED <<others, attempts, made>>

\* The renderer left no video, or a FAILED one.
RenderFails(r) ==
  /\ pc[r] = "video"
  /\ Save(r, WithStatus(r, "failed"))
  /\ \/ Without(r, "none") /\ NoFault
     \/ Fault("ack") /\ Raise(r, {"retryable", "fatal"})
  /\ UNCHANGED <<topic, others, attempts, made>>

\* Faulty variant: a retry inserts its own Upload row.
AttachAgain(r) ==
  /\ pc[r] = "upload"
  /\ made' = [made EXCEPT ![r] = @ + 1]
  /\ Save(r, [run[r] EXCEPT !.upload = TRUE])
  /\ Committed(r, "finish", topicMem[r])
  /\ UNCHANGED <<topic, others, attempts>>

\* The Upload row: reused when a former attempt left one, else inserted in the
\* commit that sets pipeline_run.upload_id.
Attach(r) ==
  /\ pc[r] = "upload"
  /\ \/ /\ run[r].upload /\ Exists(r) /\ NoFault
        /\ Task(r, "finish", mem[r], topicMem[r])
        /\ UNCHANGED <<run, old, made>>
     \/ /\ ~run[r].upload
        /\ made' = [made EXCEPT ![r] = @ + 1]
        /\ Save(r, [run[r] EXCEPT !.upload = TRUE])
        /\ Committed(r, "finish", topicMem[r])
  /\ UNCHANGED <<topic, others, attempts>>

\* Faulty variant: COMPLETE is committed before the Upload row is inserted.
FinishBeforeUpload(r) ==
  /\ pc[r] \in {"upload", "finish"}
  /\ SetTopic(r, "published")
  /\ Save(r, WithStatus(r, Merged(r, "complete")))
  /\ Outcome(r)
  /\ UNCHANGED <<others, attempts, made>>

\* Topic PUBLISHED and run COMPLETE in one commit.
Finish(r) ==
  /\ pc[r] = "finish"
  /\ SetTopic(r, "published")
  /\ Save(r, WithStatus(r, Merged(r, "complete")))
  /\ Outcome(r)
  /\ UNCHANGED <<others, attempts, made>>

\* The last log entry; its failure is handled like that of a stage.
Log(r) ==
  /\ pc[r] = "log"
  /\ \/ Without(r, "none") /\ NoFault
     \/ Fault("ack") /\ Raise(r, {"retryable", "fatal"})
  /\ UNCHANGED <<run, topic, old, others, attempts, made>>

\* A stage raises: a timeout or 5xx, or anything that is not transient.
StageRaises(r) ==
  /\ pc[r] \in {"script", "quality", "seo", "voice", "video"}
  /\ \/ Fault("transient") /\ Raise(r, {"retryable"})
     \/ Fault("permanent") /\ Raise(r, {"fatal"})
  /\ UNCHANGED <<run, topic, old, others, attempts, made>>

\* A statement of the task fails.  A failed flush has expired the object, whose
\* attributes the handler reads first: that raises out of run().
DbFails(r) ==
  /\ pc[r] \in Stages \union {"begin", "log"} /\ Fault("db")
  /\ Raise(r, {"retryable", "fatal", "escaped"})
  /\ UNCHANGED <<run, topic, old, others, attempts, made>>

\* The row was deleted: the next update or read of it raises, and so does
\* get_or_raise in the handler.
RowGone(r) ==
  /\ pc[r] \in Stages \union {"begin", "retryable", "fatal"} /\ ~Exists(r)
  /\ Raise(r, {"escaped"})
  /\ UNCHANGED <<run, topic, old, others, attempts, made, faults>>

-----------------------------------------------------------------------------
(* The retry loop of PipelineAgentService.run.                             *)

\* Faulty variant: a retry too many.
HandleOffByOne(r) ==
  /\ pc[r] \in {"retryable", "fatal"} /\ Exists(r) /\ NoFault
  /\ Task(r, IF pc[r] = "retryable" /\ attempts[r] <= MaxRetries + 1
             THEN "backoff" ELSE "fail", run[r].status, "none")
  /\ UNCHANGED <<run, topic, old, others, attempts, made>>

\* Rollback, the row is fetched anew, the decision is taken.
Handle(r) ==
  /\ pc[r] \in {"retryable", "fatal"} /\ Exists(r)
  /\ \/ /\ NoFault
        /\ Task(r, IF pc[r] = "retryable" /\ run[r].retries < MaxRetries
                   THEN "backoff" ELSE "fail", run[r].status, "none")
     \/ Fault("db") /\ Raise(r, {"escaped"})
  /\ UNCHANGED <<run, topic, old, others, attempts, made>>

\* retry_count and RUNNING are persisted, then the task sleeps.  When that
\* fails, applied or not, the error is swallowed and the session left unusable.
Backoff(r) ==
  /\ pc[r] = "backoff"
  /\ \/ /\ Save(r, [run[r] EXCEPT !.status = Merged(r, "running"), !.retries = @ + 1])
        /\ \/ NoFault /\ Task(r, "begin", run'[r].status, "none")
           \/ Fault("ack") /\ Raise(r, {"broken"})
     \/ /\ (~Exists(r) /\ NoFault) \/ Fault("db")
        /\ Raise(r, {"broken"}) /\ UNCHANGED <<run, old>>
  /\ UNCHANGED <<topic, others, attempts, made>>

\* The first update of the next attempt raises on that session.
Broken(r) ==
  /\ pc[r] = "broken"
  /\ Raise(r, {"fatal", "escaped"})
  /\ UNCHANGED <<run, topic, old, others, attempts, made, faults>>

\* FAILED for good; a failure to persist that is only logged.
GiveUp(r) ==
  /\ pc[r] = "fail"
  /\ \/ /\ Save(r, WithStatus(r, Merged(r, "failed")))
        /\ NoFault \/ Fault("ack")
     \/ /\ (~Exists(r) /\ NoFault) \/ Fault("db")
        /\ UNCHANGED <<run, old>>
  /\ Without(r, "none")
  /\ UNCHANGED <<topic, others, attempts, made>>

\* Rows R that are RUNNING become FAILED, by somebody who has just read them.
FailRunning(R) ==
  LET F == {r \in R : run[r].status = "running"} IN
  /\ run' = [r \in Runs |-> IF r \in F THEN WithStatus(r, "failed") ELSE run[r]]
  /\ old' = [r \in Runs |-> old[r] /\ r \notin F]

\* _run_pipeline_background: an exception left run().  A new session fails the
\* row if it is RUNNING.
Recover(r) ==
  /\ pc[r] = "escaped"
  /\ \/ FailRunning({r}) /\ (NoFault \/ Fault("ack"))
     \/ Fault("db") /\ UNCHANGED <<run, old>>
  /\ Without(r, "none")
  /\ UNCHANGED <<topic, others, attempts, made>>

-----------------------------------------------------------------------------
(* Everybody else who writes the row.                                      *)

\* Two hours without an update.
TimePasses(r) ==
  /\ run[r].status = "running" /\ ~old[r]
  /\ old' = [old EXCEPT ![r] = TRUE]
  /\ UNCHANGED <<run, topic, pc, mem, topicMem, others, attempts, made, faults>>

Stuck(r) == run[r].status = "running" /\ old[r]

\* Faulty variant: only runs that have a task are looked at.
WatchdogReadsLive ==
  /\ stuck = {}
  /\ stuck' = {r \in Runs : Stuck(r) /\ pc[r] # "none"}
  /\ UNCHANGED <<run, topic, old, pc, mem, topicMem, asked, wasRunning,
                 attempts, made, faults>>

\* DailyAutomationScheduler._reset_stuck_pipeline_runs: the query...
WatchdogReads ==
  /\ stuck = {}
  /\ stuck' = {r \in Runs : Stuck(r)}
  /\ UNCHANGED <<run, topic, old, pc, mem, topicMem, asked, wasRunning,
                 attempts, made, faults>>

\* Faulty variant: a row that is gone is inserted again (merge).
WatchdogMerges ==
  /\ stuck # {} /\ NoFault
  /\ run' = [r \in Runs |-> IF r \in stuck THEN WithStatus(r, "failed") ELSE run[r]]
  /\ stuck' = {}
  /\ UNCHANGED <<topic, old, pc, mem, topicMem, asked, wasRunning, attempts, made>>

\* ... and the commit, which fails as a whole if one of the rows is gone.
WatchdogWrites ==
  /\ stuck # {}
  /\ \/ /\ \A r \in stuck : Exists(r)
        /\ run' = [r \in Runs |-> IF r \in stuck THEN WithStatus(r, "failed") ELSE run[r]]
        /\ old' = [r \in Runs |-> old[r] /\ r \notin stuck]
        /\ NoFault
     \/ /\ ((\E r \in stuck : ~Exists(r)) /\ NoFault) \/ Fault("db")
        /\ UNCHANGED <<run, old>>
  /\ stuck' = {}
  /\ UNCHANGED <<topic, pc, mem, topicMem, asked, wasRunning, attempts, made>>

\* PipelineService.retry_run: get_or_raise...
RetryReads(r) ==
  /\ asked = NoRun /\ Exists(r)
  /\ asked' = r
  /\ wasRunning' = (run[r].status = "running")
  /\ UNCHANGED <<run, topic, old, pc, mem, topicMem, stuck, attempts, made, faults>>

\* ... then FAILED if it was RUNNING, and a new run, in one commit.
RetryWrites(n) ==
  /\ asked # NoRun
  /\ wasRunning => Exists(asked)
  /\ Enqueue(n, run[asked].topic,
             IF wasRunning THEN [run EXCEPT ![asked].status = "failed"] ELSE run)
  /\ old' = [r \in Runs |-> old[r] /\ ~(wasRunning /\ r = asked)]
  /\ asked' = NoRun /\ wasRunning' = FALSE
  /\ UNCHANGED <<topic, stuck, attempts, made>>

\* The request fails: the row is gone, or (bound) there is no run left to create.
RetryFails ==
  /\ asked # NoRun
  /\ (wasRunning /\ ~Exists(asked)) \/ \A n \in Runs : run[n].status # "none"
  /\ asked' = NoRun /\ wasRunning' = FALSE
  /\ UNCHANGED <<run, topic, old, pc, mem, topicMem, stuck, attempts, made, faults>>

\* PipelineService.delete_run.
Delete(r) ==
  /\ Exists(r)
  /\ run' = [run EXCEPT ![r].status = "deleted"]
  /\ old' = [old EXCEPT ![r] = FALSE]
  /\ UNCHANGED <<topic, pc, mem, topicMem, others, attempts, made, faults>>

\* The process dies with its tasks.  On the next startup every RUNNING row is
\* failed, unless that reconciliation fails too.
Restart ==
  /\ Fault("crash")
  /\ pc' = [r \in Runs |-> "none"]
  /\ mem' = [r \in Runs |-> "none"]
  /\ topicMem' = [r \in Runs |-> "none"]
  /\ stuck' = {} /\ asked' = NoRun /\ wasRunning' = FALSE
  /\ FailRunning(Runs) \/ ("db" \in Faults /\ UNCHANGED <<run, old>>)
  /\ UNCHANGED <<topic, attempts, made>>

-----------------------------------------------------------------------------
TaskStep(r) ==
  \/ Load(r) \/ Begin(r) \/ StageDone(r) \/ GateFails(r) \/ RenderFails(r)
  \/ Attach(r) \/ Finish(r) \/ Log(r) \/ StageRaises(r) \/ DbFails(r)
  \/ RowGone(r) \/ Handle(r) \/ Backoff(r) \/ Broken(r) \/ GiveUp(r) \/ Recover(r)

Watchdog == WatchdogReads \/ WatchdogWrites

Next ==
  \/ \E r \in Runs : TaskStep(r)
  \/ \E n \in Runs, t \in Topics : Start(n, t)
  \/ \E r \in Runs : TimePasses(r) \/ RetryReads(r) \/ Delete(r)
  \/ Watchdog
  \/ \E n \in Runs : RetryWrites(n)
  \/ RetryFails
  \/ Restart

Spec == Init /\ [][Next]_vars

\* The automation tick keeps firing and time passes.  Of the tasks nothing is
\* assumed: a stage may hang forever.
FairSpec ==
  /\ Spec
  /\ WF_vars(Watchdog)
  /\ \A r \in Runs : WF_vars(TimePasses(r))

-----------------------------------------------------------------------------
(* Properties.                                                             *)

\* However often a run is retried, whatever commit got lost: it makes at most
\* one Upload row, so one YouTube video.
OneUploadPerRun == \A r \in Runs : made[r] <= 1

\* A run is complete only with its upload, and a topic published only because
\* some run made an upload for it.
CompleteHasUpload ==
  /\ \A r \in Runs : run[r].status = "complete" => made[r] = 1
  /\ \A t \in Topics : topic[t] = "published" =>
       \E r \in Runs : run[r].topic = t /\ made[r] > 0

\* The stages are entered at most once plus max_retries times, whatever fails,
\* the bookkeeping of the retries included.
RetryBudget == \A r \in Runs : attempts[r] <= MaxRetries + 1

\* A run does not show as RUNNING forever, even if a stage hangs, the row is
\* resurrected by its task, or the failure could not be persisted.
RunningEnds ==
  \A r \in Runs : run[r].status = "running" ~> run[r].status # "running"

Worker(r) == pc[r] # "none"

Lifecycle == INSTANCE RunLifecycle WITH
  status <- [r \in Runs |-> run[r].status],
  worker <- [r \in Runs |-> Worker(r)],
  upload <- [r \in Runs |-> run[r].upload]

\* With all failures, tasks, watchdog and dashboard together: the rows behave
\* as RunLifecycle says.
ImplementsRunLifecycle == Lifecycle!Spec
=============================================================================

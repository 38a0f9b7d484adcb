-------------------------- MODULE PipelineRunsProofs --------------------------
(***************************************************************************)
(* Invariants of the pipeline runs, and their refinement of RunLifecycle,  *)
(* for any number of runs, topics, retries and failures.                   *)
(***************************************************************************)
EXTENDS PipelineRuns, TLAPS

\* A retry is only prepared while retry_count is below the limit.
TypeInv == TypeOK /\ \A r \in Runs : pc[r] = "backoff" => run[r].retries < MaxRetries

-----------------------------------------------------------------------------
\* What the building blocks of the actions write.

\* The statuses of existing rows are those of the enumeration.
LEMMA ExistsStatus ==
  ASSUME TypeOK, NEW r \in Runs, Exists(r)
  PROVE  run[r].status \in PipelineStatus
BY DEF TypeOK, Exists, Run

\* A row of the table is a record of its type.
LEMMA RowType ==
  ASSUME TypeOK, NEW r \in Runs
  PROVE  run[r] \in Run /\ run[r].topic \in Topics /\ run[r].upload \in BOOLEAN
         /\ run[r].retries \in 0..MaxRetries
BY DEF TypeOK, Run

\* Setting the status of a row changes nothing else of it.
LEMMA StatusType ==
  ASSUME NEW row \in Run, NEW s \in PipelineStatus \union {"none", "deleted"}
  PROVE  /\ [row EXCEPT !.status = s] \in Run
         /\ [row EXCEPT !.status = s].status = s
         /\ [row EXCEPT !.status = s].topic = row.topic
         /\ [row EXCEPT !.status = s].retries = row.retries
         /\ [row EXCEPT !.status = s].upload = row.upload
BY DEF Run

\* The task's position and objects.
LEMMA TaskType ==
  ASSUME TypeOK, NEW r \in Runs, NEW p \in Pcs,
         NEW s \in PipelineStatus \union {"none"},
         NEW ts \in TopicStatus \union {"none"}, Task(r, p, s, ts)
  PROVE  /\ pc' \in [Runs -> Pcs]
         /\ mem' \in [Runs -> PipelineStatus \union {"none"}]
         /\ topicMem' \in [Runs -> TopicStatus \union {"none"}]
         /\ pc'[r] = p
         /\ \A q \in Runs \ {r} : pc'[q] = pc[q]
BY DEF Task, TypeOK

\* A task without objects.
LEMMA WithoutType ==
  ASSUME TypeOK, NEW r \in Runs, NEW p \in Pcs, Without(r, p)
  PROVE  /\ pc' \in [Runs -> Pcs]
         /\ mem' \in [Runs -> PipelineStatus \union {"none"}]
         /\ topicMem' \in [Runs -> TopicStatus \union {"none"}]
         /\ pc'[r] = p
         /\ \A q \in Runs \ {r} : pc'[q] = pc[q]
BY TaskType DEF Without

\* An exception leads to a handler.
LEMMA RaiseType ==
  ASSUME TypeOK, NEW r \in Runs, NEW E \in SUBSET {"retryable", "fatal", "escaped", "broken"},
         Raise(r, E)
  PROVE  /\ pc' \in [Runs -> Pcs]
         /\ mem' \in [Runs -> PipelineStatus \union {"none"}]
         /\ topicMem' \in [Runs -> TopicStatus \union {"none"}]
         /\ pc'[r] \in E
         /\ \A q \in Runs \ {r} : pc'[q] = pc[q]
<1>1. PICK p \in E : Without(r, p)
  BY DEF Raise
<1>2. p \in Pcs
  BY DEF Pcs
<1>. QED  BY <1>1, <1>2, WithoutType

\* The supply of failures stays in its range.
LEMMA FaultType ==
  ASSUME TypeOK, NEW kind, Fault(kind) \/ NoFault
  PROVE  faults' \in 0..MaxFaults
BY RunAssumption DEF Fault, NoFault, TypeOK

\* A commit of the task: it goes on, or to a handler.
LEMMA CommittedType ==
  ASSUME TypeOK, NEW r \in Runs, NEW p \in Pcs, NEW ts \in TopicStatus \union {"none"},
         run'[r].status \in PipelineStatus, Committed(r, p, ts)
  PROVE  /\ pc' \in [Runs -> Pcs]
         /\ mem' \in [Runs -> PipelineStatus \union {"none"}]
         /\ topicMem' \in [Runs -> TopicStatus \union {"none"}]
         /\ faults' \in 0..MaxFaults
         /\ pc'[r] \in {p, "retryable", "fatal"}
         /\ \A q \in Runs \ {r} : pc'[q] = pc[q]
<1>1. CASE Task(r, p, run'[r].status, ts) /\ NoFault
  BY <1>1, TaskType, FaultType
<1>2. CASE Fault("ack") /\ Raise(r, {"retryable", "fatal"})
  BY <1>2, RaiseType, FaultType
<1>. QED  BY <1>1, <1>2 DEF Committed

\* After the last commit of an attempt there is only the log entry left.
LEMMA OutcomeType ==
  ASSUME TypeOK, NEW r \in Runs, Outcome(r)
  PROVE  /\ pc' \in [Runs -> Pcs]
         /\ mem' \in [Runs -> PipelineStatus \union {"none"}]
         /\ topicMem' \in [Runs -> TopicStatus \union {"none"}]
         /\ faults' \in 0..MaxFaults
         /\ pc'[r] \in {"log", "retryable", "fatal"}
         /\ \A q \in Runs \ {r} : pc'[q] = pc[q]
<1>1. "log" \in Pcs
  BY DEF Pcs
<1>. QED  BY <1>1, WithoutType, RaiseType, FaultType DEF Outcome

\* A saved row.
LEMMA SaveType ==
  ASSUME TypeOK, NEW r \in Runs, NEW row \in Run, Save(r, row)
  PROVE  /\ run' \in [Runs -> Run]
         /\ old' \in [Runs -> BOOLEAN]
         /\ Exists(r)
         /\ run'[r] = row
         /\ \A q \in Runs \ {r} : run'[q] = run[q]
BY DEF Save, TypeOK

\* A saved row of which only the status was set.
LEMMA SavedStatus ==
  ASSUME TypeOK, NEW r \in Runs, NEW s \in PipelineStatus, Save(r, WithStatus(r, s))
  PROVE  /\ run' \in [Runs -> Run]
         /\ old' \in [Runs -> BOOLEAN]
         /\ Exists(r)
         /\ run'[r].status = s
         /\ \A q \in Runs \ {r} : run'[q] = run[q]
         /\ \A q \in Runs : /\ run'[q].topic = run[q].topic
                            /\ run'[q].retries = run[q].retries
                            /\ run'[q].upload = run[q].upload
<1> DEFINE row == WithStatus(r, s)
<1>1. /\ row \in Run /\ row.status = s /\ row.topic = run[r].topic
      /\ row.retries = run[r].retries /\ row.upload = run[r].upload
  BY RowType, StatusType DEF WithStatus
<1>2. Save(r, row)
  OBVIOUS
<1>. HIDE DEF row
<1>. QED  BY <1>1, <1>2, SaveType

\* The status an update leaves in the row of an existing run.
LEMMA MergedType ==
  ASSUME TypeOK, NEW r \in Runs, Exists(r), NEW s \in PipelineStatus
  PROVE  Merged(r, s) \in PipelineStatus /\ Merged(r, s) \in {s, run[r].status}
BY ExistsStatus DEF Merged

\* The topic's status is written, or left alone.
LEMMA SetTopicType ==
  ASSUME TypeOK, NEW r \in Runs, NEW s \in TopicStatus, SetTopic(r, s)
  PROVE  /\ topic' \in [Topics -> TopicStatus]
         /\ \A t \in Topics : topic'[t] # topic[t] => t = run[r].topic /\ topic'[t] = s
BY RowType DEF SetTopic, TypeOK

\* Rows that were RUNNING are failed, the others are as they were.
LEMMA FailRunningType ==
  ASSUME TypeOK, NEW R \in SUBSET Runs, FailRunning(R)
  PROVE  /\ run' \in [Runs -> Run]
         /\ old' \in [Runs -> BOOLEAN]
         /\ \A r \in Runs :
              /\ run'[r].status = IF r \in R /\ run[r].status = "running"
                                 THEN "failed" ELSE run[r].status
              /\ run'[r].topic = run[r].topic /\ run'[r].retries = run[r].retries
              /\ run'[r].upload = run[r].upload
<1>1. \A r \in Runs : LET new == [run[r] EXCEPT !.status = "failed"] IN
        /\ new \in Run /\ new.status = "failed" /\ new.topic = run[r].topic
        /\ new.retries = run[r].retries /\ new.upload = run[r].upload
  BY RowType, StatusType DEF PipelineStatus
<1>2. run' = [r \in Runs |-> IF r \in R /\ run[r].status = "running"
                             THEN [run[r] EXCEPT !.status = "failed"] ELSE run[r]]
  BY DEF FailRunning, WithStatus
<1>3. old' \in [Runs -> BOOLEAN]
  BY DEF FailRunning, TypeOK
<1>. QED  BY <1>1, <1>2, <1>3, RowType

\* A new run: its row and topic, and perhaps its task.
LEMMA EnqueueType ==
  ASSUME TypeOK, NEW n \in Runs, NEW t \in Topics, NEW rows \in [Runs -> Run],
         Enqueue(n, t, rows)
  PROVE  /\ run' \in [Runs -> Run]
         /\ run[n].status = "none"
         /\ run'[n].status = "pending" /\ run'[n].topic = t
         /\ run'[n].retries = rows[n].retries /\ run'[n].upload = rows[n].upload
         /\ \A q \in Runs \ {n} : run'[q] = rows[q]
         /\ pc' \in [Runs -> Pcs]
         /\ mem' \in [Runs -> PipelineStatus \union {"none"}]
         /\ topicMem' \in [Runs -> TopicStatus \union {"none"}]
         /\ pc'[n] \in {"queued", pc[n]}
         /\ \A q \in Runs \ {n} : pc'[q] = pc[q]
         /\ faults' \in 0..MaxFaults
<1>1. [rows[n] EXCEPT !.status = "pending", !.topic = t] \in Run
  BY DEF Run, PipelineStatus
<1>2. run' = [rows EXCEPT ![n] = [rows[n] EXCEPT !.status = "pending", !.topic = t]]
  BY DEF Enqueue
<1>3. /\ run' \in [Runs -> Run]
      /\ run'[n].status = "pending" /\ run'[n].topic = t
      /\ run'[n].retries = rows[n].retries /\ run'[n].upload = rows[n].upload
      /\ \A q \in Runs \ {n} : run'[q] = rows[q]
      /\ run[n].status = "none"
  <2> DEFINE new == [rows[n] EXCEPT !.status = "pending", !.topic = t]
  <2>1. /\ new \in Run /\ new.status = "pending" /\ new.topic = t
        /\ new.retries = rows[n].retries /\ new.upload = rows[n].upload
    BY <1>1 DEF Run
  <2>2. run' = [rows EXCEPT ![n] = new]
    BY <1>2
  <2>. HIDE DEF new
  <2>. QED  BY <2>1, <2>2 DEF Enqueue
<1>4. "queued" \in Pcs
  BY DEF Pcs
<1>5. CASE Without(n, "queued") /\ NoFault
  BY <1>3, <1>4, <1>5, WithoutType, FaultType DEF Enqueue
<1>6. CASE Fault("db") /\ Idle
  BY <1>3, <1>6, FaultType DEF Enqueue, Idle, TypeOK
<1>. QED  BY <1>5, <1>6 DEF Enqueue

-----------------------------------------------------------------------------
\* Nothing has happened yet.
LEMMA TypeInit == Init => TypeInv
<1> SUFFICES ASSUME Init PROVE TypeInv
  OBVIOUS
<1>1. run \in [Runs -> Run]
  <2>1. (CHOOSE t \in Topics : TRUE) \in Topics
    BY RunAssumption
  <2>2. [status |-> "none", topic |-> CHOOSE t \in Topics : TRUE,
         retries |-> 0, upload |-> FALSE] \in Run
    BY <2>1, RunAssumption DEF Run
  <2>. QED  BY <2>2 DEF Init
<1>2. /\ topic \in [Topics -> TopicStatus]
      /\ old \in [Runs -> BOOLEAN]
      /\ pc \in [Runs -> Pcs]
      /\ mem \in [Runs -> PipelineStatus \union {"none"}]
      /\ topicMem \in [Runs -> TopicStatus \union {"none"}]
  BY DEF Init, TopicStatus, Pcs
<1>3. stuck \in SUBSET Runs /\ asked \in Runs \union {NoRun} /\ wasRunning \in BOOLEAN
  BY DEF Init
<1>4. attempts \in [Runs -> Nat] /\ made \in [Runs -> Nat]
  BY DEF Init
<1>5. faults \in 0..MaxFaults
  BY RunAssumption DEF Init
<1>6. \A r \in Runs : pc[r] # "backoff"
  BY DEF Init
<1>. QED  BY <1>1, <1>2, <1>3, <1>4, <1>5, <1>6 DEF TypeInv, TypeOK

\* Every handler keeps the types, and between the decision to retry and its
\* bookkeeping nobody else touches retry_count.
LEMMA TypeStep == TypeInv /\ [Next]_vars => TypeInv'
<1> SUFFICES ASSUME TypeInv, [Next]_vars PROVE TypeInv'
  OBVIOUS
<1> USE DEF TypeInv
<1>1. ASSUME NEW n \in Runs, NEW t \in Topics, Start(n, t) PROVE TypeInv'
  <2>1. run \in [Runs -> Run] /\ Enqueue(n, t, run)
    BY <1>1 DEF Start, TypeOK
  <2>2. \A q \in Runs : run'[q].retries = run[q].retries
    BY <2>1, EnqueueType
  <2>. QED
    BY <1>1, <2>1, <2>2, EnqueueType DEF Start, others, TypeOK
<1>2. ASSUME NEW r \in Runs, Load(r) PROVE TypeInv'
  <2>1. CASE Exists(r) /\ NoFault /\ Task(r, "begin", run[r].status, "none")
    <3>1. "begin" \in Pcs
      BY DEF Pcs
    <3>. QED  BY <1>2, <2>1, <3>1, ExistsStatus, TaskType, FaultType DEF Load, others, TypeOK
  <2>2. CASE Without(r, "none") /\ (NoFault \/ Fault("db"))
    <3>1. "none" \in Pcs
      BY DEF Pcs
    <3>. QED  BY <1>2, <2>2, <3>1, WithoutType, FaultType DEF Load, others, TypeOK
  <2>. QED  BY <1>2, <2>1, <2>2 DEF Load
<1>3. ASSUME NEW r \in Runs, Begin(r) PROVE TypeInv'
  <2>1. Merged(r, "running") \in PipelineStatus
    BY <1>3, MergedType DEF Begin, PipelineStatus
  <2>2. /\ run' \in [Runs -> Run] /\ run'[r].status \in PipelineStatus
        /\ \A q \in Runs : run'[q].retries = run[q].retries
    BY <1>3, <2>1, RowType, StatusType DEF Begin, TypeOK
  <2>3. old' \in [Runs -> BOOLEAN]
    BY <1>3 DEF Begin, TypeOK
  <2>4. attempts' \in [Runs -> Nat]
    <3>1. attempts[r] + 1 \in Nat /\ attempts' = [attempts EXCEPT ![r] = attempts[r] + 1]
      BY <1>3 DEF Begin, TypeOK
    <3>. QED  BY <3>1 DEF TypeOK
  <2>5. "script" \in Pcs /\ topic[run[r].topic] \in TopicStatus
    BY RowType DEF Pcs, Stages, TypeOK
  <2>. QED
    BY <1>3, <2>2, <2>3, <2>4, <2>5, CommittedType DEF Begin, others, TypeOK
<1>4. ASSUME NEW r \in Runs, StageDone(r) PROVE TypeInv'
  <2>1. PICK p \in Stages : Committed(r, p, topicMem[r])
    BY <1>4 DEF StageDone, Stages
  <2>2. Save(r, run[r])
    BY <1>4 DEF StageDone
  <2>3. /\ run' \in [Runs -> Run] /\ old' \in [Runs -> BOOLEAN]
        /\ \A q \in Runs : run'[q] = run[q]
        /\ run'[r].status \in PipelineStatus
    BY <2>2, RowType, SaveType, ExistsStatus
  <2>4. p \in Pcs /\ p # "backoff" /\ topicMem[r] \in TopicStatus \union {"none"}
    BY DEF Pcs, Stages, TypeOK
  <2>. QED
    BY <1>4, <2>1, <2>3, <2>4, CommittedType DEF StageDone, others, TypeOK
<1>5. ASSUME NEW r \in Runs, GateFails(r) \/ Finish(r) PROVE TypeInv'
  <2>1. PICK ts \in {"rejected", "published"}, s \in {"failed", "complete"} :
          SetTopic(r, ts) /\ Save(r, WithStatus(r, Merged(r, s))) /\ Outcome(r)
          /\ UNCHANGED <<others, attempts, made>>
    BY <1>5 DEF GateFails, Finish
  <2>2. Merged(r, s) \in PipelineStatus
    BY <2>1, MergedType DEF Save, PipelineStatus
  <2>3. /\ run' \in [Runs -> Run] /\ old' \in [Runs -> BOOLEAN]
        /\ \A q \in Runs : run'[q].retries = run[q].retries
    BY <2>1, <2>2, SavedStatus
  <2>4. topic' \in [Topics -> TopicStatus]
    BY <2>1, SetTopicType DEF TopicStatus
  <2>. QED
    BY <2>1, <2>3, <2>4, OutcomeType DEF others, TypeOK
<1>6. ASSUME NEW r \in Runs, RenderFails(r) PROVE TypeInv'
  <2>1. /\ run' \in [Runs -> Run] /\ old' \in [Runs -> BOOLEAN]
        /\ \A q \in Runs : run'[q].retries = run[q].retries
    BY <1>6, SavedStatus DEF RenderFails, PipelineStatus
  <2>2. CASE Without(r, "none") /\ NoFault
    <3>1. "none" \in Pcs
      BY DEF Pcs
    <3>. QED  BY <1>6, <2>1, <2>2, <3>1, WithoutType, FaultType DEF RenderFails, others, TypeOK
  <2>3. CASE Fault("ack") /\ Raise(r, {"retryable", "fatal"})
    <3>1. UNCHANGED <<topic, stuck, asked, wasRunning, attempts, made>>
      BY <1>6 DEF RenderFails, others
    <3>. QED  BY <2>1, <2>3, <3>1, RaiseType, FaultType DEF TypeOK
  <2>. QED  BY <1>6, <2>2, <2>3 DEF RenderFails
<1>7. ASSUME NEW r \in Runs, Attach(r) PROVE TypeInv'
  <2>1. "finish" \in Pcs /\ "finish" # "backoff"
    BY DEF Pcs, Stages
  <2>2. CASE /\ Exists(r) /\ NoFault
             /\ Task(r, "finish", mem[r], topicMem[r])
             /\ UNCHANGED <<run, old, made>>
    <3>1. mem[r] \in PipelineStatus \union {"none"} /\ topicMem[r] \in TopicStatus \union {"none"}
      BY DEF TypeOK
    <3>. QED
      BY <1>7, <2>1, <2>2, <3>1, TaskType, FaultType DEF Attach, others, TypeOK
  <2>3. CASE /\ made' = [made EXCEPT ![r] = @ + 1]
             /\ Save(r, [run[r] EXCEPT !.upload = TRUE])
             /\ Committed(r, "finish", topicMem[r])
    <3>1. [run[r] EXCEPT !.upload = TRUE] \in Run
      BY RowType DEF Run
    <3>2. /\ run' \in [Runs -> Run] /\ old' \in [Runs -> BOOLEAN] /\ Exists(r)
          /\ run'[r] = [run[r] EXCEPT !.upload = TRUE]
          /\ \A q \in Runs \ {r} : run'[q] = run[q]
      BY <2>3, <3>1, SaveType
    <3>3. run'[r].status \in PipelineStatus
      BY <3>2, ExistsStatus, RowType DEF Run
    <3>4. made' \in [Runs -> Nat] /\ topicMem[r] \in TopicStatus \union {"none"}
      BY <2>3 DEF TypeOK
    <3>. QED
      BY <1>7, <2>1, <2>3, <3>2, <3>3, <3>4, CommittedType DEF Attach, others, TypeOK
  <2>. QED  BY <1>7, <2>2, <2>3 DEF Attach
<1>8. ASSUME NEW r \in Runs, Log(r) PROVE TypeInv'
  <2>1. "none" \in Pcs
    BY DEF Pcs
  <2>2. UNCHANGED <<run, topic, old, stuck, asked, wasRunning, attempts, made>>
    BY <1>8 DEF Log, others
  <2>3. CASE Without(r, "none") /\ NoFault
    BY <2>1, <2>2, <2>3, WithoutType, FaultType DEF TypeOK
  <2>4. CASE Fault("ack") /\ Raise(r, {"retryable", "fatal"})
    BY <2>2, <2>4, RaiseType, FaultType DEF TypeOK
  <2>. QED  BY <1>8, <2>3, <2>4 DEF Log
<1>9. ASSUME NEW r \in Runs, StageRaises(r) \/ DbFails(r) \/ RowGone(r) \/ Broken(r)
      PROVE  TypeInv'
  <2>1. /\ UNCHANGED <<run, topic, old, stuck, asked, wasRunning, attempts, made>>
        /\ \E E \in SUBSET {"retryable", "fatal", "escaped", "broken"} : Raise(r, E)
    BY <1>9 DEF StageRaises, DbFails, RowGone, Broken, others
  <2>2. faults' \in 0..MaxFaults
    BY <1>9, FaultType DEF StageRaises, DbFails, RowGone, Broken, NoFault
  <2>. QED  BY <2>1, <2>2, RaiseType DEF TypeOK
<1>10. ASSUME NEW r \in Runs, Handle(r) PROVE TypeInv'
  <2>1. UNCHANGED <<run, topic, old, stuck, asked, wasRunning, attempts, made>> /\ Exists(r)
    BY <1>10 DEF Handle, others
  <2>2. CASE /\ NoFault
             /\ Task(r, IF pc[r] = "retryable" /\ run[r].retries < MaxRetries
                        THEN "backoff" ELSE "fail", run[r].status, "none")
    <3>1. PICK p \in {"backoff", "fail"} :
            /\ p = "backoff" => run[r].retries < MaxRetries
            /\ Task(r, p, run[r].status, "none")
      BY <2>2
    <3>2. p \in Pcs
      BY DEF Pcs
    <3>. QED
      BY <2>1, <2>2, <3>1, <3>2, ExistsStatus, TaskType, FaultType DEF TypeOK
  <2>3. CASE Fault("db") /\ Raise(r, {"escaped"})
    BY <2>1, <2>3, RaiseType, FaultType DEF TypeOK
  <2>. QED  BY <1>10, <2>2, <2>3 DEF Handle
<1>11. ASSUME NEW r \in Runs, Backoff(r) PROVE TypeInv'
  <2>1. UNCHANGED <<topic, stuck, asked, wasRunning, attempts, made>> /\ pc[r] = "backoff"
    BY <1>11 DEF Backoff, others
  <2>2. CASE /\ Save(r, [run[r] EXCEPT !.status = Merged(r, "running"), !.retries = @ + 1])
             /\ \/ NoFault /\ Task(r, "begin", run'[r].status, "none")
                \/ Fault("ack") /\ Raise(r, {"broken"})
    <3> DEFINE row == [run[r] EXCEPT !.status = Merged(r, "running"), !.retries = @ + 1]
    <3>1. Merged(r, "running") \in PipelineStatus
      BY <2>2, MergedType DEF Save, PipelineStatus
    <3>2. run[r].retries + 1 \in 0..MaxRetries
      BY <2>1, RowType, RunAssumption
    <3>3. row \in Run /\ row.status = Merged(r, "running")
      BY <3>1, <3>2, RowType DEF Run
    <3>4. Save(r, row)
      BY <2>2
    <3>5. /\ run' \in [Runs -> Run] /\ old' \in [Runs -> BOOLEAN] /\ run'[r] = row
          /\ \A q \in Runs \ {r} : run'[q] = run[q]
      BY <3>3, <3>4, SaveType
    <3>6. "begin" \in Pcs /\ run'[r].status \in PipelineStatus
      BY <3>1, <3>3, <3>5 DEF Pcs
    <3> HIDE DEF row
    <3>7. CASE NoFault /\ Task(r, "begin", run'[r].status, "none")
      BY <2>1, <3>5, <3>6, <3>7, TaskType, FaultType DEF TypeOK
    <3>8. CASE Fault("ack") /\ Raise(r, {"broken"})
      BY <2>1, <3>5, <3>8, RaiseType, FaultType DEF TypeOK
    <3>. QED  BY <2>2, <3>7, <3>8
  <2>3. CASE /\ (~Exists(r) /\ NoFault) \/ Fault("db")
             /\ Raise(r, {"broken"}) /\ UNCHANGED <<run, old>>
    BY <2>1, <2>3, RaiseType, FaultType DEF TypeOK
  <2>. QED  BY <1>11, <2>2, <2>3 DEF Backoff
<1>12. ASSUME NEW r \in Runs, GiveUp(r) PROVE TypeInv'
  <2>1. UNCHANGED <<topic, stuck, asked, wasRunning, attempts, made>> /\ Without(r, "none")
    BY <1>12 DEF GiveUp, others
  <2>2. "none" \in Pcs
    BY DEF Pcs
  <2>3. faults' \in 0..MaxFaults
    BY <1>12, FaultType DEF GiveUp
  <2>4. CASE Save(r, WithStatus(r, Merged(r, "failed")))
    <3>1. Merged(r, "failed") \in PipelineStatus
      BY <2>4, MergedType DEF Save, PipelineStatus
    <3>2. /\ run' \in [Runs -> Run] /\ old' \in [Runs -> BOOLEAN]
          /\ \A q \in Runs : run'[q].retries = run[q].retries
      BY <2>4, <3>1, SavedStatus
    <3>. QED  BY <2>1, <2>2, <2>3, <3>2, WithoutType DEF TypeOK
  <2>5. CASE UNCHANGED <<run, old>>
    BY <2>1, <2>2, <2>3, <2>5, WithoutType DEF TypeOK
  <2>. QED  BY <1>12, <2>4, <2>5 DEF GiveUp
<1>13. ASSUME NEW r \in Runs, Recover(r) PROVE TypeInv'
  <2>1. UNCHANGED <<topic, stuck, asked, wasRunning, attempts, made>> /\ Without(r, "none")
    BY <1>13 DEF Recover, others
  <2>2. "none" \in Pcs
    BY DEF Pcs
  <2>3. faults' \in 0..MaxFaults
    BY <1>13, FaultType DEF Recover
  <2>4. CASE FailRunning({r})
    <3>1. /\ run' \in [Runs -> Run] /\ old' \in [Runs -> BOOLEAN]
          /\ \A q \in Runs : run'[q].retries = run[q].retries
      BY <2>4, FailRunningType
    <3>. QED  BY <2>1, <2>2, <2>3, <3>1, WithoutType DEF TypeOK
  <2>5. CASE UNCHANGED <<run, old>>
    BY <2>1, <2>2, <2>3, <2>5, WithoutType DEF TypeOK
  <2>. QED  BY <1>13, <2>4, <2>5 DEF Recover
<1>14. ASSUME NEW r \in Runs, TimePasses(r) \/ RetryReads(r) PROVE TypeInv'
  BY <1>14 DEF TimePasses, RetryReads, others, TypeOK
<1>15. CASE WatchdogReads \/ RetryFails
  BY <1>15 DEF WatchdogReads, RetryFails, TypeOK
<1>16. CASE WatchdogWrites
  <2>1. UNCHANGED <<topic, pc, mem, topicMem, asked, wasRunning, attempts, made>> /\ stuck' = {}
    BY <1>16 DEF WatchdogWrites
  <2>2. faults' \in 0..MaxFaults
    BY <1>16, FaultType DEF WatchdogWrites
  <2>3. CASE /\ run' = [r \in Runs |-> IF r \in stuck THEN WithStatus(r, "failed") ELSE run[r]]
             /\ old' = [r \in Runs |-> old[r] /\ r \notin stuck]
    <3>1. \A r \in Runs : [run[r] EXCEPT !.status = "failed"] \in Run
                          /\ [run[r] EXCEPT !.status = "failed"].retries = run[r].retries
      BY RowType, StatusType DEF PipelineStatus
    <3>2. run' \in [Runs -> Run] /\ \A r \in Runs : run'[r].retries = run[r].retries
      BY <2>3, <3>1, RowType DEF WithStatus
    <3>3. old' \in [Runs -> BOOLEAN]
      BY <2>3 DEF TypeOK
    <3>. QED  BY <2>1, <2>2, <3>2, <3>3 DEF TypeOK
  <2>4. CASE UNCHANGED <<run, old>>
    BY <2>1, <2>2, <2>4 DEF TypeOK
  <2>. QED  BY <1>16, <2>3, <2>4 DEF WatchdogWrites
<1>17. ASSUME NEW n \in Runs, RetryWrites(n) PROVE TypeInv'
  <2> DEFINE rows == IF wasRunning THEN [run EXCEPT ![asked].status = "failed"] ELSE run
  <2>1. asked \in Runs /\ run[asked].topic \in Topics
    BY <1>17, RowType DEF RetryWrites, TypeOK
  <2>2. rows \in [Runs -> Run] /\ \A q \in Runs : rows[q].retries = run[q].retries
    <3>1. [run[asked] EXCEPT !.status = "failed"] \in Run
          /\ [run[asked] EXCEPT !.status = "failed"].retries = run[asked].retries
      BY <2>1, RowType, StatusType DEF PipelineStatus
    <3>2. [run EXCEPT ![asked].status = "failed"]
            = [run EXCEPT ![asked] = [run[asked] EXCEPT !.status = "failed"]]
      BY <2>1 DEF TypeOK
    <3>. QED  BY <2>1, <3>1, <3>2 DEF TypeOK
  <2>3. Enqueue(n, run[asked].topic, rows)
    BY <1>17 DEF RetryWrites
  <2>4. /\ UNCHANGED <<topic, stuck, attempts, made>> /\ asked' = NoRun /\ wasRunning' = FALSE
        /\ old' \in [Runs -> BOOLEAN]
    BY <1>17 DEF RetryWrites, TypeOK
  <2> HIDE DEF rows
  <2>5. \A q \in Runs : run'[q].retries = run[q].retries
    BY <2>1, <2>2, <2>3, EnqueueType
  <2>6. /\ run' \in [Runs -> Run] /\ pc' \in [Runs -> Pcs]
        /\ mem' \in [Runs -> PipelineStatus \union {"none"}]
        /\ topicMem' \in [Runs -> TopicStatus \union {"none"}]
        /\ faults' \in 0..MaxFaults
        /\ \A q \in Runs : pc'[q] \in {"queued", pc[q]}
    BY <2>1, <2>2, <2>3, EnqueueType
  <2>. QED  BY <2>4, <2>5, <2>6 DEF TypeOK
<1>18. ASSUME NEW r \in Runs, Delete(r) PROVE TypeInv'
  <2>1. [run[r] EXCEPT !.status = "deleted"] \in Run
        /\ [run[r] EXCEPT !.status = "deleted"].retries = run[r].retries
    BY RowType, StatusType
  <2>2. run' = [run EXCEPT ![r] = [run[r] EXCEPT !.status = "deleted"]]
    BY <1>18 DEF Delete, TypeOK
  <2>3. run' \in [Runs -> Run] /\ \A q \in Runs : run'[q].retries = run[q].retries
    BY <2>1, <2>2 DEF TypeOK
  <2>. QED  BY <1>18, <2>3 DEF Delete, others, TypeOK
<1>19. CASE Restart
  <2>1. /\ UNCHANGED <<topic, attempts, made>> /\ stuck' = {} /\ asked' = NoRun
        /\ wasRunning' = FALSE /\ faults' \in 0..MaxFaults
    BY <1>19, FaultType DEF Restart
  <2>2. /\ pc' \in [Runs -> Pcs] /\ mem' \in [Runs -> PipelineStatus \union {"none"}]
        /\ topicMem' \in [Runs -> TopicStatus \union {"none"}]
        /\ \A r \in Runs : pc'[r] = "none"
    BY <1>19 DEF Restart, Pcs
  <2>3. run' \in [Runs -> Run] /\ old' \in [Runs -> BOOLEAN]
    BY <1>19, FailRunningType DEF Restart, TypeOK
  <2>. QED  BY <2>1, <2>2, <2>3 DEF TypeOK
<1>20. CASE UNCHANGED vars
  BY <1>20 DEF vars, others, TypeOK
<1>. QED
  BY <1>1, <1>2, <1>3, <1>4, <1>5, <1>6, <1>7, <1>8, <1>9, <1>10, <1>11, <1>12, <1>13,
     <1>14, <1>15, <1>16, <1>17, <1>18, <1>19, <1>20
  DEF Next, TaskStep, Watchdog

\* Whatever happens to a run: its row is well typed, and retry_count never passes
\* max_retries.
THEOREM TypeCorrect == Spec => []TypeOK
<1>1. TypeInv => TypeOK
  BY DEF TypeInv
<1>. QED  BY <1>1, TypeInit, TypeStep, PTL DEF Spec

-----------------------------------------------------------------------------
\* A run is given its Upload row once, and complete only with it.
UploadInv ==
  /\ \A r \in Runs : made[r] = IF run[r].upload THEN 1 ELSE 0
  /\ \A r \in Runs : /\ run[r].status = "none" => ~run[r].upload
                     /\ run[r].status = "complete" => run[r].upload
                     /\ pc[r] = "finish" => run[r].upload
  /\ \A t \in Topics : topic[t] = "published" =>
       \E r \in Runs : run[r].topic = t /\ run[r].upload

\* retry_count is the number of attempts that were given up, and an attempt that
\* is still to begin has been counted.
BudgetInv ==
  \A r \in Runs : /\ attempts[r] <= run[r].retries + 1
                  /\ pc[r] \in {"queued", "begin"} => attempts[r] <= run[r].retries
                  /\ run[r].status = "none" => attempts[r] = 0

RunInv == TypeInv /\ UploadInv /\ BudgetInv

\* What every step but four leaves alone: the counters, the stages "finish" and
\* "begin", and the statuses that claim something.
CalmRow(q) ==
  /\ run'[q].upload = run[q].upload /\ run'[q].retries = run[q].retries
  /\ run'[q].status = "none" => run[q].status = "none"
  /\ run'[q].status = "complete" => run[q].status = "complete"
  /\ run'[q].topic = run[q].topic \/ run[q].status = "none"
CalmTask(q) ==
  /\ pc'[q] = "finish" => pc[q] = "finish"
  /\ pc'[q] \in {"queued", "begin"} =>
       pc[q] \in {"queued", "begin"} \/ run[q].status = "none"
CalmTopic(t) == topic'[t] = "published" => topic[t] = "published"
Calm ==
  /\ \A q \in Runs : CalmRow(q)
  /\ \A q \in Runs : CalmTask(q)
  /\ \A t \in Topics : CalmTopic(t)
  /\ UNCHANGED <<made, attempts>>

\* Rows of which only the status was set, and not to one that claims something.
LEMMA SavedCalm ==
  ASSUME TypeOK, NEW r \in Runs, NEW s \in PipelineStatus, Save(r, WithStatus(r, s)),
         s = "complete" => run[r].status = "complete"
  PROVE  \A q \in Runs : CalmRow(q)
BY SavedStatus DEF CalmRow, PipelineStatus

\* The task of one run went to a handler or ended.
LEMMA RaiseCalm ==
  ASSUME TypeOK, NEW r \in Runs,
         \/ \E E \in SUBSET {"retryable", "fatal", "escaped", "broken"} : Raise(r, E)
         \/ Without(r, "none")
  PROVE  \A q \in Runs : CalmTask(q)
<1>1. CASE \E E \in SUBSET {"retryable", "fatal", "escaped", "broken"} : Raise(r, E)
  BY <1>1, RaiseType DEF CalmTask
<1>2. CASE Without(r, "none")
  <2>1. "none" \in Pcs
    BY DEF Pcs
  <2>. QED  BY <1>2, <2>1, WithoutType DEF CalmTask
<1>. QED  BY <1>1, <1>2

\* The decision of a commit of the task, when the stage it goes to is not the last.
LEMMA CommittedCalm ==
  ASSUME TypeOK, NEW r \in Runs, NEW p \in Stages \ {"finish"},
         NEW ts \in TopicStatus \union {"none"},
         run'[r].status \in PipelineStatus, Committed(r, p, ts)
  PROVE  \A q \in Runs : CalmTask(q)
<1>1. p \in Pcs /\ p \notin {"finish", "queued", "begin"}
  BY DEF Pcs, Stages
<1>. QED  BY <1>1, CommittedType DEF CalmTask

\* Untouched rows, tasks and topics.
LEMMA SameCalm ==
  /\ UNCHANGED run => \A q \in Runs : CalmRow(q)
  /\ UNCHANGED pc => \A q \in Runs : CalmTask(q)
  /\ UNCHANGED topic => \A t \in Topics : CalmTopic(t)
BY DEF CalmRow, CalmTask, CalmTopic

\* Rows that are failed or deleted claim nothing.
LEMMA FailRunningCalm ==
  ASSUME TypeOK, NEW R \in SUBSET Runs, FailRunning(R)
  PROVE  \A q \in Runs : CalmRow(q)
BY FailRunningType DEF CalmRow

\* A new run is pending.
LEMMA EnqueueCalm ==
  ASSUME TypeOK, NEW n \in Runs, NEW t \in Topics, NEW rows \in [Runs -> Run],
         \A q \in Runs : /\ rows[q].upload = run[q].upload /\ rows[q].retries = run[q].retries
                         /\ rows[q].topic = run[q].topic
                         /\ rows[q].status \in {run[q].status, "failed"},
         Enqueue(n, t, rows)
  PROVE  (\A q \in Runs : CalmRow(q)) /\ (\A q \in Runs : CalmTask(q))
<1>1. \A q \in Runs : CalmRow(q)
  BY EnqueueType DEF CalmRow
<1>2. \A q \in Runs : CalmTask(q)
  BY EnqueueType DEF CalmTask
<1>. QED  BY <1>1, <1>2

\* Every step is calm but those that start an attempt, attach the upload, finish
\* the run or count a retry.
LEMMA CalmStep ==
  ASSUME TypeInv, [Next]_vars
  PROVE  Calm \/ \E r \in Runs : Begin(r) \/ Attach(r) \/ Finish(r) \/ Backoff(r)
<1> USE DEF TypeInv
<1>1. ASSUME NEW n \in Runs, NEW t \in Topics, Start(n, t) PROVE Calm
  <2>1. run \in [Runs -> Run] /\ Enqueue(n, t, run) /\ UNCHANGED <<topic, made, attempts>>
    BY <1>1 DEF Start, TypeOK
  <2>. QED  BY <2>1, EnqueueCalm, SameCalm DEF Calm
<1>2. ASSUME NEW r \in Runs, Load(r) PROVE Calm
  <2>1. UNCHANGED <<run, topic, made, attempts>> /\ pc[r] = "queued"
    BY <1>2 DEF Load
  <2>2. \A q \in Runs : CalmTask(q)
    <3>1. CASE Task(r, "begin", run[r].status, "none")
      BY <2>1, <3>1 DEF CalmTask, Task, TypeOK
    <3>2. CASE Without(r, "none")
      BY <3>2, RaiseCalm
    <3>. QED  BY <1>2, <3>1, <3>2 DEF Load
  <2>. QED  BY <2>1, <2>2, SameCalm DEF Calm
<1>3. ASSUME NEW r \in Runs, StageDone(r) PROVE Calm
  <2>1. PICK p \in Stages \ {"finish"} : Committed(r, p, topicMem[r])
    BY <1>3 DEF StageDone, Stages
  <2>2. Save(r, run[r]) /\ UNCHANGED <<topic, made, attempts>>
    BY <1>3 DEF StageDone
  <2>3. (\A q \in Runs : run'[q] = run[q]) /\ run'[r].status \in PipelineStatus
    BY <2>2, RowType, SaveType, ExistsStatus
  <2>4. topicMem[r] \in TopicStatus \union {"none"}
    BY DEF TypeOK
  <2>5. \A q \in Runs : CalmTask(q)
    BY <2>1, <2>3, <2>4, CommittedCalm
  <2>6. \A q \in Runs : CalmRow(q)
    BY <2>3 DEF CalmRow
  <2>. QED  BY <2>2, <2>5, <2>6, SameCalm DEF Calm
<1>4. ASSUME NEW r \in Runs, GateFails(r) PROVE Calm
  <2>1. /\ SetTopic(r, "rejected") /\ Save(r, WithStatus(r, Merged(r, "failed")))
        /\ Outcome(r) /\ UNCHANGED <<made, attempts>>
    BY <1>4 DEF GateFails
  <2>2. Merged(r, "failed") \in PipelineStatus /\ Merged(r, "failed") \in {"failed", run[r].status}
    BY <2>1, MergedType DEF Save, PipelineStatus
  <2>3. \A q \in Runs : CalmRow(q)
    BY <2>1, <2>2, SavedCalm
  <2>4. \A q \in Runs : CalmTask(q)
    BY <2>1, OutcomeType DEF CalmTask
  <2>5. \A t \in Topics : CalmTopic(t)
    BY <2>1, SetTopicType DEF CalmTopic, TopicStatus
  <2>. QED  BY <2>1, <2>3, <2>4, <2>5 DEF Calm
<1>5. ASSUME NEW r \in Runs, RenderFails(r) PROVE Calm
  <2>1. /\ Save(r, WithStatus(r, "failed")) /\ UNCHANGED <<topic, made, attempts>>
        /\ Without(r, "none") \/ Raise(r, {"retryable", "fatal"})
    BY <1>5 DEF RenderFails
  <2>2. \A q \in Runs : CalmRow(q)
    BY <2>1, SavedCalm DEF PipelineStatus
  <2>3. \A q \in Runs : CalmTask(q)
    BY <2>1, RaiseCalm
  <2>. QED  BY <2>1, <2>2, <2>3, SameCalm DEF Calm
<1>6. ASSUME NEW r \in Runs,
             Log(r) \/ StageRaises(r) \/ DbFails(r) \/ RowGone(r) \/ Broken(r)
      PROVE  Calm
  <2>1. /\ UNCHANGED <<run, topic, made, attempts>>
        /\ \/ \E E \in SUBSET {"retryable", "fatal", "escaped", "broken"} : Raise(r, E)
           \/ Without(r, "none")
    BY <1>6 DEF Log, StageRaises, DbFails, RowGone, Broken
  <2>. QED  BY <2>1, RaiseCalm, SameCalm DEF Calm
<1>7. ASSUME NEW r \in Runs, Handle(r) PROVE Calm
  <2>1. UNCHANGED <<run, topic, made, attempts>>
    BY <1>7 DEF Handle
  <2>2. \A q \in Runs : CalmTask(q)
    <3>1. CASE Raise(r, {"escaped"})
      BY <3>1, RaiseCalm
    <3>2. CASE \E p \in {"backoff", "fail"} : Task(r, p, run[r].status, "none")
      BY <3>2 DEF CalmTask, Task, TypeOK
    <3>. QED  BY <1>7, <3>1, <3>2 DEF Handle
  <2>. QED  BY <2>1, <2>2, SameCalm DEF Calm
<1>8. ASSUME NEW r \in Runs, GiveUp(r) PROVE Calm
  <2>1. UNCHANGED <<topic, made, attempts>> /\ Without(r, "none")
    BY <1>8 DEF GiveUp
  <2>2. \A q \in Runs : CalmRow(q)
    <3>1. CASE Save(r, WithStatus(r, Merged(r, "failed")))
      <4>1. /\ Merged(r, "failed") \in PipelineStatus
            /\ Merged(r, "failed") \in {"failed", run[r].status}
        BY <3>1, MergedType DEF Save, PipelineStatus
      <4>. QED  BY <3>1, <4>1, SavedCalm
    <3>. QED  BY <1>8, <3>1, SameCalm DEF GiveUp
  <2>. QED  BY <2>1, <2>2, RaiseCalm, SameCalm DEF Calm
<1>9. ASSUME NEW r \in Runs, Recover(r) PROVE Calm
  <2>1. UNCHANGED <<topic, made, attempts>> /\ Without(r, "none")
    BY <1>9 DEF Recover
  <2>2. \A q \in Runs : CalmRow(q)
    BY <1>9, FailRunningCalm, SameCalm DEF Recover
  <2>. QED  BY <2>1, <2>2, RaiseCalm, SameCalm DEF Calm
<1>10. CASE \/ \E r \in Runs : TimePasses(r) \/ RetryReads(r)
            \/ WatchdogReads \/ RetryFails \/ UNCHANGED vars
  <2>1. UNCHANGED <<run, topic, pc, made, attempts>>
    BY <1>10 DEF TimePasses, RetryReads, WatchdogReads, RetryFails, vars
  <2>. QED  BY <2>1, SameCalm DEF Calm
<1>11. CASE WatchdogWrites
  <2>1. UNCHANGED <<topic, pc, made, attempts>>
    BY <1>11 DEF WatchdogWrites
  <2>2. \A q \in Runs : CalmRow(q)
    <3>1. CASE run' = [r \in Runs |-> IF r \in stuck THEN WithStatus(r, "failed") ELSE run[r]]
      <4>1. \A r \in Runs : LET row == [run[r] EXCEPT !.status = "failed"] IN
              /\ row.status = "failed" /\ row.topic = run[r].topic
              /\ row.retries = run[r].retries /\ row.upload = run[r].upload
        BY RowType, StatusType DEF PipelineStatus
      <4>. QED  BY <3>1, <4>1 DEF CalmRow, WithStatus
    <3>. QED  BY <1>11, <3>1, SameCalm DEF WatchdogWrites
  <2>. QED  BY <2>1, <2>2, SameCalm DEF Calm
<1>12. ASSUME NEW n \in Runs, RetryWrites(n) PROVE Calm
  <2> DEFINE rows == IF wasRunning THEN [run EXCEPT ![asked].status = "failed"] ELSE run
  <2>1. asked \in Runs /\ run[asked].topic \in Topics
    BY <1>12, RowType DEF RetryWrites, TypeOK
  <2>2. /\ rows \in [Runs -> Run]
        /\ \A q \in Runs : /\ rows[q].upload = run[q].upload
                           /\ rows[q].retries = run[q].retries
                           /\ rows[q].topic = run[q].topic
                           /\ rows[q].status \in {run[q].status, "failed"}
    <3> DEFINE row == [run[asked] EXCEPT !.status = "failed"]
    <3>1. /\ row \in Run /\ row.status = "failed" /\ row.topic = run[asked].topic
          /\ row.retries = run[asked].retries /\ row.upload = run[asked].upload
      BY <2>1, RowType, StatusType DEF PipelineStatus
    <3>2. rows = IF wasRunning THEN [run EXCEPT ![asked] = row] ELSE run
      BY <2>1 DEF TypeOK
    <3> HIDE DEF row, rows
    <3>. QED  BY <2>1, <3>1, <3>2 DEF TypeOK
  <2>3. Enqueue(n, run[asked].topic, rows) /\ UNCHANGED <<topic, made, attempts>>
    BY <1>12 DEF RetryWrites
  <2> HIDE DEF rows
  <2>. QED  BY <2>1, <2>2, <2>3, EnqueueCalm, SameCalm DEF Calm
<1>13. ASSUME NEW r \in Runs, Delete(r) PROVE Calm
  <2> DEFINE row == [run[r] EXCEPT !.status = "deleted"]
  <2>1. /\ row.status = "deleted" /\ row.topic = run[r].topic
        /\ row.retries = run[r].retries /\ row.upload = run[r].upload
    BY RowType, StatusType
  <2>2. run' = [run EXCEPT ![r] = row] /\ UNCHANGED <<topic, pc, made, attempts>>
    BY <1>13 DEF Delete, TypeOK
  <2> HIDE DEF row
  <2>3. \A q \in Runs : CalmRow(q)
    BY <2>1, <2>2 DEF CalmRow, TypeOK
  <2>. QED  BY <2>2, <2>3, SameCalm DEF Calm
<1>14. CASE Restart
  <2>1. UNCHANGED <<topic, made, attempts>> /\ \A q \in Runs : pc'[q] = "none"
    BY <1>14 DEF Restart
  <2>2. \A q \in Runs : CalmRow(q)
    BY <1>14, FailRunningCalm, SameCalm DEF Restart
  <2>. QED  BY <2>1, <2>2, SameCalm DEF Calm, CalmTask
<1>. QED
  BY <1>1, <1>2, <1>3, <1>4, <1>5, <1>6, <1>7, <1>8, <1>9, <1>10, <1>11, <1>12, <1>13, <1>14
  DEF Next, TaskStep, Watchdog

\* A calm step disturbs neither invariant.
LEMMA CalmInv == RunInv /\ Calm /\ TypeOK' => UploadInv' /\ BudgetInv'
<1> SUFFICES ASSUME RunInv, Calm, TypeOK' PROVE UploadInv' /\ BudgetInv'
  OBVIOUS
<1>1. /\ \A r \in Runs : CalmRow(r) /\ CalmTask(r)
      /\ \A t \in Topics : CalmTopic(t)
      /\ made' = made /\ attempts' = attempts
  BY DEF Calm
<1>2. UploadInv'
  <2>1. \A r \in Runs : made'[r] = IF run'[r].upload THEN 1 ELSE 0
    BY <1>1 DEF RunInv, UploadInv, CalmRow
  <2>2. \A r \in Runs : /\ run'[r].status = "none" => ~run'[r].upload
                        /\ run'[r].status = "complete" => run'[r].upload
                        /\ pc'[r] = "finish" => run'[r].upload
    BY <1>1 DEF RunInv, UploadInv, CalmRow, CalmTask
  <2>3. ASSUME NEW t \in Topics, topic'[t] = "published"
        PROVE  \E r \in Runs : run'[r].topic = t /\ run'[r].upload
    <3>1. PICK r \in Runs : run[r].topic = t /\ run[r].upload
      BY <1>1, <2>3 DEF RunInv, UploadInv, CalmTopic
    <3>2. run'[r].topic = t /\ run'[r].upload
      BY <1>1, <3>1 DEF RunInv, UploadInv, CalmRow
    <3>. QED  BY <3>2
  <2>. QED  BY <2>1, <2>2, <2>3 DEF UploadInv
<1>3. BudgetInv'
  <2> SUFFICES ASSUME NEW r \in Runs
               PROVE  /\ attempts'[r] <= run'[r].retries + 1
                      /\ pc'[r] \in {"queued", "begin"} => attempts'[r] <= run'[r].retries
                      /\ run'[r].status = "none" => attempts'[r] = 0
    BY DEF BudgetInv
  <2>1. CalmRow(r) /\ CalmTask(r) /\ attempts' = attempts
    BY <1>1
  <2>2. attempts[r] \in Nat /\ run[r].retries \in Nat
    BY RunAssumption, RowType DEF RunInv, TypeInv, TypeOK
  <2>. QED  BY <2>1, <2>2 DEF RunInv, BudgetInv, CalmRow, CalmTask
<1>. QED  BY <1>2, <1>3

\* Starting an attempt uses up the retry that was counted for it.
LEMMA BeginInv ==
  ASSUME RunInv, NEW r \in Runs, Begin(r)
  PROVE  UploadInv' /\ BudgetInv'
<1> USE DEF RunInv, TypeInv
<1>1. /\ pc[r] = "begin" /\ Exists(r) /\ UNCHANGED <<topic, made>>
      /\ run' = [run EXCEPT ![r] = [run[r] EXCEPT !.status = Merged(r, "running")]]
      /\ attempts' = [attempts EXCEPT ![r] = attempts[r] + 1]
      /\ Committed(r, "script", topic[run[r].topic])
  BY DEF Begin, TypeOK
<1>2. Merged(r, "running") \in PipelineStatus /\ Merged(r, "running") \in {"running", run[r].status}
  BY <1>1, MergedType DEF PipelineStatus
<1>3. /\ \A q \in Runs : run'[q].upload = run[q].upload /\ run'[q].topic = run[q].topic
                         /\ run'[q].retries = run[q].retries
      /\ run'[r].status \in {"running", run[r].status} /\ run'[r].status \in PipelineStatus
      /\ \A q \in Runs \ {r} : run'[q] = run[q]
  <2> DEFINE row == [run[r] EXCEPT !.status = Merged(r, "running")]
  <2>1. /\ row.status = Merged(r, "running") /\ row.topic = run[r].topic
        /\ row.retries = run[r].retries /\ row.upload = run[r].upload
    BY <1>2, RowType, StatusType
  <2>2. run' = [run EXCEPT ![r] = row]
    BY <1>1
  <2> HIDE DEF row
  <2>. QED  BY <1>2, <2>1, <2>2 DEF TypeOK
<1>4. pc'[r] \in {"script", "retryable", "fatal"} /\ \A q \in Runs \ {r} : pc'[q] = pc[q]
  <2>1. "script" \in Pcs /\ topic[run[r].topic] \in TopicStatus
    BY RowType DEF Pcs, Stages, TypeOK
  <2>. QED  BY <1>1, <1>3, <2>1, CommittedType
<1>5. UploadInv'
  BY <1>1, <1>3, <1>4 DEF UploadInv
<1>6. BudgetInv'
  <2>1. ASSUME NEW q \in Runs \ {r}
        PROVE  /\ attempts'[q] <= run'[q].retries + 1
               /\ pc'[q] \in {"queued", "begin"} => attempts'[q] <= run'[q].retries
               /\ run'[q].status = "none" => attempts'[q] = 0
    BY <1>1, <1>3, <1>4, <2>1 DEF BudgetInv, TypeOK
  <2>2. attempts'[r] <= run'[r].retries + 1
    BY <1>1, <1>3, RowType, RunAssumption DEF BudgetInv, TypeOK
  <2>3. pc'[r] \notin {"queued", "begin"} /\ run'[r].status # "none"
    BY <1>3, <1>4 DEF PipelineStatus
  <2>. QED  BY <2>1, <2>2, <2>3 DEF BudgetInv
<1>. QED  BY <1>5, <1>6

\* A run without an upload gets one, a run with an upload keeps it.
LEMMA AttachInv ==
  ASSUME RunInv, NEW r \in Runs, Attach(r)
  PROVE  UploadInv' /\ BudgetInv'
<1> USE DEF RunInv, TypeInv
<1>1. UNCHANGED <<topic, attempts>>
  BY DEF Attach
<1>2. "finish" \in Pcs
  BY DEF Pcs, Stages
<1>3. CASE /\ run[r].upload /\ Task(r, "finish", mem[r], topicMem[r])
           /\ UNCHANGED <<run, made>>
  <2>1. pc'[r] = "finish" /\ \A q \in Runs \ {r} : pc'[q] = pc[q]
    BY <1>3 DEF Task, TypeOK
  <2>2. UploadInv'
    BY <1>1, <1>3, <2>1 DEF UploadInv
  <2>3. BudgetInv'
    BY <1>1, <1>3, <2>1 DEF BudgetInv
  <2>. QED  BY <2>2, <2>3
<1>4. CASE /\ ~run[r].upload /\ made' = [made EXCEPT ![r] = @ + 1]
           /\ Save(r, [run[r] EXCEPT !.upload = TRUE])
           /\ Committed(r, "finish", topicMem[r])
  <2> DEFINE row == [run[r] EXCEPT !.upload = TRUE]
  <2>1. /\ row \in Run /\ row.upload = TRUE /\ row.status = run[r].status
        /\ row.topic = run[r].topic /\ row.retries = run[r].retries
    BY RowType DEF Run
  <2>2. Save(r, row)
    BY <1>4
  <2> HIDE DEF row
  <2>3. Exists(r) /\ run'[r] = row /\ \A q \in Runs \ {r} : run'[q] = run[q]
    BY <2>1, <2>2, SaveType
  <2>4. run'[r].status \in PipelineStatus
    BY <2>1, <2>3, ExistsStatus
  <2>5. pc'[r] \in {"finish", "retryable", "fatal"} /\ \A q \in Runs \ {r} : pc'[q] = pc[q]
    <3>1. topicMem[r] \in TopicStatus \union {"none"}
      BY DEF TypeOK
    <3>. QED  BY <1>2, <1>4, <2>4, <3>1, CommittedType
  <2>6. UploadInv'
    <3>1. made[r] = 0 /\ made'[r] = 1 /\ \A q \in Runs \ {r} : made'[q] = made[q]
      BY <1>4 DEF UploadInv, TypeOK
    <3>2. \A q \in Runs : made'[q] = IF run'[q].upload THEN 1 ELSE 0
      BY <2>1, <2>3, <3>1 DEF UploadInv
    <3>3. \A q \in Runs : /\ run'[q].status = "none" => ~run'[q].upload
                          /\ run'[q].status = "complete" => run'[q].upload
                          /\ pc'[q] = "finish" => run'[q].upload
      BY <2>1, <2>3, <2>4, <2>5 DEF UploadInv, PipelineStatus
    <3>4. \A q \in Runs : run'[q].topic = run[q].topic /\ (run[q].upload => run'[q].upload)
      BY <2>1, <2>3
    <3>. QED  BY <1>1, <3>2, <3>3, <3>4 DEF UploadInv
  <2>7. BudgetInv'
    BY <1>1, <2>1, <2>3, <2>5 DEF BudgetInv
  <2>. QED  BY <2>6, <2>7
<1>. QED  BY <1>3, <1>4 DEF Attach

\* COMPLETE and PUBLISHED are written by a task that has attached the upload.
LEMMA FinishInv ==
  ASSUME RunInv, NEW r \in Runs, Finish(r)
  PROVE  UploadInv' /\ BudgetInv'
<1> USE DEF RunInv, TypeInv
<1>1. /\ SetTopic(r, "published") /\ Save(r, WithStatus(r, Merged(r, "complete")))
      /\ Outcome(r) /\ pc[r] = "finish" /\ UNCHANGED <<attempts, made>>
  BY DEF Finish
<1>2. Merged(r, "complete") \in PipelineStatus
  BY <1>1, MergedType DEF Save, PipelineStatus
<1>3. /\ run'[r].status \in PipelineStatus
      /\ \A q \in Runs \ {r} : run'[q] = run[q]
      /\ \A q \in Runs : /\ run'[q].topic = run[q].topic
                         /\ run'[q].retries = run[q].retries
                         /\ run'[q].upload = run[q].upload
  BY <1>1, <1>2, SavedStatus
<1>4. pc'[r] \in {"log", "retryable", "fatal"} /\ \A q \in Runs \ {r} : pc'[q] = pc[q]
  BY <1>1, OutcomeType
<1>5. \A t \in Topics : topic'[t] # topic[t] => t = run[r].topic
  BY <1>1, SetTopicType DEF TopicStatus
<1>6. run[r].upload
  BY <1>1 DEF UploadInv
<1>7. UploadInv'
  <2>1. \A q \in Runs : made'[q] = IF run'[q].upload THEN 1 ELSE 0
    BY <1>1, <1>3 DEF UploadInv
  <2>2. \A q \in Runs : /\ run'[q].status = "none" => ~run'[q].upload
                        /\ run'[q].status = "complete" => run'[q].upload
                        /\ pc'[q] = "finish" => run'[q].upload
    BY <1>3, <1>4, <1>6 DEF UploadInv, PipelineStatus
  <2>3. ASSUME NEW t \in Topics, topic'[t] = "published"
        PROVE  \E q \in Runs : run'[q].topic = t /\ run'[q].upload
    BY <1>3, <1>5, <1>6, <2>3 DEF UploadInv
  <2>. QED  BY <2>1, <2>2, <2>3 DEF UploadInv
<1>8. BudgetInv'
  BY <1>1, <1>3, <1>4 DEF BudgetInv, PipelineStatus
<1>. QED  BY <1>7, <1>8

\* A retry is counted before the next attempt may begin; when the count is lost,
\* or may be lost, no attempt follows.
LEMMA BackoffInv ==
  ASSUME RunInv, NEW r \in Runs, Backoff(r)
  PROVE  UploadInv' /\ BudgetInv'
<1> USE DEF RunInv, TypeInv
<1>1. UNCHANGED <<topic, attempts, made>> /\ pc[r] = "backoff"
  BY DEF Backoff
<1>2. attempts[r] \in Nat /\ run[r].retries \in Nat /\ run[r].retries < MaxRetries
  BY <1>1, RowType, RunAssumption DEF TypeOK
<1>3. CASE /\ Save(r, [run[r] EXCEPT !.status = Merged(r, "running"), !.retries = @ + 1])
           /\ \/ NoFault /\ Task(r, "begin", run'[r].status, "none")
              \/ Fault("ack") /\ Raise(r, {"broken"})
  <2> DEFINE row == [run[r] EXCEPT !.status = Merged(r, "running"), !.retries = @ + 1]
  <2>1. /\ Merged(r, "running") \in PipelineStatus
        /\ Merged(r, "running") \in {"running", run[r].status}
    BY <1>3, MergedType DEF Save, PipelineStatus
  <2>2. run[r].retries + 1 \in 0..MaxRetries
    BY <1>2, RunAssumption
  <2>3. /\ row \in Run /\ row.status = Merged(r, "running") /\ row.topic = run[r].topic
        /\ row.retries = run[r].retries + 1 /\ row.upload = run[r].upload
    BY <2>1, <2>2, RowType DEF Run
  <2>4. Save(r, row)
    BY <1>3
  <2> HIDE DEF row
  <2>5. run'[r] = row /\ \A q \in Runs \ {r} : run'[q] = run[q]
    BY <2>3, <2>4, SaveType
  <2>6. pc'[r] \in {"begin", "broken"} /\ \A q \in Runs \ {r} : pc'[q] = pc[q]
    <3>1. CASE Task(r, "begin", run'[r].status, "none")
      BY <3>1 DEF Task, TypeOK
    <3>2. CASE Raise(r, {"broken"})
      BY <3>2, RaiseType
    <3>. QED  BY <1>3, <3>1, <3>2
  <2>7. UploadInv'
    <3>1. \A q \in Runs : run'[q].upload = run[q].upload /\ run'[q].topic = run[q].topic
      BY <2>3, <2>5
    <3>2. run'[r].status \in {"running", run[r].status}
      BY <2>1, <2>3, <2>5
    <3>. QED  BY <1>1, <2>5, <2>6, <3>1, <3>2 DEF UploadInv
  <2>8. BudgetInv'
    <3>1. run'[r].retries = run[r].retries + 1 /\ run'[r].status # "none"
      BY <2>1, <2>3, <2>5 DEF PipelineStatus
    <3>2. attempts[r] <= run'[r].retries /\ attempts[r] <= run'[r].retries + 1
      BY <1>2, <3>1 DEF BudgetInv
    <3>. QED  BY <1>1, <2>5, <2>6, <3>1, <3>2 DEF BudgetInv
  <2>. QED  BY <2>7, <2>8
<1>4. CASE Raise(r, {"broken"}) /\ UNCHANGED run
  <2>1. pc'[r] = "broken" /\ \A q \in Runs \ {r} : pc'[q] = pc[q]
    BY <1>4, RaiseType
  <2>2. UploadInv'
    BY <1>1, <1>4, <2>1 DEF UploadInv
  <2>3. BudgetInv'
    BY <1>1, <1>4, <2>1 DEF BudgetInv
  <2>. QED  BY <2>2, <2>3
<1>. QED  BY <1>3, <1>4 DEF Backoff

\* Runs, uploads and retries agree at first and after every step.
LEMMA RunStep == (Init => RunInv) /\ (RunInv /\ [Next]_vars => RunInv')
<1>1. Init => RunInv
  <2> SUFFICES ASSUME Init PROVE RunInv
    OBVIOUS
  <2>1. UploadInv
    BY DEF Init, UploadInv
  <2>2. BudgetInv
    BY DEF Init, BudgetInv
  <2>. QED  BY <2>1, <2>2, TypeInit DEF RunInv
<1>2. ASSUME RunInv, [Next]_vars PROVE RunInv'
  <2>1. TypeInv /\ TypeInv' /\ TypeOK'
    BY <1>2, TypeStep DEF RunInv, TypeInv
  <2>2. CASE Calm
    BY <1>2, <2>1, <2>2, CalmInv DEF RunInv
  <2>3. CASE \E r \in Runs : Begin(r) \/ Attach(r) \/ Finish(r) \/ Backoff(r)
    BY <1>2, <2>1, <2>3, BeginInv, AttachInv, FinishInv, BackoffInv DEF RunInv
  <2>. QED  BY <1>2, <2>1, <2>2, <2>3, CalmStep
<1>. QED  BY <1>1, <1>2

\* However many attempts, tasks, watchdog passes and dashboard requests work on a
\* run, and whatever is lost: it makes at most one Upload row.
THEOREM OneUpload == Spec => []OneUploadPerRun
<1>1. RunInv => OneUploadPerRun
  BY DEF RunInv, UploadInv, OneUploadPerRun
<1>. QED  BY <1>1, RunStep, PTL DEF Spec

\* A run that shows COMPLETE, and a topic that shows PUBLISHED, has an upload.
THEOREM CompleteIsTrue == Spec => []CompleteHasUpload
<1>1. RunInv => CompleteHasUpload
  <2> SUFFICES ASSUME RunInv PROVE CompleteHasUpload
    OBVIOUS
  <2>1. \A r \in Runs : run[r].upload => made[r] = 1 /\ made[r] > 0
    BY DEF RunInv, UploadInv
  <2>. QED  BY <2>1 DEF RunInv, UploadInv, CompleteHasUpload
<1>. QED  BY <1>1, RunStep, PTL DEF Spec

\* The stages are entered at most max_retries + 1 times per run, even when the
\* bookkeeping of a retry is lost.
THEOREM BudgetKept == Spec => []RetryBudget
<1>1. RunInv => RetryBudget
  <2> SUFFICES ASSUME RunInv, NEW r \in Runs PROVE attempts[r] <= MaxRetries + 1
    BY DEF RetryBudget
  <2>1. attempts[r] \in Nat /\ run[r].retries \in 0..MaxRetries
    BY RowType DEF RunInv, TypeInv, TypeOK
  <2>. QED  BY <2>1, RunAssumption DEF RunInv, BudgetInv
<1>. QED  BY <1>1, RunStep, PTL DEF Spec

-----------------------------------------------------------------------------
(* The refinement of RunLifecycle.                                         *)

\* Who has read a row read it when it was RUNNING, and no row becomes PENDING
\* again.
Passed(r) == run[r].status \notin {"none", "pending"}
ReadInv ==
  /\ \A r \in stuck : Passed(r)
  /\ wasRunning => asked \in Runs /\ Passed(asked)

\* The row of q as the dashboard shows it does not change.
SameRow(q) == run'[q].status = run[q].status /\ run'[q].upload = run[q].upload
SameWorker(q) == Worker(q)' = Worker(q)

\* Nothing changes for the dashboard.
LEMMA MapsToStutter ==
  ASSUME \A q \in Runs : SameRow(q) /\ SameWorker(q)
  PROVE  UNCHANGED Lifecycle!vars
BY DEF SameRow, SameWorker, Lifecycle!vars

\* A live worker moves its run to RUNNING.
LEMMA MapsToWork ==
  ASSUME NEW r \in Runs, Worker(r), Exists(r), run'[r].status = "running",
         run'[r].upload = run[r].upload,
         \A q \in Runs \ {r} : SameRow(q), \A q \in Runs : SameWorker(q)
  PROVE  Lifecycle!Next
<1>1. Lifecycle!Work(r)
  BY DEF Lifecycle!Work, Lifecycle!Show, SameRow, SameWorker, Exists
<1>. QED  BY <1>1 DEF Lifecycle!Next

\* A live worker completes a run that has its upload.
LEMMA MapsToComplete ==
  ASSUME NEW r \in Runs, Worker(r), Exists(r), run[r].upload,
         run'[r].status = "complete", run'[r].upload = run[r].upload,
         \A q \in Runs \ {r} : SameRow(q), \A q \in Runs : SameWorker(q)
  PROVE  Lifecycle!Next
<1>1. Lifecycle!Complete(r)
  BY DEF Lifecycle!Complete, Lifecycle!Show, SameRow, SameWorker, Exists
<1>. QED  BY <1>1 DEF Lifecycle!Next

\* A live worker attaches the upload.
LEMMA MapsToMakeUpload ==
  ASSUME NEW r \in Runs, Worker(r), Exists(r), run[r].upload = FALSE,
         run'[r].upload = TRUE, run'[r].status = run[r].status,
         \A q \in Runs \ {r} : SameRow(q), \A q \in Runs : SameWorker(q)
  PROVE  Lifecycle!Next
<1>1. Lifecycle!MakeUpload(r)
  BY DEF Lifecycle!MakeUpload, SameRow, SameWorker, Exists
<1>. QED  BY <1>1 DEF Lifecycle!Next

\* Runs R are failed and the workers W end.
LEMMA MapsToFail ==
  ASSUME NEW R \in SUBSET Runs, NEW W \in SUBSET Runs,
         \A r \in R : \/ run[r].status \in {"running", "complete"}
                      \/ run[r].status = "pending" /\ Worker(r),
         \A q \in Runs : /\ run'[q].status = IF q \in R THEN "failed" ELSE run[q].status
                         /\ run'[q].upload = run[q].upload,
         \A q \in Runs : Worker(q)' = (Worker(q) /\ q \notin W)
  PROVE  Lifecycle!Next
<1>1. Lifecycle!Fail(R, W)
  BY DEF Lifecycle!Fail
<1>. QED  BY <1>1 DEF Lifecycle!Next

\* One run is failed, or was already, and its worker ends or goes on.
LEMMA MapsToFailOne ==
  ASSUME TypeOK, NEW r \in Runs, Exists(r), Worker(r), run'[r].status \in {"failed", run[r].status},
         run'[r].upload = run[r].upload,
         \A q \in Runs \ {r} : SameRow(q) /\ SameWorker(q)
  PROVE  Lifecycle!Next
<1> DEFINE R == IF run'[r].status = run[r].status THEN {} ELSE {r}
           W == IF Worker(r)' THEN {} ELSE {r}
<1>1. R \in SUBSET Runs /\ W \in SUBSET Runs
  OBVIOUS
<1>2. \A x \in R : \/ run[x].status \in {"running", "complete"}
                   \/ run[x].status = "pending" /\ Worker(x)
  BY ExistsStatus DEF PipelineStatus
<1>3. \A q \in Runs : /\ run'[q].status = IF q \in R THEN "failed" ELSE run[q].status
                      /\ run'[q].upload = run[q].upload
  BY DEF SameRow
<1>4. \A q \in Runs : Worker(q)' = (Worker(q) /\ q \notin W)
  BY DEF SameWorker, Worker
<1> HIDE DEF R, W
<1>. QED  BY <1>1, <1>2, <1>3, <1>4, MapsToFail

\* A run is queued, with a worker or without.
LEMMA MapsToQueue ==
  ASSUME NEW n \in Runs, run[n].status = "none", run'[n].status = "pending",
         run'[n].upload = run[n].upload, Worker(n)' \in {Worker(n), TRUE},
         \A q \in Runs \ {n} : SameRow(q) /\ SameWorker(q)
  PROVE  Lifecycle!Next
<1>1. CASE Worker(n)' = Worker(n)
  <2>1. Lifecycle!Queue(n)
    BY <1>1 DEF Lifecycle!Queue, Lifecycle!Show, SameRow, SameWorker
  <2>. QED  BY <2>1 DEF Lifecycle!Next
<1>2. CASE Worker(n)' = TRUE
  <2>1. Lifecycle!Queue(n)
    BY <1>2 DEF Lifecycle!Queue, Lifecycle!Show, SameRow, SameWorker
  <2>. QED  BY <2>1 DEF Lifecycle!Next
<1>. QED  BY <1>1, <1>2

\* A run is failed and another queued in its place.
LEMMA MapsToReplace ==
  ASSUME NEW r \in Runs, NEW n \in Runs \ {r}, run[n].status = "none",
         run'[n].status = "pending", run'[n].upload = run[n].upload,
         Worker(n)' \in {Worker(n), TRUE},
         run[r].status \in {"running", "complete", "failed"}, run'[r].status = "failed",
         run'[r].upload = run[r].upload, SameWorker(r),
         \A q \in Runs \ {r, n} : SameRow(q) /\ SameWorker(q)
  PROVE  Lifecycle!Next
<1>1. CASE Worker(n)' = Worker(n)
  <2>1. Lifecycle!Replace(r, n)
    BY <1>1 DEF Lifecycle!Replace, SameRow, SameWorker
  <2>. QED  BY <2>1 DEF Lifecycle!Next
<1>2. CASE Worker(n)' = TRUE
  <2>1. Lifecycle!Replace(r, n)
    BY <1>2 DEF Lifecycle!Replace, SameRow, SameWorker
  <2>. QED  BY <2>1 DEF Lifecycle!Next
<1>. QED  BY <1>1, <1>2

\* A run is deleted.
LEMMA MapsToDelete ==
  ASSUME NEW r \in Runs, Exists(r), run'[r].status = "deleted", run'[r].upload = run[r].upload,
         \A q \in Runs \ {r} : SameRow(q), \A q \in Runs : SameWorker(q)
  PROVE  Lifecycle!Next
<1>1. Lifecycle!Delete(r)
  BY DEF Lifecycle!Delete, Lifecycle!Show, SameRow, SameWorker, Exists
<1>. QED  BY <1>1 DEF Lifecycle!Next

\* A task that is somewhere before the step and somewhere after it.
LEMMA TaskGoesOn ==
  ASSUME NEW r \in Runs, pc[r] # "none", pc'[r] # "none",
         \A q \in Runs \ {r} : pc'[q] = pc[q]
  PROVE  \A q \in Runs : SameWorker(q)
BY DEF SameWorker, Worker

\* Rows as they were, and a task that goes on or ends.
LEMMA MapsToTask ==
  ASSUME NEW r \in Runs, pc[r] # "none", \A q \in Runs \ {r} : pc'[q] = pc[q],
         \A q \in Runs : SameRow(q)
  PROVE  [Lifecycle!Next]_(Lifecycle!vars)
<1>1. CASE pc'[r] # "none"
  BY <1>1, TaskGoesOn, MapsToStutter
<1>2. CASE pc'[r] = "none"
  <2>1. \A q \in Runs : Worker(q)' = (Worker(q) /\ q \notin {r})
    BY <1>2 DEF Worker
  <2>2. \A q \in Runs : /\ run'[q].status = IF q \in {} THEN "failed" ELSE run[q].status
                        /\ run'[q].upload = run[q].upload
    BY DEF SameRow
  <2>3. Lifecycle!Next
    <3> DEFINE R == {} W == {r}
    <3>1. R \in SUBSET Runs /\ W \in SUBSET Runs /\ \A x \in R : FALSE
      OBVIOUS
    <3>2. \A q \in Runs : /\ run'[q].status = IF q \in R THEN "failed" ELSE run[q].status
                          /\ run'[q].upload = run[q].upload
      BY <2>2
    <3>3. \A q \in Runs : Worker(q)' = (Worker(q) /\ q \notin W)
      BY <2>1
    <3> HIDE DEF R, W
    <3>. QED  BY <3>1, <3>2, <3>3, MapsToFail
  <2>. QED  BY <2>3
<1>. QED  BY <1>1, <1>2

\* The running rows of R are failed, and the workers of W end.
LEMMA MapsToFailRunning ==
  ASSUME TypeOK, NEW R \in SUBSET Runs, NEW W \in SUBSET Runs,
         FailRunning(R) \/ UNCHANGED run,
         \A q \in Runs : Worker(q)' = (Worker(q) /\ q \notin W)
  PROVE  Lifecycle!Next
<1> DEFINE F == {q \in Runs : run'[q].status # run[q].status}
<1>1. F \in SUBSET Runs
  OBVIOUS
<1>2. \A q \in Runs : /\ run'[q].status = IF q \in F THEN "failed" ELSE run[q].status
                      /\ run'[q].upload = run[q].upload
  BY FailRunningType
<1>3. \A q \in F : run[q].status \in {"running", "complete"}
  BY FailRunningType
<1> HIDE DEF F
<1>. QED  BY <1>1, <1>2, <1>3, MapsToFail

\* Every step of the rows and tasks is a step of the dashboard's view, or none.
LEMMA RefinesStep ==
  ASSUME RunInv, ReadInv, [Next]_vars
  PROVE  [Lifecycle!Next]_(Lifecycle!vars)
<1> USE DEF RunInv, TypeInv
<1>1. ASSUME NEW n \in Runs, NEW t \in Topics, Start(n, t) PROVE Lifecycle!Next
  <2>1. run \in [Runs -> Run] /\ Enqueue(n, t, run)
    BY <1>1 DEF Start, TypeOK
  <2>2. /\ run[n].status = "none" /\ run'[n].status = "pending"
        /\ run'[n].upload = run[n].upload
        /\ \A q \in Runs \ {n} : run'[q] = run[q]
        /\ pc'[n] \in {"queued", pc[n]} /\ \A q \in Runs \ {n} : pc'[q] = pc[q]
    BY <2>1, EnqueueType
  <2>3. /\ Worker(n)' \in {Worker(n), TRUE}
        /\ \A q \in Runs \ {n} : SameRow(q) /\ SameWorker(q)
    BY <2>2 DEF Worker, SameRow, SameWorker
  <2>. QED  BY <2>2, <2>3, MapsToQueue
<1>2. ASSUME NEW r \in Runs, Load(r) PROVE [Lifecycle!Next]_(Lifecycle!vars)
  <2>1. UNCHANGED run /\ pc[r] = "queued" /\ \A q \in Runs \ {r} : pc'[q] = pc[q]
    BY <1>2 DEF Load, Task, Without, TypeOK
  <2>2. \A q \in Runs : SameRow(q)
    BY <2>1 DEF SameRow
  <2>. QED  BY <2>1, <2>2, MapsToTask
<1>3. ASSUME NEW r \in Runs, Begin(r) PROVE [Lifecycle!Next]_(Lifecycle!vars)
  <2>1. /\ pc[r] = "begin" /\ Exists(r)
        /\ run' = [run EXCEPT ![r] = [run[r] EXCEPT !.status = Merged(r, "running")]]
        /\ Committed(r, "script", topic[run[r].topic])
    BY <1>3 DEF Begin, TypeOK
  <2>2. /\ Merged(r, "running") \in PipelineStatus
        /\ Merged(r, "running") \in {"running", run[r].status}
    BY <2>1, MergedType DEF PipelineStatus
  <2>3. /\ run'[r].status = Merged(r, "running") /\ run'[r].upload = run[r].upload
        /\ \A q \in Runs \ {r} : run'[q] = run[q]
    <3> DEFINE row == [run[r] EXCEPT !.status = Merged(r, "running")]
    <3>1. row.status = Merged(r, "running") /\ row.upload = run[r].upload
      BY <2>2, RowType, StatusType
    <3>2. run' = [run EXCEPT ![r] = row]
      BY <2>1
    <3> HIDE DEF row
    <3>. QED  BY <3>1, <3>2 DEF TypeOK
  <2>4. pc'[r] \in {"script", "retryable", "fatal"} /\ \A q \in Runs \ {r} : pc'[q] = pc[q]
    <3>1. "script" \in Pcs /\ topic[run[r].topic] \in TopicStatus
      BY RowType DEF Pcs, Stages, TypeOK
    <3>. QED  BY <2>1, <2>2, <2>3, <3>1, CommittedType
  <2>5. \A q \in Runs : SameWorker(q)
    BY <2>1, <2>4, TaskGoesOn
  <2>6. Worker(r) /\ \A q \in Runs \ {r} : SameRow(q)
    BY <2>1, <2>3 DEF Worker, SameRow
  <2>7. CASE run'[r].status = "running"
    BY <2>1, <2>3, <2>5, <2>6, <2>7, MapsToWork
  <2>8. CASE run'[r].status = run[r].status
    BY <2>3, <2>5, <2>6, <2>8, MapsToStutter DEF SameRow
  <2>. QED  BY <2>2, <2>3, <2>7, <2>8
<1>4. ASSUME NEW r \in Runs, StageDone(r) PROVE [Lifecycle!Next]_(Lifecycle!vars)
  <2>1. PICK p \in Stages : Committed(r, p, topicMem[r])
    BY <1>4 DEF StageDone, Stages
  <2>2. Save(r, run[r]) /\ pc[r] # "none"
    BY <1>4 DEF StageDone
  <2>3. (\A q \in Runs : run'[q] = run[q]) /\ run'[r].status \in PipelineStatus
    BY <2>2, RowType, SaveType, ExistsStatus
  <2>4. p \in Pcs /\ topicMem[r] \in TopicStatus \union {"none"}
    BY DEF Pcs, TypeOK
  <2>5. \A q \in Runs \ {r} : pc'[q] = pc[q]
    BY <2>1, <2>3, <2>4, CommittedType
  <2>. QED  BY <2>2, <2>3, <2>5, MapsToTask DEF SameRow
<1>5. ASSUME NEW r \in Runs, GateFails(r) PROVE Lifecycle!Next
  <2>1. /\ Save(r, WithStatus(r, Merged(r, "failed"))) /\ Exists(r)
        /\ Outcome(r) /\ pc[r] # "none"
    BY <1>5 DEF GateFails, Save
  <2>2. Merged(r, "failed") \in PipelineStatus /\ Merged(r, "failed") \in {"failed", run[r].status}
    BY <2>1, MergedType DEF PipelineStatus
  <2>3. /\ run'[r].status \in {"failed", run[r].status} /\ run'[r].upload = run[r].upload
        /\ \A q \in Runs \ {r} : run'[q] = run[q]
    BY <2>1, <2>2, SavedStatus
  <2>4. \A q \in Runs \ {r} : pc'[q] = pc[q]
    BY <2>1, OutcomeType
  <2>. QED  BY <2>1, <2>3, <2>4, MapsToFailOne DEF Worker, SameRow, SameWorker
<1>6. ASSUME NEW r \in Runs, RenderFails(r) PROVE Lifecycle!Next
  <2>1. /\ Save(r, WithStatus(r, "failed")) /\ Exists(r) /\ pc[r] # "none"
        /\ Without(r, "none") \/ Raise(r, {"retryable", "fatal"})
    BY <1>6 DEF RenderFails, Save
  <2>2. /\ run'[r].status = "failed" /\ run'[r].upload = run[r].upload
        /\ \A q \in Runs \ {r} : run'[q] = run[q]
    BY <2>1, SavedStatus DEF PipelineStatus
  <2>3. \A q \in Runs \ {r} : pc'[q] = pc[q]
    BY <2>1 DEF Raise, Without, Task, TypeOK
  <2>. QED  BY <2>1, <2>2, <2>3, MapsToFailOne DEF Worker, SameRow, SameWorker
<1>7. ASSUME NEW r \in Runs, Attach(r) PROVE [Lifecycle!Next]_(Lifecycle!vars)
  <2>1. pc[r] # "none"
    BY <1>7 DEF Attach
  <2>2. CASE Task(r, "finish", mem[r], topicMem[r]) /\ UNCHANGED run
    <3>1. \A q \in Runs \ {r} : pc'[q] = pc[q]
      BY <2>2 DEF Task, TypeOK
    <3>. QED  BY <2>1, <2>2, <3>1, MapsToTask DEF SameRow
  <2>3. CASE /\ ~run[r].upload /\ Save(r, [run[r] EXCEPT !.upload = TRUE])
             /\ Committed(r, "finish", topicMem[r])
    <3> DEFINE row == [run[r] EXCEPT !.upload = TRUE]
    <3>1. row \in Run /\ row.upload = TRUE /\ row.status = run[r].status
      BY RowType DEF Run
    <3>2. Save(r, row)
      BY <2>3
    <3> HIDE DEF row
    <3>3. Exists(r) /\ run'[r] = row /\ \A q \in Runs \ {r} : run'[q] = run[q]
      BY <3>1, <3>2, SaveType
    <3>4. run'[r].status \in PipelineStatus
      BY <3>1, <3>3, ExistsStatus
    <3>5. pc'[r] \in {"finish", "retryable", "fatal"} /\ \A q \in Runs \ {r} : pc'[q] = pc[q]
      <4>1. "finish" \in Pcs /\ topicMem[r] \in TopicStatus \union {"none"}
        BY DEF Pcs, Stages, TypeOK
      <4>. QED  BY <2>3, <3>4, <4>1, CommittedType
    <3>6. \A q \in Runs : SameWorker(q)
      BY <2>1, <3>5, TaskGoesOn
    <3>7. run[r].upload = FALSE
      BY <2>3, RowType
    <3>. QED
      BY <2>1, <3>1, <3>3, <3>6, <3>7, MapsToMakeUpload DEF Worker, SameRow
  <2>. QED  BY <1>7, <2>2, <2>3 DEF Attach
<1>8. ASSUME NEW r \in Runs, Finish(r) PROVE [Lifecycle!Next]_(Lifecycle!vars)
  <2>1. /\ Save(r, WithStatus(r, Merged(r, "complete"))) /\ Exists(r)
        /\ Outcome(r) /\ pc[r] = "finish"
    BY <1>8 DEF Finish, Save
  <2>2. /\ Merged(r, "complete") \in PipelineStatus
        /\ Merged(r, "complete") \in {"complete", run[r].status}
    BY <2>1, MergedType DEF PipelineStatus
  <2>3. /\ run'[r].status \in {"complete", run[r].status} /\ run'[r].upload = run[r].upload
        /\ \A q \in Runs \ {r} : run'[q] = run[q]
    BY <2>1, <2>2, SavedStatus
  <2>4. pc'[r] \in {"log", "retryable", "fatal"} /\ \A q \in Runs \ {r} : pc'[q] = pc[q]
    BY <2>1, OutcomeType
  <2>5. \A q \in Runs : SameWorker(q)
    BY <2>1, <2>4, TaskGoesOn
  <2>6. run[r].upload /\ Worker(r) /\ \A q \in Runs \ {r} : SameRow(q)
    BY <2>1, <2>3 DEF UploadInv, Worker, SameRow
  <2>7. CASE run'[r].status = "complete"
    BY <2>1, <2>3, <2>5, <2>6, <2>7, MapsToComplete
  <2>8. CASE run'[r].status = run[r].status
    BY <2>3, <2>5, <2>6, <2>8, MapsToStutter DEF SameRow
  <2>. QED  BY <2>3, <2>7, <2>8
<1>9. ASSUME NEW r \in Runs,
             \/ Log(r) \/ StageRaises(r) \/ DbFails(r)
             \/ RowGone(r) \/ Broken(r) \/ Handle(r)
      PROVE  [Lifecycle!Next]_(Lifecycle!vars)
  <2>1. UNCHANGED run
    BY <1>9 DEF Log, StageRaises, DbFails, RowGone, Broken, Handle
  <2>2. pc[r] # "none"
    BY <1>9 DEF Log, StageRaises, DbFails, RowGone, Broken, Handle, Stages
  <2>3. \E p, s, ts : Task(r, p, s, ts)
    BY <1>9 DEF Log, StageRaises, DbFails, RowGone, Broken, Handle, Raise, Without
  <2>4. \A q \in Runs \ {r} : pc'[q] = pc[q]
    BY <2>3 DEF Task, TypeOK
  <2>. QED  BY <2>1, <2>2, <2>4, MapsToTask DEF SameRow
<1>10. ASSUME NEW r \in Runs, Backoff(r) PROVE [Lifecycle!Next]_(Lifecycle!vars)
  <2>1. pc[r] = "backoff"
    BY <1>10 DEF Backoff
  <2>2. CASE /\ Save(r, [run[r] EXCEPT !.status = Merged(r, "running"), !.retries = @ + 1])
             /\ \/ Task(r, "begin", run'[r].status, "none")
                \/ Raise(r, {"broken"})
    <3> DEFINE row == [run[r] EXCEPT !.status = Merged(r, "running"), !.retries = @ + 1]
    <3>1. /\ Merged(r, "running") \in PipelineStatus
          /\ Merged(r, "running") \in {"running", run[r].status} /\ Exists(r)
      BY <2>2, MergedType DEF Save, PipelineStatus
    <3>2. run[r].retries + 1 \in 0..MaxRetries
      BY <2>1, RowType, RunAssumption
    <3>3. row \in Run /\ row.status = Merged(r, "running") /\ row.upload = run[r].upload
      BY <3>1, <3>2, RowType DEF Run
    <3>4. Save(r, row)
      BY <2>2
    <3> HIDE DEF row
    <3>5. run'[r] = row /\ \A q \in Runs \ {r} : run'[q] = run[q]
      BY <3>3, <3>4, SaveType
    <3>6. pc'[r] # "none" /\ \A q \in Runs \ {r} : pc'[q] = pc[q]
      BY <2>2 DEF Raise, Without, Task, TypeOK
    <3>7. \A q \in Runs : SameWorker(q)
      BY <2>1, <3>6, TaskGoesOn
    <3>8. Worker(r) /\ run'[r].upload = run[r].upload /\ \A q \in Runs \ {r} : SameRow(q)
      BY <2>1, <3>3, <3>5 DEF Worker, SameRow
    <3>9. CASE run'[r].status = "running"
      BY <3>1, <3>7, <3>8, <3>9, MapsToWork
    <3>10. CASE run'[r].status = run[r].status
      BY <3>7, <3>8, <3>10, MapsToStutter DEF SameRow
    <3>. QED  BY <3>1, <3>3, <3>5, <3>9, <3>10
  <2>3. CASE Raise(r, {"broken"}) /\ UNCHANGED run
    <3>1. \A q \in Runs \ {r} : pc'[q] = pc[q]
      BY <2>3, RaiseType
    <3>. QED  BY <2>1, <2>3, <3>1, MapsToTask DEF SameRow
  <2>. QED  BY <1>10, <2>2, <2>3 DEF Backoff
<1>11. ASSUME NEW r \in Runs, GiveUp(r) PROVE [Lifecycle!Next]_(Lifecycle!vars)
  <2>1. pc[r] # "none" /\ \A q \in Runs \ {r} : pc'[q] = pc[q]
    BY <1>11 DEF GiveUp, Without, Task, TypeOK
  <2>2. CASE Save(r, WithStatus(r, Merged(r, "failed")))
    <3>1. /\ Merged(r, "failed") \in PipelineStatus /\ Exists(r)
          /\ Merged(r, "failed") \in {"failed", run[r].status}
      BY <2>2, MergedType DEF Save, PipelineStatus
    <3>2. /\ run'[r].status \in {"failed", run[r].status} /\ run'[r].upload = run[r].upload
          /\ \A q \in Runs \ {r} : run'[q] = run[q]
      BY <2>2, <3>1, SavedStatus
    <3>. QED  BY <2>1, <3>1, <3>2, MapsToFailOne DEF Worker, SameRow, SameWorker
  <2>3. CASE UNCHANGED run
    BY <2>1, <2>3, MapsToTask DEF SameRow
  <2>. QED  BY <1>11, <2>2, <2>3 DEF GiveUp
<1>12. ASSUME NEW r \in Runs, Recover(r) PROVE Lifecycle!Next
  <2> DEFINE R == {r}
  <2>1. R \in SUBSET Runs /\ (FailRunning(R) \/ UNCHANGED run)
    BY <1>12 DEF Recover
  <2>2. \A q \in Runs : Worker(q)' = (Worker(q) /\ q \notin R)
    BY <1>12 DEF Recover, Without, Task, Worker, TypeOK
  <2> HIDE DEF R
  <2>. QED  BY <2>1, <2>2, MapsToFailRunning
<1>13. CASE \/ \E r \in Runs : TimePasses(r) \/ RetryReads(r)
            \/ WatchdogReads \/ RetryFails \/ UNCHANGED vars
  <2>1. UNCHANGED <<run, pc>>
    BY <1>13 DEF TimePasses, RetryReads, WatchdogReads, RetryFails, vars
  <2>. QED  BY <2>1, MapsToStutter DEF SameRow, SameWorker, Worker
<1>14. CASE WatchdogWrites
  <2>1. UNCHANGED pc
    BY <1>14 DEF WatchdogWrites
  <2>2. CASE /\ \A r \in stuck : Exists(r)
             /\ run' = [r \in Runs |-> IF r \in stuck THEN WithStatus(r, "failed") ELSE run[r]]
    <3> DEFINE R == {r \in stuck : run[r].status # "failed"} W == {}
    <3>1. R \in SUBSET Runs /\ W \in SUBSET Runs
      BY DEF TypeOK
    <3>2. \A r \in Runs : LET row == [run[r] EXCEPT !.status = "failed"] IN
            row.status = "failed" /\ row.upload = run[r].upload
      BY RowType, StatusType DEF PipelineStatus
    <3>3. \A q \in Runs : /\ run'[q].status = IF q \in R THEN "failed" ELSE run[q].status
                          /\ run'[q].upload = run[q].upload
      BY <2>2, <3>2 DEF WithStatus
    <3>4. \A r \in R : run[r].status \in {"running", "complete"}
      <4> SUFFICES ASSUME NEW r \in R PROVE run[r].status \in {"running", "complete"}
        OBVIOUS
      <4>1. r \in Runs /\ Exists(r) /\ Passed(r) /\ run[r].status # "failed"
        BY <2>2 DEF ReadInv, TypeOK
      <4>. QED  BY <4>1, ExistsStatus DEF Passed, PipelineStatus
    <3>5. \A q \in Runs : Worker(q)' = (Worker(q) /\ q \notin W)
      BY <2>1 DEF Worker
    <3> HIDE DEF R, W
    <3>. QED  BY <3>1, <3>3, <3>4, <3>5, MapsToFail
  <2>3. CASE UNCHANGED run
    BY <2>1, <2>3, MapsToStutter DEF SameRow, SameWorker, Worker
  <2>. QED  BY <1>14, <2>2, <2>3 DEF WatchdogWrites
<1>15. ASSUME NEW n \in Runs, RetryWrites(n) PROVE Lifecycle!Next
  <2> DEFINE row == [run[asked] EXCEPT !.status = "failed"]
             rows == IF wasRunning THEN [run EXCEPT ![asked] = row] ELSE run
  <2>1. asked \in Runs /\ run[asked].topic \in Topics
    BY <1>15, RowType DEF RetryWrites, TypeOK
  <2>2. /\ row \in Run /\ row.status = "failed" /\ row.upload = run[asked].upload
    BY <2>1, RowType, StatusType DEF PipelineStatus
  <2>3. Enqueue(n, run[asked].topic, rows)
    <3>1. [run EXCEPT ![asked].status = "failed"] = [run EXCEPT ![asked] = row]
      BY <2>1 DEF TypeOK
    <3>. QED  BY <1>15, <3>1 DEF RetryWrites
  <2> HIDE DEF row
  <2>4. rows \in [Runs -> Run]
    BY <2>1, <2>2 DEF TypeOK
  <2>5. /\ \A q \in Runs : rows[q].upload = run[q].upload
        /\ \A q \in Runs : ~(wasRunning /\ q = asked) => rows[q] = run[q]
        /\ wasRunning => rows[asked].status = "failed"
    BY <2>1, <2>2 DEF TypeOK
  <2> HIDE DEF rows
  <2>6. /\ run[n].status = "none" /\ run'[n].status = "pending"
        /\ run'[n].upload = run[n].upload
        /\ \A q \in Runs \ {n} : run'[q] = rows[q]
        /\ pc'[n] \in {"queued", pc[n]} /\ \A q \in Runs \ {n} : pc'[q] = pc[q]
    BY <2>1, <2>3, <2>4, <2>5, EnqueueType
  <2>7. /\ Worker(n)' \in {Worker(n), TRUE}
        /\ \A q \in Runs \ {n} : SameWorker(q)
    BY <2>6 DEF Worker, SameWorker
  <2>8. CASE wasRunning
    <3>1. Exists(asked) /\ Passed(asked)
      BY <1>15, <2>8 DEF RetryWrites, ReadInv
    <3>2. run[asked].status \in {"running", "complete", "failed"} /\ n \in Runs \ {asked}
      BY <2>1, <2>6, <3>1, ExistsStatus DEF Passed, PipelineStatus
    <3>3. run'[asked].status = "failed" /\ run'[asked].upload = run[asked].upload
      BY <2>1, <2>5, <2>6, <2>8, <3>2
    <3>4. \A q \in Runs \ {asked, n} : SameRow(q) /\ SameWorker(q)
      BY <2>5, <2>6, <2>7 DEF SameRow
    <3>. QED  BY <2>1, <2>6, <2>7, <3>2, <3>3, <3>4, MapsToReplace
  <2>9. CASE ~wasRunning
    <3>1. \A q \in Runs \ {n} : SameRow(q) /\ SameWorker(q)
      BY <2>5, <2>6, <2>7, <2>9 DEF SameRow
    <3>. QED  BY <2>6, <2>7, <3>1, MapsToQueue
  <2>. QED  BY <2>8, <2>9
<1>16. ASSUME NEW r \in Runs, Delete(r) PROVE Lifecycle!Next
  <2> DEFINE row == [run[r] EXCEPT !.status = "deleted"]
  <2>1. row.status = "deleted" /\ row.upload = run[r].upload
    BY RowType, StatusType
  <2>2. run' = [run EXCEPT ![r] = row] /\ UNCHANGED pc /\ Exists(r)
    BY <1>16 DEF Delete, TypeOK
  <2> HIDE DEF row
  <2>3. /\ run'[r].status = "deleted" /\ run'[r].upload = run[r].upload
        /\ \A q \in Runs \ {r} : run'[q] = run[q]
    BY <2>1, <2>2 DEF TypeOK
  <2>. QED  BY <2>2, <2>3, MapsToDelete DEF SameRow, SameWorker, Worker
<1>17. CASE Restart
  <2>1. FailRunning(Runs) \/ UNCHANGED run
    BY <1>17 DEF Restart
  <2>2. \A q \in Runs : Worker(q)' = (Worker(q) /\ q \notin Runs)
    BY <1>17 DEF Restart, Worker
  <2>. QED  BY <2>1, <2>2, MapsToFailRunning
<1>. QED
  BY <1>1, <1>2, <1>3, <1>4, <1>5, <1>6, <1>7, <1>8, <1>9, <1>10, <1>11, <1>12, <1>13,
     <1>14, <1>15, <1>16, <1>17
  DEF Next, TaskStep, Watchdog

\* A row that has passed PENDING does not go back.
LEMMA PassedStays ==
  ASSUME [Lifecycle!Next]_(Lifecycle!vars), NEW r \in Runs, Passed(r)
  PROVE  Passed(r)'
<1> DEFINE st == [q \in Runs |-> run[q].status]
<1>1. st[r] \notin {"none", "pending"} /\ st \in [Runs -> {run[q].status : q \in Runs}]
  BY DEF Passed
<1>2. st'[r] \notin {"none", "pending"}
  <2>1. ASSUME NEW q \in Runs, \/ Lifecycle!Queue(q) \/ Lifecycle!Work(q)
                               \/ Lifecycle!MakeUpload(q) \/ Lifecycle!Complete(q)
                               \/ Lifecycle!Delete(q)
        PROVE  st'[r] \notin {"none", "pending"}
    BY <1>1, <2>1 DEF Lifecycle!Queue, Lifecycle!Work, Lifecycle!MakeUpload,
                      Lifecycle!Complete, Lifecycle!Delete, Lifecycle!Show
  <2>2. ASSUME NEW R \in SUBSET Runs, NEW W \in SUBSET Runs, Lifecycle!Fail(R, W)
        PROVE  st'[r] \notin {"none", "pending"}
    BY <1>1, <2>2 DEF Lifecycle!Fail
  <2>3. ASSUME NEW q \in Runs, NEW n \in Runs, Lifecycle!Replace(q, n)
        PROVE  st'[r] \notin {"none", "pending"}
    BY <1>1, <2>3 DEF Lifecycle!Replace
  <2>4. CASE UNCHANGED Lifecycle!vars
    BY <1>1, <2>4 DEF Lifecycle!vars
  <2>. QED  BY <2>1, <2>2, <2>3, <2>4 DEF Lifecycle!Next
<1>. QED  BY <1>2 DEF Passed

\* Readers keep what they read until they write, and the row does not go back.
LEMMA ReadStep ==
  ASSUME RunInv, ReadInv, [Next]_vars, TypeOK'
  PROVE  ReadInv'
<1>1. \A r \in Runs : Passed(r) => Passed(r)'
  BY RefinesStep, PassedStays
<1>2. \A r \in stuck' : r \in Runs /\ (r \in stuck \/ Passed(r))
  <2>1. CASE WatchdogReads
    BY <2>1 DEF WatchdogReads, Stuck, Passed
  <2>2. CASE stuck' \in {stuck, {}}
    BY <2>2 DEF RunInv, TypeInv, TypeOK
  <2>3. stuck' \in {stuck, {}} \/ WatchdogReads
    BY DEF Next, TaskStep, Watchdog, vars, others, Start, Load, Begin, StageDone,
      GateFails, RenderFails, Attach, Finish, Log, StageRaises, DbFails, RowGone, Handle,
      Backoff, Broken, GiveUp, Recover, TimePasses, WatchdogWrites, RetryReads,
      RetryWrites, RetryFails, Delete, Restart
  <2>. QED  BY <2>1, <2>2, <2>3
<1>3. wasRunning' => asked' \in Runs /\ Passed(asked')
  <2>1. ASSUME NEW r \in Runs, RetryReads(r) PROVE wasRunning' => asked' \in Runs /\ Passed(asked')
    BY <2>1 DEF RetryReads, Passed
  <2>2. CASE UNCHANGED <<asked, wasRunning>> \/ wasRunning' = FALSE
    BY <2>2 DEF ReadInv
  <2>3. \/ UNCHANGED <<asked, wasRunning>> \/ wasRunning' = FALSE
        \/ \E r \in Runs : RetryReads(r)
    BY DEF Next, TaskStep, Watchdog, vars, others, Start, Load, Begin, StageDone,
      GateFails, RenderFails, Attach, Finish, Log, StageRaises, DbFails, RowGone, Handle,
      Backoff, Broken, GiveUp, Recover, TimePasses, WatchdogReads, WatchdogWrites,
      RetryWrites, RetryFails, Delete, Restart
  <2>. QED  BY <2>1, <2>2, <2>3
<1>. QED  BY <1>1, <1>2, <1>3 DEF ReadInv, Passed

\* Rows, tasks, watchdog and dashboard together implement what RunLifecycle
\* promises, for any number of runs and failures.
THEOREM Refinement == Spec => ImplementsRunLifecycle
<1>1. Init => RunInv /\ ReadInv /\ Lifecycle!Init
  <2> SUFFICES ASSUME Init PROVE RunInv /\ ReadInv /\ Lifecycle!Init
    OBVIOUS
  <2>1. ReadInv
    BY DEF Init, ReadInv
  <2>2. Lifecycle!Init
    BY DEF Init, Lifecycle!Init, Worker
  <2>. QED  BY <2>1, <2>2, RunStep
<1>2. RunInv /\ ReadInv /\ [Next]_vars => RunInv' /\ ReadInv'
  BY RunStep, ReadStep DEF RunInv, TypeInv
<1>3. RunInv /\ ReadInv /\ [Next]_vars => [Lifecycle!Next]_(Lifecycle!vars)
  BY RefinesStep
<1>. QED  BY <1>1, <1>2, <1>3, PTL DEF Spec, ImplementsRunLifecycle, Lifecycle!Spec
=============================================================================

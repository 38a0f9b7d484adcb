----------------------------- MODULE RunLifecycle -----------------------------
(***************************************************************************)
(* What a pipeline run promises to whoever watches the dashboard: it is    *)
(* queued once; only a live worker moves it forward; it is complete only   *)
(* with an upload, of which it makes at most one; anybody may fail a       *)
(* running run; a deleted run is gone for good.                            *)
(***************************************************************************)
CONSTANTS Runs

VARIABLES
  status,   \* what the dashboard shows
  worker,   \* a background task is on the run
  upload    \* the run has its Upload row

vars == <<status, worker, upload>>

Init ==
  /\ status = [r \in Runs |-> "none"]
  /\ worker = [r \in Runs |-> FALSE]
  /\ upload = [r \in Runs |-> FALSE]

Show(r, s) == status' = [status EXCEPT ![r] = s]

\* The row is committed; the worker may fail to start.
Queue(r) ==
  /\ status[r] = "none" /\ Show(r, "pending")
  /\ worker' \in {worker, [worker EXCEPT ![r] = TRUE]}
  /\ UNCHANGED upload

Work(r) ==
  /\ worker[r] /\ status[r] \notin {"none", "deleted"}
  /\ Show(r, "running")
  /\ UNCHANGED <<worker, upload>>

MakeUpload(r) ==
  /\ worker[r] /\ ~upload[r] /\ status[r] \notin {"none", "deleted"}
  /\ upload' = [upload EXCEPT ![r] = TRUE]
  /\ UNCHANGED <<status, worker>>

Complete(r) ==
  /\ worker[r] /\ upload[r] /\ status[r] \notin {"none", "deleted"}
  /\ Show(r, "complete")
  /\ UNCHANGED <<worker, upload>>

\* Workers that end, and runs that are failed, alone or many at a time.
Fail(R, W) ==
  /\ \A r \in R : \/ status[r] \in {"running", "complete"}
                  \/ status[r] = "pending" /\ worker[r]
  /\ status' = [r \in Runs |-> IF r \in R THEN "failed" ELSE status[r]]
  /\ worker' = [r \in Runs |-> worker[r] /\ r \notin W]
  /\ UNCHANGED upload

\* A run is failed and queued again under a new identity, in one commit.
Replace(r, n) ==
  /\ r # n /\ status[n] = "none"
  /\ status' = [status EXCEPT ![r] = IF @ \in {"running", "complete"} THEN "failed" ELSE @,
                              ![n] = "pending"]
  /\ worker' \in {worker, [worker EXCEPT ![n] = TRUE]}
  /\ UNCHANGED upload

Delete(r) ==
  /\ status[r] \notin {"none", "deleted"} /\ Show(r, "deleted")
  /\ UNCHANGED <<worker, upload>>

Next ==
  \/ \E r \in Runs : Queue(r) \/ Work(r) \/ MakeUpload(r) \/ Complete(r) \/ Delete(r)
  \/ \E R, W \in SUBSET Runs : Fail(R, W)
  \/ \E r, n \in Runs : Replace(r, n)

Spec == Init /\ [][Next]_vars
=============================================================================

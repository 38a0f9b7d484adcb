--------------------------- MODULE UploadLifecycle ---------------------------
(***************************************************************************)
(* What the publishing workflow promises about an upload, with no session, *)
(* lock, retry or cache in sight: it goes to YouTube at most once, only    *)
(* after somebody (or the pipeline) scheduled it; decisions are taken in   *)
(* the order of the transition table; a rejection is final, except for an  *)
(* upload a tick had already taken up.                                     *)
(***************************************************************************)
EXTENDS Naturals

CONSTANTS Uploads, AutoPublish

VARIABLES
  stage,    \* the decision about each upload
  taken,    \* a tick is working on it
  videos    \* YouTube videos made of it

vars == <<stage, taken, videos>>

Init ==
  /\ stage = [u \in Uploads |-> "none"]
  /\ taken = [u \in Uploads |-> FALSE]
  /\ videos = [u \in Uploads |-> 0]

Insert(u) ==
  /\ stage[u] = "none"
  /\ stage' = [stage EXCEPT ![u] = IF AutoPublish THEN "scheduled" ELSE "draft"]
  /\ UNCHANGED <<taken, videos>>

Decide(u, from, to) ==
  /\ stage[u] = from
  /\ stage' = [stage EXCEPT ![u] = to]
  /\ UNCHANGED <<taken, videos>>

Approve(u) == Decide(u, "draft", "approved")
Schedule(u) == Decide(u, "approved", "scheduled")
Reject(u) == Decide(u, "approved", "rejected") \/ Decide(u, "scheduled", "rejected")

Delete(u) ==
  /\ stage[u] # "none"
  /\ stage' = [stage EXCEPT ![u] = "deleted"]
  /\ UNCHANGED <<taken, videos>>

Take(u) ==
  /\ stage[u] = "scheduled" /\ ~taken[u] /\ videos[u] = 0
  /\ taken' = [taken EXCEPT ![u] = TRUE]
  /\ UNCHANGED <<stage, videos>>

\* The attempt failed, or the tick died.
Release(u) ==
  /\ taken[u]
  /\ taken' = [taken EXCEPT ![u] = FALSE]
  /\ UNCHANGED <<stage, videos>>

Upload(u) ==
  /\ taken[u] /\ videos[u] = 0 /\ stage[u] # "deleted"
  /\ videos' = [videos EXCEPT ![u] = 1]
  /\ taken' = [taken EXCEPT ![u] = FALSE]
  /\ UNCHANGED stage

Next == \E u \in Uploads :
  \/ Insert(u) \/ Approve(u) \/ Schedule(u) \/ Reject(u) \/ Delete(u)
  \/ Take(u) \/ Release(u) \/ Upload(u)

Spec == Init /\ [][Next]_vars
=============================================================================

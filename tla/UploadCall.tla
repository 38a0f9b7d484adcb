------------------------------ MODULE UploadCall ------------------------------
(***************************************************************************)
(* What PublishScheduler takes one call of upload_video for: at most one   *)
(* video per call, of the whole file unless somebody was writing it; the   *)
(* call returns only with that video, and ends in any case.                *)
(***************************************************************************)
EXTENDS Naturals, Sequences

VARIABLES
  outcome,   \* of the last call: "none", "calling", "video", "raised"
  made,      \* the call that runs has made a video
  disturbed, \* the file was written while the last call read it
  videos     \* of each video made: is it the whole film?

vars == <<outcome, made, disturbed, videos>>

Init == outcome = "none" /\ ~made /\ ~disturbed /\ videos = << >>

Begin ==
  /\ outcome \in {"none", "raised"} /\ outcome' = "calling"
  /\ disturbed' \in BOOLEAN
  /\ UNCHANGED <<made, videos>>

Disturb ==
  /\ outcome = "calling" /\ disturbed' = TRUE
  /\ UNCHANGED <<outcome, made, videos>>

Create ==
  /\ outcome = "calling" /\ ~made /\ made' = TRUE
  /\ \E whole \in BOOLEAN : (whole \/ disturbed) /\ videos' = Append(videos, whole)
  /\ UNCHANGED <<outcome, disturbed>>

Return ==
  /\ outcome = "calling" /\ made
  /\ outcome' = "video" /\ made' = FALSE
  /\ UNCHANGED <<disturbed, videos>>

\* The caller cannot tell whether the video was made.
Raise ==
  /\ outcome = "calling" /\ outcome' = "raised" /\ made' = FALSE
  /\ UNCHANGED <<disturbed, videos>>

Next == Begin \/ Disturb \/ Create \/ Return \/ Raise

Spec == Init /\ [][Next]_vars /\ WF_vars(Return \/ Raise)
===============================================================================

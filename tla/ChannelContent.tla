---------------------------- MODULE ChannelContent ----------------------------
(***************************************************************************)
(* The content rows of one channel and who adds and removes them: a        *)
(* pipeline run, the publisher, single API requests, and the hard reset.   *)
(* Each works in a session of its own on a PostgreSQL database under READ  *)
(* COMMITTED: uncommitted rows are private, changed rows are locked, a new *)
(* reference locks its parent, and foreign keys and unique columns are     *)
(* checked at every statement.  A statement that waits starts over.        *)
(* A transaction that never waits after its first write is one step.       *)
(***************************************************************************)
EXTENDS Integers, FiniteSets, Sequences

CONSTANTS
  MaxAttempts, \* bound: attempts of the pipeline run
  MaxCalls, \* bound: API requests
  MaxRows      \* bound: rows ever made

ASSUME ContentAssumption ==
  /\ {MaxAttempts, MaxCalls} \subseteq Nat /\ MaxRows \in Nat \ {0}

Schema == INSTANCE OrmModels

Tables == {"pipeline_runs", "scripts", "quality_reports", "storyboards", "thumbnails",
           "voices", "videos", "uploads", "analytics"}
Parents(t) == {r.parent : r \in Schema!Metadata[t].refs} \cap Tables
OneEach == {"storyboards", "thumbnails", "voices", "videos", "uploads"}

\* No content reference has an ON DELETE rule: a parent cannot go first.
ASSUME NoCascade ==
  \A t \in Tables : \A r \in Schema!Metadata[t].refs : r.parent \in Tables => r.rule = "none"

Sessions == {"run", "publisher", "request", "reset"}
RunId == 1

VARIABLES
  rows,    \* the committed rows, by id
  work,    \* per session, what its open transaction has written
  seq,     \* the last id given
  run,     \* the pipeline run's task
  request, \* the API request under way
  sending, \* the upload the publisher is sending (0: none)
  reset,   \* the reset request
  asked,   \* API requests so far
  tube     \* uploads whose video is on YouTube

contentVars == <<rows, work, seq, run, request, sending, reset, asked, tube>>

(***************************************************************************)
(* Rows, transactions and statements.                                      *)
(***************************************************************************)
Row(t, of, st) == [t |-> t, of |-> of, st |-> st]
Gone == Row("gone", {}, "gone")
Nothing == [i \in {} |-> Gone]
One(i, row) == [j \in {i} |-> row]

\* The rows of old with those of new in their place or added.
Over(new, old) ==
  [i \in DOMAIN new \cup DOMAIN old |-> IF i \in DOMAIN new THEN new[i] ELSE old[i]]

Kept(all) == [i \in {j \in DOMAIN all : all[j] # Gone} |-> all[i]]
See(s) == Kept(Over(work[s], rows))
In(s, t) == LET seen == See(s) IN {i \in DOMAIN seen : seen[i].t = t}
Of(s, t, parents) ==
  LET seen == See(s) IN {i \in DOMAIN seen : seen[i].t = t /\ seen[i].of \cap parents # {}}
Removing(ids) == [i \in ids |-> Gone]
Open(s) == DOMAIN work[s] # {}

NewRefs(i, row) == IF i \in DOMAIN rows THEN row.of \ rows[i].of ELSE row.of

\* Session s must wait for o before it can write new.
WaitsFor(s, o, new) ==
  \/ DOMAIN new \cap DOMAIN work[o] # {}
  \/ \E i \in DOMAIN new, j \in DOMAIN work[o] :
       LET mine == new[i] theirs == work[o][j] IN
       \/ mine = Gone /\ i \in NewRefs(j, theirs)
       \/ theirs = Gone /\ j \in NewRefs(i, mine)
       \/ mine.t = theirs.t /\ mine.t \in OneEach /\ mine.of = theirs.of
Waits(s, new) == \E o \in Sessions \ {s} : WaitsFor(s, o, new)

\* A row is gone that should be updated, a reference dangles, or a second
\* row claims the same parent.
Violates(s, new) ==
  LET after == Kept(Over(new, Over(work[s], rows))) IN
  \/ \E i \in DOMAIN new : i <= seq /\ new[i] # Gone /\ i \notin DOMAIN See(s)
  \/ \E i \in DOMAIN after : ~(after[i].of \subseteq DOMAIN after)
  \/ \E i \in DOMAIN new \cap DOMAIN after, j \in DOMAIN after :
       i # j /\ after[i].t = after[j].t /\ after[i].t \in OneEach /\ after[i].of = after[j].of

Flush(s, new) == work' = [work EXCEPT ![s] = Over(new, @)] /\ UNCHANGED rows
Commit(s, new) == /\ rows' = Kept(Over(new, Over(work[s], rows)))
                  /\ work' = [work EXCEPT ![s] = Nothing]
Rollback(s) == work' = [work EXCEPT ![s] = Nothing] /\ UNCHANGED rows

\* History: somebody else wrote while a reset was under way.
Disturb == reset' = [reset EXCEPT !.raced = (@ \/ reset.at # "idle")]

NoRequest == [do |-> "none", id |-> 0, script |-> 0]

InitContent ==
  /\ rows = One(RunId, Row("pipeline_runs", {}, "pending")) /\ seq = RunId
  /\ work = [s \in Sessions |-> Nothing]
  /\ run = [stage |-> "begin", attempt |-> 1, script |-> 0, video |-> 0, again |-> FALSE]
  /\ request = NoRequest
  /\ sending = 0 /\ asked = 0 /\ tube = {}
  /\ reset = [at |-> "idle", next |-> 1, scripts |-> {}, videos |-> {}, uploads |-> {}, sent |-> {},
              outcome |-> "none", raced |-> FALSE]

(***************************************************************************)
(* The pipeline run.  A stage flushes its rows, then updates the run row   *)
(* and commits; the render commits on its own before and after.            *)
(***************************************************************************)
After == [begin |-> "script", script |-> "quality", quality |-> "seo", seo |-> "voice",
          voice |-> "video", rendered |-> "upload", upload |-> "finish", finish |-> "ended"]

Run == See("run")[RunId]
RunUpload == IF RunId \in DOMAIN See("run")
               THEN {i \in Run.of : i \in In("run", "uploads")} ELSE {}
VideoOf(s, script) == Of(s, "videos", {script})

\* What a stage writes before it updates the run row.
Output(passed) ==
  LET s == run.script IN
  CASE run.stage = "script" -> One(seq + 1, Row("scripts", {}, "draft"))
    [] run.stage = "quality" ->
         Over(One(seq + 1, Row("quality_reports", {s}, IF passed THEN "passed" ELSE "failed")),
              One(s, Row("scripts", {}, IF passed THEN "approved" ELSE "rejected")))
    [] run.stage = "seo" -> One(s, Row("scripts", {}, "approved"))
    [] run.stage = "voice" ->
         Over(One(seq + 1, Row("voices", {s}, "complete")),
              IF VideoOf("run", s) = {} THEN One(seq + 2, Row("videos", {s}, "generating"))
              ELSE [v \in VideoOf("run", s) |-> Row("videos", {s}, "generating")])
    [] run.stage = "upload" -> One(seq + 1, Row("uploads", {run.video}, "scheduled"))

Largest(ids) == CHOOSE i \in ids \cup {seq} : \A j \in ids \cup {seq} : j <= i

Raised(again) == [run EXCEPT !.stage = "raised", !.again = again, !.script = 0, !.video = 0]
Ended == [run EXCEPT !.stage = "ended", !.again = FALSE, !.script = 0, !.video = 0]

RunWrites(passed) ==
  /\ run.stage \in {"script", "quality", "seo", "voice", "upload"} /\ ~Open("run")
  /\ run.stage = "upload" => RunUpload = {}
  /\ passed \/ run.stage = "quality"
  /\ LET new == Output(passed) IN
     /\ Largest(DOMAIN new) <= MaxRows
     /\ ~Waits("run", new)
     /\ IF Violates("run", new)
          THEN Rollback("run") /\ run' = Raised(FALSE) /\ UNCHANGED seq
          ELSE /\ Flush("run", new) /\ seq' = Largest(DOMAIN new)
               /\ run' = IF run.stage = "script" THEN [run EXCEPT !.script = seq'] ELSE run
  /\ Disturb
  /\ UNCHANGED <<request, sending, asked, tube>>

\* The run row as the end of a stage leaves it.
Booked(passed) ==
  LET failed == ~passed \/ (run.stage = "quality" /\ See("run")[run.script].st = "rejected")
      st == CASE failed -> "failed" [] run.stage = "finish" -> "complete" [] OTHER -> "running"
      kept(t) == {i \in Run.of : See("run")[i].t # t}
      of == CASE run.stage = "script" -> kept("scripts") \cup {run.script}
              [] run.stage = "rendered" /\ passed ->
                   kept("videos") \cup VideoOf("run", run.script)
              [] run.stage = "upload" /\ Open("run") ->
                   kept("uploads") \cup Of("run", "uploads", {run.video})
              [] OTHER -> Run.of
  IN  [row |-> Row("pipeline_runs", of, st), stage |-> IF failed THEN "ended" ELSE After[run.stage]]

Rendered == \E v \in VideoOf("run", run.script) : See("run")[v].st # "failed"
Booking == \/ run.stage \in {"begin", "rendered", "finish"}
           \/ run.stage \in {"script", "quality", "seo", "voice", "upload"} /\ Open("run")
           \/ run.stage = "upload" /\ RunUpload # {}

\* Faulty variant: a stage commits whatever became of the run row.
RunBooksAnyway(passed) ==
  /\ Booking
  /\ passed \/ run.stage \in {"seo", "rendered"}
  /\ run.stage = "rendered" => (passed <=> Rendered)
  /\ IF RunId \notin DOMAIN See("run")
       THEN /\ Commit("run", Nothing)
            /\ run' = [run EXCEPT !.stage = After[run.stage]]
       ELSE LET out == Booked(passed) new == One(RunId, out.row) IN
            /\ ~Waits("run", new)
            /\ Commit("run", new)
            /\ run' = [run EXCEPT !.stage = out.stage]
  /\ Disturb
  /\ UNCHANGED <<seq, request, sending, asked, tube>>

(***************************************************************************)
(* The end of a stage.  passed is FALSE when the SEO gate rejects or there *)
(* is no rendered video.  A run row that is gone raises (StaleDataError),  *)
(* and so does its next look-up.                                           *)
(***************************************************************************)
RunBooks(passed) ==
  /\ Booking
  /\ passed \/ run.stage \in {"seo", "rendered"}
  /\ run.stage = "rendered" => (passed <=> Rendered)
  /\ IF RunId \notin DOMAIN See("run")
       THEN Rollback("run") /\ run' = Raised(FALSE)
       ELSE LET out == Booked(passed) new == One(RunId, out.row) IN
            /\ ~Waits("run", new)
            /\ IF Violates("run", new) THEN Rollback("run") /\ run' = Raised(FALSE)
               ELSE /\ Commit("run", new)
                    /\ run' = IF out.stage = "ended" THEN Ended
                                ELSE [run EXCEPT !.stage = out.stage,
                                        !.video = IF run.stage = "rendered"
                                          THEN CHOOSE v \in VideoOf("run", run.script) : TRUE
                                          ELSE @]
  /\ Disturb
  /\ UNCHANGED <<seq, request, sending, asked, tube>>

\* A dropped connection, in any stage.
RunDisconnects ==
  /\ run.stage \in DOMAIN After \cup {"video"} /\ run.attempt < MaxAttempts
  /\ Rollback("run") /\ run' = Raised(TRUE)
  /\ UNCHANGED <<seq, request, sending, reset, asked, tube>>

\* run()'s handler: a run row that is gone ends the task.
RunHandles ==
  /\ run.stage = "raised"
  /\ IF RunId \notin DOMAIN rows
       THEN run' = Ended /\ UNCHANGED <<rows, work>>
       ELSE LET st == IF run.again THEN "running" ELSE "failed"
                new == One(RunId, [rows[RunId] EXCEPT !.st = st])
            IN  /\ ~Waits("run", new)
                /\ Commit("run", new)
                /\ run' = IF run.again
                     THEN [run EXCEPT !.stage = "begin", !.again = FALSE, !.attempt = @ + 1]
                     ELSE Ended
  /\ Disturb
  /\ UNCHANGED <<seq, request, sending, asked, tube>>

(***************************************************************************)
(* VideoAgentService.run_for_script, for the run and for the video API:    *)
(* the row is GENERATING when the render starts, and looked up again by    *)
(* its script in a fresh session afterwards.                               *)
(***************************************************************************)
Generating(s, script, old) ==
  IF VideoOf(s, script) \ old = {}
    THEN Over(Removing(old), One(seq + 1, Row("videos", {script}, "generating")))
    ELSE [v \in VideoOf(s, script) |-> Row("videos", {script}, "generating")]

RenderResult(s, script, ok) ==
  [v \in VideoOf(s, script) |-> Row("videos", {script}, IF ok THEN "complete" ELSE "failed")]

RunRenders ==
  /\ run.stage = "video"
  /\ LET new == Generating("run", run.script, {}) IN
     /\ Largest(DOMAIN new) <= MaxRows
     /\ ~Waits("run", new)
     /\ IF Violates("run", new)
          THEN Rollback("run") /\ run' = Raised(FALSE) /\ UNCHANGED seq
          ELSE /\ Commit("run", new) /\ seq' = Largest(DOMAIN new)
               /\ run' = [run EXCEPT !.stage = "rendering"]
  /\ Disturb
  /\ UNCHANGED <<request, sending, asked, tube>>

RunRenderEnds(ok) ==
  /\ run.stage = "rendering"
  /\ LET new == RenderResult("run", run.script, ok) IN
     IF DOMAIN new = {}
       THEN run' = Raised(FALSE) /\ UNCHANGED <<rows, work>>
       ELSE ~Waits("run", new) /\ Commit("run", new) /\ run' = [run EXCEPT !.stage = "rendered"]
  /\ Disturb
  /\ UNCHANGED <<seq, request, sending, asked, tube>>

(***************************************************************************)
(* The publisher: a tick takes a scheduled upload, the upload endpoint one *)
(* that is not published, or makes one for a finished video.  The row stays*)
(* locked until YouTube's answer is committed.                             *)
(***************************************************************************)
Takes(u) ==
  /\ sending = 0 /\ u \in In("publisher", "uploads")
  /\ \/ rows[u].st = "scheduled"
     \/ rows[u].st = "failed" /\ \A v \in rows[u].of : rows[v].st = "complete"
  /\ LET new == One(u, [rows[u] EXCEPT !.st = "uploading"]) IN
     ~Waits("publisher", new) /\ Flush("publisher", new)
  /\ sending' = u /\ Disturb
  /\ UNCHANGED <<seq, run, request, asked, tube>>

Triggers(v) ==
  /\ sending = 0 /\ asked < MaxCalls /\ seq < MaxRows
  /\ v \in In("publisher", "videos") /\ rows[v].st = "complete"
  /\ Of("publisher", "uploads", {v}) = {}
  /\ LET new == One(seq + 1, Row("uploads", {v}, "uploading")) IN
     ~Waits("publisher", new) /\ Flush("publisher", new)
  /\ sending' = seq + 1 /\ seq' = seq + 1 /\ asked' = asked + 1 /\ Disturb
  /\ UNCHANGED <<run, request, tube>>

Answers(ok) ==
  /\ sending # 0
  /\ Commit("publisher", One(sending, [work["publisher"][sending] EXCEPT
                                         !.st = IF ok THEN "published" ELSE "failed"]))
  /\ tube' = IF ok THEN tube \cup {sending} ELSE tube
  /\ sending' = 0 /\ Disturb
  /\ UNCHANGED <<seq, run, request, asked>>

(***************************************************************************)
(* API requests, one at a time.  A request that fails changes nothing, so  *)
(* only those that succeed are steps.                                      *)
(***************************************************************************)
Asks(new) ==
  /\ request.do = "none" /\ asked < MaxCalls /\ asked' = asked + 1
  /\ Largest(DOMAIN new) <= MaxRows /\ seq' = Largest(DOMAIN new)
  /\ ~Waits("request", new) /\ ~Violates("request", new)
  /\ Commit("request", new) /\ Disturb
  /\ UNCHANGED <<run, sending, tube>>

\* StoryboardAPIService.generate and ThumbnailAPIService.generate: always an
\* insert, so a second one for a script fails.
Illustrates(t, s) ==
  /\ t \in {"storyboards", "thumbnails"} /\ s \in In("request", "scripts")
  /\ Asks(One(seq + 1, Row(t, {s}, "complete")))
  /\ UNCHANGED request

\* The delete endpoints.  UploadRepository.delete_upload takes the analytics
\* of its upload along.
Deletes(i) ==
  /\ i \in DOMAIN rows \ In("request", "analytics")
  /\ Asks(Removing({i} \cup (IF rows[i].t = "uploads" THEN Of("request", "analytics", {i}) ELSE {})))
  /\ UNCHANGED request

\* VideoService.generate_video keeps a finished video, regenerate_video never.
Renders(s, force) ==
  /\ s \in In("request", "scripts")
  /\ LET old == VideoOf("request", s) IN
     /\ force \/ \A v \in old : rows[v].st # "complete"
     /\ Asks(Generating("request", s, old))
  /\ request' = [do |-> "render", id |-> 0, script |-> s]

RenderDone(ok) ==
  /\ request.do = "render"
  /\ LET new == RenderResult("request", request.script, ok) IN
     ~Waits("request", new) /\ Commit("request", new)
  /\ request' = NoRequest /\ Disturb
  /\ UNCHANGED <<seq, run, sending, asked, tube>>

\* AnalyticsService.fetch_for_video: the upload is read before YouTube is asked.
FetchReads(u) ==
  /\ u \in In("request", "uploads") /\ rows[u].st = "published"
  /\ Asks(Nothing)
  /\ request' = [do |-> "fetch", id |-> u, script |-> 0]

FetchSaves ==
  /\ request.do = "fetch" /\ seq < MaxRows
  /\ LET new == One(seq + 1, Row("analytics", {request.id}, "snapshot")) IN
     /\ ~Waits("request", new)
     /\ IF Violates("request", new) THEN Rollback("request") /\ UNCHANGED seq
        ELSE Commit("request", new) /\ seq' = seq + 1
  /\ request' = NoRequest /\ Disturb
  /\ UNCHANGED <<run, sending, asked, tube>>

\* delete_video_everywhere: YouTube first, then the local row.  A failure at
\* YouTube, or a video that is not there any more, ends the request.
EverywhereAsks(u) ==
  /\ u \in In("request", "uploads") /\ rows[u].st = "published" /\ u \in tube
  /\ request.do = "none" /\ asked < MaxCalls /\ asked' = asked + 1
  /\ tube' = tube \ {u}
  /\ request' = [do |-> "everywhere", id |-> u, script |-> 0]
  /\ UNCHANGED <<rows, work, seq, run, sending, reset>>

EverywhereDeletes ==
  /\ request.do = "everywhere"
  /\ LET u == request.id
         new == Removing({i \in {u} : u \in DOMAIN rows} \cup Of("request", "analytics", {u}))
     IN  /\ ~Waits("request", new)
         /\ IF Violates("request", new) THEN Rollback("request") ELSE Commit("request", new)
  /\ request' = NoRequest /\ Disturb
  /\ UNCHANGED <<seq, run, sending, asked, tube>>

(***************************************************************************)
(* The hard reset.  The ids are read first; YouTube's videos go next, each *)
(* delete on its own; then nine DELETE statements and one commit.          *)
(***************************************************************************)
\* Faulty variant: the uploads before the analytics that refer to them.
ResetOrderUploadsFirst == <<"pipeline_runs", "uploads", "analytics", "storyboards",
                            "quality_reports", "thumbnails", "voices", "videos", "scripts">>

ResetOrder == <<"pipeline_runs", "analytics", "uploads", "storyboards",
                "quality_reports", "thumbnails", "voices", "videos", "scripts">>

ResetStarts ==
  /\ reset.at = "idle" /\ reset.outcome = "none"
  /\ reset' = [reset EXCEPT !.at = "scripts",
                            !.raced = (run.stage \notin {"begin", "ended"} \/ sending # 0
                                       \/ request.do # "none")]
  /\ UNCHANGED <<rows, work, seq, run, request, sending, asked, tube>>

ResetReads ==
  /\ reset.at \in {"scripts", "videos", "uploads"}
  /\ reset' = CASE reset.at = "scripts" ->
                    [reset EXCEPT !.scripts = In("reset", "scripts"), !.at = "videos"]
                [] reset.at = "videos" ->
                    [reset EXCEPT !.videos = Of("reset", "videos", reset.scripts), !.at = "uploads"]
                [] reset.at = "uploads" ->
                    LET found == Of("reset", "uploads", reset.videos) IN
                    [reset EXCEPT !.uploads = found, !.at = "youtube",
                                  !.sent = {u \in found : rows[u].st = "published"}]
  /\ UNCHANGED <<rows, work, seq, run, request, sending, asked, tube>>

ResetYouTube(refused) ==
  /\ reset.at = "youtube" /\ refused \subseteq tube
  /\ tube' = tube \ (reset.sent \ refused)
  /\ reset' = [reset EXCEPT !.at = "delete"]
  /\ UNCHANGED <<rows, work, seq, run, request, sending, asked>>

Doomed(t) ==
  CASE t = "pipeline_runs" -> In("reset", t)
    [] t = "analytics" -> Of("reset", t, reset.uploads)
    [] t = "uploads" -> Of("reset", t, reset.videos)
    [] t = "videos" -> In("reset", t) \cap reset.videos
    [] t = "scripts" -> In("reset", t) \cap reset.scripts
    [] OTHER -> Of("reset", t, reset.scripts)

Deleting == reset.at = "delete" /\ reset.next <= Len(ResetOrder)
ResetStatement == Removing(Doomed(ResetOrder[reset.next]))

ResetEnds(outcome) ==
  reset' = [reset EXCEPT !.at = "idle", !.next = 1, !.outcome = outcome, !.raced = FALSE,
                         !.scripts = {}, !.videos = {}, !.uploads = {}, !.sent = {}]

ResetDeletes ==
  /\ Deleting /\ ~Waits("reset", ResetStatement)
  /\ IF Violates("reset", ResetStatement)
       THEN Rollback("reset") /\ ResetEnds("failed")
       ELSE Flush("reset", ResetStatement) /\ reset' = [reset EXCEPT !.next = @ + 1]
  /\ UNCHANGED <<seq, run, request, sending, asked, tube>>

ResetCommits ==
  /\ reset.at = "delete" /\ reset.next = Len(ResetOrder) + 1
  /\ Commit("reset", Nothing) /\ ResetEnds("done")
  /\ UNCHANGED <<seq, run, request, sending, asked, tube>>

(***************************************************************************)
(* The reset waits for a row the run's stage has locked while the stage    *)
(* waits for the run row: PostgreSQL ends one of the two.                  *)
(***************************************************************************)
Deadlocked ==
  /\ Deleting
  /\ run.stage \in DOMAIN After /\ Open("run") /\ RunId \in DOMAIN See("run")
  /\ WaitsFor("run", "reset", One(RunId, Booked(TRUE).row))
  /\ WaitsFor("reset", "run", ResetStatement)

DeadlockEndsRun ==
  /\ Deadlocked
  /\ Rollback("run") /\ run' = Raised(FALSE)
  /\ UNCHANGED <<seq, request, sending, reset, asked, tube>>

DeadlockEndsReset ==
  /\ Deadlocked
  /\ Rollback("reset") /\ ResetEnds("failed")
  /\ UNCHANGED <<seq, run, request, sending, asked, tube>>

NextContent ==
  \/ \E passed \in BOOLEAN : RunWrites(passed) \/ RunBooks(passed)
  \/ RunDisconnects \/ RunHandles \/ RunRenders
  \/ \E ok \in BOOLEAN : RunRenderEnds(ok) \/ Answers(ok) \/ RenderDone(ok)
  \/ \E i \in DOMAIN rows : Takes(i) \/ Triggers(i) \/ Deletes(i) \/ FetchReads(i)
                            \/ EverywhereAsks(i)
  \/ \E s \in DOMAIN rows, t \in {"storyboards", "thumbnails"} : Illustrates(t, s)
  \/ \E s \in DOMAIN rows, force \in BOOLEAN : Renders(s, force)
  \/ FetchSaves \/ EverywhereDeletes
  \/ ResetStarts \/ ResetReads \/ ResetDeletes \/ ResetCommits
  \/ \E refused \in SUBSET reset.sent : ResetYouTube(refused)
  \/ DeadlockEndsRun \/ DeadlockEndsReset

ContentSpec == InitContent /\ [][NextContent]_contentVars

-----------------------------------------------------------------------------
(* A reset nobody disturbs succeeds and leaves no row of the channel: the  *)
(* order of its deletes agrees with every foreign key.                     *)
ResetEmpties ==
  [][reset.at # "idle" /\ reset'.at = "idle" /\ ~reset.raced =>
       reset'.outcome = "done" /\ rows' = Nothing]_contentVars

(* Once the run row is gone, by a reset or by delete_run, its task commits *)
(* no script, report or voice any more.                                    *)
NothingWithoutRun ==
  [][\A i \in DOMAIN rows' \ DOMAIN rows :
       rows'[i].t \in {"scripts", "quality_reports", "voices"} => RunId \in DOMAIN rows']_contentVars

(* A row that says PUBLISHED has its video on YouTube.                     *)
PublishedIsLive ==
  request.do = "none" /\ reset.at = "idle" =>
    \A u \in DOMAIN rows : rows[u].t = "uploads" /\ rows[u].st = "published" => u \in tube
=============================================================================

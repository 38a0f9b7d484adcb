----------------------------- MODULE CrossPosting -----------------------------
(***************************************************************************)
(* What happens to a film after it is rendered: it waits for publication,  *)
(* is posted to Instagram Delay days after a scheduled one, and its file   *)
(* is removed by the daily sweep when it is old.  The interval job and an  *)
(* HTTP trigger may run the Instagram tick at once; posts need the access  *)
(* token, which a daily check renews when it comes close to its expiry.    *)
(* Days are counted; ages stop where the code tells them apart no more.    *)
(***************************************************************************)
EXTENDS Integers, FiniteSets

CONSTANTS
  Films,      \* videos, each with at most one Upload row
  Ticks,      \* ticks that may run at once: the job's and the trigger's
  Retention,  \* storage_retention_days
  Delay,      \* days between publication and the Instagram post
  Cap,        \* INSTAGRAM_MAX_RETRIES
  Life,       \* days an access token is valid
  Warn,       \* instagram_token_warn_days
  Faults,     \* kinds of failure that may happen
  MaxFaults   \* bound: failures

ASSUME CrossPostingAssumption ==
  /\ IsFiniteSet(Ticks)
  /\ {Retention, Delay, Cap, Life} \subseteq Nat \ {0}
  /\ Warn \in 0..(Life - 1) /\ MaxFaults \in Nat
  /\ Faults \subseteq {"instagram", "answer", "db", "ack", "refresh", "revoke", "crash", "torn",
                 "overlap"}

VARIABLES
  done,    \* videos that are COMPLETE; the others are pending, generating or failed
  file,    \* days since the file was written, Gone: there is none
  row,     \* the Upload row
  tick,    \* per tick, where it is and the objects it has loaded
  sweep,   \* [on, kept]: the sweep under way and the paths it protects
  env,     \* the token of .env, as the process was started with
  store,   \* instagram_token.json
  checked, \* the token watchdog has run today
  faults,  \* failures so far
  reels,   \* Reels on Instagram, per film
  excuses, \* history: lost answers and commits, and overlapping ticks, per film
  raced,   \* history: Upload rows made during a sweep, or after the file was gone
  late,    \* history: films so old at publication that the post comes after the retention
  lapses   \* history: renewals of the current token that failed or were skipped

vars == <<done, file, row, tick, sweep, env, store, checked, faults, reels, excuses, raced,
          late, lapses>>
media == <<done, file, row, sweep, raced, late>>
posts == <<tick, reels, excuses>>
tokens == <<env, store, checked, lapses>>

Gone == -1
Unscheduled == -1

Longer(n) == IF n < Warn THEN n + 1 ELSE n   \* a lapse more: Warn of them are enough to tell

Fault(kind) == kind \in Faults /\ faults < MaxFaults /\ faults' = faults + 1

Token == [age : 0..Life, live : BOOLEAN, dated : BOOLEAN]
NewToken == [age |-> 0, live |-> TRUE, dated |-> TRUE]
Absent == [file |-> "absent", token |-> NewToken]
Torn == [file |-> "torn", token |-> NewToken]

Idle == [at |-> "idle", left |-> {}, up |-> {}, tries |-> [f \in Films |-> 0]]

Init ==
  /\ done = {} /\ file = [f \in Films |-> Gone]
  /\ row = [f \in Films |-> [status |-> "none", due |-> Unscheduled, posted |-> FALSE,
                             tries |-> 0, dead |-> FALSE]]
  /\ tick = [t \in Ticks |-> Idle]
  /\ sweep = [on |-> FALSE, kept |-> {}]
  /\ env \in {[NewToken EXCEPT !.dated = d] : d \in BOOLEAN} /\ store = Absent
  /\ checked = FALSE /\ faults = 0
  /\ reels = [f \in Films |-> 0] /\ excuses = [f \in Films |-> 0]
  /\ raced = {} /\ late = {} /\ lapses = 0

(***************************************************************************)
(* Rendering and publication.                                              *)
(***************************************************************************)
\* A render that fails, like one that has not ended, leaves the old file.
RenderStarts(f) ==
  /\ f \in done /\ done' = done \ {f}
  /\ UNCHANGED <<file, row, sweep, raced, late, posts, tokens, faults>>

RenderEnds(f) ==
  /\ f \notin done /\ done' = done \cup {f}
  /\ file' = [file EXCEPT ![f] = 0]
  /\ UNCHANGED <<row, sweep, raced, late, posts, tokens, faults>>

\* The pipeline's upload stage, or trigger_upload, makes the row.
MakesUpload(f) ==
  /\ f \in done /\ row[f].status = "none"
  /\ row' = [row EXCEPT ![f].status = "waiting"]
  /\ raced' = IF sweep.on \/ file[f] = Gone THEN raced \cup {f} ELSE raced
  /\ UNCHANGED <<done, file, sweep, late, posts, tokens, faults>>

\* Only the publish tick schedules the cross-post; an upload by hand does not.
Publishes(f, byTick) ==
  /\ row[f].status = "waiting" /\ file[f] # Gone
  /\ row' = [row EXCEPT ![f].status = "published",
                        ![f].due = IF byTick THEN Delay ELSE Unscheduled]
  /\ late' = IF file[f] + Delay > Retention THEN late \cup {f} ELSE late
  /\ UNCHANGED <<done, file, sweep, raced, posts, tokens, faults>>

(***************************************************************************)
(* The storage sweep.  The protected paths are read in a session of their  *)
(* own before the files are looked at.                                     *)
(***************************************************************************)
\* Faulty variant: only videos that are not complete are protected.
SweepReadsInProgress ==
  /\ ~sweep.on
  /\ sweep' = [on |-> TRUE, kept |-> Films \ done]
  /\ UNCHANGED <<done, file, row, raced, late, posts, tokens, faults>>

SweepReads ==
  /\ ~sweep.on
  /\ sweep' = [on |-> TRUE,
               kept |-> (Films \ done) \cup {f \in Films : row[f].status = "waiting"}]
  /\ UNCHANGED <<done, file, row, raced, late, posts, tokens, faults>>

SweepDeletes ==
  /\ sweep.on
  /\ file' = [f \in Films |-> IF file[f] > Retention /\ f \notin sweep.kept THEN Gone ELSE file[f]]
  /\ sweep' = [on |-> FALSE, kept |-> {}]
  /\ UNCHANGED <<done, row, raced, late, posts, tokens, faults>>

(***************************************************************************)
(* The access token: the store's, if the file can be read.                 *)
(***************************************************************************)
Stored == store.file = "set"
Current == IF Stored THEN store.token ELSE env
Valid == Current.live /\ Current.age < Life
Remaining == IF Current.dated THEN Life - Current.age ELSE 0

\* Faulty variant: the last day of the warning window is left to the next check.
CloseToExpiryLate == Remaining < Warn

CloseToExpiry == Remaining <= Warn

Renewed ==
  /\ Valid
  /\ store' = [file |-> "set", token |-> NewToken] /\ lapses' = 0
  /\ UNCHANGED faults

NotRenewed ==
  /\ IF Valid THEN Fault("refresh") ELSE UNCHANGED faults
  /\ UNCHANGED store

Check ==
  /\ ~checked /\ checked' = TRUE
  /\ IF CloseToExpiry THEN Renewed \/ (NotRenewed /\ lapses' = Longer(lapses))
     ELSE UNCHANGED <<store, lapses, faults>>
  /\ UNCHANGED <<media, posts, env>>

\* The dashboard's Refresh Now.
ManualRefresh ==
  /\ Renewed \/ (NotRenewed /\ UNCHANGED lapses)
  /\ UNCHANGED <<media, posts, env, checked>>

Revoke ==
  /\ Fault("revoke")
  /\ IF Stored THEN store' = [store EXCEPT !.token.live = FALSE] /\ UNCHANGED env
     ELSE env' = [env EXCEPT !.live = FALSE] /\ UNCHANGED store
  /\ UNCHANGED <<media, posts, checked, lapses>>

\* The notification's instructions: a new token in .env, and a restart.
Regenerate ==
  /\ ~Valid /\ ~sweep.on /\ \A t \in Ticks : tick[t] = Idle
  /\ env' = NewToken /\ checked' = TRUE
  /\ lapses' = IF Stored THEN lapses ELSE 0
  /\ UNCHANGED <<media, posts, store, faults>>

(***************************************************************************)
(* The Instagram tick.                                                     *)
(***************************************************************************)
Due(f) ==
  /\ row[f].status = "published" /\ row[f].due = 0
  /\ ~row[f].posted /\ ~row[f].dead

\* Ticks that may still make a Reel of f, and those that have made one that
\* the row does not know of.
Holders(f) == {t \in Ticks : f \in tick[t].left \/ (tick[t].at = "asking" /\ f \in tick[t].up)}
Claimants(f) == {t \in Ticks : tick[t].at \in {"made", "mark"} /\ f \in tick[t].up}

Excuse(up) == excuses' = [f \in Films |-> IF f \in up THEN excuses[f] + 1 ELSE excuses[f]]

TickLists(t) ==
  /\ tick[t].at = "idle"
  /\ LET due == {f \in Films : Due(f)} IN
     /\ due # {}
     /\ tick' = [tick EXCEPT ![t] = [at |-> "next", left |-> due, up |-> {},
                                     tries |-> [f \in Films |-> IF f \in due THEN row[f].tries ELSE 0]]]
     /\ Excuse({f \in due : Holders(f) \cup Claimants(f) # {}})
  /\ IF \A u \in Ticks : tick[u].at = "idle" THEN UNCHANGED faults ELSE Fault("overlap")
  /\ UNCHANGED <<media, tokens, reels>>

TickAsks(t) ==
  /\ tick[t].at = "next"
  /\ \E f \in tick[t].left :
       tick' = [tick EXCEPT ![t] = [tick[t] EXCEPT !.at = "asking", !.up = {f}, !.left = @ \ {f}]]
  /\ UNCHANGED <<media, tokens, faults, reels, excuses>>

TickEnds(t) ==
  /\ tick[t].at = "next" /\ tick[t].left = {}
  /\ tick' = [tick EXCEPT ![t] = Idle]
  /\ UNCHANGED <<media, tokens, faults, reels, excuses>>

Moves(t, to) == tick' = [tick EXCEPT ![t].at = to]

\* The handler of one film returns.
Returns(t) == tick' = [tick EXCEPT ![t].at = "next", ![t].up = {}]

\* An exception leaves the loop: the rest of the list is dropped.
Aborts(t) == tick' = [tick EXCEPT ![t] = Idle]

MakesReel(t) ==
  /\ tick[t].at = "asking" /\ Valid
  /\ \A f \in tick[t].up : file[f] # Gone
  /\ reels' = [f \in Films |-> IF f \in tick[t].up THEN reels[f] + 1 ELSE reels[f]]
  /\ Moves(t, "made")
  /\ UNCHANGED <<media, tokens, faults, excuses>>

\* A container that cannot be made or is not ready in time; post_reel returns None.
Refused(t) ==
  /\ tick[t].at = "asking"
  /\ IF Valid /\ \A f \in tick[t].up : file[f] # Gone THEN Fault("instagram") ELSE UNCHANGED faults
  /\ Moves(t, "failed")
  /\ UNCHANGED <<media, tokens, reels, excuses>>

Answered(t) ==
  /\ tick[t].at = "made" /\ Moves(t, "mark")
  /\ UNCHANGED <<media, tokens, faults, reels, excuses>>

\* A timeout after the Reel was published, or an answer without an id.
AnswerLost(t) ==
  /\ tick[t].at = "made" /\ Fault("answer") /\ Moves(t, "failed") /\ Excuse(tick[t].up)
  /\ UNCHANGED <<media, tokens, reels>>

Posted(t) == row' = [f \in Films |-> IF f \in tick[t].up THEN [row[f] EXCEPT !.posted = TRUE]
                                     ELSE row[f]]

\* Faulty variant: the commit is forgotten.
MarksUncommitted(t) ==
  /\ tick[t].at = "mark" /\ Returns(t) /\ UNCHANGED row
  /\ UNCHANGED <<done, file, sweep, raced, late, tokens, faults, reels, excuses>>

Marks(t) ==
  /\ tick[t].at = "mark" /\ Posted(t) /\ Returns(t)
  /\ UNCHANGED <<done, file, sweep, raced, late, tokens, faults, reels, excuses>>

\* The statement or the commit fails: the handler fails on the same session.
MarkLost(t) ==
  /\ tick[t].at = "mark" /\ Aborts(t)
  /\ \/ Fault("db") /\ Excuse(tick[t].up) /\ UNCHANGED row
     \/ Fault("ack") /\ Posted(t) /\ UNCHANGED excuses
  /\ UNCHANGED <<done, file, sweep, raced, late, tokens, reels>>

\* Faulty variant: the row is not marked, only counted.
CountedOnly(t) ==
  row' = [f \in Films |->
    IF f \in tick[t].up /\ tick[t].tries[f] + 1 < Cap
      THEN [row[f] EXCEPT !.tries = tick[t].tries[f] + 1] ELSE row[f]]

\* The counter is the loaded object's; only changed columns are written.
Counted(t) ==
  row' = [f \in Films |->
    IF f \in tick[t].up
      THEN LET n == tick[t].tries[f] + 1 IN
           [row[f] EXCEPT !.tries = n, !.dead = @ \/ n >= Cap]
      ELSE row[f]]

Counts(t) ==
  /\ tick[t].at = "failed" /\ Counted(t) /\ Returns(t)
  /\ UNCHANGED <<done, file, sweep, raced, late, tokens, faults, reels, excuses>>

CountLost(t) ==
  /\ tick[t].at = "failed" /\ Aborts(t)
  /\ \/ Fault("db") /\ UNCHANGED row
     \/ Fault("ack") /\ Counted(t)
  /\ UNCHANGED <<done, file, sweep, raced, late, tokens, reels, excuses>>

(***************************************************************************)
(* Crash and time.                                                         *)
(***************************************************************************)
\* The jobs' intervals start over: a token check due today is skipped.  A
\* crash while the new token is written leaves a file that cannot be read.
Crash ==
  /\ \/ Fault("crash") /\ UNCHANGED store
     \/ Fault("torn") /\ Valid /\ store' = Torn
  /\ tick' = [t \in Ticks |-> Idle] /\ sweep' = [on |-> FALSE, kept |-> {}]
  /\ Excuse({f \in Films : Claimants(f) # {}})
  /\ lapses' = Longer(lapses) /\ checked' = TRUE
  /\ UNCHANGED <<done, file, row, raced, late, env, reels>>

Older(token) == [token EXCEPT !.age = IF @ < Life THEN @ + 1 ELSE @]

\* The check has run today, and the ticks of a day, ten minutes apart, have
\* settled what was due.
Day ==
  /\ checked /\ checked' = FALSE
  /\ \A f \in Films : ~Due(f)
  /\ file' = [f \in Films |-> IF file[f] \in 0..Retention THEN file[f] + 1 ELSE file[f]]
  /\ row' = [f \in Films |-> IF row[f].due > 0 THEN [row[f] EXCEPT !.due = @ - 1] ELSE row[f]]
  /\ env' = Older(env)
  /\ store' = IF Stored THEN [store EXCEPT !.token = Older(@)] ELSE store
  /\ UNCHANGED <<done, sweep, raced, late, posts, faults, lapses>>

TickSteps(t) ==
  \/ TickLists(t) \/ TickAsks(t) \/ TickEnds(t) \/ MakesReel(t) \/ Refused(t)
  \/ Answered(t) \/ AnswerLost(t) \/ Marks(t) \/ MarkLost(t) \/ Counts(t) \/ CountLost(t)

Next ==
  \/ \E f \in Films : RenderStarts(f) \/ RenderEnds(f) \/ MakesUpload(f)
  \/ \E f \in Films, byTick \in BOOLEAN : Publishes(f, byTick)
  \/ SweepReads \/ SweepDeletes
  \/ Check \/ ManualRefresh \/ Revoke \/ Regenerate
  \/ \E t \in Ticks : TickSteps(t)
  \/ Crash \/ Day

Spec == Init /\ [][Next]_vars

\* Ticks end by their timeouts and are started again; the daily check runs; time passes.
FairSpec ==
  /\ Spec /\ WF_vars(Day) /\ WF_vars(Check)
  /\ \A t \in Ticks : WF_vars(TickSteps(t))

-----------------------------------------------------------------------------
TypeOK ==
  /\ done \in SUBSET Films
  /\ file \in [Films -> Gone..(Retention + 1)] /\ late \in SUBSET Films
  /\ row \in [Films -> [status : {"none", "waiting", "published"}, due : Unscheduled..Delay,
                        posted : BOOLEAN, tries : Nat, dead : BOOLEAN]]
  /\ tick \in [Ticks -> [at : {"idle", "next", "asking", "made", "mark", "failed"},
                         left : SUBSET Films, up : SUBSET Films, tries : [Films -> Nat]]]
  /\ sweep \in [on : BOOLEAN, kept : SUBSET Films] /\ raced \in SUBSET Films
  /\ env \in Token /\ store \in [file : {"absent", "set", "torn"}, token : Token]
  /\ checked \in BOOLEAN /\ faults \in Nat /\ lapses \in 0..Warn
  /\ reels \in [Films -> Nat] /\ excuses \in [Films -> Nat]

(* The sweep never takes a file that publication still needs, unless the   *)
(* upload row was made while the sweep ran or after the file was gone; and *)
(* a due cross-post misses its file only where the film was already so old *)
(* when it was published that the Delay days outlast the retention:        *)
(* _protected_paths protects unpublished uploads and no waiting cross-post.*)
FilesNeeded ==
  \A f \in Films :
    /\ row[f].status = "waiting" /\ f \notin raced => file[f] # Gone
    /\ Due(f) /\ file[f] = Gone => f \in late

(* A token that was never revoked runs out only after as many failed or    *)
(* skipped renewals as the warning window has days: InstagramTokenWatchdog *)
(* looks once a day, a restart skips a day, and what a refresh saved counts*)
(* from its own day on.  A torn token file falls back to the token of .env.*)
TokenAlive ==
  store.file # "torn" /\ Current.live /\ Current.age >= Life => lapses >= Warn

(* A film is posted to Instagram once, and once more only for each answer  *)
(* or commit that was lost and each tick that listed it while another still*)
(* held it: the row is marked after the Reel is out, with no claim before. *)
ReelOnce == \A f \in Films : reels[f] <= 1 + excuses[f]

(* Every scheduled cross-post is posted or given up for good in the end:   *)
(* no mixture of stale retry counts, aborted ticks, missing files, a dead  *)
(* token and restarts keeps INSTAGRAM_MAX_RETRIES from ending it.          *)
CrossPostSettles ==
  \A f \in Films : row[f].due # Unscheduled ~> row[f].posted \/ row[f].dead
=============================================================================

--------------------------- MODULE DailyAutomation ---------------------------
(***************************************************************************)
(* Which channel gets a new pipeline run on which day: the ticks of the    *)
(* daily automation scheduler, the processing task of each channel, and    *)
(* the dashboard's start, pause, archive and reset.  A calendar date is    *)
(* kept as its distance to the channel's today.  What a run does once it   *)
(* is queued is PipelineRuns; here it is pending, running or over.         *)
(***************************************************************************)
EXTENDS Naturals, FiniteSets

CONSTANTS
  Channels,
  Schedulers,   \* DailyAutomationScheduler objects, one per HTTP tick included
  Main,         \* the one of this process (get_automation_scheduler)
  Operators,    \* concurrent dashboard requests
  Slots,        \* settings.automation_max_concurrent_channels
  ShortsOnly,   \* settings.automation_shorts_only_days
  Interval,     \* long_video_interval_days
  LowRam,       \* settings.low_ram_mode
  Faults,       \* kinds of failure that may happen
  MaxFaults,    \* bound: failures in one behaviour
  MaxRequests,  \* bound: dashboard requests in one behaviour
  MaxRuns,      \* bound: pending, and running, runs counted per channel
  MaxWaiting,   \* bound: tasks counted per channel that wait for a slot
  Tallied       \* channels whose passes of a date are counted, for the properties

\* "topic": no eligible topic and the topic agent finds none.  "ack": a commit
\* is applied and its confirmation lost.
FaultKinds == {"topic", "db", "ack", "crash"}

ASSUME AutomationAssumption ==
  /\ Channels # {} /\ Main \in Schedulers /\ IsFiniteSet(Schedulers)
  /\ Slots \in Nat \ {0} /\ Interval \in Nat \ {0} /\ ShortsOnly \in Nat
  /\ LowRam \in BOOLEAN /\ Tallied \subseteq Channels
  /\ Faults \subseteq FaultKinds
  /\ MaxFaults \in Nat /\ MaxRequests \in Nat
  /\ MaxRuns \in Nat \ {0} /\ MaxWaiting \in Nat \ {0}

AutomationStatus == {"stopped", "running", "paused"}
Never == Interval + 1   \* last_long_pipeline_date is NULL

\* A channel and its automation row ("none": there is no such row).
\* last: last_run_date; since: days since last_long_pipeline_date, from Interval
\* on not told apart; days: cumulative_active_days, likewise from ShortsOnly on.
Channel == [archived : BOOLEAN, status : AutomationStatus \union {"none"},
            last : {"null", "past", "today"}, since : 0..Never, days : 0..ShortsOnly]

NewChannel == [archived |-> FALSE, status |-> "none", last |-> "null",
               since |-> Never, days |-> 0]

Workers == Schedulers \X (1..Slots)   \* holders of a slot of a semaphore

VARIABLES
  ch,        \* committed rows
  pending,   \* PENDING runs
  running,   \* RUNNING runs
  tick,      \* where the tick of each scheduler is
  waiting,   \* tasks waiting for the scheduler's semaphore, per channel
  pc,        \* where the task that holds a slot is
  chan,      \* its channel
  mem,       \* its ORM object
  age,       \* midnights since it computed today
  long,      \* its Long run: "no", "wanted" or "made"
  op,        \* where each dashboard request is
  opChan, opMem,
  requests,  \* requests still to come
  faults,    \* failures still to come
  shorts,    \* Short runs created for the current date
  counted,   \* times the current date was counted as active
  excuses    \* what allows another pass on that date: see OncePerDay

runs == <<pending, running>>
tasks == <<pc, chan, mem, age, long>>
ops == <<op, opChan, opMem, requests>>
tally == <<shorts, counted, excuses>>
vars == <<ch, runs, tick, waiting, tasks, ops, faults, tally>>

TaskPcs == {"idle", "read", "overlap", "short", "long", "final"}
Requests == {"start", "pause", "archive", "reset"}

TypeOK ==
  /\ ch \in [Channels -> Channel]
  /\ pending \in [Channels -> 0..MaxRuns]
  /\ running \in [Channels -> 0..MaxRuns]
  /\ tick \in [Schedulers -> {"idle", "list"}]
  /\ waiting \in [Schedulers -> [Channels -> 0..MaxWaiting]]
  /\ pc \in [Workers -> TaskPcs]
  /\ chan \in [Workers -> Channels]
  /\ mem \in [Workers -> Channel]
  /\ age \in [Workers -> 0..Interval]
  /\ long \in [Workers -> {"no", "wanted", "made"}]
  /\ op \in [Operators -> {"idle", "wipe"} \union Requests]
  /\ opChan \in [Operators -> Channels]
  /\ opMem \in [Operators -> Channel]
  /\ requests \in 0..MaxRequests
  /\ faults \in 0..MaxFaults
  /\ shorts \in [Channels -> Nat]
  /\ counted \in [Channels -> Nat]
  /\ excuses \in [Channels -> Nat]

Zero == [c \in Channels |-> 0]
SomeChannel == CHOOSE c \in Channels : TRUE

Init ==
  /\ ch = [c \in Channels |-> NewChannel]
  /\ pending = Zero /\ running = Zero
  /\ tick = [s \in Schedulers |-> "idle"]
  /\ waiting = [s \in Schedulers |-> Zero]
  /\ pc = [w \in Workers |-> "idle"]
  /\ chan = [w \in Workers |-> SomeChannel]
  /\ mem = [w \in Workers |-> NewChannel]
  /\ age = [w \in Workers |-> 0]
  /\ long = [w \in Workers |-> "no"]
  /\ op = [o \in Operators |-> "idle"]
  /\ opChan = [o \in Operators |-> SomeChannel]
  /\ opMem = [o \in Operators |-> NewChannel]
  /\ requests = MaxRequests /\ faults = MaxFaults
  /\ shorts = Zero /\ counted = Zero /\ excuses = Zero

Fault(kind) == kind \in Faults /\ faults > 0 /\ faults' = faults - 1
NoFault == UNCHANGED faults
UpTo(n, max) == IF n < max THEN n ELSE max
More(f, c, max) == [f EXCEPT ![c] = UpTo(@ + 1, max)]
\* Counts for the properties only.
Plus(f, c, condition) == [f EXCEPT ![c] = IF c \in Tallied /\ condition THEN @ + 1 ELSE @]

-----------------------------------------------------------------------------
(* DailyAutomationScheduler._tick.                                         *)

\* Faulty variant: runs that are only queued block the tick too.
TickGuardPending(s) ==
  /\ tick[s] = "idle"
  /\ \/ NoFault /\ \A c \in Channels : running[c] = 0 /\ pending[c] = 0
     \/ Fault("db")
  /\ tick' = [tick EXCEPT ![s] = "list"]
  /\ UNCHANGED <<ch, runs, waiting, tasks, ops, tally>>

\* The global guard: no run is RUNNING, or that cannot be found out.  (The
\* watchdog before it is in PipelineRuns.)  An HTTP tick is a new object.
TickGuard(s) ==
  /\ tick[s] = "idle"
  /\ s # Main => /\ waiting[s] = Zero
                 /\ \A w \in Workers : w[1] = s => pc[w] = "idle"
  /\ \/ NoFault /\ \A c \in Channels : running[c] = 0
     \/ Fault("db")
  /\ tick' = [tick EXCEPT ![s] = "list"]
  /\ UNCHANGED <<ch, runs, waiting, tasks, ops, tally>>

\* ChannelAutomationRepository.get_running, and a task for each of them.
TickLists(s) ==
  /\ tick[s] = "list"
  /\ \/ /\ NoFault
        /\ waiting' = [waiting EXCEPT ![s] = [c \in Channels |->
             IF ch[c].status = "running" /\ ~ch[c].archived
             THEN UpTo(@[c] + 1, MaxWaiting) ELSE @[c]]]
     \/ Fault("db") /\ UNCHANGED waiting
  /\ tick' = [tick EXCEPT ![s] = "idle"]
  /\ UNCHANGED <<ch, runs, tasks, ops, tally>>

-----------------------------------------------------------------------------
(* _process_channel: the semaphore, then _run_channel_tick.                *)

Goto(w, p) == pc' = [pc EXCEPT ![w] = p]

\* The semaphore admits a waiting task.
Take(w, c) ==
  /\ pc[w] = "idle" /\ waiting[w[1]][c] > 0
  /\ waiting' = [waiting EXCEPT ![w[1]][c] = @ - 1]
  /\ chan' = [chan EXCEPT ![w] = c]
  /\ Goto(w, "read")
  /\ UNCHANGED <<ch, runs, tick, mem, age, long, ops, faults, tally>>

\* The task ends, its slot is free.
Done(w) ==
  /\ Goto(w, "idle")
  /\ mem' = [mem EXCEPT ![w] = NewChannel]
  /\ age' = [age EXCEPT ![w] = 0]
  /\ long' = [long EXCEPT ![w] = "no"]
  /\ UNCHANGED chan

\* Faulty variant: last_run_date is not looked at.
DueAlways(r) == ~r.archived /\ r.status # "none"

\* The early returns.  (The automation's status is not looked at again.)
Due(r) == ~r.archived /\ r.status # "none" /\ r.last # "today"

Read(w) ==
  /\ pc[w] = "read"
  /\ \/ /\ Due(ch[chan[w]]) /\ NoFault
        /\ mem' = [mem EXCEPT ![w] = ch[chan[w]]]
        /\ Goto(w, "overlap") /\ UNCHANGED <<chan, age, long>>
     \/ ~Due(ch[chan[w]]) /\ NoFault /\ Done(w)
     \/ Fault("db") /\ Done(w)
  /\ UNCHANGED <<ch, runs, tick, waiting, ops, tally>>

\* Faulty variant: no Long as long as there has been none.
WantsLongNotFirst(r) ==
  r.days + 1 > ShortsOnly /\ r.since >= Interval /\ r.since # Never /\ ~LowRam

\* The content plan of the day.
WantsLong(r) ==
  /\ r.days + 1 > ShortsOnly
  /\ r.since >= Interval      \* Never included
  /\ ~LowRam

\* has_running_for_channel, then the plan.
Overlap(w) ==
  /\ pc[w] = "overlap"
  /\ \/ /\ running[chan[w]] = 0 /\ NoFault
        /\ long' = [long EXCEPT ![w] = IF WantsLong(mem[w]) THEN "wanted" ELSE "no"]
        /\ Goto(w, "short") /\ UNCHANGED <<chan, mem, age>>
     \/ running[chan[w]] > 0 /\ NoFault /\ Done(w)
     \/ Fault("db") /\ Done(w)
  /\ UNCHANGED <<ch, runs, tick, waiting, ops, tally>>

\* An exception ends the task before last_run_date is written.
GivesUp(w) ==
  /\ Done(w)
  /\ excuses' = Plus(excuses, chan[w], age[w] = 0)

\* _select_topic and PipelineService.start, which commits the PENDING run: it is
\* made, there is no topic, the task fails, or it fails with the run committed.
Outcomes == {"made", "topic", "db", "ack"}
Creates(outcome) == outcome \in {"made", "ack"}

CreateRun(w, outcome) ==
  /\ IF outcome = "made" THEN NoFault ELSE Fault(outcome)
  /\ pending' = IF Creates(outcome) THEN More(pending, chan[w], MaxRuns) ELSE pending

CreateShort(w) ==
  /\ pc[w] = "short"
  /\ \E o \in Outcomes :
       /\ CreateRun(w, o)
       /\ shorts' = Plus(shorts, chan[w], Creates(o) /\ age[w] = 0)
       /\ \/ o \in {"db", "ack"} /\ GivesUp(w)
          \/ /\ o \in {"made", "topic"}
             /\ Goto(w, IF long[w] = "wanted" THEN "long" ELSE "final")
             /\ UNCHANGED <<chan, mem, age, long, excuses>>
  /\ UNCHANGED <<ch, running, tick, waiting, ops, counted>>

CreateLong(w) ==
  /\ pc[w] = "long"
  /\ \E o \in Outcomes :
       /\ CreateRun(w, o)
       /\ \/ o \in {"db", "ack"} /\ GivesUp(w)
          \/ /\ o \in {"made", "topic"}
             /\ long' = [long EXCEPT ![w] = IF o = "made" THEN "made" ELSE "no"]
             /\ Goto(w, "final")
             /\ UNCHANGED <<chan, mem, age, excuses>>
  /\ UNCHANGED <<ch, running, tick, waiting, ops, shorts, counted>>

\* Faulty variant: the whole object is written back.
StampedRow(r, w) ==
  [mem[w] EXCEPT !.last = IF age[w] = 0 THEN "today" ELSE "past",
                 !.days = UpTo(@ + 1, ShortsOnly)]

\* The row after the last update: only the columns the task set are written,
\* and today is the date the task computed when it began.
Stamped(r, w) ==
  [r EXCEPT !.last = IF age[w] = 0 THEN "today" ELSE "past",
            !.days = UpTo(mem[w].days + 1, ShortsOnly),
            !.since = IF long[w] = "made" THEN age[w] ELSE @]

Final(w) ==
  LET c == chan[w] IN
  /\ pc[w] = "final"
  /\ \/ /\ NoFault \/ Fault("ack")
        /\ ch' = [ch EXCEPT ![c] = Stamped(@, w)]
        /\ counted' = Plus(counted, c, age[w] = 0)
        /\ Done(w) /\ UNCHANGED excuses
     \/ Fault("db") /\ UNCHANGED <<ch, counted>> /\ GivesUp(w)
  /\ UNCHANGED <<runs, tick, waiting, ops, shorts>>

-----------------------------------------------------------------------------
(* ChannelAutomationService: read, then update and commit.                 *)

OperatorReads(o, c, k) ==
  /\ op[o] = "idle" /\ requests > 0
  /\ k = "pause" => ch[c].status # "none"
  /\ op' = [op EXCEPT ![o] = k]
  /\ opChan' = [opChan EXCEPT ![o] = c]
  /\ opMem' = [opMem EXCEPT ![o] = ch[c]]
  /\ requests' = requests - 1
  /\ UNCHANGED <<ch, runs, tick, waiting, tasks, faults, tally>>

\* The object after the service set its attributes.
Edited(r, k) ==
  CASE k = "start" -> [r EXCEPT !.archived = FALSE, !.status = "running", !.last = "null"]
    [] k = "pause" -> [r EXCEPT !.status = "paused"]
    [] k = "archive" -> [r EXCEPT !.archived = TRUE, !.status = "stopped"]
    [] k = "reset" -> [r EXCEPT !.status = IF @ = "none" THEN @ ELSE "stopped"]
    [] k = "wipe" -> IF r.status = "none" THEN r
                     ELSE [r EXCEPT !.last = "null", !.since = Never, !.days = 0]

\* BaseRepository.update: the columns whose value changed on the object.
Merged(r, m, n) ==
  LET column(committed, read, set) == IF set # read THEN set ELSE committed IN
  [archived |-> column(r.archived, m.archived, n.archived),
   status |-> column(r.status, m.status, n.status), last |-> column(r.last, m.last, n.last),
   since |-> column(r.since, m.since, n.since), days |-> column(r.days, m.days, n.days)]

\* channel_id is unique: somebody else inserted the row meanwhile.
Conflict(o) ==
  /\ op[o] \in {"start", "archive"} /\ opMem[o].status = "none"
  /\ ch[opChan[o]].status # "none"

OperatorEnds(o) ==
  /\ op' = [op EXCEPT ![o] = "idle"]
  /\ opMem' = [opMem EXCEPT ![o] = NewChannel]
  /\ UNCHANGED <<opChan, requests>>

\* The commit.  Clearing last_run_date allows another pass on the same day.
OperatorCommits(o) ==
  LET c == opChan[o]
      new == Merged(ch[c], opMem[o], Edited(opMem[o], op[o])) IN
  /\ ch' = [ch EXCEPT ![c] = new]
  /\ excuses' = Plus(excuses, c, ch[c].last = "today" /\ new.last = "null")

\* Start queues a task at once; reset goes on with the deletes; the request may
\* fail before or after its commit.
OperatorWrites(o) ==
  LET c == opChan[o] IN
  /\ op[o] \in Requests
  /\ \/ /\ ~Conflict(o) /\ NoFault /\ OperatorCommits(o)
        /\ waiting' = IF op[o] = "start"
                      THEN [waiting EXCEPT ![Main] = More(@, c, MaxWaiting)] ELSE waiting
        /\ \/ op[o] # "reset" /\ OperatorEnds(o)
           \/ /\ op[o] = "reset"
              /\ op' = [op EXCEPT ![o] = "wipe"]
              /\ opMem' = [opMem EXCEPT ![o] = ch'[c]]
              /\ UNCHANGED <<opChan, requests>>
     \/ /\ ~Conflict(o) /\ Fault("ack") /\ OperatorCommits(o)
        /\ OperatorEnds(o) /\ UNCHANGED waiting
     \/ /\ (Conflict(o) /\ NoFault) \/ Fault("db")
        /\ OperatorEnds(o) /\ UNCHANGED <<ch, waiting, excuses>>
  /\ UNCHANGED <<runs, tick, tasks, shorts, counted>>

\* The last commit of reset_channel: the channel's runs go, its counters too.
ResetWipes(o) ==
  LET c == opChan[o] IN
  /\ op[o] = "wipe"
  /\ \/ /\ NoFault \/ Fault("ack")
        /\ OperatorCommits(o)
        /\ pending' = [pending EXCEPT ![c] = 0]
        /\ running' = [running EXCEPT ![c] = 0]
     \/ Fault("db") /\ UNCHANGED <<ch, runs, excuses>>
  /\ OperatorEnds(o)
  /\ UNCHANGED <<tick, waiting, tasks, shorts, counted>>

\* PipelineService.start or retry_run from the dashboard.
ManualRun(c) ==
  /\ requests > 0 /\ requests' = requests - 1
  /\ pending' = More(pending, c, MaxRuns)
  /\ UNCHANGED <<ch, running, tick, waiting, tasks, op, opChan, opMem, faults, tally>>

-----------------------------------------------------------------------------
(* The runs, the calendar, and the process.                                *)

RunBegins(c) ==
  /\ pending[c] > 0
  /\ pending' = [pending EXCEPT ![c] = @ - 1]
  /\ running' = More(running, c, MaxRuns)
  /\ UNCHANGED <<ch, tick, waiting, tasks, ops, faults, tally>>

\* Completed, failed, or failed by the watchdog.
RunEnds(c) ==
  /\ running[c] > 0
  /\ running' = [running EXCEPT ![c] = @ - 1]
  /\ UNCHANGED <<ch, pending, tick, waiting, tasks, ops, faults, tally>>

\* Midnight in the channel's timezone.
NewDay(c) ==
  /\ ch' = [ch EXCEPT ![c].last = IF @ = "today" THEN "past" ELSE @,
                      ![c].since = IF @ = Never THEN @ ELSE UpTo(@ + 1, Interval)]
  /\ age' = [w \in Workers |->
       IF chan[w] = c /\ pc[w] \in {"overlap", "short", "long", "final"}
       THEN UpTo(age[w] + 1, Interval) ELSE age[w]]
  /\ shorts' = [shorts EXCEPT ![c] = 0]
  /\ counted' = [counted EXCEPT ![c] = 0]
  /\ excuses' = [excuses EXCEPT ![c] = 0]
  /\ UNCHANGED <<runs, tick, waiting, pc, chan, mem, long, ops, faults>>

\* The process dies; at startup RUNNING runs are failed, unless that fails.
Restart ==
  /\ Fault("crash")
  /\ running' \in {running, Zero}
  /\ tick' = [s \in Schedulers |-> "idle"]
  /\ waiting' = [s \in Schedulers |-> Zero]
  /\ pc' = [w \in Workers |-> "idle"]
  /\ mem' = [w \in Workers |-> NewChannel]
  /\ age' = [w \in Workers |-> 0]
  /\ long' = [w \in Workers |-> "no"]
  /\ op' = [o \in Operators |-> "idle"]
  /\ opMem' = [o \in Operators |-> NewChannel]
  /\ excuses' = [c \in Channels |-> excuses[c] +
       Cardinality({w \in Workers : /\ c \in Tallied /\ chan[w] = c /\ age[w] = 0
                                    /\ pc[w] \in {"long", "final"}})]
  /\ UNCHANGED <<ch, pending, chan, opChan, requests, shorts, counted>>

-----------------------------------------------------------------------------
TickStep(s) == TickGuard(s) \/ TickLists(s)
TaskStep(w) ==
  \/ Read(w) \/ Overlap(w) \/ CreateShort(w) \/ CreateLong(w) \/ Final(w)

Next ==
  \/ \E s \in Schedulers : TickStep(s)
  \/ \E w \in Workers, c \in Channels : Take(w, c)
  \/ \E w \in Workers : TaskStep(w)
  \/ \E o \in Operators, c \in Channels, k \in Requests : OperatorReads(o, c, k)
  \/ \E o \in Operators : OperatorWrites(o) \/ ResetWipes(o)
  \/ \E c \in Channels : ManualRun(c) \/ RunBegins(c) \/ RunEnds(c) \/ NewDay(c)
  \/ Restart

Spec == Init /\ [][Next]_vars

\* The interval job fires, tasks run on and get a slot in the order they asked
\* for it, a running run ends (PipelineRuns!RunningEnds), days go by.
Fairness ==
  /\ \A s \in Schedulers : WF_vars(TickStep(s))
  /\ \A w \in Workers : WF_vars(TaskStep(w))
  /\ \A c \in Channels : /\ SF_vars(\E w \in Workers : Take(w, c))
                         /\ WF_vars(RunEnds(c)) /\ WF_vars(NewDay(c))

FairSpec == Spec /\ Fairness

-----------------------------------------------------------------------------
(* Properties.                                                             *)

\* With one slot and one scheduler object, a channel gets one Short per date of
\* its own calendar; every further one is paid for by an operator who cleared
\* last_run_date, or by a failure between the run's commit and the date's.
OncePerDay == \A c \in Channels : shorts[c] <= 1 + excuses[c]

\* ... and that date is counted once in cumulative_active_days.
DayCountedOnce == \A c \in Channels : counted[c] <= 1 + excuses[c]

\* A pause, archive or reset that was committed while the channel was being
\* processed is not undone by the tick's own commit.
StopKept ==
  [][\A w \in Workers, c \in Channels : Final(w) =>
        ch'[c].status = ch[c].status /\ ch'[c].archived = ch[c].archived]_vars

Active(c) == ch[c].status = "running" /\ ~ch[c].archived
At(c, p) == \E w \in Workers : chan[w] = c /\ pc[w] = p

\* No active channel is forgotten: whatever the others, old runs and failures
\* do, its day is eventually processed.
EveryActiveServed ==
  \A c \in Channels :
    (Active(c) /\ ch[c].last # "today") ~> (~Active(c) \/ ch[c].last = "today" \/ At(c, "final"))

\* A channel past its Shorts-only days eventually gets to a Long.
LongComes ==
  \A c \in Channels :
    (Active(c) /\ ch[c].days = ShortsOnly)
      ~> (~Active(c) \/ ch[c].days < ShortsOnly \/ At(c, "long"))
=============================================================================

---------------------------- MODULE ChannelProofs ----------------------------
(***************************************************************************)
(* Two models of a channel.  First its daily automation, for any channels, *)
(* schedulers, slots and operators: type correctness, and, for one         *)
(* scheduler object with one slot, that a date gets one pass unless        *)
(* somebody or something paid for another.  Then its content rows, for any *)
(* number of rows, requests and attempts: referential integrity, that      *)
(* nothing is added once the run is deleted, and that a reset which no     *)
(* other session overtakes leaves nothing behind.                          *)
(***************************************************************************)
EXTENDS DailyAutomation, ChannelContent, FiniteSetTheorems, TLAPS

-----------------------------------------------------------------------------
\* Rows and counters.

\* The row of a new channel is well-typed.
LEMMA NewChannelType == NewChannel \in Channel
BY AutomationAssumption DEF NewChannel, Channel, AutomationStatus, Never

\* A counter with a bound stays within it.
LEMMA UpToType ==
  ASSUME NEW max \in Nat, NEW n \in 0..(max + 1)
  PROVE  UpTo(n, max) \in 0..max
BY DEF UpTo

\* Counting up to a bound stays below it.
LEMMA MoreType ==
  ASSUME NEW max \in Nat, NEW f \in [Channels -> 0..max], NEW c \in Channels
  PROVE  More(f, c, max) \in [Channels -> 0..max]
BY UpToType DEF More, UpTo

\* A tally counts one more for its own channel and nothing for another.
LEMMA PlusType ==
  ASSUME NEW f \in [Channels -> Nat], NEW c \in Channels, NEW condition \in BOOLEAN
  PROVE  /\ Plus(f, c, condition) \in [Channels -> Nat]
         /\ \A d \in Channels \ {c} : Plus(f, c, condition)[d] = f[d]
         /\ Plus(f, c, condition)[c] = IF c \in Tallied /\ condition THEN f[c] + 1 ELSE f[c]
BY DEF Plus

\* The object after a service method set its attributes.
LEMMA EditedType ==
  ASSUME NEW r \in Channel, NEW k \in Requests \union {"wipe"}
  PROVE  Edited(r, k) \in Channel
<1> USE AutomationAssumption DEF Channel, AutomationStatus, Never
<1>1. CASE k = "start"
  BY <1>1 DEF Edited
<1>2. CASE k = "pause"
  BY <1>2 DEF Edited
<1>3. CASE k = "archive"
  BY <1>3 DEF Edited
<1>4. CASE k = "reset"
  BY <1>4 DEF Edited
<1>5. CASE k = "wipe"
  <2>1. Never \in 0..Never /\ 0 \in 0..ShortsOnly  BY DEF Never
  <2>2. [r EXCEPT !.last = "null", !.since = Never, !.days = 0] \in Channel
    BY <2>1
  <2>. QED  BY <1>5, <2>2 DEF Edited
<1>. QED  BY <1>1, <1>2, <1>3, <1>4, <1>5 DEF Requests

\* No service method makes last_run_date today.
LEMMA EditedLast ==
  ASSUME NEW r \in Channel, NEW k \in Requests \union {"wipe"}
  PROVE  Edited(r, k).last \in {r.last, "null"}
<1>1. CASE k = "start"
  BY <1>1 DEF Edited, Channel
<1>2. CASE k = "pause"
  BY <1>2 DEF Edited, Channel
<1>3. CASE k = "archive"
  BY <1>3 DEF Edited, Channel
<1>4. CASE k = "reset"
  BY <1>4 DEF Edited, Channel
<1>5. CASE k = "wipe"
  BY <1>5 DEF Edited, Channel
<1>. QED  BY <1>1, <1>2, <1>3, <1>4, <1>5 DEF Requests

\* A flush mixes committed and changed columns, each of its type.
LEMMA MergedType ==
  ASSUME NEW r \in Channel, NEW m \in Channel, NEW n \in Channel
  PROVE  /\ Merged(r, m, n) \in Channel
         /\ Merged(r, m, n).last = IF n.last # m.last THEN n.last ELSE r.last
BY DEF Merged, Channel

\* The row at the end of a tick.
LEMMA StampedType ==
  ASSUME TypeOK, NEW w \in Workers
  PROVE  LET row == Stamped(ch[chan[w]], w) IN
         /\ row \in Channel
         /\ row.last = (IF age[w] = 0 THEN "today" ELSE "past")
         /\ row.status = ch[chan[w]].status
         /\ row.archived = ch[chan[w]].archived
<1> DEFINE r == ch[chan[w]]
<1>1. r \in Channel /\ mem[w] \in Channel /\ age[w] \in 0..Interval
  BY DEF TypeOK
<1>2. UpTo(mem[w].days + 1, ShortsOnly) \in 0..ShortsOnly
  BY <1>1, AutomationAssumption DEF UpTo, Channel
<1>3. age[w] \in 0..Never
  BY <1>1, AutomationAssumption DEF Never
<1>. QED  BY <1>1, <1>2, <1>3 DEF Stamped, Channel

\* A new task's object, a task's end.
LEMMA DoneType ==
  ASSUME TypeOK, NEW w \in Workers, Done(w)
  PROVE  /\ pc' = [pc EXCEPT ![w] = "idle"] /\ pc' \in [Workers -> TaskPcs]
         /\ mem' \in [Workers -> Channel]
         /\ age' \in [Workers -> 0..Interval]
         /\ long' \in [Workers -> {"no", "wanted", "made"}]
         /\ chan' = chan
BY NewChannelType, AutomationAssumption DEF Done, Goto, TypeOK, TaskPcs

\* The faults left stay within their bound.
LEMMA FaultType ==
  ASSUME TypeOK, NEW kind, Fault(kind) \/ NoFault
  PROVE  faults' \in 0..MaxFaults
BY AutomationAssumption DEF Fault, NoFault, TypeOK

\* An exception of the task.
LEMMA GivesUpType ==
  ASSUME TypeOK, NEW w \in Workers, GivesUp(w)
  PROVE  /\ pc' = [pc EXCEPT ![w] = "idle"] /\ pc' \in [Workers -> TaskPcs]
         /\ mem' \in [Workers -> Channel]
         /\ age' \in [Workers -> 0..Interval]
         /\ long' \in [Workers -> {"no", "wanted", "made"}]
         /\ chan' = chan
         /\ excuses' = Plus(excuses, chan[w], age[w] = 0)
         /\ excuses' \in [Channels -> Nat]
<1>1. Done(w) /\ excuses' = Plus(excuses, chan[w], age[w] = 0)
  BY DEF GivesUp
<1>2. excuses \in [Channels -> Nat] /\ chan[w] \in Channels /\ (age[w] = 0) \in BOOLEAN
  BY DEF TypeOK
<1>. QED  BY <1>1, <1>2, DoneType, PlusType

-----------------------------------------------------------------------------
\* Type correctness.

\* There are finitely many slots.
LEMMA WorkersFinite == IsFiniteSet(Workers)
<1>1. IsFiniteSet(1..Slots)
  BY AutomationAssumption, FS_Interval
<1>. QED  BY <1>1, AutomationAssumption, FS_Product DEF Workers

\* The initial state is well-typed.
LEMMA InitType == Init => TypeOK
<1> SUFFICES ASSUME Init PROVE TypeOK
  OBVIOUS
<1>. USE AutomationAssumption
<1>1. SomeChannel \in Channels
  BY DEF SomeChannel
<1>2. Zero \in [Channels -> 0..MaxRuns] /\ Zero \in [Channels -> 0..MaxWaiting]
      /\ Zero \in [Channels -> Nat]
  BY DEF Zero
<1>3. /\ ch \in [Channels -> Channel]
      /\ pending \in [Channels -> 0..MaxRuns] /\ running \in [Channels -> 0..MaxRuns]
      /\ tick \in [Schedulers -> {"idle", "list"}]
      /\ waiting \in [Schedulers -> [Channels -> 0..MaxWaiting]]
  BY <1>2, NewChannelType DEF Init
<1>4. /\ pc \in [Workers -> TaskPcs] /\ chan \in [Workers -> Channels]
      /\ mem \in [Workers -> Channel] /\ age \in [Workers -> 0..Interval]
      /\ long \in [Workers -> {"no", "wanted", "made"}]
  BY <1>1, NewChannelType DEF Init, TaskPcs
<1>5. /\ op \in [Operators -> {"idle", "wipe"} \union Requests]
      /\ opChan \in [Operators -> Channels] /\ opMem \in [Operators -> Channel]
      /\ requests \in 0..MaxRequests /\ faults \in 0..MaxFaults
  BY <1>1, NewChannelType DEF Init
<1>6. shorts \in [Channels -> Nat] /\ counted \in [Channels -> Nat] /\ excuses \in [Channels -> Nat]
  BY <1>2 DEF Init
<1>. QED  BY <1>3, <1>4, <1>5, <1>6 DEF TypeOK

-----------------------------------------------------------------------------
\* One lemma per group of actions: what the action leaves well-typed.

\* A tick keeps the types.
LEMMA TickType == ASSUME TypeOK, NEW s \in Schedulers, TickStep(s) PROVE TypeOK'
<1>. USE AutomationAssumption
<1>1. CASE TickGuard(s)
  <2>1. faults' \in 0..MaxFaults  BY <1>1, FaultType DEF TickGuard
  <2>2. tick' \in [Schedulers -> {"idle", "list"}]  BY <1>1 DEF TickGuard, TypeOK
  <2>. QED
    BY <1>1, <2>1, <2>2 DEF TickGuard, TypeOK, runs, tasks, ops, tally
<1>2. CASE TickLists(s)
  <2>1. faults' \in 0..MaxFaults  BY <1>2, FaultType DEF TickLists
  <2>2. tick' \in [Schedulers -> {"idle", "list"}]  BY <1>2 DEF TickLists, TypeOK
  <2>3. waiting' \in [Schedulers -> [Channels -> 0..MaxWaiting]]
    <3>1. \A c \in Channels : UpTo(waiting[s][c] + 1, MaxWaiting) \in 0..MaxWaiting
      BY UpToType DEF TypeOK
    <3>2. [c \in Channels |-> IF ch[c].status = "running" /\ ~ch[c].archived
             THEN UpTo(waiting[s][c] + 1, MaxWaiting) ELSE waiting[s][c]]
          \in [Channels -> 0..MaxWaiting]
      BY <3>1 DEF TypeOK
    <3>. QED  BY <1>2, <3>2 DEF TickLists, TypeOK
  <2>. QED
    BY <1>2, <2>1, <2>2, <2>3 DEF TickLists, TypeOK, runs, tasks, ops, tally
<1>. QED  BY <1>1, <1>2 DEF TickStep

\* A task that gets a slot of the semaphore keeps the types.
LEMMA TakeType ==
  ASSUME TypeOK, NEW w \in Workers, NEW c \in Channels, Take(w, c) PROVE TypeOK'
<1>1. w[1] \in Schedulers  BY DEF Workers
<1>2. waiting' \in [Schedulers -> [Channels -> 0..MaxWaiting]]
  <2>1. waiting[w[1]] \in [Channels -> 0..MaxWaiting] /\ waiting[w[1]][c] > 0
    BY <1>1 DEF TypeOK, Take
  <2>2. [waiting[w[1]] EXCEPT ![c] = @ - 1] \in [Channels -> 0..MaxWaiting]
    BY <2>1, AutomationAssumption
  <2>. QED  BY <1>1, <2>2 DEF Take, TypeOK
<1>3. pc' \in [Workers -> TaskPcs] /\ chan' \in [Workers -> Channels]
  BY DEF Take, TypeOK, Goto, TaskPcs
<1>. QED  BY <1>2, <1>3 DEF Take, TypeOK, runs, ops, tally

\* A task's step keeps the types.
LEMMA TaskType == ASSUME TypeOK, NEW w \in Workers, TaskStep(w) PROVE TypeOK'
<1>. USE AutomationAssumption DEF runs, ops, tally
<1>0. chan[w] \in Channels /\ (age[w] = 0) \in BOOLEAN  BY DEF TypeOK
<1>1. CASE Read(w)
  <2>1. faults' \in 0..MaxFaults  BY <1>1, FaultType DEF Read
  <2>2. /\ pc' \in [Workers -> TaskPcs] /\ chan' \in [Workers -> Channels]
        /\ mem' \in [Workers -> Channel] /\ age' \in [Workers -> 0..Interval]
        /\ long' \in [Workers -> {"no", "wanted", "made"}]
    <3>1. CASE Done(w)  BY <3>1, DoneType DEF TypeOK
    <3>2. CASE ~Done(w)
      BY <1>0, <1>1, <3>2 DEF Read, TypeOK, Goto, TaskPcs
    <3>. QED  BY <3>1, <3>2
  <2>. QED  BY <1>1, <2>1, <2>2 DEF Read, TypeOK
<1>2. CASE Overlap(w)
  <2>1. faults' \in 0..MaxFaults  BY <1>2, FaultType DEF Overlap
  <2>2. /\ pc' \in [Workers -> TaskPcs] /\ chan' \in [Workers -> Channels]
        /\ mem' \in [Workers -> Channel] /\ age' \in [Workers -> 0..Interval]
        /\ long' \in [Workers -> {"no", "wanted", "made"}]
    <3>1. CASE Done(w)  BY <3>1, DoneType DEF TypeOK
    <3>2. CASE ~Done(w)
      BY <1>0, <1>2, <3>2 DEF Overlap, TypeOK, Goto, TaskPcs
    <3>. QED  BY <3>1, <3>2
  <2>. QED  BY <1>2, <2>1, <2>2 DEF Overlap, TypeOK
<1>3. CASE CreateShort(w)
  <2>1. PICK o \in Outcomes :
          /\ CreateRun(w, o)
          /\ shorts' = Plus(shorts, chan[w], Creates(o) /\ age[w] = 0)
          /\ \/ o \in {"db", "ack"} /\ GivesUp(w)
             \/ /\ o \in {"made", "topic"}
                /\ Goto(w, IF long[w] = "wanted" THEN "long" ELSE "final")
                /\ UNCHANGED <<chan, mem, age, long, excuses>>
    BY <1>3 DEF CreateShort
  <2>2. faults' \in 0..MaxFaults  BY <2>1, FaultType DEF CreateRun
  <2>3. pending' \in [Channels -> 0..MaxRuns]
    BY <1>0, <2>1, MoreType DEF CreateRun, TypeOK
  <2>4. shorts' \in [Channels -> Nat]
    BY <1>0, <2>1, PlusType DEF TypeOK, Creates
  <2>5. /\ pc' \in [Workers -> TaskPcs] /\ chan' \in [Workers -> Channels]
        /\ mem' \in [Workers -> Channel] /\ age' \in [Workers -> 0..Interval]
        /\ long' \in [Workers -> {"no", "wanted", "made"}] /\ excuses' \in [Channels -> Nat]
    <3>1. CASE GivesUp(w)  BY <3>1, GivesUpType DEF TypeOK
    <3>2. CASE ~GivesUp(w)
      BY <2>1, <3>2 DEF TypeOK, Goto, TaskPcs
    <3>. QED  BY <3>1, <3>2
  <2>. QED  BY <1>3, <2>2, <2>3, <2>4, <2>5 DEF CreateShort, TypeOK
<1>4. CASE CreateLong(w)
  <2>1. PICK o \in Outcomes :
          /\ CreateRun(w, o)
          /\ \/ o \in {"db", "ack"} /\ GivesUp(w)
             \/ /\ o \in {"made", "topic"}
                /\ long' = [long EXCEPT ![w] = IF o = "made" THEN "made" ELSE "no"]
                /\ Goto(w, "final")
                /\ UNCHANGED <<chan, mem, age, excuses>>
    BY <1>4 DEF CreateLong
  <2>2. faults' \in 0..MaxFaults  BY <2>1, FaultType DEF CreateRun
  <2>3. pending' \in [Channels -> 0..MaxRuns]
    BY <1>0, <2>1, MoreType DEF CreateRun, TypeOK
  <2>5. /\ pc' \in [Workers -> TaskPcs] /\ chan' \in [Workers -> Channels]
        /\ mem' \in [Workers -> Channel] /\ age' \in [Workers -> 0..Interval]
        /\ long' \in [Workers -> {"no", "wanted", "made"}] /\ excuses' \in [Channels -> Nat]
    <3>1. CASE GivesUp(w)  BY <3>1, GivesUpType DEF TypeOK
    <3>2. CASE ~GivesUp(w)
      BY <2>1, <3>2 DEF TypeOK, Goto, TaskPcs
    <3>. QED  BY <3>1, <3>2
  <2>. QED  BY <1>4, <2>2, <2>3, <2>5 DEF CreateLong, TypeOK
<1>5. CASE Final(w)
  <2>1. faults' \in 0..MaxFaults  BY <1>5, FaultType DEF Final
  <2>2. ch' \in [Channels -> Channel]
    <3>1. ch \in [Channels -> Channel] /\ Stamped(ch[chan[w]], w) \in Channel
      BY StampedType DEF TypeOK
    <3>. QED  BY <1>0, <1>5, <3>1 DEF Final
  <2>3. counted' \in [Channels -> Nat]
    <3>1. counted \in [Channels -> Nat] /\ Plus(counted, chan[w], age[w] = 0) \in [Channels -> Nat]
      BY <1>0, PlusType DEF TypeOK
    <3>. QED  BY <1>5, <3>1 DEF Final
  <2>4. /\ pc' \in [Workers -> TaskPcs] /\ chan' \in [Workers -> Channels]
        /\ mem' \in [Workers -> Channel] /\ age' \in [Workers -> 0..Interval]
        /\ long' \in [Workers -> {"no", "wanted", "made"}] /\ excuses' \in [Channels -> Nat]
    <3>1. CASE GivesUp(w)  BY <3>1, GivesUpType DEF TypeOK
    <3>2. CASE Done(w) /\ UNCHANGED excuses  BY <3>2, DoneType DEF TypeOK
    <3>. QED  BY <1>5, <3>1, <3>2 DEF Final
  <2>. QED  BY <1>5, <2>1, <2>2, <2>3, <2>4 DEF Final, TypeOK
<1>. QED  BY <1>1, <1>2, <1>3, <1>4, <1>5 DEF TaskStep

\* A dashboard request's commit: the row keeps its type, its last_run_date is
\* left alone or cleared, and clearing today's is an excuse.
LEMMA CommitType ==
  ASSUME TypeOK, NEW o \in Operators, op[o] \in Requests \union {"wipe"}, OperatorCommits(o)
  PROVE  /\ ch' \in [Channels -> Channel] /\ excuses' \in [Channels -> Nat]
         /\ \A c \in Channels : ch'[c].last \in {ch[c].last, "null"}
         /\ \A c \in Channels :
              excuses'[c] = IF c \in Tallied /\ ch[c].last = "today" /\ ch'[c].last # "today"
                            THEN excuses[c] + 1 ELSE excuses[c]
<1>. DEFINE c == opChan[o]
            n == Edited(opMem[o], op[o])
            new == Merged(ch[c], opMem[o], n)
<1>1. c \in Channels /\ opMem[o] \in Channel /\ ch[c] \in Channel
  BY DEF TypeOK
<1>2. n \in Channel /\ n.last \in {opMem[o].last, "null"}
  BY <1>1, EditedType, EditedLast
<1>3. new \in Channel /\ new.last \in {ch[c].last, "null"}
  BY <1>1, <1>2, MergedType
<1>4. /\ ch' = [ch EXCEPT ![c] = new]
      /\ excuses' = Plus(excuses, c, ch[c].last = "today" /\ new.last = "null")
  BY DEF OperatorCommits
<1>. HIDE DEF c, n, new
<1>5. ch \in [Channels -> Channel] /\ excuses \in [Channels -> Nat]
  BY DEF TypeOK
<1>6. ch' \in [Channels -> Channel] /\ \A d \in Channels : ch'[d].last \in {ch[d].last, "null"}
  BY <1>1, <1>3, <1>4, <1>5
<1>7. excuses' \in [Channels -> Nat]
  BY <1>1, <1>4, <1>5, PlusType
<1>8. ASSUME NEW d \in Channels
      PROVE  excuses'[d] = IF d \in Tallied /\ ch[d].last = "today" /\ ch'[d].last # "today"
                           THEN excuses[d] + 1 ELSE excuses[d]
  <2>1. CASE d = c
    <3>1. ch'[d] = new  BY <1>1, <1>4, <1>5, <2>1
    <3>2. excuses'[d] = IF d \in Tallied /\ ch[c].last = "today" /\ new.last = "null"
                        THEN excuses[d] + 1 ELSE excuses[d]
      BY <1>1, <1>4, <1>5, <2>1 DEF Plus
    <3>. QED  BY <1>3, <2>1, <3>1, <3>2
  <2>2. CASE d # c
    BY <1>1, <1>4, <1>5, <2>2 DEF Plus
  <2>. QED  BY <2>1, <2>2
<1>. QED  BY <1>6, <1>7, <1>8

\* What the end of a request leaves of the operator.
LEMMA EndsType ==
  ASSUME TypeOK, NEW o \in Operators, OperatorEnds(o)
  PROVE  /\ op' \in [Operators -> {"idle", "wipe"} \union Requests]
         /\ opMem' \in [Operators -> Channel]
         /\ opChan' = opChan /\ requests' = requests
BY NewChannelType DEF OperatorEnds, TypeOK

\* A request keeps the types; it may clear the date of a run, which is tallied as an
\* excuse, and it leaves the tasks alone.
LEMMA OperatorType ==
  ASSUME TypeOK, NEW o \in Operators, OperatorWrites(o) \/ ResetWipes(o)
  PROVE  /\ TypeOK'
         /\ \A c \in Channels : ch'[c].last \in {ch[c].last, "null"}
         /\ \A c \in Channels :
              excuses'[c] = IF c \in Tallied /\ ch[c].last = "today" /\ ch'[c].last # "today"
                            THEN excuses[c] + 1 ELSE excuses[c]
         /\ UNCHANGED <<pc, chan, age, shorts, counted>>
<1>. USE AutomationAssumption DEF runs, tasks
<1>0. op[o] \in Requests \union {"wipe"} /\ opChan[o] \in Channels
  BY DEF OperatorWrites, ResetWipes, TypeOK
<1>1. CASE OperatorWrites(o)
  <2>1. faults' \in 0..MaxFaults  BY <1>1, FaultType DEF OperatorWrites
  <2>2. waiting' \in [Schedulers -> [Channels -> 0..MaxWaiting]]
    <3>1. More(waiting[Main], opChan[o], MaxWaiting) \in [Channels -> 0..MaxWaiting]
      BY <1>0, MoreType DEF TypeOK
    <3>. QED  BY <1>1, <3>1 DEF OperatorWrites, TypeOK
  <2>3. CASE OperatorCommits(o)
    <3>1. /\ op' \in [Operators -> {"idle", "wipe"} \union Requests]
          /\ opMem' \in [Operators -> Channel]
          /\ opChan' = opChan /\ requests' = requests
      <4>1. CASE OperatorEnds(o)  BY <4>1, EndsType
      <4>2. CASE ~OperatorEnds(o)
        <5>1. ch' \in [Channels -> Channel]  BY <1>0, <2>3, CommitType
        <5>. QED  BY <1>0, <1>1, <4>2, <5>1 DEF OperatorWrites, TypeOK
      <4>. QED  BY <4>1, <4>2
    <3>. QED
      BY <1>0, <1>1, <2>1, <2>2, <2>3, <3>1, CommitType DEF OperatorWrites, TypeOK
  <2>4. CASE OperatorEnds(o) /\ UNCHANGED <<ch, waiting, excuses>>
    BY <1>1, <2>1, <2>2, <2>4, EndsType DEF OperatorWrites, TypeOK
  <2>. QED  BY <1>1, <2>3, <2>4 DEF OperatorWrites
<1>2. CASE ResetWipes(o)
  <2>1. faults' \in 0..MaxFaults  BY <1>2, FaultType DEF ResetWipes
  <2>2. OperatorEnds(o)  BY <1>2 DEF ResetWipes
  <2>3. pending' \in [Channels -> 0..MaxRuns] /\ running' \in [Channels -> 0..MaxRuns]
    <3>1. \A f \in [Channels -> 0..MaxRuns] : [f EXCEPT ![opChan[o]] = 0] \in [Channels -> 0..MaxRuns]
      BY <1>0
    <3>. QED  BY <1>2, <3>1 DEF ResetWipes, TypeOK
  <2>4. CASE OperatorCommits(o)
    BY <1>0, <1>2, <2>1, <2>2, <2>3, <2>4, CommitType, EndsType DEF ResetWipes, TypeOK
  <2>5. CASE UNCHANGED <<ch, runs, excuses>>
    BY <1>2, <2>1, <2>2, <2>3, <2>5, EndsType DEF ResetWipes, TypeOK
  <2>. QED  BY <1>2, <2>4, <2>5 DEF ResetWipes
<1>. QED  BY <1>1, <1>2

\* A request that reads its row keeps the types.
LEMMA ReadsType ==
  ASSUME TypeOK, NEW o \in Operators, NEW c \in Channels, NEW k \in Requests,
         OperatorReads(o, c, k)
  PROVE  TypeOK'
BY AutomationAssumption DEF OperatorReads, TypeOK, runs, tasks, tally

\* What a midnight does to a row and to the ages.
LEMMA NewDayType == ASSUME TypeOK, NEW c \in Channels, NewDay(c) PROVE TypeOK'
<1>. USE AutomationAssumption DEF runs, ops
<1>1. ch' \in [Channels -> Channel]
  <2>. DEFINE r == ch[c]
              last == IF r.last = "today" THEN "past" ELSE r.last
              since == IF r.since = Never THEN r.since ELSE UpTo(r.since + 1, Interval)
  <2>1. r \in Channel  BY DEF TypeOK
  <2>2. last \in {"null", "past", "today"}  BY <2>1 DEF Channel
  <2>3. since \in 0..Never  BY <2>1 DEF Channel, UpTo, Never
  <2>4. [r EXCEPT !.last = last, !.since = since] \in Channel
    <3>. HIDE DEF r, last, since
    <3>. QED  BY <2>1, <2>2, <2>3 DEF Channel
  <2>5. ch' = [ch EXCEPT ![c] = [r EXCEPT !.last = last, !.since = since]]
    BY <2>1 DEF NewDay, TypeOK, Channel
  <2>. HIDE DEF r, last, since
  <2>. QED  BY <2>4, <2>5 DEF TypeOK
<1>2. age' \in [Workers -> 0..Interval]
  BY DEF NewDay, TypeOK, UpTo
<1>3. shorts' \in [Channels -> Nat] /\ counted' \in [Channels -> Nat] /\ excuses' \in [Channels -> Nat]
  BY DEF NewDay, TypeOK
<1>. QED  BY <1>1, <1>2, <1>3 DEF NewDay, TypeOK

\* Runs asked for by hand, started and ended.
LEMMA RunsType ==
  ASSUME TypeOK, NEW c \in Channels, ManualRun(c) \/ RunBegins(c) \/ RunEnds(c)
  PROVE  TypeOK' /\ UNCHANGED <<ch, tasks, tally>>
<1>. USE AutomationAssumption DEF tasks, tally, ops
<1>0. /\ More(pending, c, MaxRuns) \in [Channels -> 0..MaxRuns]
      /\ More(running, c, MaxRuns) \in [Channels -> 0..MaxRuns]
      /\ pending \in [Channels -> 0..MaxRuns] /\ requests \in 0..MaxRequests
  BY MoreType DEF TypeOK
<1>1. CASE ManualRun(c)
  <2>1. pending' \in [Channels -> 0..MaxRuns] /\ requests' \in 0..MaxRequests
    BY <1>0, <1>1 DEF ManualRun
  <2>. QED  BY <1>1, <2>1 DEF ManualRun, TypeOK
<1>2. CASE RunBegins(c)
  <2>1. running' \in [Channels -> 0..MaxRuns]
    BY <1>0, <1>2 DEF RunBegins
  <2>2. pending[c] - 1 \in 0..MaxRuns
    BY <1>0, <1>2 DEF RunBegins
  <2>3. pending' \in [Channels -> 0..MaxRuns]
    BY <1>0, <1>2, <2>2 DEF RunBegins
  <2>. QED  BY <1>2, <2>1, <2>3 DEF RunBegins, TypeOK
<1>3. CASE RunEnds(c)
  BY <1>3 DEF RunEnds, TypeOK
<1>. QED  BY <1>1, <1>2, <1>3

\* The slots whose pass of today dies with the process.
Cut(c) == {w \in Workers : /\ c \in Tallied /\ chan[w] = c /\ age[w] = 0
                           /\ pc[w] \in {"long", "final"}}

\* A restart cuts finitely many passes off.
LEMMA CutFinite == \A c : IsFiniteSet(Cut(c)) /\ Cardinality(Cut(c)) \in Nat
<1>. TAKE c
<1>1. IsFiniteSet(Cut(c))  BY WorkersFinite, FS_Subset DEF Cut
<1>. QED  BY <1>1, FS_CardinalityType

\* A restart keeps the types.
LEMMA RestartType == ASSUME TypeOK, Restart PROVE TypeOK'
<1>. USE AutomationAssumption
<1>1. faults' \in 0..MaxFaults  BY FaultType DEF Restart
<1>2. excuses' \in [Channels -> Nat]
  <2>1. excuses' = [c \in Channels |-> excuses[c] + Cardinality(Cut(c))]
    BY DEF Restart, Cut
  <2>. QED  BY <2>1, CutFinite DEF TypeOK
<1>3. /\ running' \in [Channels -> 0..MaxRuns]
      /\ waiting' \in [Schedulers -> [Channels -> 0..MaxWaiting]]
  BY DEF Restart, TypeOK, Zero
<1>. QED
  BY <1>1, <1>2, <1>3, NewChannelType DEF Restart, TypeOK, TaskPcs

\* A step that changes nothing keeps the types.
LEMMA StutterType == TypeOK /\ UNCHANGED vars => TypeOK'
BY DEF vars, runs, tasks, ops, tally, TypeOK

\* Every step keeps the types.
LEMMA TypeStep == TypeOK /\ [Next]_vars => TypeOK'
<1>. SUFFICES ASSUME TypeOK, [Next]_vars PROVE TypeOK'
  OBVIOUS
<1>. QED
  BY TickType, TakeType, TaskType, ReadsType, OperatorType, RunsType, NewDayType,
     RestartType, StutterType
  DEF Next

\* Every reachable state is well-typed: each row, each task's place, each
\* request, and every counter within its bound.
THEOREM TypeCorrect == Spec => []TypeOK
BY InitType, TypeStep, PTL DEF Spec

\* A tick's own commit leaves a pause, an archive and a reset alone, for any
\* number of schedulers, slots and operators at once.
THEOREM StopsAreKept == Spec => StopKept
<1>1. ASSUME TypeOK, [Next]_vars
      PROVE  [\A w \in Workers, c \in Channels : Final(w) =>
                ch'[c].status = ch[c].status /\ ch'[c].archived = ch[c].archived]_vars
  <2>1. ASSUME NEW w \in Workers, NEW c \in Channels, Final(w)
        PROVE  ch'[c].status = ch[c].status /\ ch'[c].archived = ch[c].archived
    <3>1. ch \in [Channels -> Channel] /\ chan[w] \in Channels
      BY <1>1 DEF TypeOK
    <3>2. /\ Stamped(ch[chan[w]], w).status = ch[chan[w]].status
          /\ Stamped(ch[chan[w]], w).archived = ch[chan[w]].archived
      BY <1>1, StampedType
    <3>. QED  BY <2>1, <3>1, <3>2 DEF Final
  <2>. QED  BY <2>1
<1>. QED  BY <1>1, TypeCorrect, PTL DEF Spec, StopKept

-----------------------------------------------------------------------------
\* One pass per date.  The date of a row is not today while a task works on the
\* channel; a pass is paid for by today's date in the row, by a task that is
\* about to write it, or by an excuse.

Working(w) == pc[w] \in {"overlap", "short", "long", "final"}
Passing(c) == \E w \in Workers : /\ chan[w] = c /\ age[w] = 0
                                 /\ pc[w] \in {"long", "final"}
Dated(c) == IF ch[c].last = "today" THEN 1 ELSE 0
Allowed(c) == excuses[c] + Dated(c) + (IF Passing(c) THEN 1 ELSE 0)

PassInv ==
  /\ \A w \in Workers : Working(w) => ch[chan[w]].last # "today"
  /\ \A c \in Channels : shorts[c] <= Allowed(c) /\ counted[c] <= excuses[c] + Dated(c)
  /\ \A c \in Channels \ Tallied : shorts[c] = 0 /\ counted[c] = 0

\* The process has one scheduler object and one slot.
OneSlot == Slots = 1 /\ Schedulers = {Main}

\* With one slot all tasks are the same one.
LEMMA OneWorker == OneSlot => \A v, w \in Workers : v = w
BY DEF OneSlot, Workers

\* Nothing is counted for the first day yet.
LEMMA PassInit == Init => PassInv
BY AutomationAssumption
DEF Init, PassInv, Working, Passing, Dated, Allowed, Zero, NewChannel

\* By the invariant a date has one pass and is counted once.
LEMMA PassGives == TypeOK /\ PassInv => OncePerDay /\ DayCountedOnce
<1>. SUFFICES ASSUME TypeOK, PassInv, NEW c \in Channels
              PROVE  shorts[c] <= 1 + excuses[c] /\ counted[c] <= 1 + excuses[c]
  BY DEF OncePerDay, DayCountedOnce
<1>1. shorts[c] \in Nat /\ excuses[c] \in Nat /\ counted[c] \in Nat
  BY DEF TypeOK
<1>2. ~(Passing(c) /\ ch[c].last = "today")
  BY DEF PassInv, Passing, Working
<1>. QED  BY <1>1, <1>2 DEF PassInv, Allowed, Dated

\* A step that changes neither the rows, the tasks nor the counts.
LEMMA PassQuiet ==
  ASSUME PassInv, UNCHANGED <<ch, pc, chan, age, tally>>
  PROVE  PassInv'
BY DEF PassInv, Working, Passing, Dated, Allowed, tally

\* A task is taken or given up without a count.
LEMMA PassTake ==
  ASSUME TypeOK, PassInv, NEW w \in Workers, NEW c \in Channels, Take(w, c), OneSlot
  PROVE  PassInv'
<1>1. \A v \in Workers : v = w  BY OneWorker
<1>2. /\ ch' = ch /\ age' = age /\ shorts' = shorts /\ counted' = counted /\ excuses' = excuses
      /\ pc[w] = "idle" /\ pc' = [pc EXCEPT ![w] = "read"]
  BY DEF Take, Goto, tally
<1>3. ~Working(w) /\ ~Working(w)' /\ \A d \in Channels : ~Passing(d) /\ ~Passing(d)'
  BY <1>1, <1>2 DEF Working, Passing, TypeOK
<1>. QED  BY <1>1, <1>2, <1>3 DEF PassInv, Dated, Allowed

\* A task that reads its row, or finds a run of its channel, keeps the invariant.
LEMMA PassRead ==
  ASSUME TypeOK, PassInv, NEW w \in Workers, Read(w) \/ Overlap(w), OneSlot
  PROVE  PassInv'
<1>1. \A v \in Workers : v = w  BY OneWorker
<1>2. /\ ch' = ch /\ shorts' = shorts /\ counted' = counted /\ excuses' = excuses
      /\ chan' = chan /\ pc[w] \in {"read", "overlap"}
      /\ pc'[w] \in {"idle", "overlap", "short"}
      /\ pc'[w] # "idle" => pc[w] = "overlap" \/ Due(ch[chan[w]])
  BY DEF Read, Overlap, Done, Goto, tally, TypeOK
<1>3. \A d \in Channels : ~Passing(d) /\ ~Passing(d)'
  BY <1>1, <1>2 DEF Passing
<1>4. Working(w)' => ch[chan[w]].last # "today"
  BY <1>2 DEF Working, Due, PassInv
<1>. QED  BY <1>1, <1>2, <1>3, <1>4 DEF PassInv, Dated, Allowed

\* A task that creates its run keeps the invariant.
LEMMA PassCreate ==
  ASSUME TypeOK, PassInv, NEW w \in Workers, CreateShort(w) \/ CreateLong(w), OneSlot
  PROVE  PassInv'
<1>0. PICK c \in Channels : c = chan[w]  BY DEF TypeOK
<1>1. \A v \in Workers : v = w  BY OneWorker
<1>2. /\ c = chan[w] /\ pc \in [Workers -> TaskPcs] /\ (age[w] = 0) \in BOOLEAN
      /\ shorts \in [Channels -> Nat] /\ excuses \in [Channels -> Nat]
      /\ counted \in [Channels -> Nat]
  BY <1>0 DEF TypeOK
<1>3. ch' = ch /\ counted' = counted /\ chan' = chan
  BY DEF CreateShort, CreateLong, GivesUp, Done
<1>4. Working(w) /\ ch[c].last # "today"
  BY <1>0 DEF CreateShort, CreateLong, Working, PassInv
<1>5. \A d \in Channels \ {c} :
        /\ shorts'[d] = shorts[d] /\ excuses'[d] = excuses[d]
        /\ ~Passing(d) /\ ~Passing(d)'
  <2>1. ASSUME NEW d \in Channels \ {c} PROVE ~Passing(d) /\ ~Passing(d)'
    BY <1>1, <1>2, <1>3 DEF Passing
  <2>2. \A f \in [Channels -> Nat], condition \in BOOLEAN : \A d \in Channels \ {c} :
          Plus(f, c, condition)[d] = f[d]
    BY PlusType
  <2>3. shorts' = shorts \/ \E condition \in BOOLEAN : shorts' = Plus(shorts, c, condition)
    BY <1>2 DEF CreateShort, CreateLong, Creates
  <2>4. excuses' = excuses \/ \E condition \in BOOLEAN : excuses' = Plus(excuses, c, condition)
    BY <1>2 DEF CreateShort, CreateLong, GivesUp
  <2>. QED  BY <1>2, <2>1, <2>2, <2>3, <2>4
<1>6. /\ excuses[c] <= excuses'[c] /\ excuses'[c] \in Nat /\ shorts'[c] \in Nat
      /\ c \notin Tallied => shorts'[c] = shorts[c]
      /\ c \in Tallied => shorts'[c] <= excuses'[c] + (IF Passing(c)' THEN 1 ELSE 0)
  <2>1. CASE CreateShort(w)
    <3>1. PICK o \in Outcomes :
            /\ shorts' = Plus(shorts, c, Creates(o) /\ age[w] = 0)
            /\ \/ o \in {"db", "ack"} /\ GivesUp(w)
               \/ /\ o \in {"made", "topic"}
                  /\ Goto(w, IF long[w] = "wanted" THEN "long" ELSE "final")
                  /\ UNCHANGED <<chan, mem, age, long, excuses>>
      BY <1>2, <2>1 DEF CreateShort
    <3>2. (Creates(o) /\ age[w] = 0) \in BOOLEAN  BY DEF Creates
    <3>3. shorts'[c] = IF c \in Tallied /\ Creates(o) /\ age[w] = 0
                       THEN shorts[c] + 1 ELSE shorts[c]
      BY <1>2, <3>1, <3>2, PlusType
    <3>4. shorts[c] <= excuses[c]
      <4>1. ~Passing(c)  BY <1>1, <2>1 DEF Passing, CreateShort
      <4>. QED  BY <1>2, <1>4, <4>1 DEF PassInv, Allowed, Dated
    <3>5. CASE GivesUp(w) /\ o \in {"db", "ack"}
      <4>1. excuses'[c] = IF c \in Tallied /\ age[w] = 0 THEN excuses[c] + 1 ELSE excuses[c]
        BY <1>2, <3>5, PlusType DEF GivesUp
      <4>. QED  BY <1>2, <3>3, <3>4, <4>1
    <3>6. CASE /\ Goto(w, IF long[w] = "wanted" THEN "long" ELSE "final")
               /\ UNCHANGED <<chan, mem, age, long, excuses>>
      <4>1. age[w] = 0 => Passing(c)'
        BY <1>2, <3>6 DEF Goto, Passing
      <4>. QED  BY <1>2, <3>3, <3>4, <3>6, <4>1
    <3>. QED  BY <3>1, <3>5, <3>6
  <2>2. CASE CreateLong(w)
    <3>1. shorts' = shorts /\ pc[w] = "long"
      BY <2>2 DEF CreateLong
    <3>2. shorts[c] <= excuses[c] + (IF age[w] = 0 THEN 1 ELSE 0)
      <4>1. Passing(c) => age[w] = 0  BY <1>1 DEF Passing
      <4>. QED  BY <1>2, <1>4, <4>1 DEF PassInv, Allowed, Dated
    <3>3. CASE GivesUp(w)
      <4>1. excuses'[c] = IF c \in Tallied /\ age[w] = 0 THEN excuses[c] + 1 ELSE excuses[c]
        BY <1>2, <3>3, PlusType DEF GivesUp
      <4>. QED  BY <1>2, <3>1, <3>2, <4>1
    <3>4. CASE Goto(w, "final") /\ UNCHANGED <<chan, mem, age, excuses>>
      <4>1. age[w] = 0 => Passing(c)'
        BY <1>2, <3>4 DEF Goto, Passing
      <4>. QED  BY <1>2, <3>1, <3>2, <3>4, <4>1
    <3>. QED  BY <2>2, <3>3, <3>4 DEF CreateLong
  <2>. QED  BY <2>1, <2>2
<1>7. Working(w)' => ch'[chan'[w]].last # "today"
  BY <1>2, <1>3, <1>4
<1>8. \A d \in Channels : d # c => (Allowed(d)' = Allowed(d) /\ Dated(d)' = Dated(d))
  BY <1>3, <1>5 DEF Allowed, Dated
<1>9. /\ shorts'[c] <= Allowed(c)' /\ counted'[c] <= excuses'[c] + Dated(c)'
      /\ c \notin Tallied => shorts'[c] = 0 /\ counted'[c] = 0
  <2>1. Dated(c)' = 0 /\ Dated(c) = 0  BY <1>3, <1>4 DEF Dated
  <2>2. counted[c] <= excuses[c]  BY <1>2, <2>1 DEF PassInv
  <2>3. c \notin Tallied => shorts[c] = 0 /\ counted[c] = 0  BY <1>2 DEF PassInv
  <2>4. Allowed(c)' = excuses'[c] + (IF Passing(c)' THEN 1 ELSE 0)
    BY <1>6, <2>1 DEF Allowed
  <2>. QED  BY <1>2, <1>3, <1>6, <2>1, <2>2, <2>3, <2>4
<1>. QED
  <2>1. \A v \in Workers : Working(v)' => ch'[chan'[v]].last # "today"  BY <1>1, <1>7
  <2>2. \A d \in Channels : shorts'[d] <= Allowed(d)' /\ counted'[d] <= excuses'[d] + Dated(d)'
    BY <1>3, <1>5, <1>8, <1>9 DEF PassInv
  <2>3. \A d \in Channels \ Tallied : shorts'[d] = 0 /\ counted'[d] = 0
    BY <1>3, <1>5, <1>9 DEF PassInv
  <2>. QED  BY <2>1, <2>2, <2>3 DEF PassInv

\* The final commit of a task keeps the invariant: it dates the row as it counts the day.
LEMMA PassFinal ==
  ASSUME TypeOK, PassInv, NEW w \in Workers, Final(w), OneSlot
  PROVE  PassInv'
<1>0. PICK c \in Channels : c = chan[w]  BY DEF TypeOK
<1>1. \A v \in Workers : v = w  BY OneWorker
<1>2. /\ pc[w] = "final" /\ shorts' = shorts /\ chan' = chan /\ ch \in [Channels -> Channel]
      /\ shorts \in [Channels -> Nat] /\ excuses \in [Channels -> Nat]
      /\ counted \in [Channels -> Nat] /\ (age[w] = 0) \in BOOLEAN
  BY DEF Final, Done, GivesUp, TypeOK
<1>3. ch[c].last # "today"  BY <1>0, <1>2 DEF PassInv, Working
<1>4. pc'[w] = "idle"
  <2>1. pc' = [pc EXCEPT ![w] = "idle"]  BY DEF Final, Done, GivesUp, Goto
  <2>. QED  BY <2>1 DEF TypeOK
<1>5. \A d \in Channels : ~Passing(d)'  BY <1>1, <1>4 DEF Passing
<1>6. \A d \in Channels \ {c} : ~Passing(d)  BY <1>0, <1>1 DEF Passing
<1>7. Passing(c) <=> age[w] = 0  BY <1>0, <1>1, <1>2 DEF Passing
<1>8. shorts[c] <= excuses[c] + (IF age[w] = 0 THEN 1 ELSE 0) /\ counted[c] <= excuses[c]
  BY <1>2, <1>3, <1>7 DEF PassInv, Allowed, Dated
<1>9. CASE /\ ch' = [ch EXCEPT ![c] = Stamped(@, w)]
           /\ counted' = Plus(counted, c, age[w] = 0) /\ UNCHANGED excuses
  <2>1. ch'[c].last = (IF age[w] = 0 THEN "today" ELSE "past")
    <3>1. Stamped(ch[c], w).last = (IF age[w] = 0 THEN "today" ELSE "past")
      BY <1>0, StampedType
    <3>. QED  BY <1>2, <1>9, <3>1
  <2>2. counted'[c] = IF c \in Tallied /\ age[w] = 0 THEN counted[c] + 1 ELSE counted[c]
    BY <1>2, <1>9, PlusType
  <2>3. \A d \in Channels \ {c} : ch'[d] = ch[d] /\ counted'[d] = counted[d]
    BY <1>2, <1>9 DEF Plus
  <2>4. \A d \in Channels : Dated(d)' = IF d = c THEN (IF age[w] = 0 THEN 1 ELSE 0) ELSE Dated(d)
    BY <2>1, <2>3 DEF Dated
  <2>5. \A d \in Channels : Allowed(d)' = excuses[d] + Dated(d)'
    BY <1>2, <1>5, <1>9, <2>4 DEF Allowed, Dated
  <2>6. \A d \in Channels \ {c} : Allowed(d)' = Allowed(d)
    BY <1>2, <1>6, <2>4, <2>5 DEF Allowed, Dated
  <2>7. \A d \in Channels : shorts'[d] <= Allowed(d)' /\ counted'[d] <= excuses'[d] + Dated(d)'
    <3>1. shorts'[c] <= Allowed(c)' /\ counted'[c] <= excuses'[c] + Dated(c)'
      BY <1>2, <1>8, <1>9, <2>2, <2>4, <2>5
    <3>. QED  BY <1>2, <1>9, <2>3, <2>4, <2>6, <3>1 DEF PassInv
  <2>8. \A d \in Channels \ Tallied : shorts'[d] = 0 /\ counted'[d] = 0
    BY <1>2, <2>2, <2>3 DEF PassInv
  <2>. QED  BY <1>1, <1>4, <2>7, <2>8 DEF PassInv, Working
<1>10. CASE ch' = ch /\ counted' = counted /\ excuses' = Plus(excuses, c, age[w] = 0)
  <2>1. excuses'[c] = IF c \in Tallied /\ age[w] = 0 THEN excuses[c] + 1 ELSE excuses[c]
    BY <1>2, <1>10, PlusType
  <2>2. \A d \in Channels \ {c} : excuses'[d] = excuses[d]
    BY <1>2, <1>10 DEF Plus
  <2>3. \A d \in Channels : Dated(d)' = Dated(d)  BY <1>10 DEF Dated
  <2>4. \A d \in Channels \ {c} : Allowed(d)' = Allowed(d)
    BY <1>5, <1>6, <2>2, <2>3 DEF Allowed
  <2>5. c \notin Tallied => shorts[c] = 0 /\ counted[c] = 0  BY DEF PassInv
  <2>6. Dated(c) = 0 /\ Allowed(c)' = excuses'[c]
    <3>1. excuses'[c] \in Nat  BY <1>2, <2>1
    <3>. QED  BY <1>3, <1>5, <2>3, <3>1 DEF Allowed, Dated
  <2>7. \A d \in Channels : shorts'[d] <= Allowed(d)' /\ counted'[d] <= excuses'[d] + Dated(d)'
    <3>1. shorts'[c] <= Allowed(c)' /\ counted'[c] <= excuses'[c] + Dated(c)'
      BY <1>2, <1>8, <1>10, <2>1, <2>3, <2>5, <2>6
    <3>. QED  BY <1>2, <1>10, <2>2, <2>3, <2>4, <3>1 DEF PassInv
  <2>. QED  BY <1>1, <1>2, <1>4, <1>10, <2>7 DEF PassInv, Working
<1>. QED  BY <1>0, <1>9, <1>10 DEF Final, GivesUp

\* A request keeps the invariant: a date it clears is an excuse.
LEMMA PassOperator ==
  ASSUME TypeOK, PassInv, NEW o \in Operators, OperatorWrites(o) \/ ResetWipes(o)
  PROVE  PassInv'
<1>1. /\ \A c \in Channels : ch'[c].last \in {ch[c].last, "null"}
      /\ \A c \in Channels :
           excuses'[c] = IF c \in Tallied /\ ch[c].last = "today" /\ ch'[c].last # "today"
                         THEN excuses[c] + 1 ELSE excuses[c]
      /\ pc' = pc /\ chan' = chan /\ age' = age /\ shorts' = shorts /\ counted' = counted
  BY OperatorType
<1>2. /\ \A w \in Workers : chan[w] \in Channels
      /\ \A c \in Channels : excuses[c] \in Nat /\ shorts[c] \in Nat /\ counted[c] \in Nat
  BY DEF TypeOK
<1>3. \A w \in Workers : Working(w)' => ch'[chan'[w]].last # "today"
  BY <1>1, <1>2 DEF PassInv, Working
<1>4. ASSUME NEW c \in Channels
      PROVE  /\ shorts'[c] <= Allowed(c)' /\ counted'[c] <= excuses'[c] + Dated(c)'
             /\ c \notin Tallied => shorts'[c] = 0 /\ counted'[c] = 0
  <2>1. Passing(c)' = Passing(c)  BY <1>1 DEF Passing
  <2>2. c \in Tallied => excuses[c] + Dated(c) = excuses'[c] + Dated(c)'
    BY <1>1, <1>2 DEF Dated
  <2>3. c \notin Tallied => shorts[c] = 0 /\ counted[c] = 0  BY DEF PassInv
  <2>4. shorts[c] <= Allowed(c) /\ counted[c] <= excuses[c] + Dated(c)  BY DEF PassInv
  <2>5. excuses'[c] \in Nat /\ Dated(c) \in {0, 1} /\ Dated(c)' \in {0, 1}
    BY <1>1, <1>2 DEF Dated
  <2>. QED  BY <1>1, <1>2, <2>1, <2>2, <2>3, <2>4, <2>5 DEF Allowed
<1>. QED  BY <1>3, <1>4 DEF PassInv

\* A new day keeps the invariant: nothing is counted for it.
LEMMA PassNewDay ==
  ASSUME TypeOK, PassInv, NEW c \in Channels, NewDay(c)
  PROVE  PassInv'
<1>1. /\ shorts' = [shorts EXCEPT ![c] = 0] /\ counted' = [counted EXCEPT ![c] = 0]
      /\ excuses' = [excuses EXCEPT ![c] = 0] /\ pc' = pc /\ chan' = chan
      /\ shorts \in [Channels -> Nat] /\ counted \in [Channels -> Nat]
      /\ excuses \in [Channels -> Nat] /\ \A w \in Workers : chan[w] \in Channels
  BY DEF NewDay, TypeOK
<1>2. ch'[c].last # "today"  BY DEF NewDay, TypeOK, Channel
<1>3. \A d \in Channels \ {c} : ch'[d] = ch[d]  BY DEF NewDay, TypeOK
<1>4. \A w \in Workers : chan[w] # c => age'[w] = age[w]  BY DEF NewDay
<1>5. \A w \in Workers : Working(w)' => ch'[chan'[w]].last # "today"
  BY <1>1, <1>2, <1>3 DEF PassInv, Working
<1>6. ASSUME NEW d \in Channels
      PROVE  /\ shorts'[d] <= Allowed(d)' /\ counted'[d] <= excuses'[d] + Dated(d)'
             /\ d \notin Tallied => shorts'[d] = 0 /\ counted'[d] = 0
  <2>1. CASE d = c  BY <1>1, <1>2, <2>1 DEF Allowed, Dated
  <2>2. CASE d # c
    <3>1. Passing(d)' = Passing(d)  BY <1>1, <1>4, <2>2 DEF Passing
    <3>. QED  BY <1>1, <1>3, <2>2, <3>1 DEF Allowed, Dated, PassInv
  <2>. QED  BY <2>1, <2>2
<1>. QED  BY <1>5, <1>6 DEF PassInv

\* A pass cut by the restart counts as an excuse.
LEMMA PassRestart == ASSUME TypeOK, PassInv, Restart PROVE PassInv'
<1>1. /\ ch' = ch /\ shorts' = shorts /\ counted' = counted
      /\ \A w \in Workers : pc'[w] = "idle"
      /\ \A c \in Channels : excuses'[c] = excuses[c] + Cardinality(Cut(c))
  BY DEF Restart, Cut
<1>2. \A w \in Workers : ~Working(w)'  BY <1>1 DEF Working
<1>3. ASSUME NEW c \in Channels
      PROVE  /\ shorts'[c] <= Allowed(c)' /\ counted'[c] <= excuses'[c] + Dated(c)'
             /\ c \notin Tallied => shorts'[c] = 0 /\ counted'[c] = 0
  <2>1. /\ excuses[c] \in Nat /\ shorts[c] \in Nat /\ counted[c] \in Nat
        /\ Cardinality(Cut(c)) \in Nat
    BY CutFinite DEF TypeOK
  <2>2. c \in Tallied /\ Passing(c) => Cardinality(Cut(c)) # 0
    <3>1. IsFiniteSet(Cut(c))  BY CutFinite
    <3>2. c \in Tallied /\ Passing(c) => Cut(c) # {}  BY DEF Passing, Cut
    <3>. QED  BY <3>1, <3>2, FS_EmptySet
  <2>3. ~Passing(c)' /\ Dated(c)' = Dated(c) /\ Dated(c) \in {0, 1}
    BY <1>1 DEF Passing, Dated
  <2>4. c \notin Tallied => shorts[c] = 0 /\ counted[c] = 0  BY DEF PassInv
  <2>5. shorts[c] <= Allowed(c) /\ counted[c] <= excuses[c] + Dated(c)  BY DEF PassInv
  <2>. QED  BY <1>1, <2>1, <2>2, <2>3, <2>4, <2>5 DEF Allowed
<1>. QED  BY <1>2, <1>3 DEF PassInv

\* Every step keeps the invariant.
LEMMA PassStep == OneSlot /\ TypeOK /\ PassInv /\ [Next]_vars => PassInv'
<1>. SUFFICES ASSUME OneSlot, TypeOK, PassInv, [Next]_vars PROVE PassInv'
  OBVIOUS
<1>1. CASE \E s \in Schedulers : TickStep(s)
  BY <1>1, PassQuiet DEF TickStep, TickGuard, TickLists, tasks
<1>2. CASE \E w \in Workers, c \in Channels : Take(w, c)
  BY <1>2, PassTake
<1>3. CASE \E w \in Workers : TaskStep(w)
  BY <1>3, PassRead, PassCreate, PassFinal DEF TaskStep
<1>4. CASE \E o \in Operators, c \in Channels, k \in Requests : OperatorReads(o, c, k)
  BY <1>4, PassQuiet DEF OperatorReads, tasks
<1>5. CASE \E o \in Operators : OperatorWrites(o) \/ ResetWipes(o)
  BY <1>5, PassOperator
<1>6. CASE \E c \in Channels : ManualRun(c) \/ RunBegins(c) \/ RunEnds(c)
  BY <1>6, RunsType, PassQuiet DEF tasks
<1>7. CASE \E c \in Channels : NewDay(c)
  BY <1>7, PassNewDay
<1>8. CASE Restart
  BY <1>8, PassRestart
<1>9. CASE UNCHANGED vars
  BY <1>9, PassQuiet DEF vars, tasks
<1>. QED  BY <1>1, <1>2, <1>3, <1>4, <1>5, <1>6, <1>7, <1>8, <1>9 DEF Next

\* With one scheduler object and one slot, a channel gets one Short per date of
\* its own calendar, and a further one only for each operator who cleared
\* last_run_date and each failure that fell between the run and its date: for
\* any number of channels, operators, requests, failures and restarts.
THEOREM OneShortPerDate == ASSUME OneSlot PROVE Spec => []OncePerDay
BY InitType, TypeStep, PassInit, PassStep, PassGives, PTL DEF Spec

\* ... and the date is counted as an active day no more often than that.
THEOREM DateCountedOnce == ASSUME OneSlot PROVE Spec => []DayCountedOnce
BY InitType, TypeStep, PassInit, PassStep, PassGives, PTL DEF Spec

-----------------------------------------------------------------------------
(***************************************************************************)
(* The content rows of a channel (module ChannelContent).                  *)
(***************************************************************************)
Whole(r) == r = Row(r.t, r.of, r.st) /\ r.t \in Tables

ParentTable(t) ==
  CASE t = "uploads" -> "videos" [] t = "analytics" -> "uploads" [] OTHER -> "scripts"

\* Row r refers to rows of all only, of the right table.
Fits(all, r) ==
  /\ Whole(r) /\ r.of \subseteq DOMAIN all
  /\ r.t = "scripts" => r.of = {}
  /\ r.t \notin {"scripts", "pipeline_runs"} =>
       \E p \in DOMAIN all : r.of = {p} /\ all[p].t = ParentTable(r.t)
Sound(all) == \A i \in DOMAIN all : Fits(all, all[i])

\* What two sessions have written does not touch.
Apart(w, v) ==
  /\ DOMAIN w \cap DOMAIN v = {}
  /\ \A i \in DOMAIN w, j \in DOMAIN v :
       /\ w[i] = Gone => i \notin NewRefs(j, v[j])
       /\ v[j] = Gone => j \notin NewRefs(i, w[i])

\* A write keeps the table of a row that is there.
Keeps(w, all) == \A i \in DOMAIN w \cap DOMAIN all : w[i] # Gone => w[i].t = all[i].t

StoreInv ==
  /\ seq \in Nat /\ rows = [i \in DOMAIN rows |-> rows[i]]
  /\ DOMAIN rows \subseteq 1..seq /\ Sound(rows)
  /\ work = [s \in Sessions |-> work[s]]
  /\ \A s \in Sessions :
       DOMAIN work[s] \subseteq 1..seq /\ Sound(See(s)) /\ Keeps(work[s], rows)
  /\ \A s, o \in Sessions : s # o => Apart(work[s], work[o])

(* How a write shows in the rows it is laid over. *)
LEMMA View ==
  ASSUME NEW w, NEW all
  PROVE  /\ \A i : i \in DOMAIN Kept(Over(w, all)) <=>
                    IF i \in DOMAIN w THEN w[i] # Gone ELSE i \in DOMAIN all /\ all[i] # Gone
         /\ \A i \in DOMAIN Kept(Over(w, all)) :
              Kept(Over(w, all))[i] = IF i \in DOMAIN w THEN w[i] ELSE all[i]
BY DEF Kept, Over

(* Two writes, one after the other, are one. *)
LEMMA OverOver ==
  ASSUME NEW a, NEW b, NEW c
  PROVE  Over(a, Over(b, c)) = Over(Over(a, b), c)
<1>1. DOMAIN Over(a, Over(b, c)) = DOMAIN Over(Over(a, b), c) BY DEF Over
<1>2. \A i \in DOMAIN a \cup DOMAIN b \cup DOMAIN c :
        (IF i \in DOMAIN a THEN a[i] ELSE Over(b, c)[i])
          = (IF i \in DOMAIN Over(a, b) THEN Over(a, b)[i] ELSE c[i]) BY DEF Over
<1>3. DOMAIN a \cup DOMAIN Over(b, c) = DOMAIN a \cup DOMAIN b \cup DOMAIN c BY DEF Over
<1>4. DOMAIN Over(a, b) \cup DOMAIN c = DOMAIN a \cup DOMAIN b \cup DOMAIN c BY DEF Over
<1>5. Over(a, Over(b, c)) =
        [i \in DOMAIN a \cup DOMAIN b \cup DOMAIN c |->
           IF i \in DOMAIN a THEN a[i] ELSE Over(b, c)[i]]
  BY <1>3, Zenon DEF Over
<1>6. Over(Over(a, b), c) =
        [i \in DOMAIN a \cup DOMAIN b \cup DOMAIN c |->
           IF i \in DOMAIN Over(a, b) THEN Over(a, b)[i] ELSE c[i]]
  BY <1>4, Zenon DEF Over
<1> QED BY <1>2, <1>5, <1>6

(* Rows that are sound are all there. *)
LEMMA SoundNotGone ==
  ASSUME NEW all, Sound(all), NEW i \in DOMAIN all
  PROVE  all[i] # Gone
BY DEF Sound, Fits, Whole, Gone, Row, Tables

(* Soundness is of the rows alone. *)
LEMMA SoundSame ==
  ASSUME NEW a, NEW b, Sound(a), DOMAIN b = DOMAIN a, \A i \in DOMAIN a : b[i] = a[i]
  PROVE  Sound(b)
BY DEF Sound, Fits

(* Nothing written leaves sound rows as they are. *)
LEMMA OverNothing ==
  ASSUME NEW all, Sound(all), all = [i \in DOMAIN all |-> all[i]]
  PROVE  Kept(Over(Nothing, all)) = all
<1>1. DOMAIN Nothing = {} BY DEF Nothing
<1>2. \A i \in DOMAIN all : all[i] # Gone BY SoundNotGone
<1>3. Over(Nothing, all) = all BY <1>1 DEF Over
<1>4. {j \in DOMAIN all : all[j] # Gone} = DOMAIN all BY <1>2
<1> QED BY <1>3, <1>4 DEF Kept

(* Two writes that are sound each and do not touch are sound together. *)
LEMMA SoundTogether ==
  ASSUME NEW w, NEW v, Sound(rows), Sound(Kept(Over(w, rows))), Sound(Kept(Over(v, rows))),
         Keeps(w, rows), Keeps(v, rows), Apart(w, v)
  PROVE  Sound(Kept(Over(v, Kept(Over(w, rows)))))
<1> DEFINE a == Kept(Over(w, rows))
           b == Kept(Over(v, rows))
           c == Kept(Over(v, a))
<1>r. \A i \in DOMAIN rows : rows[i] # Gone BY SoundNotGone
<1>a. /\ \A i : i \in DOMAIN a <=> IF i \in DOMAIN w THEN w[i] # Gone ELSE i \in DOMAIN rows
      /\ \A i \in DOMAIN a : a[i] = IF i \in DOMAIN w THEN w[i] ELSE rows[i]
  BY <1>r, View
<1>b. /\ \A i : i \in DOMAIN b <=> IF i \in DOMAIN v THEN v[i] # Gone ELSE i \in DOMAIN rows
      /\ \A i \in DOMAIN b : b[i] = IF i \in DOMAIN v THEN v[i] ELSE rows[i]
  BY <1>r, View
<1>n. \A i \in DOMAIN a : a[i] # Gone BY SoundNotGone
<1>c. /\ \A i : i \in DOMAIN c <=> IF i \in DOMAIN v THEN v[i] # Gone ELSE i \in DOMAIN a
      /\ \A i \in DOMAIN c : c[i] = IF i \in DOMAIN v THEN v[i] ELSE a[i]
  BY <1>n, View
<1>d. DOMAIN w \cap DOMAIN v = {} BY DEF Apart
<1>0. SUFFICES ASSUME NEW i \in DOMAIN c PROVE Fits(c, c[i])
  BY DEF Sound
<1> HIDE DEF a, b, c
<1>1. CASE i \in DOMAIN v
  <2>1. i \in DOMAIN b /\ b[i] = c[i] BY <1>1, <1>b, <1>c
  <2>2. Fits(b, c[i]) BY <2>1 DEF Sound, b
  <2>3. ASSUME NEW p \in c[i].of PROVE p \in DOMAIN c /\ c[p].t = b[p].t
    <3>1. p \in DOMAIN b BY <2>2 DEF Fits
    <3>2. CASE p \in DOMAIN v BY <3>1, <3>2, <1>b, <1>c
    <3>3. CASE p \notin DOMAIN v /\ p \notin DOMAIN w BY <3>1, <3>3, <1>a, <1>b, <1>c
    <3>4. CASE p \in DOMAIN w
      <4>1. p \in DOMAIN rows /\ p \notin DOMAIN v BY <3>1, <3>4, <1>b, <1>d
      <4>2. w[p] # Gone
        <5>1. SUFFICES ASSUME w[p] = Gone PROVE FALSE OBVIOUS
        <5>2. p \notin NewRefs(i, v[i]) BY <5>1, <3>4, <1>1 DEF Apart
        <5>3. i \in DOMAIN rows /\ p \in rows[i].of BY <5>2, <1>1, <1>c, <2>3 DEF NewRefs
        <5>4. i \in DOMAIN a /\ a[i] = rows[i] BY <5>3, <1>1, <1>d, <1>a
        <5>5. p \in DOMAIN a BY <5>3, <5>4 DEF Sound, Fits, a
        <5> QED BY <5>5, <5>1, <3>4, <1>a
      <4>3. w[p].t = rows[p].t BY <4>1, <4>2, <3>4 DEF Keeps
      <4> QED BY <4>1, <4>2, <4>3, <3>4, <3>1, <1>a, <1>b, <1>c
    <3> QED BY <3>2, <3>3, <3>4
  <2> QED BY <2>2, <2>3 DEF Fits
<1>2. CASE i \notin DOMAIN v
  <2>1. i \in DOMAIN a /\ a[i] = c[i] BY <1>2, <1>c
  <2>2. Fits(a, c[i]) BY <2>1 DEF Sound, a
  <2>3. ASSUME NEW p \in c[i].of PROVE p \in DOMAIN c /\ c[p].t = a[p].t
    <3>1. p \in DOMAIN a BY <2>2 DEF Fits
    <3>2. CASE p \notin DOMAIN v BY <3>1, <3>2, <1>c
    <3>3. CASE p \in DOMAIN v
      <4>1. p \in DOMAIN rows /\ p \notin DOMAIN w BY <3>1, <3>3, <1>a, <1>d
      <4>2. v[p] # Gone
        <5>1. SUFFICES ASSUME v[p] = Gone PROVE FALSE OBVIOUS
        <5>3. i \in DOMAIN rows /\ p \in rows[i].of
          <6>1. CASE i \in DOMAIN w
            <7>1. p \notin NewRefs(i, w[i]) BY <5>1, <3>3, <6>1 DEF Apart
            <7> QED BY <7>1, <6>1, <2>1, <1>a, <2>3 DEF NewRefs
          <6>2. CASE i \notin DOMAIN w BY <6>2, <2>1, <1>a, <2>3
          <6> QED BY <6>1, <6>2
        <5>4. i \in DOMAIN b /\ b[i] = rows[i] BY <5>3, <1>2, <1>b
        <5>5. p \in DOMAIN b BY <5>3, <5>4 DEF Sound, Fits, b
        <5> QED BY <5>5, <5>1, <3>3, <1>b
      <4>3. v[p].t = rows[p].t BY <4>1, <4>2, <3>3 DEF Keeps
      <4> QED BY <4>1, <4>2, <4>3, <3>3, <3>1, <1>a, <1>c
    <3> QED BY <3>2, <3>3
  <2> QED BY <2>2, <2>3 DEF Fits
<1> QED BY <1>1, <1>2

\* A row that is written is a new one, or one the session sees and of the same table.
Stays(s, new) ==
  \A i \in DOMAIN new : new[i] # Gone =>
    i > seq \/ (i \in DOMAIN See(s) /\ new[i].t = See(s)[i].t)

\* What session s may write.
Proper(s, new) ==
  /\ \A o \in Sessions \ {s} : Apart(Over(new, work[s]), work[o])
  /\ Stays(s, new) /\ Sound(Kept(Over(new, Over(work[s], rows))))

(* A write nobody has to wait for does not touch what the others wrote. *)
LEMMA WrittenApart ==
  ASSUME StoreInv, NEW s \in Sessions, NEW new, ~Waits(s, new), NEW o \in Sessions \ {s}
  PROVE  Apart(Over(new, work[s]), work[o])
<1> DEFINE w == Over(new, work[s])
<1>1. ~WaitsFor(s, o, new) BY DEF Waits
<1>2. Apart(work[s], work[o]) BY DEF StoreInv
<1>3. /\ DOMAIN w = DOMAIN new \cup DOMAIN work[s]
      /\ \A i \in DOMAIN w : w[i] = IF i \in DOMAIN new THEN new[i] ELSE work[s][i]
  BY DEF Over
<1> HIDE DEF w
<1>4. DOMAIN w \cap DOMAIN work[o] = {} BY <1>1, <1>2, <1>3 DEF WaitsFor, Apart
<1>5. ASSUME NEW i \in DOMAIN w, NEW j \in DOMAIN work[o]
      PROVE  /\ w[i] = Gone => i \notin NewRefs(j, work[o][j])
             /\ work[o][j] = Gone => j \notin NewRefs(i, w[i])
  <2>1. CASE i \in DOMAIN new BY <2>1, <1>1, <1>3 DEF WaitsFor
  <2>2. CASE i \notin DOMAIN new BY <2>2, <1>2, <1>3 DEF Apart
  <2> QED BY <2>1, <2>2
<1> QED BY <1>4, <1>5 DEF Apart, w

(* It keeps the tables of the rows that are there. *)
LEMMA WrittenKeeps ==
  ASSUME StoreInv, NEW s \in Sessions, NEW new, Stays(s, new)
  PROVE  Keeps(Over(new, work[s]), rows)
<1> SUFFICES ASSUME NEW i \in DOMAIN Over(new, work[s]) \cap DOMAIN rows,
                    Over(new, work[s])[i] # Gone
             PROVE  Over(new, work[s])[i].t = rows[i].t
  BY DEF Keeps
<1>0. i \in 1..seq /\ seq \in Nat /\ Keeps(work[s], rows) BY DEF StoreInv
<1>1. CASE i \in DOMAIN new
  <2>1. new[i] # Gone /\ Over(new, work[s])[i] = new[i] BY <1>1 DEF Over
  <2>2. i \in DOMAIN See(s) /\ new[i].t = See(s)[i].t BY <2>1, <1>0, <1>1 DEF Stays
  <2>3. See(s)[i] = IF i \in DOMAIN work[s] THEN work[s][i] ELSE rows[i] BY <2>2, View DEF See
  <2>4. i \in DOMAIN work[s] => work[s][i] # Gone BY <2>2, View DEF See
  <2> QED BY <1>0, <2>1, <2>2, <2>3, <2>4 DEF Keeps
<1>2. CASE i \notin DOMAIN new
  <2>1. i \in DOMAIN work[s] /\ Over(new, work[s])[i] = work[s][i] BY <1>2 DEF Over
  <2> QED BY <1>0, <2>1 DEF Keeps
<1> QED BY <1>1, <1>2

(* A session that writes nothing more sees the committed rows. *)
LEMMA SeeRows ==
  ASSUME StoreInv, NEW s \in Sessions, work[s] = Nothing
  PROVE  See(s) = rows
BY OverNothing DEF See, StoreInv

(* A rollback leaves the store sound. *)
LEMMA RollbackKeepsStore ==
  ASSUME StoreInv, NEW s \in Sessions, Rollback(s), seq' \in Nat, seq <= seq'
  PROVE  StoreInv'
<1>1. DOMAIN Nothing = {} BY DEF Nothing
<1>2. rows' = rows BY DEF Rollback
<1>3. /\ work' = [o \in Sessions |-> work'[o]]
      /\ work'[s] = Nothing /\ \A o \in Sessions \ {s} : work'[o] = work[o]
  BY DEF Rollback, StoreInv
<1>4. \A n \in 1..seq : n \in 1..seq' BY DEF StoreInv
<1>5. rows' = [i \in DOMAIN rows' |-> rows'[i]] BY <1>2 DEF StoreInv
<1>6. DOMAIN rows' \subseteq 1..seq' /\ Sound(rows') BY <1>2, <1>4 DEF StoreInv
<1>7. ASSUME NEW o \in Sessions
      PROVE  /\ DOMAIN work'[o] \subseteq 1..seq'
             /\ Sound(Kept(Over(work'[o], rows'))) /\ Keeps(work'[o], rows')
  <2>1. CASE o = s
    <3>1. Kept(Over(Nothing, rows)) = rows BY OverNothing DEF StoreInv
    <3> QED BY <3>1, <2>1, <1>1, <1>2, <1>3, <1>6 DEF Keeps
  <2>2. CASE o # s BY <2>2, <1>2, <1>3, <1>4 DEF StoreInv, See
  <2> QED BY <2>1, <2>2
<1>8. ASSUME NEW o \in Sessions, NEW p \in Sessions, o # p
      PROVE  Apart(work[o], work[p])'
  <2>0. Apart(work[o], work[p]) BY <1>8 DEF StoreInv
  <2>1. CASE o = s \/ p = s BY <2>1, <1>1, <1>3, <1>8 DEF Apart
  <2>2. CASE o # s /\ p # s
    <3>1. work'[o] = work[o] /\ work'[p] = work[p] BY <2>2, <1>3
    <3> QED BY <2>0, <3>1, <1>2 DEF Apart, NewRefs
  <2> QED BY <2>1, <2>2
<1> QED BY <1>3, <1>5, <1>6, <1>7, <1>8 DEF StoreInv, See

(* A statement leaves the store sound. *)
LEMMA FlushKeepsStore ==
  ASSUME StoreInv, NEW s \in Sessions, NEW new, Proper(s, new), Flush(s, new),
         seq' \in Nat, seq <= seq', DOMAIN new \subseteq 1..seq'
  PROVE  StoreInv'
<1> DEFINE w == Over(new, work[s])
<1>2. rows' = rows BY DEF Flush
<1>3. /\ work' = [o \in Sessions |-> work'[o]]
      /\ work'[s] = w /\ \A o \in Sessions \ {s} : work'[o] = work[o]
  BY DEF Flush, StoreInv
<1>4. \A n \in 1..seq : n \in 1..seq' BY DEF StoreInv
<1>5. rows' = [i \in DOMAIN rows' |-> rows'[i]] BY <1>2 DEF StoreInv
<1>6. DOMAIN rows' \subseteq 1..seq' /\ Sound(rows') BY <1>2, <1>4 DEF StoreInv
<1>7. ASSUME NEW o \in Sessions
      PROVE  /\ DOMAIN work'[o] \subseteq 1..seq'
             /\ Sound(Kept(Over(work'[o], rows'))) /\ Keeps(work'[o], rows')
  <2>1. CASE o = s
    <3>1. DOMAIN w = DOMAIN new \cup DOMAIN work[s] BY DEF Over
    <3>2. DOMAIN w \subseteq 1..seq' BY <3>1, <1>4 DEF StoreInv
    <3>3. Sound(Kept(Over(w, rows))) BY OverOver DEF Proper
    <3>4. Keeps(w, rows) BY WrittenKeeps DEF Proper
    <3> QED BY <2>1, <3>2, <3>3, <3>4, <1>2, <1>3
  <2>2. CASE o # s BY <2>2, <1>2, <1>3, <1>4 DEF StoreInv, See
  <2> QED BY <2>1, <2>2
<1>8. ASSUME NEW o \in Sessions, NEW p \in Sessions, o # p
      PROVE  Apart(work[o], work[p])'
  <2>0. \A a \in Sessions \ {s} : Apart(w, work[a]) BY DEF Proper
  <2> HIDE DEF w
  <2>1. CASE o = s
    <3>1. work'[o] = w /\ work'[p] = work[p] /\ Apart(w, work[p]) BY <2>0, <2>1, <1>3, <1>8
    <3> QED BY <3>1, <1>2 DEF Apart, NewRefs
  <2>2. CASE p = s
    <3>1. work'[p] = w /\ work'[o] = work[o] /\ Apart(w, work[o]) BY <2>0, <2>2, <1>3, <1>8
    <3> QED BY <3>1, <1>2 DEF Apart, NewRefs
  <2>3. CASE o # s /\ p # s
    <3>1. work'[o] = work[o] /\ work'[p] = work[p] /\ Apart(work[o], work[p])
      BY <2>3, <1>3, <1>8 DEF StoreInv
    <3> QED BY <3>1, <1>2 DEF Apart, NewRefs
  <2> QED BY <2>1, <2>2, <2>3
<1> QED BY <1>3, <1>5, <1>6, <1>7, <1>8 DEF StoreInv, See

(* A commit leaves the store sound. *)
LEMMA CommitKeepsStore ==
  ASSUME StoreInv, NEW s \in Sessions, NEW new, Proper(s, new), Commit(s, new),
         seq' \in Nat, seq <= seq', DOMAIN new \subseteq 1..seq'
  PROVE  StoreInv'
<1> DEFINE w == Over(new, work[s])
<1>1. DOMAIN Nothing = {} BY DEF Nothing
<1>2. rows' = Kept(Over(w, rows)) BY OverOver DEF Commit
<1>3. /\ work' = [o \in Sessions |-> work'[o]]
      /\ work'[s] = Nothing /\ \A o \in Sessions \ {s} : work'[o] = work[o]
  BY DEF Commit, StoreInv
<1>4. \A n \in 1..seq : n \in 1..seq' BY DEF StoreInv
<1>5. rows' = [i \in DOMAIN rows' |-> rows'[i]] BY <1>2 DEF Kept
<1>6. Sound(rows') BY <1>2, OverOver DEF Proper
<1>a. DOMAIN w = DOMAIN new \cup DOMAIN work[s] BY DEF Over
<1>b. DOMAIN w \subseteq 1..seq' BY <1>a, <1>4 DEF StoreInv
<1>c. Keeps(w, rows) BY WrittenKeeps DEF Proper
<1>d. \A a \in Sessions \ {s} : Apart(w, work[a]) BY DEF Proper
<1> HIDE DEF w
<1>r. \A i \in DOMAIN rows : rows[i] # Gone BY SoundNotGone DEF StoreInv
<1>e. /\ \A i : i \in DOMAIN rows' <=> IF i \in DOMAIN w THEN w[i] # Gone ELSE i \in DOMAIN rows
      /\ \A i \in DOMAIN rows' : rows'[i] = IF i \in DOMAIN w THEN w[i] ELSE rows[i]
  BY <1>2, <1>r, View
<1>f. DOMAIN rows' \subseteq 1..seq' BY <1>e, <1>b, <1>4 DEF StoreInv
<1>7. ASSUME NEW o \in Sessions
      PROVE  /\ DOMAIN work'[o] \subseteq 1..seq'
             /\ Sound(Kept(Over(work'[o], rows'))) /\ Keeps(work'[o], rows')
  <2>1. CASE o = s
    <3>1. Kept(Over(Nothing, rows')) = rows' BY OverNothing, <1>5, <1>6
    <3> QED BY <3>1, <2>1, <1>1, <1>3, <1>6 DEF Keeps
  <2>2. CASE o # s
    <3>1. work'[o] = work[o] /\ Apart(w, work[o]) BY <2>2, <1>3, <1>d
    <3>2. /\ DOMAIN work[o] \subseteq 1..seq /\ Sound(Kept(Over(work[o], rows)))
          /\ Keeps(work[o], rows) /\ Sound(rows)
      BY DEF StoreInv, See
    <3>3. Sound(Kept(Over(work[o], rows'))) BY <3>1, <3>2, <1>2, <1>6, <1>c, SoundTogether
    <3>4. Keeps(work[o], rows') BY <3>1, <3>2, <1>e DEF Keeps, Apart
    <3> QED BY <3>1, <3>2, <3>3, <3>4, <1>4
  <2> QED BY <2>1, <2>2
<1>8. ASSUME NEW o \in Sessions, NEW p \in Sessions, o # p
      PROVE  Apart(work[o], work[p])'
  <2>1. CASE o = s \/ p = s BY <2>1, <1>1, <1>3, <1>8 DEF Apart
  <2>2. CASE o # s /\ p # s
    <3>1. /\ work'[o] = work[o] /\ work'[p] = work[p] /\ Apart(work[o], work[p])
          /\ Apart(w, work[o]) /\ Apart(w, work[p])
      BY <2>2, <1>3, <1>8, <1>d DEF StoreInv
    <3>2. ASSUME NEW i \in DOMAIN work[o] \cup DOMAIN work[p], NEW row
          PROVE  NewRefs(i, row)' = NewRefs(i, row)
      <4>1. i \notin DOMAIN w BY <3>1 DEF Apart
      <4>2. /\ i \in DOMAIN rows' <=> i \in DOMAIN rows
            /\ i \in DOMAIN rows => rows'[i] = rows[i]
        BY <4>1, <1>e
      <4> QED BY <4>2 DEF NewRefs
    <3>3. DOMAIN work[o] \cap DOMAIN work[p] = {} BY <3>1 DEF Apart
    <3>4. ASSUME NEW i \in DOMAIN work[o], NEW j \in DOMAIN work[p]
          PROVE  /\ work[o][i] = Gone => i \notin NewRefs(j, work[p][j])'
                 /\ work[p][j] = Gone => j \notin NewRefs(i, work[o][i])'
      BY <3>1, <3>2, <3>4 DEF Apart
    <3> QED BY <3>1, <3>3, <3>4 DEF Apart
  <2> QED BY <2>1, <2>2
<1> QED BY <1>3, <1>5, <1>6, <1>f, <1>7, <1>8 DEF StoreInv, See

\* What a step does to the rows and to what is written: nothing, or one rollback,
\* statement or commit of one session.
StoreStep ==
  /\ seq' \in Nat /\ seq <= seq'
  /\ \/ UNCHANGED <<rows, work>>
     \/ \E s \in Sessions :
          \/ Rollback(s)
          \/ \E new : /\ Proper(s, new) /\ DOMAIN new \subseteq 1..seq'
                      /\ Flush(s, new) \/ Commit(s, new)

(* Every such step leaves the store sound. *)
LEMMA StoreStepKeepsStore ==
  ASSUME StoreInv, StoreStep
  PROVE  StoreInv'
<1>0. seq' \in Nat /\ seq <= seq' BY DEF StoreStep
<1>1. CASE UNCHANGED <<rows, work>>
  <2>1. rows' = rows /\ work' = work BY <1>1
  <2>2. \A n \in 1..seq : n \in 1..seq' BY <1>0 DEF StoreInv
  <2>3. DOMAIN rows \subseteq 1..seq' /\ \A s \in Sessions : DOMAIN work[s] \subseteq 1..seq'
    BY <2>2 DEF StoreInv
  <2>4. \A s \in Sessions : Sound(See(s)') /\ Keeps(work[s], rows) BY <2>1 DEF StoreInv, See
  <2>5. \A s, o \in Sessions : s # o => Apart(work[s], work[o])'
    BY <2>1 DEF StoreInv, Apart, NewRefs
  <2> QED BY <2>1, <2>3, <2>4, <2>5, <1>0 DEF StoreInv
<1>2. CASE \E s \in Sessions : Rollback(s) BY <1>0, <1>2, RollbackKeepsStore
<1>3. CASE \E s \in Sessions : \E new :
              /\ Proper(s, new) /\ DOMAIN new \subseteq 1..seq'
              /\ Flush(s, new) \/ Commit(s, new)
  <2>s. PICK s \in Sessions : \E new : Proper(s, new) /\ DOMAIN new \subseteq 1..seq'
                                         /\ (Flush(s, new) \/ Commit(s, new))
    BY <1>3
  <2>1. PICK new : Proper(s, new) /\ DOMAIN new \subseteq 1..seq'
                     /\ (Flush(s, new) \/ Commit(s, new))
    BY <2>s
  <2>2. CASE Flush(s, new) BY <2>1, <2>2, <1>0, FlushKeepsStore
  <2>3. CASE Commit(s, new) BY <2>1, <2>3, <1>0, CommitKeepsStore
  <2> QED BY <2>1, <2>2, <2>3
<1> QED BY <1>1, <1>2, <1>3 DEF StoreStep

\* Id k is that of a row of table t, there or not, or of none.
Kind(k, t) ==
  /\ k \in Nat /\ k <= seq
  /\ k \in DOMAIN rows => rows[k].t = t
  /\ \A s \in Sessions : k \in DOMAIN work[s] /\ work[s][k] # Gone => work[s][k].t = t

(* What a session sees of a row. *)
LEMMA SeeRow ==
  ASSUME StoreInv, NEW s \in Sessions
  PROVE  /\ \A i : i \in DOMAIN See(s) <=>
                     IF i \in DOMAIN work[s] THEN work[s][i] # Gone ELSE i \in DOMAIN rows
         /\ \A i \in DOMAIN See(s) :
              See(s)[i] = IF i \in DOMAIN work[s] THEN work[s][i] ELSE rows[i]
<1>1. \A i \in DOMAIN rows : rows[i] # Gone BY SoundNotGone DEF StoreInv
<1> QED BY <1>1, View DEF See

(* A row that some session sees is of the table it sees. *)
LEMMA KindOf ==
  ASSUME StoreInv, NEW s \in Sessions, NEW k \in DOMAIN See(s)
  PROVE  Kind(k, See(s)[k].t)
<1>1. k \in 1..seq /\ seq \in Nat BY SeeRow DEF StoreInv
<1>2. Keeps(work[s], rows) BY DEF StoreInv
<1>3. See(s)[k] = IF k \in DOMAIN work[s] THEN work[s][k] ELSE rows[k] BY SeeRow
<1>4. k \in DOMAIN work[s] => work[s][k] # Gone BY SeeRow
<1>5. k \in DOMAIN work[s] \/ k \in DOMAIN rows BY SeeRow
<1>6. k \in DOMAIN rows => rows[k].t = See(s)[k].t BY <1>2, <1>3, <1>4 DEF Keeps
<1>7. ASSUME NEW o \in Sessions, k \in DOMAIN work[o], work[o][k] # Gone
      PROVE  work[o][k].t = See(s)[k].t
  <2>1. CASE o = s BY <2>1, <1>3, <1>7
  <2>2. CASE o # s
    <3>1. Apart(work[o], work[s]) /\ Keeps(work[o], rows) BY <2>2 DEF StoreInv
    <3>2. k \notin DOMAIN work[s] BY <3>1, <1>7 DEF Apart
    <3> QED BY <3>1, <3>2, <1>5, <1>6, <1>7 DEF Keeps
  <2> QED BY <2>1, <2>2
<1> QED BY <1>1, <1>6, <1>7 DEF Kind

(* No row has the id 0. *)
LEMMA KindZero ==
  ASSUME StoreInv, NEW t
  PROVE  Kind(0, t)
BY DEF StoreInv, Kind

(* An id never changes its table. *)
LEMMA KindStays ==
  ASSUME StoreInv, StoreStep, NEW k, NEW t, Kind(k, t)
  PROVE  Kind(k, t)'
<1>0. seq \in Nat /\ seq' \in Nat /\ seq <= seq' /\ k \in Nat /\ k <= seq
  BY DEF StoreStep, StoreInv, Kind
<1>1. CASE UNCHANGED <<rows, work>> BY <1>0, <1>1 DEF Kind
<1>2. CASE \E s \in Sessions : Rollback(s)
  <2>1. PICK s \in Sessions : Rollback(s) BY <1>2
  <2>2. rows' = rows /\ work'[s] = Nothing /\ \A o \in Sessions \ {s} : work'[o] = work[o]
    BY <2>1 DEF Rollback, StoreInv
  <2> QED BY <2>2, <1>0 DEF Kind, Nothing
<1>3. CASE \E s \in Sessions : \E new :
              /\ Proper(s, new) /\ DOMAIN new \subseteq 1..seq'
              /\ Flush(s, new) \/ Commit(s, new)
  <2>s. PICK s \in Sessions : \E new : Proper(s, new) /\ (Flush(s, new) \/ Commit(s, new))
    BY <1>3
  <2>1. PICK new : Proper(s, new) /\ (Flush(s, new) \/ Commit(s, new)) BY <2>s
  <2> DEFINE w == Over(new, work[s])
  <2>2. ASSUME k \in DOMAIN w, w[k] # Gone PROVE w[k].t = t
    <3>1. CASE k \in DOMAIN new
      <4>1. w[k] = new[k] BY <3>1 DEF Over
      <4>2. k \in DOMAIN See(s) /\ new[k].t = See(s)[k].t
        BY <4>1, <3>1, <2>1, <2>2, <1>0 DEF Proper, Stays
      <4>3. See(s)[k] = IF k \in DOMAIN work[s] THEN work[s][k] ELSE rows[k] BY <4>2, SeeRow
      <4>4. k \in DOMAIN work[s] => work[s][k] # Gone BY <4>2, SeeRow
      <4>5. k \in DOMAIN work[s] \/ k \in DOMAIN rows BY <4>2, SeeRow
      <4> QED BY <4>1, <4>2, <4>3, <4>4, <4>5 DEF Kind
    <3>2. CASE k \notin DOMAIN new
      <4>1. k \in DOMAIN work[s] /\ w[k] = work[s][k] BY <3>2, <2>2 DEF Over
      <4> QED BY <4>1, <2>2 DEF Kind
    <3> QED BY <3>1, <3>2
  <2>3. CASE Flush(s, new)
    <3>1. rows' = rows /\ work'[s] = w /\ \A o \in Sessions \ {s} : work'[o] = work[o]
      BY <2>3 DEF Flush, StoreInv
    <3> HIDE DEF w
    <3> QED BY <3>1, <2>2, <1>0 DEF Kind
  <2>4. CASE Commit(s, new)
    <3>1. work'[s] = Nothing /\ \A o \in Sessions \ {s} : work'[o] = work[o]
      BY <2>4 DEF Commit, StoreInv
    <3>2. rows' = Kept(Over(w, rows)) BY <2>4, OverOver DEF Commit
    <3> HIDE DEF w
    <3>3. k \in DOMAIN rows' => rows'[k].t = t
      <4>1. ASSUME k \in DOMAIN rows' PROVE rows'[k].t = t
        <5>1. IF k \in DOMAIN w THEN w[k] # Gone ELSE k \in DOMAIN rows
          BY <4>1, <3>2, View
        <5>2. rows'[k] = IF k \in DOMAIN w THEN w[k] ELSE rows[k]
          BY <4>1, <3>2, View
        <5> QED BY <5>1, <5>2, <2>2 DEF Kind
      <4> QED BY <4>1
    <3> QED BY <3>1, <3>3, <1>0 DEF Kind, Nothing
  <2> QED BY <2>1, <2>3, <2>4
<1> QED BY <1>1, <1>2, <1>3 DEF StoreStep

\* A row as the program makes it: of a table, and for a parent of the right table.
Typed(r) ==
  /\ Whole(r)
  /\ r.t = "scripts" => r.of = {}
  /\ r.t \notin {"scripts", "pipeline_runs"} => \E p : r.of = {p} /\ Kind(p, ParentTable(r.t))

(* A session sees typed rows only. *)
LEMMA SeenTyped ==
  ASSUME StoreInv, NEW s \in Sessions, NEW i \in DOMAIN See(s)
  PROVE  Typed(See(s)[i])
<1>1. Fits(See(s), See(s)[i]) BY DEF StoreInv, Sound
<1> QED BY <1>1, KindOf DEF Fits, Typed

(* Typed rows without a dangling reference are sound. *)
LEMMA Laid ==
  ASSUME StoreInv, NEW s \in Sessions, NEW new, Stays(s, new),
         \A i \in DOMAIN new : new[i] # Gone => Typed(new[i]),
         \A i \in DOMAIN Kept(Over(new, Over(work[s], rows))) :
            Kept(Over(new, Over(work[s], rows)))[i].of
               \subseteq DOMAIN Kept(Over(new, Over(work[s], rows)))
  PROVE  Sound(Kept(Over(new, Over(work[s], rows))))
<1> DEFINE w == Over(new, work[s])
           a == Kept(Over(w, rows))
<1>0. a = Kept(Over(new, Over(work[s], rows))) BY OverOver
<1>r. \A i \in DOMAIN rows : rows[i] # Gone BY SoundNotGone DEF StoreInv
<1>w. /\ DOMAIN w = DOMAIN new \cup DOMAIN work[s]
      /\ \A i \in DOMAIN w : w[i] = IF i \in DOMAIN new THEN new[i] ELSE work[s][i]
  BY DEF Over
<1> HIDE DEF w
<1>a. /\ \A i : i \in DOMAIN a <=> IF i \in DOMAIN w THEN w[i] # Gone ELSE i \in DOMAIN rows
      /\ \A i \in DOMAIN a : a[i] = IF i \in DOMAIN w THEN w[i] ELSE rows[i]
  BY <1>r, View
<1> HIDE DEF a
<1>1. ASSUME NEW i \in DOMAIN a
      PROVE  \/ i \in DOMAIN new /\ new[i] # Gone /\ a[i] = new[i]
             \/ i \in DOMAIN See(s) /\ a[i] = See(s)[i]
  BY <1>a, <1>w, SeeRow
<1>2. ASSUME NEW i \in DOMAIN a PROVE Typed(a[i])
  BY <1>1, SeenTyped
<1>3. ASSUME NEW p \in DOMAIN a, NEW t, Kind(p, t) PROVE a[p].t = t
  <2>1. CASE p \in DOMAIN new /\ new[p] # Gone /\ a[p] = new[p]
    <3>1. p \in DOMAIN See(s) /\ new[p].t = See(s)[p].t
      BY <2>1, <1>3 DEF Stays, Kind, StoreInv
    <3>2. See(s)[p].t = t BY <3>1, <1>3, SeeRow DEF Kind
    <3> QED BY <3>1, <3>2, <2>1
  <2>2. CASE p \in DOMAIN See(s) /\ a[p] = See(s)[p] BY <2>2, <1>3, SeeRow DEF Kind
  <2> QED BY <1>1, <2>1, <2>2
<1>4. ASSUME NEW i \in DOMAIN a PROVE Fits(a, a[i])
  <2>1. Typed(a[i]) /\ a[i].of \subseteq DOMAIN a BY <1>0, <1>2
  <2>2. ASSUME a[i].t \notin {"scripts", "pipeline_runs"}
        PROVE  \E p \in DOMAIN a : a[i].of = {p} /\ a[p].t = ParentTable(a[i].t)
    <3>1. PICK p : a[i].of = {p} /\ Kind(p, ParentTable(a[i].t)) BY <2>1, <2>2 DEF Typed
    <3>2. p \in DOMAIN a BY <2>1, <3>1
    <3>3. a[p].t = ParentTable(a[i].t) BY <1>3, <3>1, <3>2
    <3> QED BY <3>1, <3>2, <3>3
  <2> QED BY <2>1, <2>2 DEF Fits, Typed
<1> QED BY <1>0, <1>4 DEF Sound

(* A write the database has checked is proper. *)
LEMMA Checked ==
  ASSUME StoreInv, NEW s \in Sessions, NEW new, ~Waits(s, new), ~Violates(s, new),
         \A i \in DOMAIN new : new[i] # Gone =>
            Typed(new[i]) /\ ((i \in Nat /\ i > seq) \/ Kind(i, new[i].t))
  PROVE  Proper(s, new)
<1>1. ASSUME NEW i \in DOMAIN new, new[i] # Gone, Kind(i, new[i].t)
      PROVE  i \in DOMAIN See(s) /\ new[i].t = See(s)[i].t
  <2>1. i \in DOMAIN See(s) BY <1>1 DEF Kind, Violates
  <2> QED BY <1>1, <2>1, SeeRow DEF Kind
<1>2. Stays(s, new) BY <1>1 DEF Stays
<1>3. \A o \in Sessions \ {s} : Apart(Over(new, work[s]), work[o]) BY WrittenApart
<1>4. Sound(Kept(Over(new, Over(work[s], rows)))) BY <1>2, Laid DEF Violates
<1> QED BY <1>2, <1>3, <1>4 DEF Proper

(* So is one that removes nothing and refers only to what the session sees. *)
LEMMA Added ==
  ASSUME StoreInv, NEW s \in Sessions, NEW new, Stays(s, new),
         \A o \in Sessions \ {s} : Apart(Over(new, work[s]), work[o]),
         \A i \in DOMAIN new :
            new[i] # Gone /\ Typed(new[i]) /\ new[i].of \subseteq DOMAIN See(s)
  PROVE  Proper(s, new)
<1> DEFINE w == Over(new, work[s])
           a == Kept(Over(w, rows))
<1>0. a = Kept(Over(new, Over(work[s], rows))) BY OverOver
<1>r. \A i \in DOMAIN rows : rows[i] # Gone BY SoundNotGone DEF StoreInv
<1>w. /\ DOMAIN w = DOMAIN new \cup DOMAIN work[s]
      /\ \A i \in DOMAIN w : w[i] = IF i \in DOMAIN new THEN new[i] ELSE work[s][i]
  BY DEF Over
<1> HIDE DEF w
<1>a. /\ \A i : i \in DOMAIN a <=> IF i \in DOMAIN w THEN w[i] # Gone ELSE i \in DOMAIN rows
      /\ \A i \in DOMAIN a : a[i] = IF i \in DOMAIN w THEN w[i] ELSE rows[i]
  BY <1>r, View
<1> HIDE DEF a
<1>1. \A i \in DOMAIN See(s) : i \in DOMAIN a BY <1>a, <1>w, SeeRow
<1>2. ASSUME NEW i \in DOMAIN a PROVE a[i].of \subseteq DOMAIN See(s)
  <2>1. \/ i \in DOMAIN new /\ a[i] = new[i]
        \/ i \in DOMAIN See(s) /\ a[i] = See(s)[i]
    BY <1>a, <1>w, SeeRow
  <2>2. i \in DOMAIN See(s) => See(s)[i].of \subseteq DOMAIN See(s) BY DEF StoreInv, Sound, Fits
  <2> QED BY <2>1, <2>2
<1>3. \A i \in DOMAIN a : a[i].of \subseteq DOMAIN a BY <1>1, <1>2
<1> QED BY <1>0, <1>3, Laid DEF Proper

(* The id after a write is the largest one. *)
LEMMA LargestIs ==
  ASSUME seq \in Nat, NEW ids, ids \subseteq 1..(seq + 2)
  PROVE  /\ Largest(ids) \in {seq, seq + 1, seq + 2} /\ Largest(ids) \in ids \cup {seq}
         /\ ids \subseteq 1..Largest(ids)
<1>1. \E i \in ids \cup {seq} : \A j \in ids \cup {seq} : j <= i
  <2>1. CASE seq + 2 \in ids BY <2>1
  <2>2. CASE seq + 2 \notin ids /\ seq + 1 \in ids
    <3>1. \A j \in ids : j <= seq + 1 BY <2>2
    <3> QED BY <2>2, <3>1
  <2>3. CASE seq + 2 \notin ids /\ seq + 1 \notin ids
    <3>1. \A j \in ids : j <= seq BY <2>3
    <3> QED BY <3>1
  <2> QED BY <2>1, <2>2, <2>3
<1>2. /\ Largest(ids) \in ids \cup {seq}
      /\ \A j \in ids \cup {seq} : j <= Largest(ids)
  BY <1>1 DEF Largest
<1>3. ASSUME NEW m \in ids \cup {seq}, \A j \in ids \cup {seq} : j <= m
      PROVE  m \in {seq, seq + 1, seq + 2} /\ ids \subseteq 1..m
  <2>1. \A j \in ids : j \in Nat /\ 1 <= j /\ j <= seq + 2 OBVIOUS
  <2>2. m \in Nat /\ m <= seq + 2 BY <2>1
  <2>3. seq <= m BY <1>3
  <2>4. m \in {seq, seq + 1, seq + 2} BY <2>2, <2>3
  <2>5. \A j \in ids : j \in 1..m BY <1>3, <2>1, <2>2
  <2> QED BY <2>4, <2>5
<1> QED BY <1>2, <1>3

(* A commit adds rows that were written only. *)
LEMMA CommitAdds ==
  ASSUME StoreInv, NEW s \in Sessions, NEW new, Commit(s, new)
  PROVE  /\ \A i \in DOMAIN rows' \ DOMAIN rows :
              /\ i \in DOMAIN Over(new, work[s]) /\ rows'[i] = Over(new, work[s])[i]
              /\ rows'[i] # Gone
         /\ \A i \in DOMAIN new : new[i] # Gone => i \in DOMAIN rows'
<1>1. rows' = Kept(Over(Over(new, work[s]), rows)) BY OverOver DEF Commit
<1>2. \A i \in DOMAIN new : i \in DOMAIN Over(new, work[s]) /\ Over(new, work[s])[i] = new[i]
  BY DEF Over
<1> QED BY <1>1, <1>2, View

(* A session that has nothing open adds what its commit writes. *)
LEMMA CommitAddsNew ==
  ASSUME StoreInv, NEW s \in Sessions, work[s] = Nothing, NEW new, Commit(s, new)
  PROVE  \A i \in DOMAIN rows' \ DOMAIN rows :
           i \in DOMAIN new /\ rows'[i] = new[i] /\ new[i] # Gone
<1>1. DOMAIN Over(new, Nothing) = DOMAIN new /\ \A i \in DOMAIN new : Over(new, Nothing)[i] = new[i]
  BY DEF Over, Nothing
<1> QED BY <1>1, CommitAdds

(* Each session writes its own transaction only. *)
LEMMA OthersStay ==
  ASSUME StoreInv, NEW s \in Sessions, NEW new,
         Flush(s, new) \/ Commit(s, new) \/ Rollback(s)
  PROVE  /\ \A o \in Sessions \ {s} : work'[o] = work[o]
         /\ Commit(s, new) \/ Rollback(s) => work'[s] = Nothing
         /\ Flush(s, new) => work'[s] = Over(new, work[s])
         /\ Flush(s, new) \/ Rollback(s) => rows' = rows
<1>1. work = [o \in Sessions |-> work[o]] BY DEF StoreInv
<1>2. ASSUME NEW w, work' = [work EXCEPT ![s] = w]
      PROVE  work'[s] = w /\ \A o \in Sessions \ {s} : work'[o] = work[o]
  BY <1>1, <1>2
<1>3. CASE Flush(s, new)
  <2>1. work' = [work EXCEPT ![s] = Over(new, work[s])] /\ rows' = rows BY <1>3 DEF Flush
  <2>2. work'[s] = Over(new, work[s]) /\ \A o \in Sessions \ {s} : work'[o] = work[o]
    BY <2>1, <1>2
  <2>3. Commit(s, new) \/ Rollback(s) => work'[s] = Nothing BY <1>2 DEF Commit, Rollback
  <2> QED BY <2>1, <2>2, <2>3
<1>4. CASE Commit(s, new)
  <2>1. work'[s] = Nothing /\ \A o \in Sessions \ {s} : work'[o] = work[o]
    BY <1>4, <1>2 DEF Commit
  <2>2. Flush(s, new) => work'[s] = Over(new, work[s]) /\ rows' = rows BY <1>2 DEF Flush
  <2>3. Rollback(s) => rows' = rows BY DEF Rollback
  <2> QED BY <2>1, <2>2, <2>3
<1>5. CASE Rollback(s)
  <2>1. work'[s] = Nothing /\ \A o \in Sessions \ {s} : work'[o] = work[o] /\ rows' = rows
    BY <1>5, <1>2 DEF Rollback
  <2>2. Flush(s, new) => work'[s] = Over(new, work[s]) BY <1>2 DEF Flush
  <2> QED BY <2>1, <2>2, <1>5 DEF Rollback
<1> QED BY <1>3, <1>4, <1>5

(* A row with another state is as good a row. *)
LEMMA Restamped ==
  ASSUME NEW r, NEW st, Whole(r)
  PROVE  LET q == [r EXCEPT !.st = st] IN
         q.t = r.t /\ q.of = r.of /\ q # Gone /\ (Typed(r) => Typed(q))
<1>1. r = [t |-> r.t, of |-> r.of, st |-> r.st] /\ r.t \in Tables BY DEF Whole, Row
<1>2. [r EXCEPT !.st = st] = [t |-> r.t, of |-> r.of, st |-> st] BY <1>1
<1> DEFINE q == [t |-> r.t, of |-> r.of, st |-> st]
<1>3. q.t = r.t /\ q.of = r.of /\ q.st = st OBVIOUS
<1>4. q # Gone BY <1>1, <1>3 DEF Gone, Row, Tables
<1>5. Whole(q) BY <1>1, <1>3 DEF Whole, Row
<1> HIDE DEF q
<1>6. Typed(r) => Typed(q) BY <1>3, <1>5 DEF Typed
<1> QED BY <1>2, <1>3, <1>4, <1>6 DEF q

(* A row of a table that has a parent, or needs none. *)
LEMMA NewRow ==
  ASSUME NEW t \in Tables, NEW of, NEW st
  PROVE  /\ Row(t, of, st) # Gone /\ Row(t, of, st).t = t /\ Row(t, of, st).of = of
         /\ Whole(Row(t, of, st))
         /\ t = "pipeline_runs" \/ (t = "scripts" /\ of = {})
            \/ (t # "scripts" /\ \E p : of = {p} /\ Kind(p, ParentTable(t)))
              => Typed(Row(t, of, st))
<1>1. Row(t, of, st).t = t /\ Row(t, of, st).of = of /\ Row(t, of, st).st = st BY DEF Row
<1>2. Row(t, of, st) # Gone BY <1>1 DEF Gone, Row, Tables
<1>3. Whole(Row(t, of, st)) BY <1>1 DEF Whole
<1> QED BY <1>1, <1>2, <1>3 DEF Typed

(* One row written. *)
LEMMA OneIs ==
  ASSUME NEW i, NEW r
  PROVE  DOMAIN One(i, r) = {i} /\ One(i, r)[i] = r
BY DEF One

\* The program's own variables have the fields they are made with.
FormInv ==
  /\ {"stage", "script", "video"} \subseteq DOMAIN run
  /\ {"at", "next", "scripts", "videos", "uploads", "sent", "outcome", "raced"}
       \subseteq DOMAIN reset

\* The ids the run and the request remember are of the rows they are for.
IdInv ==
  /\ Kind(RunId, "pipeline_runs") /\ Kind(run.script, "scripts") /\ Kind(run.video, "videos")
  /\ request.do = "fetch" => Kind(request.id, "uploads")

Writing == {"script", "quality", "seo", "voice", "upload"}

\* Who has something open, and when.
PlaceInv ==
  /\ run.stage \notin Writing => work["run"] = Nothing
  /\ work["request"] = Nothing
  /\ sending = 0 => work["publisher"] = Nothing
  /\ sending # 0 => /\ DOMAIN work["publisher"] = {sending}
                    /\ work["publisher"][sending].t = "uploads"
  /\ reset.at # "delete" => work["reset"] = Nothing
  /\ \A i \in DOMAIN work["reset"] : work["reset"][i] = Gone

BaseInv == StoreInv /\ FormInv /\ IdInv /\ PlaceInv

\* What NothingWithoutRun asks of a step.
NoneAdded ==
  \A i \in DOMAIN rows' \ DOMAIN rows :
    rows'[i].t \in {"scripts", "quality_reports", "voices"} => RunId \in DOMAIN rows'

\* What every step does.
GoodStep == StoreStep /\ FormInv' /\ IdInv' /\ PlaceInv' /\ NoneAdded

(* A step that adds no id to those remembered keeps them right. *)
LEMMA IdsStay ==
  ASSUME StoreInv, StoreStep, IdInv,
         run'.script = run.script \/ run'.script = 0,
         run'.video \in {run.video, 0} \/ Kind(run'.video, "videos"),
         \/ request' = request
         \/ request'.do # "fetch"
         \/ Kind(request'.id, "uploads")
  PROVE  IdInv'
<1>1. \A k, t : Kind(k, t) => Kind(k, t)' BY KindStays
<1>2. \A t : Kind(0, t) BY KindZero
<1>3. Kind(RunId, "pipeline_runs")' BY <1>1 DEF IdInv, RunId
<1>4. Kind(run'.script, "scripts") BY <1>2 DEF IdInv
<1>5. Kind(run'.video, "videos") BY <1>2 DEF IdInv
<1>6. request'.do = "fetch" => Kind(request'.id, "uploads") BY DEF IdInv
<1>7. Kind(run.script, "scripts")' BY <1>1, <1>4 DEF Kind
<1>8. Kind(run.video, "videos")' BY <1>1, <1>5 DEF Kind
<1>9. request'.do = "fetch" => Kind(request.id, "uploads")' BY <1>1, <1>6 DEF Kind
<1> QED BY <1>3, <1>7, <1>8, <1>9 DEF IdInv

(* A disturbed reset is where it was. *)
LEMMA DisturbKeeps ==
  ASSUME FormInv, Disturb
  PROVE  /\ reset'.at = reset.at /\ reset'.next = reset.next
         /\ reset.at # "idle" => reset'.raced
         /\ DOMAIN reset' = DOMAIN reset
BY DEF FormInv, Disturb

(* The run after an exception, and after its end. *)
LEMMA RunStops ==
  ASSUME FormInv, NEW again
  PROVE  /\ Raised(again).stage = "raised" /\ Ended.stage = "ended"
         /\ Raised(again).script = 0 /\ Ended.script = 0
         /\ Raised(again).video = 0 /\ Ended.video = 0
         /\ DOMAIN Raised(again) = DOMAIN run /\ DOMAIN Ended = DOMAIN run
<1>1. /\ Raised(again).stage = "raised" /\ Raised(again).script = 0 /\ Raised(again).video = 0
      /\ DOMAIN Raised(again) = DOMAIN run
  BY DEF FormInv, Raised
<1>2. /\ Ended.stage = "ended" /\ Ended.script = 0 /\ Ended.video = 0
      /\ DOMAIN Ended = DOMAIN run
  BY DEF FormInv, Ended
<1> QED BY <1>1, <1>2

(* A session that keeps to its place leaves the others in theirs. *)
LEMMA PlaceStays ==
  ASSUME PlaceInv, NEW s \in Sessions,
         \A o \in Sessions \ {s} : work'[o] = work[o],
         IF s = "run" THEN run'.stage \in Writing \/ work'["run"] = Nothing
           ELSE run'.stage = run.stage,
         s = "request" => work'["request"] = Nothing,
         IF s = "publisher"
           THEN /\ sending' = 0 => work'["publisher"] = Nothing
                /\ sending' # 0 => /\ DOMAIN work'["publisher"] = {sending'}
                                   /\ work'["publisher"][sending'].t = "uploads"
           ELSE sending' = sending,
         IF s = "reset"
           THEN /\ reset'.at # "delete" => work'["reset"] = Nothing
                /\ \A i \in DOMAIN work'["reset"] : work'["reset"][i] = Gone
           ELSE reset'.at = reset.at
  PROVE  PlaceInv'
<1>1. (run.stage \notin Writing => work["run"] = Nothing)'
  <2>1. CASE s = "run" BY <2>1
  <2>2. CASE s # "run" BY <2>2 DEF PlaceInv, Sessions
  <2> QED BY <2>1, <2>2
<1>2. (work["request"] = Nothing)'
  <2>1. CASE s = "request" BY <2>1
  <2>2. CASE s # "request" BY <2>2 DEF PlaceInv, Sessions
  <2> QED BY <2>1, <2>2
<1>3. (/\ sending = 0 => work["publisher"] = Nothing
       /\ sending # 0 => /\ DOMAIN work["publisher"] = {sending}
                         /\ work["publisher"][sending].t = "uploads")'
  <2>1. CASE s = "publisher" BY <2>1
  <2>2. CASE s # "publisher" BY <2>2 DEF PlaceInv, Sessions
  <2> QED BY <2>1, <2>2
<1>4. (/\ reset.at # "delete" => work["reset"] = Nothing
       /\ \A i \in DOMAIN work["reset"] : work["reset"][i] = Gone)'
  <2>1. CASE s = "reset" BY <2>1
  <2>2. CASE s # "reset" BY <2>2 DEF PlaceInv, Sessions
  <2> QED BY <2>1, <2>2
<1> QED BY <1>1, <1>2, <1>3, <1>4 DEF PlaceInv

(* What a stage writes: rows of the right tables, at ids that are new or theirs. *)
LEMMA OutputFits ==
  ASSUME StoreInv, IdInv, NEW passed, run.stage \in Writing, NEW i \in DOMAIN Output(passed)
  PROVE  /\ i \in Nat /\ i <= seq + 2 /\ Output(passed)[i] # Gone /\ Typed(Output(passed)[i])
         /\ (i \in Nat /\ i > seq) \/ Kind(i, Output(passed)[i].t)
<1> DEFINE s == run.script
<1>0. /\ seq \in Nat /\ Kind(run.script, "scripts") /\ Kind(run.video, "videos")
      /\ run.script \in Nat /\ run.script <= seq
  BY DEF StoreInv, IdInv, Kind
<1>t. \A t \in {"scripts", "quality_reports", "voices", "videos", "uploads"} : t \in Tables
  BY DEF Tables
<1>p. /\ ParentTable("quality_reports") = "scripts" /\ ParentTable("voices") = "scripts"
      /\ ParentTable("videos") = "scripts" /\ ParentTable("uploads") = "videos"
  BY DEF ParentTable
<1>v. \A v \in VideoOf("run", s) : Kind(v, "videos") /\ v \in Nat /\ v <= seq
  BY KindOf DEF VideoOf, Of, Sessions, Kind
<1>1. CASE run.stage = "script"
  <2>1. Output(passed) = One(seq + 1, Row("scripts", {}, "draft")) BY <1>1 DEF Output
  <2>2. i = seq + 1 /\ Output(passed)[i] = Row("scripts", {}, "draft") BY <2>1 DEF One
  <2> QED BY <2>2, <1>0, <1>t, NewRow
<1>2. CASE run.stage = "quality"
  <2> DEFINE a == Row("quality_reports", {s}, IF passed THEN "passed" ELSE "failed")
             b == Row("scripts", {}, IF passed THEN "approved" ELSE "rejected")
  <2>1. Output(passed) = Over(One(seq + 1, a), One(s, b)) BY <1>2 DEF Output
  <2>2. a # Gone /\ Typed(a) /\ b # Gone /\ Typed(b) /\ b.t = "scripts"
    BY <1>0, <1>t, <1>p, NewRow
  <2> HIDE DEF a, b
  <2>3. \/ i = seq + 1 /\ Output(passed)[i] = a
        \/ i = s /\ Output(passed)[i] = b
    BY <2>1 DEF Over, One
  <2> QED BY <2>2, <2>3, <1>0
<1>3. CASE run.stage = "seo"
  <2>1. Output(passed) = One(s, Row("scripts", {}, "approved")) BY <1>3 DEF Output
  <2>2. i = s /\ Output(passed)[i] = Row("scripts", {}, "approved") BY <2>1 DEF One
  <2> QED BY <2>2, <1>0, <1>t, NewRow
<1>4. CASE run.stage = "voice"
  <2> DEFINE a == Row("voices", {s}, "complete")
             b == Row("videos", {s}, "generating")
             c == IF VideoOf("run", s) = {} THEN One(seq + 2, b)
                  ELSE [v \in VideoOf("run", s) |-> b]
  <2>1. Output(passed) = Over(One(seq + 1, a), c) BY <1>4, Zenon DEF Output
  <2>2. a # Gone /\ Typed(a) /\ b # Gone /\ Typed(b) /\ b.t = "videos"
    BY <1>0, <1>t, <1>p, NewRow
  <2> HIDE DEF a, b
  <2>3. \A j \in DOMAIN c : c[j] = b /\ (j = seq + 2 \/ j \in VideoOf("run", s))
    BY DEF One
  <2> HIDE DEF c
  <2>4. \/ i = seq + 1 /\ Output(passed)[i] = a
        \/ i \in DOMAIN c /\ Output(passed)[i] = b
    BY <2>1, <2>3 DEF Over, One
  <2> HIDE DEF s
  <2> QED BY <2>2, <2>3, <2>4, <1>0, <1>v
<1>5. CASE run.stage = "upload"
  <2>1. Output(passed) = One(seq + 1, Row("uploads", {run.video}, "scheduled"))
    BY <1>5 DEF Output
  <2>2. i = seq + 1 /\ Output(passed)[i] = Row("uploads", {run.video}, "scheduled")
    BY <2>1 DEF One
  <2> QED BY <2>2, <1>0, <1>t, <1>p, NewRow
<1> QED BY <1>1, <1>2, <1>3, <1>4, <1>5 DEF Writing

(* A checked write of ids up to two beyond the last is a step of the store. *)
LEMMA CheckedStep ==
  ASSUME StoreInv, NEW s \in Sessions, NEW new, ~Waits(s, new), ~Violates(s, new),
         Flush(s, new) \/ Commit(s, new), seq' = Largest(DOMAIN new),
         \A i \in DOMAIN new :
            /\ i \in Nat /\ i <= seq + 2
            /\ new[i] = Gone => i \in 1..seq
            /\ new[i] # Gone => Typed(new[i]) /\ ((i \in Nat /\ i > seq) \/ Kind(i, new[i].t))
  PROVE  StoreStep /\ Proper(s, new) /\ DOMAIN new \subseteq 1..(seq + 2)
<1>0. seq \in Nat BY DEF StoreInv
<1>1. Proper(s, new) BY Checked
<1>2. ASSUME NEW i \in DOMAIN new PROVE i \in 1..(seq + 2)
  <2>1. CASE new[i] = Gone BY <2>1, <1>0
  <2>2. CASE new[i] # Gone
    <3>1. i > seq \/ i \in DOMAIN See(s) BY <2>2, <1>1 DEF Proper, Stays
    <3>2. i \in DOMAIN See(s) => i \in 1..seq BY SeeRow DEF StoreInv
    <3> QED BY <3>1, <3>2, <1>0
  <2> QED BY <2>1, <2>2
<1>3. DOMAIN new \subseteq 1..(seq + 2) BY <1>2
<1>4. /\ Largest(DOMAIN new) \in {seq, seq + 1, seq + 2}
      /\ DOMAIN new \subseteq 1..Largest(DOMAIN new)
  BY <1>0, <1>3, LargestIs
<1>5. seq' \in Nat /\ seq <= seq' /\ DOMAIN new \subseteq 1..seq' BY <1>0, <1>4
<1> QED BY <1>1, <1>3, <1>5 DEF StoreStep

(* A rollback is a step of the store. *)
LEMMA RollbackStep ==
  ASSUME StoreInv, NEW s \in Sessions, Rollback(s), seq' = seq
  PROVE  StoreStep
BY DEF StoreStep, StoreInv

(* A proper write of ids that are there is a step of the store. *)
LEMMA ProperStep ==
  ASSUME StoreInv, NEW s \in Sessions, NEW new, Proper(s, new), DOMAIN new \subseteq 1..seq,
         Flush(s, new) \/ Commit(s, new), seq' = seq
  PROVE  StoreStep
BY DEF StoreStep, StoreInv

(* A stage's statements. *)
LEMMA RunWritesStep ==
  ASSUME BaseInv, NEW passed \in BOOLEAN, RunWrites(passed)
  PROVE  GoodStep
<1> DEFINE new == Output(passed)
<1> USE DEF BaseInv
<1>0. "run" \in Sessions /\ run.stage \in Writing BY DEF Sessions, RunWrites, Writing
<1>d. /\ Disturb /\ UNCHANGED <<request, sending, asked, tube>> /\ ~Waits("run", new)
      /\ reset'.at = reset.at /\ {"at", "next", "scripts", "videos", "uploads", "sent",
         "outcome", "raced"} \subseteq DOMAIN reset'
  BY DisturbKeeps DEF RunWrites, FormInv
<1>1. CASE Violates("run", new)
  <2>1. Rollback("run") /\ run' = Raised(FALSE) /\ seq' = seq BY <1>1 DEF RunWrites
  <2>2. StoreStep BY <2>1, <1>0, RollbackStep
  <2>3. /\ run'.script = 0 /\ run'.video = 0 /\ DOMAIN run' = DOMAIN run
    BY <2>1, RunStops
  <2>4. work'["run"] = Nothing /\ rows' = rows /\ \A o \in Sessions \ {"run"} : work'[o] = work[o]
    BY <2>1, <1>0, OthersStay
  <2>5. FormInv' BY <2>3, <1>d DEF FormInv
  <2>6. IdInv' BY <2>2, <2>3, <1>d, IdsStay
  <2>7. PlaceInv' BY <2>4, <1>0, <1>d, PlaceStays
  <2> QED BY <2>2, <2>4, <2>5, <2>6, <2>7 DEF GoodStep, NoneAdded
<1>2. CASE ~Violates("run", new)
  <2>1. /\ Flush("run", new) /\ seq' = Largest(DOMAIN new)
        /\ run' = IF run.stage = "script" THEN [run EXCEPT !.script = seq'] ELSE run
    BY <1>2 DEF RunWrites
  <2>2. StoreStep
    <3>1. \A i \in DOMAIN new :
            /\ i \in Nat /\ i <= seq + 2 /\ new[i] # Gone /\ Typed(new[i])
            /\ (i \in Nat /\ i > seq) \/ Kind(i, new[i].t)
      BY <1>0, OutputFits
    <3> HIDE DEF new
    <3> QED BY <3>1, <1>0, <1>d, <1>2, <2>1, CheckedStep
  <2>3. /\ run'.stage = run.stage /\ run'.video = run.video /\ DOMAIN run' = DOMAIN run
        /\ run.stage = "script" => run'.script = seq'
        /\ run.stage # "script" => run'.script = run.script
    BY <2>1 DEF FormInv
  <2>4. rows' = rows /\ \A o \in Sessions \ {"run"} : work'[o] = work[o]
    BY <2>1, <1>0, OthersStay
  <2>5. FormInv' BY <2>3, <1>d DEF FormInv
  <2>6. IdInv'
    <3>1. CASE run.stage = "script"
      <4>1. new = One(seq + 1, Row("scripts", {}, "draft")) BY <3>1 DEF Output
      <4>2. seq \in Nat BY DEF StoreInv
      <4>3. DOMAIN new = {seq + 1} BY <4>1, OneIs
      <4>4. seq' = seq + 1 BY <4>2, <4>3, <2>1, LargestIs
      <4>5. work'["run"] = Over(new, work["run"]) BY <2>1, <1>0, OthersStay
      <4>6. DOMAIN work'["run"] = {seq + 1} \cup DOMAIN work["run"]
            /\ work'["run"][seq + 1] = Row("scripts", {}, "draft")
        BY <4>1, <4>3, <4>5, OneIs DEF Over
      <4>7. /\ seq + 1 \notin DOMAIN rows
            /\ \A o \in Sessions \ {"run"} : seq + 1 \notin DOMAIN work[o]
        BY <4>2 DEF StoreInv
      <4>8. (Kind(run.script, "scripts"))'
        <5>1. run'.script = seq + 1 /\ run'.script \in Nat /\ run'.script <= seq'
          BY <2>3, <3>1, <4>2, <4>4
        <5>2. \A o \in Sessions : run'.script \in DOMAIN work'[o] /\ work'[o][run'.script] # Gone
                => work'[o][run'.script].t = "scripts"
          BY <5>1, <4>6, <4>7, <2>4 DEF Row
        <5> QED BY <5>1, <5>2, <4>7, <2>4 DEF Kind
      <4>9. \A k, t : Kind(k, t) => Kind(k, t)' BY <2>2, KindStays
      <4>10. Kind(run.video, "videos")' 
        <5>1. Kind(run.video, "videos") BY DEF IdInv
        <5>2. Kind(run.video, "videos") => Kind(run'.video, "videos") BY <2>3
        <5> QED BY <4>9, <5>1, <5>2 DEF Kind
      <4>11. Kind(RunId, "pipeline_runs")' BY <4>9 DEF IdInv, RunId
      <4>12. request'.do = "fetch" => Kind(request.id, "uploads")'
        <5>1. request' = request BY <1>d
        <5>2. request.do = "fetch" => Kind(request.id, "uploads") BY DEF IdInv
        <5> QED BY <4>9, <5>1, <5>2 DEF Kind
      <4> QED BY <4>8, <4>10, <4>11, <4>12 DEF IdInv
    <3>2. CASE run.stage # "script"
      <4>1. run'.script = run.script /\ run'.video = run.video /\ request' = request
        BY <3>2, <2>3, <1>d
      <4> QED BY <4>1, <2>2, IdsStay
    <3> QED BY <3>1, <3>2
  <2>7. PlaceInv' BY <2>3, <2>4, <1>0, <1>d, PlaceStays
  <2> QED BY <2>2, <2>4, <2>5, <2>6, <2>7 DEF GoodStep, NoneAdded
<1> QED BY <1>1, <1>2

(* The run row a stage leaves; a stage that has not passed is the last one. *)
LEMMA BookedIs ==
  ASSUME NEW passed \in BOOLEAN
  PROVE  /\ \E of, st : Booked(passed).row = Row("pipeline_runs", of, st)
         /\ Booked(passed).stage # "ended" => passed
BY DEF Booked

(* The end of a stage. *)
LEMMA RunBooksStep ==
  ASSUME BaseInv, NEW passed \in BOOLEAN, RunBooks(passed)
  PROVE  GoodStep
<1> DEFINE out == Booked(passed)
           new == One(RunId, out.row)
<1> USE DEF BaseInv
<1>0. "run" \in Sessions BY DEF Sessions
<1>d. /\ Disturb /\ seq' = seq /\ UNCHANGED <<request, sending, asked, tube>>
      /\ reset'.at = reset.at
      /\ {"at", "next", "scripts", "videos", "uploads", "sent",
         "outcome", "raced"} \subseteq DOMAIN reset'
  BY DisturbKeeps DEF RunBooks, FormInv
<1>1. CASE Rollback("run") /\ run' = Raised(FALSE)
  <2>2. StoreStep BY <1>1, <1>0, <1>d, RollbackStep
  <2>3. run'.script = 0 /\ run'.video = 0 /\ DOMAIN run' = DOMAIN run
    BY <1>1, RunStops
  <2>4. work'["run"] = Nothing /\ rows' = rows /\ \A o \in Sessions \ {"run"} : work'[o] = work[o]
    BY <1>1, <1>0, OthersStay
  <2>5. FormInv' BY <2>3, <1>d DEF FormInv
  <2>6. IdInv' BY <2>2, <2>3, <1>d, IdsStay
  <2>7. PlaceInv' BY <2>4, <1>0, <1>d, PlaceStays
  <2> QED BY <2>2, <2>4, <2>5, <2>6, <2>7 DEF GoodStep, NoneAdded
<1>2. CASE /\ RunId \in DOMAIN See("run") /\ ~Waits("run", new) /\ ~Violates("run", new)
           /\ Commit("run", new)
           /\ run' = IF out.stage = "ended" THEN Ended
                       ELSE [run EXCEPT !.stage = out.stage,
                               !.video = IF run.stage = "rendered"
                                 THEN CHOOSE v \in VideoOf("run", run.script) : TRUE
                                 ELSE @]
  <2>1. PICK of, st : out.row = Row("pipeline_runs", of, st) BY BookedIs
  <2>2. DOMAIN new = {RunId} /\ new[RunId] = out.row BY DEF One
  <2>3. out.row # Gone /\ Typed(out.row) /\ out.row.t = "pipeline_runs"
    BY <2>1, NewRow DEF Tables
  <2>4. RunId \in 1..seq BY <1>2, <1>0, SeeRow DEF StoreInv
  <2>5. StoreStep
    <3>1. Kind(RunId, "pipeline_runs") BY DEF IdInv
    <3> HIDE DEF new, out
    <3>2. Proper("run", new) BY <1>0, <1>2, <2>2, <2>3, <3>1, Checked
    <3> QED BY <3>2, <1>0, <1>2, <1>d, <2>2, <2>4, ProperStep
  <2>6. /\ DOMAIN run' = DOMAIN run
        /\ run'.script = run.script \/ run'.script = 0
        /\ run'.video \in {run.video, 0} \/ Kind(run'.video, "videos")
    <3>1. CASE out.stage = "ended"
      <4>1. run' = Ended BY <3>1, <1>2
      <4> QED BY <4>1, RunStops
    <3>2. CASE out.stage # "ended"
      <4>1. run' = [run EXCEPT !.stage = out.stage,
                               !.video = IF run.stage = "rendered"
                                 THEN CHOOSE v \in VideoOf("run", run.script) : TRUE
                                 ELSE @]
        BY <3>2, <1>2
      <4>2. /\ DOMAIN run' = DOMAIN run /\ run'.script = run.script
            /\ run'.video = IF run.stage = "rendered"
                              THEN CHOOSE v \in VideoOf("run", run.script) : TRUE
                              ELSE run.video
        BY <4>1 DEF FormInv
      <4>3. ASSUME run.stage = "rendered" PROVE Kind(run'.video, "videos")
        <5>1. passed BY <3>2, BookedIs
        <5>2. Rendered BY <5>1, <4>3 DEF RunBooks
        <5>3. run'.video \in VideoOf("run", run.script) BY <5>2, <4>2, <4>3 DEF Rendered
        <5> QED BY <5>3, <1>0, KindOf DEF VideoOf, Of
      <4> QED BY <4>2, <4>3
    <3> QED BY <3>1, <3>2
  <2>7. work'["run"] = Nothing /\ \A o \in Sessions \ {"run"} : work'[o] = work[o]
    BY <1>2, <1>0, OthersStay
  <2>8. FormInv' BY <2>6, <1>d DEF FormInv
  <2>9. IdInv' BY <2>5, <2>6, <1>d, IdsStay
  <2>10. PlaceInv' BY <2>7, <1>0, <1>d, PlaceStays
  <2>11. RunId \in DOMAIN rows' BY <1>0, <1>2, <2>2, <2>3, CommitAdds
  <2> QED BY <2>5, <2>8, <2>9, <2>10, <2>11 DEF GoodStep, NoneAdded
<1> QED BY <1>1, <1>2 DEF RunBooks

(* A dropped connection. *)
LEMMA RunDisconnectsStep ==
  ASSUME BaseInv, RunDisconnects
  PROVE  GoodStep
<1> USE DEF BaseInv
<1>0. "run" \in Sessions BY DEF Sessions
<1>d. /\ seq' = seq /\ UNCHANGED <<request, sending, reset, asked, tube>>
      /\ Rollback("run") /\ run' = Raised(TRUE)
  BY DEF RunDisconnects
<1>2. StoreStep BY <1>0, <1>d, RollbackStep
<1>3. run'.script = 0 /\ run'.video = 0 /\ DOMAIN run' = DOMAIN run BY <1>d, RunStops
<1>4. work'["run"] = Nothing /\ rows' = rows /\ \A o \in Sessions \ {"run"} : work'[o] = work[o]
  BY <1>d, <1>0, OthersStay
<1>5. FormInv' BY <1>3, <1>d DEF FormInv
<1>6. IdInv' BY <1>2, <1>3, <1>d, IdsStay
<1>7. PlaceInv' BY <1>4, <1>0, <1>d, PlaceStays
<1> QED BY <1>2, <1>4, <1>5, <1>6, <1>7 DEF GoodStep, NoneAdded

(* A row a session sees, with another state, may be written. *)
LEMMA RestampedProper ==
  ASSUME StoreInv, NEW s \in Sessions, NEW i \in DOMAIN See(s), NEW st,
         ~Waits(s, One(i, [See(s)[i] EXCEPT !.st = st]))
  PROVE  Proper(s, One(i, [See(s)[i] EXCEPT !.st = st]))
<1> DEFINE q == [See(s)[i] EXCEPT !.st = st]
           new == One(i, q)
<1>1. Fits(See(s), See(s)[i]) BY DEF StoreInv, Sound
<1>2. Typed(See(s)[i]) BY SeenTyped
<1>3. q.t = See(s)[i].t /\ q.of = See(s)[i].of /\ q # Gone /\ Typed(q)
  BY <1>1, <1>2, Restamped DEF Fits
<1>4. DOMAIN new = {i} /\ new[i] = q BY DEF One
<1>5. q.of \subseteq DOMAIN See(s) BY <1>1, <1>3 DEF Fits
<1> HIDE DEF q
<1>6. Stays(s, new) BY <1>3, <1>4 DEF Stays
<1>7. \A o \in Sessions \ {s} : Apart(Over(new, work[s]), work[o]) BY WrittenApart DEF q
<1> HIDE DEF new
<1>8. Proper(s, new) BY <1>3, <1>4, <1>5, <1>6, <1>7, Added
<1> QED BY <1>8 DEF new, q

(* The handler of an exception. *)
LEMMA RunHandlesStep ==
  ASSUME BaseInv, RunHandles
  PROVE  GoodStep
<1> USE DEF BaseInv
<1>0. "run" \in Sessions BY DEF Sessions
<1>d. /\ Disturb /\ seq' = seq /\ UNCHANGED <<request, sending, asked, tube>>
      /\ run.stage = "raised" /\ reset'.at = reset.at
      /\ {"at", "next", "scripts", "videos", "uploads", "sent",
         "outcome", "raced"} \subseteq DOMAIN reset'
  BY DisturbKeeps DEF RunHandles, FormInv
<1>w. work["run"] = Nothing /\ See("run") = rows
  BY <1>0, <1>d, SeeRows DEF PlaceInv, Writing
<1>1. CASE RunId \notin DOMAIN rows
  <2>1. run' = Ended /\ rows' = rows /\ work' = work BY <1>1 DEF RunHandles
  <2>2. StoreStep BY <2>1, <1>d DEF StoreStep, StoreInv
  <2>3. run'.script = 0 /\ run'.video = 0 /\ DOMAIN run' = DOMAIN run BY <2>1, RunStops
  <2>5. FormInv' BY <2>3, <1>d DEF FormInv
  <2>6. IdInv' BY <2>2, <2>3, <1>d, IdsStay
  <2>7. PlaceInv' BY <2>1, <1>w, <1>0, <1>d, PlaceStays
  <2> QED BY <2>1, <2>2, <2>5, <2>6, <2>7 DEF GoodStep, NoneAdded
<1>2. CASE RunId \in DOMAIN rows
  <2> DEFINE st == IF run.again THEN "running" ELSE "failed"
             new == One(RunId, [rows[RunId] EXCEPT !.st = st])
  <2>1. /\ ~Waits("run", new) /\ Commit("run", new)
        /\ run' = IF run.again
                    THEN [run EXCEPT !.stage = "begin", !.again = FALSE, !.attempt = @ + 1]
                    ELSE Ended
    BY <1>2 DEF RunHandles
  <2>2. DOMAIN new = {RunId} BY DEF One
  <2>3. RunId \in 1..seq BY <1>2 DEF StoreInv
  <2>4. Proper("run", new) BY <1>0, <1>2, <1>w, <2>1, RestampedProper
  <2>5. StoreStep BY <2>1, <2>2, <2>3, <2>4, <1>0, <1>d, ProperStep
  <2>6. /\ DOMAIN run' = DOMAIN run
        /\ run'.script = run.script \/ run'.script = 0
        /\ run'.video \in {run.video, 0}
    <3>1. CASE run' = Ended BY <3>1, RunStops
    <3>2. CASE run' = [run EXCEPT !.stage = "begin", !.again = FALSE, !.attempt = @ + 1]
      BY <3>2 DEF FormInv
    <3> QED BY <2>1, <3>1, <3>2
  <2>7. work'["run"] = Nothing /\ \A o \in Sessions \ {"run"} : work'[o] = work[o]
    BY <2>1, <1>0, OthersStay
  <2>8. FormInv' BY <2>6, <1>d DEF FormInv
  <2>9. IdInv' BY <2>5, <2>6, <1>d, IdsStay
  <2>10. PlaceInv' BY <2>7, <1>0, <1>d, PlaceStays
  <2>11. DOMAIN rows' \ DOMAIN rows = {} BY <1>0, <1>w, <1>2, <2>1, <2>2, CommitAddsNew
  <2> QED BY <2>5, <2>8, <2>9, <2>10, <2>11 DEF GoodStep, NoneAdded
<1> QED BY <1>1, <1>2

(* A render's first write: video rows of its script. *)
LEMMA GeneratingFits ==
  ASSUME StoreInv, NEW s \in Sessions, NEW script, Kind(script, "scripts"),
         NEW old \in SUBSET VideoOf(s, script), NEW i \in DOMAIN Generating(s, script, old)
  PROVE  /\ i \in Nat /\ i <= seq + 2
         /\ Generating(s, script, old)[i] = Gone => i \in 1..seq
         /\ Generating(s, script, old)[i] # Gone =>
              /\ Typed(Generating(s, script, old)[i])
              /\ Generating(s, script, old)[i].t = "videos"
              /\ (i \in Nat /\ i > seq) \/ Kind(i, "videos")
<1> DEFINE b == Row("videos", {script}, "generating")
<1>0. seq \in Nat BY DEF StoreInv
<1>1. b # Gone /\ Typed(b) /\ b.t = "videos" BY NewRow DEF Tables, ParentTable
<1>2. \A v \in VideoOf(s, script) : Kind(v, "videos") /\ v \in Nat /\ v \in 1..seq
  BY KindOf, SeeRow DEF VideoOf, Of, Kind, StoreInv
<1>3. CASE VideoOf(s, script) \ old = {}
  <2>1. Generating(s, script, old) = Over(Removing(old), One(seq + 1, b)) BY <1>3 DEF Generating
  <2> HIDE DEF b
  <2>2. \/ i \in old /\ Generating(s, script, old)[i] = Gone
        \/ i = seq + 1 /\ Generating(s, script, old)[i] = b
    BY <2>1 DEF Over, One, Removing
  <2> QED BY <2>2, <1>0, <1>1, <1>2
<1>4. CASE VideoOf(s, script) \ old # {}
  <2>1. Generating(s, script, old) = [v \in VideoOf(s, script) |-> b] BY <1>4 DEF Generating
  <2> HIDE DEF b
  <2>2. i \in VideoOf(s, script) /\ Generating(s, script, old)[i] = b BY <2>1
  <2> QED BY <2>2, <1>0, <1>1, <1>2
<1> QED BY <1>3, <1>4

(* The run's render starts. *)
LEMMA RunRendersStep ==
  ASSUME BaseInv, RunRenders
  PROVE  GoodStep
<1> DEFINE new == Generating("run", run.script, {})
<1> USE DEF BaseInv
<1>0. "run" \in Sessions BY DEF Sessions
<1>d. /\ Disturb /\ UNCHANGED <<request, sending, asked, tube>>
      /\ run.stage = "video" /\ ~Waits("run", new) /\ reset'.at = reset.at
      /\ {"at", "next", "scripts", "videos", "uploads", "sent",
         "outcome", "raced"} \subseteq DOMAIN reset'
  BY DisturbKeeps DEF RunRenders, FormInv
<1>w. work["run"] = Nothing BY <1>d DEF PlaceInv, Writing
<1>1. CASE Violates("run", new)
  <2>1. Rollback("run") /\ run' = Raised(FALSE) /\ seq' = seq BY <1>1 DEF RunRenders
  <2>2. StoreStep BY <2>1, <1>0, RollbackStep
  <2>3. run'.script = 0 /\ run'.video = 0 /\ DOMAIN run' = DOMAIN run BY <2>1, RunStops
  <2>4. work'["run"] = Nothing /\ rows' = rows /\ \A o \in Sessions \ {"run"} : work'[o] = work[o]
    BY <2>1, <1>0, OthersStay
  <2>5. FormInv' BY <2>3, <1>d DEF FormInv
  <2>6. IdInv' BY <2>2, <2>3, <1>d, IdsStay
  <2>7. PlaceInv' BY <2>4, <1>0, <1>d, PlaceStays
  <2> QED BY <2>2, <2>4, <2>5, <2>6, <2>7 DEF GoodStep, NoneAdded
<1>2. CASE ~Violates("run", new)
  <2>1. /\ Commit("run", new) /\ seq' = Largest(DOMAIN new)
        /\ run' = [run EXCEPT !.stage = "rendering"]
    BY <1>2 DEF RunRenders
  <2>2. \A i \in DOMAIN new :
          /\ i \in Nat /\ i <= seq + 2
          /\ new[i] = Gone => i \in 1..seq
          /\ new[i] # Gone => /\ Typed(new[i]) /\ new[i].t = "videos"
                              /\ (i \in Nat /\ i > seq) \/ Kind(i, "videos")
    <3>1. Kind(run.script, "scripts") BY DEF IdInv
    <3> QED BY <3>1, <1>0, GeneratingFits
  <2> HIDE DEF new
  <2>3. StoreStep BY <2>1, <2>2, <1>0, <1>d, <1>2, CheckedStep
  <2>4. DOMAIN run' = DOMAIN run /\ run'.script = run.script /\ run'.video = run.video
    BY <2>1 DEF FormInv
  <2>5. work'["run"] = Nothing /\ \A o \in Sessions \ {"run"} : work'[o] = work[o]
    BY <2>1, <1>0, OthersStay
  <2>6. FormInv' BY <2>4, <1>d DEF FormInv
  <2>7. IdInv' BY <2>3, <2>4, <1>d, IdsStay
  <2>8. PlaceInv' BY <2>5, <1>0, <1>d, PlaceStays
  <2>9. \A i \in DOMAIN rows' \ DOMAIN rows : rows'[i].t = "videos"
    BY <2>1, <2>2, <1>0, <1>w, CommitAddsNew
  <2> QED BY <2>3, <2>6, <2>7, <2>8, <2>9 DEF GoodStep, NoneAdded
<1> QED BY <1>1, <1>2

(* A render's last write restates the rows it finds. *)
LEMMA RenderResultProper ==
  ASSUME StoreInv, NEW s \in Sessions, NEW script, NEW ok,
         ~Waits(s, RenderResult(s, script, ok))
  PROVE  /\ Proper(s, RenderResult(s, script, ok))
         /\ DOMAIN RenderResult(s, script, ok) \subseteq 1..seq
         /\ \A i \in DOMAIN RenderResult(s, script, ok) :
              RenderResult(s, script, ok)[i].t = "videos"
<1> DEFINE b == Row("videos", {script}, IF ok THEN "complete" ELSE "failed")
           new == RenderResult(s, script, ok)
<1>1. DOMAIN new = VideoOf(s, script) /\ \A i \in DOMAIN new : new[i] = b
  BY Zenon DEF RenderResult
<1>2. b # Gone /\ b.t = "videos" /\ b.of = {script} BY NewRow DEF Tables
<1>3. ASSUME NEW i \in DOMAIN new
      PROVE  /\ i \in DOMAIN See(s) /\ See(s)[i].t = "videos" /\ script \in See(s)[i].of
             /\ i \in 1..seq
  BY <1>1, SeeRow DEF VideoOf, Of, StoreInv
<1>4. ASSUME NEW i \in DOMAIN new PROVE Typed(b) /\ b.of \subseteq DOMAIN See(s)
  <2>1. Typed(See(s)[i]) BY <1>3, <1>4, SeenTyped
  <2>2. See(s)[i].of \subseteq DOMAIN See(s) BY <1>3, <1>4 DEF StoreInv, Sound, Fits
  <2>3. Kind(script, "scripts") /\ script \in DOMAIN See(s)
    BY <1>3, <1>4, <2>1, <2>2 DEF Typed, ParentTable
  <2> QED BY <2>3, <1>2, NewRow DEF Tables, ParentTable
<1>5. \A o \in Sessions \ {s} : Apart(Over(new, work[s]), work[o]) BY WrittenApart
<1> HIDE DEF new, b
<1>6. Stays(s, new) BY <1>1, <1>2, <1>3 DEF Stays
<1>7. Proper(s, new) BY <1>1, <1>2, <1>4, <1>5, <1>6, Added
<1> QED BY <1>1, <1>2, <1>3, <1>7 DEF new

(* The run's render ends. *)
LEMMA RunRenderEndsStep ==
  ASSUME BaseInv, NEW ok \in BOOLEAN, RunRenderEnds(ok)
  PROVE  GoodStep
<1> DEFINE new == RenderResult("run", run.script, ok)
<1> USE DEF BaseInv
<1>0. "run" \in Sessions BY DEF Sessions
<1>d. /\ Disturb /\ seq' = seq /\ UNCHANGED <<request, sending, asked, tube>>
      /\ run.stage = "rendering" /\ reset'.at = reset.at
      /\ {"at", "next", "scripts", "videos", "uploads", "sent",
         "outcome", "raced"} \subseteq DOMAIN reset'
  BY DisturbKeeps DEF RunRenderEnds, FormInv
<1>w. work["run"] = Nothing BY <1>d DEF PlaceInv, Writing
<1>1. CASE DOMAIN new = {}
  <2>1. run' = Raised(FALSE) /\ rows' = rows /\ work' = work BY <1>1 DEF RunRenderEnds
  <2>2. StoreStep BY <2>1, <1>d DEF StoreStep, StoreInv
  <2>3. run'.script = 0 /\ run'.video = 0 /\ DOMAIN run' = DOMAIN run BY <2>1, RunStops
  <2>5. FormInv' BY <2>3, <1>d DEF FormInv
  <2>6. IdInv' BY <2>2, <2>3, <1>d, IdsStay
  <2>7. PlaceInv' BY <2>1, <1>w, <1>0, <1>d, PlaceStays
  <2> QED BY <2>1, <2>2, <2>5, <2>6, <2>7 DEF GoodStep, NoneAdded
<1>2. CASE DOMAIN new # {}
  <2>1. ~Waits("run", new) /\ Commit("run", new) /\ run' = [run EXCEPT !.stage = "rendered"]
    BY <1>2 DEF RunRenderEnds
  <2>2. /\ Proper("run", new) /\ DOMAIN new \subseteq 1..seq
        /\ \A i \in DOMAIN new : new[i].t = "videos"
    BY <2>1, <1>0, RenderResultProper
  <2> HIDE DEF new
  <2>3. StoreStep BY <2>1, <2>2, <1>0, <1>d, ProperStep
  <2>4. DOMAIN run' = DOMAIN run /\ run'.script = run.script /\ run'.video = run.video
    BY <2>1 DEF FormInv
  <2>5. work'["run"] = Nothing /\ \A o \in Sessions \ {"run"} : work'[o] = work[o]
    BY <2>1, <1>0, OthersStay
  <2>6. FormInv' BY <2>4, <1>d DEF FormInv
  <2>7. IdInv' BY <2>3, <2>4, <1>d, IdsStay
  <2>8. PlaceInv' BY <2>5, <1>0, <1>d, PlaceStays
  <2>9. \A i \in DOMAIN rows' \ DOMAIN rows : rows'[i].t = "videos"
    BY <2>1, <2>2, <1>0, <1>w, CommitAddsNew
  <2> QED BY <2>3, <2>6, <2>7, <2>8, <2>9 DEF GoodStep, NoneAdded
<1> QED BY <1>1, <1>2

(* The publisher takes an upload. *)
LEMMA TakesStep ==
  ASSUME BaseInv, NEW u, Takes(u)
  PROVE  GoodStep
<1> DEFINE new == One(u, [rows[u] EXCEPT !.st = "uploading"])
<1> USE DEF BaseInv
<1>0. "publisher" \in Sessions BY DEF Sessions
<1>d. /\ Disturb /\ UNCHANGED <<seq, run, request, asked, tube>> /\ sending = 0 /\ sending' = u
      /\ ~Waits("publisher", new) /\ Flush("publisher", new) /\ reset'.at = reset.at
      /\ {"at", "next", "scripts", "videos", "uploads", "sent",
         "outcome", "raced"} \subseteq DOMAIN reset'
  BY DisturbKeeps DEF Takes, FormInv
<1>w. work["publisher"] = Nothing /\ See("publisher") = rows
  BY <1>0, <1>d, SeeRows DEF PlaceInv
<1>1. u \in DOMAIN rows /\ rows[u].t = "uploads" BY <1>w DEF Takes, In
<1>2. DOMAIN new = {u} /\ new[u] = [rows[u] EXCEPT !.st = "uploading"] BY DEF One
<1>3. Proper("publisher", new) BY <1>0, <1>d, <1>w, <1>1, RestampedProper
<1>4. u \in 1..seq BY <1>1 DEF StoreInv
<1>5. StoreStep BY <1>0, <1>d, <1>2, <1>3, <1>4, ProperStep
<1>6. new[u].t = "uploads"
  <2>1. Whole(rows[u]) BY <1>1 DEF StoreInv, Sound, Fits
  <2>2. [rows[u] EXCEPT !.st = "uploading"].t = rows[u].t BY <2>1, Restamped
  <2> QED BY <2>2, <1>1, <1>2
<1> HIDE DEF new
<1>7. /\ rows' = rows /\ work'["publisher"] = Over(new, Nothing)
      /\ \A o \in Sessions \ {"publisher"} : work'[o] = work[o]
  BY <1>0, <1>d, <1>w, OthersStay
<1>8. DOMAIN work'["publisher"] = {u} /\ work'["publisher"][u].t = "uploads"
  BY <1>2, <1>6, <1>7 DEF Over, Nothing
<1>9. FormInv' BY <1>d DEF FormInv
<1>10. IdInv' BY <1>5, <1>d, IdsStay
<1>11. PlaceInv'
  <2>1. sending' # 0 BY <1>4, <1>d DEF StoreInv
  <2> QED BY <2>1, <1>0, <1>7, <1>8, <1>d, PlaceStays
<1> QED BY <1>5, <1>7, <1>9, <1>10, <1>11 DEF GoodStep, NoneAdded

(* The upload endpoint makes an upload for a finished video. *)
LEMMA TriggersStep ==
  ASSUME BaseInv, NEW v, Triggers(v)
  PROVE  GoodStep
<1> DEFINE r == Row("uploads", {v}, "uploading")
           new == One(seq + 1, r)
<1> USE DEF BaseInv
<1>0. "publisher" \in Sessions /\ seq \in Nat BY DEF Sessions, StoreInv
<1>d. /\ Disturb /\ UNCHANGED <<run, request, tube>> /\ sending = 0 /\ sending' = seq + 1
      /\ seq' = seq + 1
      /\ ~Waits("publisher", new) /\ Flush("publisher", new) /\ reset'.at = reset.at
      /\ {"at", "next", "scripts", "videos", "uploads", "sent",
         "outcome", "raced"} \subseteq DOMAIN reset'
  BY DisturbKeeps DEF Triggers, FormInv
<1>w. work["publisher"] = Nothing BY <1>d DEF PlaceInv
<1>1. v \in DOMAIN See("publisher") /\ See("publisher")[v].t = "videos" BY DEF Triggers, In
<1>2. DOMAIN new = {seq + 1} /\ new[seq + 1] = r BY DEF One
<1>3. r # Gone /\ Typed(r) /\ r.t = "uploads" /\ r.of = {v}
  <2>1. Kind(v, "videos") BY <1>0, <1>1, KindOf
  <2> QED BY <2>1, NewRow DEF Tables, ParentTable
<1>4. \A o \in Sessions \ {"publisher"} : Apart(Over(new, work["publisher"]), work[o])
  BY <1>0, <1>d, WrittenApart
<1> HIDE DEF r, new
<1>5. Proper("publisher", new)
  <2>1. Stays("publisher", new) BY <1>0, <1>2 DEF Stays
  <2> QED BY <2>1, <1>0, <1>1, <1>2, <1>3, <1>4, Added
<1>6. StoreStep
  <2>1. seq' \in Nat /\ seq <= seq' /\ DOMAIN new \subseteq 1..seq' BY <1>0, <1>2, <1>d
  <2> QED BY <2>1, <1>0, <1>5, <1>d DEF StoreStep
<1>7. /\ rows' = rows /\ work'["publisher"] = Over(new, Nothing)
      /\ \A o \in Sessions \ {"publisher"} : work'[o] = work[o]
  BY <1>0, <1>d, <1>w, OthersStay
<1>8. DOMAIN work'["publisher"] = {seq + 1} /\ work'["publisher"][seq + 1].t = "uploads"
  BY <1>2, <1>3, <1>7 DEF Over, Nothing
<1>9. FormInv' BY <1>d DEF FormInv
<1>10. IdInv' BY <1>6, <1>d, IdsStay
<1>11. PlaceInv'
  <2>1. sending' # 0 BY <1>0, <1>d
  <2> QED BY <2>1, <1>0, <1>7, <1>8, <1>d, PlaceStays
<1> QED BY <1>6, <1>7, <1>9, <1>10, <1>11 DEF GoodStep, NoneAdded

(* YouTube's answer: the row that is locked gets its last state. *)
LEMMA AnswersStep ==
  ASSUME BaseInv, NEW ok \in BOOLEAN, Answers(ok)
  PROVE  GoodStep
<1> DEFINE r == work["publisher"][sending]
           q == [r EXCEPT !.st = IF ok THEN "published" ELSE "failed"]
           new == One(sending, q)
<1> USE DEF BaseInv
<1>0. "publisher" \in Sessions BY DEF Sessions
<1>d. /\ Disturb /\ UNCHANGED <<seq, run, request, asked>> /\ sending # 0 /\ sending' = 0
      /\ Commit("publisher", new) /\ reset'.at = reset.at
      /\ {"at", "next", "scripts", "videos", "uploads", "sent",
         "outcome", "raced"} \subseteq DOMAIN reset'
  BY DisturbKeeps DEF Answers, FormInv
<1>1. DOMAIN work["publisher"] = {sending} /\ r.t = "uploads" BY <1>d DEF PlaceInv
<1>2. r # Gone BY <1>1 DEF Gone, Row
<1>3. sending \in DOMAIN See("publisher") /\ See("publisher")[sending] = r
  BY <1>0, <1>1, <1>2, SeeRow
<1>4. Fits(See("publisher"), r) BY <1>0, <1>3 DEF StoreInv, Sound
<1>5. q.t = r.t /\ q.of = r.of /\ q # Gone /\ Typed(q)
  BY <1>0, <1>3, <1>4, SeenTyped, Restamped DEF Fits
<1>6. DOMAIN new = {sending} /\ new[sending] = q BY DEF One
<1>7. DOMAIN Over(new, work["publisher"]) = {sending} /\ Over(new, work["publisher"])[sending] = q
  BY <1>1, <1>6 DEF Over
<1>8. sending \in 1..seq BY <1>0, <1>1 DEF StoreInv
<1>s. \A i : NewRefs(i, q) = NewRefs(i, r) BY <1>5 DEF NewRefs
<1> HIDE DEF q, new, r
<1>9. \A o \in Sessions \ {"publisher"} : Apart(Over(new, work["publisher"]), work[o])
  <2> SUFFICES ASSUME NEW o \in Sessions \ {"publisher"}
               PROVE  Apart(Over(new, work["publisher"]), work[o])
    OBVIOUS
  <2>1. Apart(work["publisher"], work[o]) BY <1>0 DEF StoreInv
  <2> QED BY <2>1, <1>1, <1>2, <1>5, <1>7, <1>s DEF Apart, r
<1>10. Proper("publisher", new)
  <2>1. Stays("publisher", new) BY <1>3, <1>5, <1>6 DEF Stays
  <2>2. q.of \subseteq DOMAIN See("publisher") BY <1>4, <1>5 DEF Fits
  <2> QED BY <2>1, <2>2, <1>0, <1>5, <1>6, <1>9, Added
<1>11. StoreStep BY <1>0, <1>d, <1>6, <1>8, <1>10, ProperStep DEF new, q, r
<1>12. work'["publisher"] = Nothing /\ \A o \in Sessions \ {"publisher"} : work'[o] = work[o]
  BY <1>0, <1>d, OthersStay
<1>13. FormInv' BY <1>d DEF FormInv
<1>14. IdInv' BY <1>11, <1>d, IdsStay
<1>15. PlaceInv' BY <1>0, <1>12, <1>d, PlaceStays
<1>16. \A i \in DOMAIN rows' \ DOMAIN rows : rows'[i].t = "uploads"
  BY <1>0, <1>1, <1>5, <1>7, <1>d, CommitAdds
<1> QED BY <1>11, <1>13, <1>14, <1>15, <1>16 DEF GoodStep, NoneAdded

(* A request that is one transaction. *)
LEMMA AsksStep ==
  ASSUME BaseInv, NEW new, Asks(new),
         \A i \in DOMAIN new :
           /\ i \in Nat /\ i <= seq + 2
           /\ new[i] = Gone => i \in 1..seq
           /\ new[i] # Gone =>
                /\ Typed(new[i]) /\ new[i].t \notin {"scripts", "quality_reports", "voices"}
                /\ (i \in Nat /\ i > seq) \/ Kind(i, new[i].t),
         request' = request \/ request'.do # "fetch" \/ Kind(request'.id, "uploads")
  PROVE  GoodStep
<1> USE DEF BaseInv
<1>0. "request" \in Sessions BY DEF Sessions
<1>d. /\ Disturb /\ UNCHANGED <<run, sending, tube>> /\ reset'.at = reset.at
      /\ seq' = Largest(DOMAIN new) /\ ~Waits("request", new) /\ ~Violates("request", new)
      /\ Commit("request", new)
      /\ {"at", "next", "scripts", "videos", "uploads", "sent",
         "outcome", "raced"} \subseteq DOMAIN reset'
  BY DisturbKeeps DEF Asks, FormInv
<1>1. StoreStep BY <1>0, <1>d, CheckedStep
<1>2. work'["request"] = Nothing /\ \A o \in Sessions \ {"request"} : work'[o] = work[o]
  BY <1>0, <1>d, OthersStay
<1>3. FormInv' BY <1>d DEF FormInv
<1>4. IdInv' BY <1>1, <1>d, IdsStay
<1>5. PlaceInv' BY <1>0, <1>2, <1>d, PlaceStays
<1>6. \A i \in DOMAIN rows' \ DOMAIN rows :
        rows'[i].t \notin {"scripts", "quality_reports", "voices"}
  BY <1>0, <1>d, CommitAddsNew DEF PlaceInv
<1> QED BY <1>1, <1>3, <1>4, <1>5, <1>6 DEF GoodStep, NoneAdded

(* A storyboard or a thumbnail. *)
LEMMA IllustratesStep ==
  ASSUME BaseInv, NEW t, NEW s, Illustrates(t, s)
  PROVE  GoodStep
<1> DEFINE r == Row(t, {s}, "complete")
           new == One(seq + 1, r)
<1>0. "request" \in Sessions /\ seq \in Nat BY DEF Sessions, BaseInv, StoreInv
<1>1. /\ t \in {"storyboards", "thumbnails"} /\ Asks(new) /\ request' = request
      /\ s \in DOMAIN See("request") /\ See("request")[s].t = "scripts"
  BY DEF Illustrates, In
<1>2. Kind(s, "scripts") BY <1>0, <1>1, KindOf DEF BaseInv
<1>3. Typed(r) /\ r.t = t BY <1>1, <1>2, NewRow DEF Tables, ParentTable
<1>4. r # Gone BY <1>1, <1>3 DEF Gone, Row
<1>5. DOMAIN new = {seq + 1} /\ new[seq + 1] = r BY DEF One
<1> HIDE DEF new, r
<1> QED BY <1>0, <1>1, <1>3, <1>4, <1>5, AsksStep

(* A removal. *)
LEMMA RemovingIs ==
  ASSUME NEW ids
  PROVE  DOMAIN Removing(ids) = ids /\ \A i \in ids : Removing(ids)[i] = Gone
BY DEF Removing

(* The delete endpoints. *)
LEMMA DeletesStep ==
  ASSUME BaseInv, NEW i, Deletes(i)
  PROVE  GoodStep
<1> DEFINE ids == {i} \cup (IF rows[i].t = "uploads" THEN Of("request", "analytics", {i}) ELSE {})
           new == Removing(ids)
<1>0. "request" \in Sessions /\ seq \in Nat BY DEF Sessions, BaseInv, StoreInv
<1>1. i \in DOMAIN rows /\ Asks(new) /\ request' = request BY DEF Deletes
<1>2. \A j \in ids : j \in 1..seq
  <2>1. i \in 1..seq BY <1>1 DEF BaseInv, StoreInv
  <2>2. \A j \in Of("request", "analytics", {i}) : j \in 1..seq
    BY <1>0, SeeRow DEF Of, BaseInv, StoreInv
  <2> QED BY <2>1, <2>2
<1>3. DOMAIN new = ids /\ \A j \in ids : new[j] = Gone BY RemovingIs
<1> HIDE DEF ids, new
<1> QED BY <1>0, <1>1, <1>2, <1>3, AsksStep

(* A video request starts. *)
LEMMA RendersStep ==
  ASSUME BaseInv, NEW s, NEW force, Renders(s, force)
  PROVE  GoodStep
<1> DEFINE old == VideoOf("request", s)
           new == Generating("request", s, old)
<1>0. "request" \in Sessions /\ seq \in Nat BY DEF Sessions, BaseInv, StoreInv
<1>1. /\ Asks(new) /\ request' = [do |-> "render", id |-> 0, script |-> s]
      /\ s \in DOMAIN See("request") /\ See("request")[s].t = "scripts"
  BY DEF Renders, In
<1>2. Kind(s, "scripts") BY <1>0, <1>1, KindOf DEF BaseInv
<1>3. \A i \in DOMAIN new :
        /\ i \in Nat /\ i <= seq + 2
        /\ new[i] = Gone => i \in 1..seq
        /\ new[i] # Gone => /\ Typed(new[i]) /\ new[i].t = "videos"
                            /\ (i \in Nat /\ i > seq) \/ Kind(i, "videos")
  BY <1>0, <1>2, GeneratingFits DEF BaseInv
<1>4. request'.do # "fetch" BY <1>1
<1> HIDE DEF new
<1> QED BY <1>1, <1>3, <1>4, AsksStep

(* A video request ends. *)
LEMMA RenderDoneStep ==
  ASSUME BaseInv, NEW ok \in BOOLEAN, RenderDone(ok)
  PROVE  GoodStep
<1> DEFINE new == RenderResult("request", request.script, ok)
<1> USE DEF BaseInv
<1>0. "request" \in Sessions BY DEF Sessions
<1>d. /\ Disturb /\ UNCHANGED <<seq, run, sending, asked, tube>> /\ reset'.at = reset.at
      /\ request' = NoRequest /\ ~Waits("request", new) /\ Commit("request", new)
      /\ {"at", "next", "scripts", "videos", "uploads", "sent",
         "outcome", "raced"} \subseteq DOMAIN reset'
  BY DisturbKeeps DEF RenderDone, FormInv
<1>w. work["request"] = Nothing BY DEF PlaceInv
<1>2. /\ Proper("request", new) /\ DOMAIN new \subseteq 1..seq
      /\ \A i \in DOMAIN new : new[i].t = "videos"
  BY <1>d, <1>0, RenderResultProper
<1> HIDE DEF new
<1>3. StoreStep BY <1>2, <1>0, <1>d, ProperStep
<1>4. work'["request"] = Nothing /\ \A o \in Sessions \ {"request"} : work'[o] = work[o]
  BY <1>0, <1>d, OthersStay
<1>5. FormInv' BY <1>d DEF FormInv
<1>6. request'.do # "fetch" BY <1>d DEF NoRequest
<1>7. IdInv' BY <1>3, <1>6, <1>d, IdsStay
<1>8. PlaceInv' BY <1>0, <1>4, <1>d, PlaceStays
<1>9. \A i \in DOMAIN rows' \ DOMAIN rows : rows'[i].t = "videos"
  BY <1>2, <1>0, <1>d, <1>w, CommitAddsNew
<1> QED BY <1>3, <1>5, <1>7, <1>8, <1>9 DEF GoodStep, NoneAdded

(* The analytics request reads its upload. *)
LEMMA FetchReadsStep ==
  ASSUME BaseInv, NEW u, FetchReads(u)
  PROVE  GoodStep
<1>0. "request" \in Sessions BY DEF Sessions
<1>1. /\ Asks(Nothing) /\ request' = [do |-> "fetch", id |-> u, script |-> 0]
      /\ u \in DOMAIN See("request") /\ See("request")[u].t = "uploads"
  BY DEF FetchReads, In
<1>2. Kind(u, "uploads") BY <1>0, <1>1, KindOf DEF BaseInv
<1>3. DOMAIN Nothing = {} /\ request'.id = u BY <1>1 DEF Nothing
<1> QED BY <1>1, <1>2, <1>3, AsksStep

(* It saves what it was told. *)
LEMMA FetchSavesStep ==
  ASSUME BaseInv, FetchSaves
  PROVE  GoodStep
<1> DEFINE r == Row("analytics", {request.id}, "snapshot")
           new == One(seq + 1, r)
<1> USE DEF BaseInv
<1>0. "request" \in Sessions /\ seq \in Nat BY DEF Sessions, StoreInv
<1>d. /\ Disturb /\ UNCHANGED <<run, sending, asked, tube>> /\ reset'.at = reset.at
      /\ request' = NoRequest /\ request.do = "fetch" /\ ~Waits("request", new)
      /\ {"at", "next", "scripts", "videos", "uploads", "sent",
         "outcome", "raced"} \subseteq DOMAIN reset'
  BY DisturbKeeps DEF FetchSaves, FormInv
<1>w. work["request"] = Nothing BY DEF PlaceInv
<1>n. request'.do # "fetch" BY <1>d DEF NoRequest
<1>f. FormInv' BY <1>d DEF FormInv
<1>1. CASE Violates("request", new)
  <2>1. Rollback("request") /\ seq' = seq BY <1>1 DEF FetchSaves
  <2>2. StoreStep BY <2>1, <1>0, RollbackStep
  <2>3. /\ work'["request"] = Nothing /\ rows' = rows
        /\ \A o \in Sessions \ {"request"} : work'[o] = work[o]
    BY <2>1, <1>0, OthersStay
  <2>4. IdInv' BY <2>2, <1>n, <1>d, IdsStay
  <2>5. PlaceInv' BY <2>3, <1>0, <1>d, PlaceStays
  <2> QED BY <2>2, <2>3, <2>4, <2>5, <1>f DEF GoodStep, NoneAdded
<1>2. CASE ~Violates("request", new)
  <2>1. Commit("request", new) /\ seq' = seq + 1 BY <1>2 DEF FetchSaves
  <2>2. DOMAIN new = {seq + 1} /\ new[seq + 1] = r BY DEF One
  <2>3. Typed(r) /\ r # Gone /\ r.t = "analytics"
    <3>1. Kind(request.id, "uploads") BY <1>d DEF IdInv
    <3> QED BY <3>1, NewRow DEF Tables, ParentTable
  <2> HIDE DEF r, new
  <2>4. Proper("request", new) BY <1>0, <1>2, <1>d, <2>2, <2>3, Checked
  <2>5. StoreStep
    <3>1. seq' \in Nat /\ seq <= seq' /\ DOMAIN new \subseteq 1..seq' BY <1>0, <2>1, <2>2
    <3> QED BY <3>1, <1>0, <2>1, <2>4 DEF StoreStep
  <2>6. work'["request"] = Nothing /\ \A o \in Sessions \ {"request"} : work'[o] = work[o]
    BY <2>1, <1>0, OthersStay
  <2>7. IdInv' BY <2>5, <1>n, <1>d, IdsStay
  <2>8. PlaceInv' BY <2>6, <1>0, <1>d, PlaceStays
  <2>9. \A i \in DOMAIN rows' \ DOMAIN rows : rows'[i].t = "analytics"
    BY <2>1, <2>2, <2>3, <1>0, <1>w, CommitAddsNew
  <2> QED BY <2>5, <2>7, <2>8, <2>9, <1>f DEF GoodStep, NoneAdded
<1> QED BY <1>1, <1>2

(* The deletion everywhere asks YouTube. *)
LEMMA EverywhereAsksStep ==
  ASSUME BaseInv, NEW u, EverywhereAsks(u)
  PROVE  GoodStep
<1> USE DEF BaseInv
<1>0. "request" \in Sessions BY DEF Sessions
<1>1. /\ rows' = rows /\ work' = work /\ seq' = seq /\ run' = run /\ sending' = sending
      /\ reset' = reset /\ request' = [do |-> "everywhere", id |-> u, script |-> 0]
  BY DEF EverywhereAsks
<1>2. StoreStep BY <1>1 DEF StoreStep, StoreInv
<1>3. request'.do # "fetch" BY <1>1
<1>4. FormInv' BY <1>1 DEF FormInv
<1>5. IdInv' BY <1>1, <1>2, <1>3, IdsStay
<1>6. PlaceInv' BY <1>1 DEF PlaceInv
<1> QED BY <1>1, <1>2, <1>4, <1>5, <1>6 DEF GoodStep, NoneAdded

(* Then it removes the local row. *)
LEMMA EverywhereDeletesStep ==
  ASSUME BaseInv, EverywhereDeletes
  PROVE  GoodStep
<1> DEFINE ids == {i \in {request.id} : request.id \in DOMAIN rows}
                    \cup Of("request", "analytics", {request.id})
           new == Removing(ids)
<1> USE DEF BaseInv
<1>0. "request" \in Sessions /\ seq \in Nat BY DEF Sessions, StoreInv
<1>d. /\ Disturb /\ seq' = seq /\ UNCHANGED <<run, sending, asked, tube>> /\ reset'.at = reset.at
      /\ request' = NoRequest /\ ~Waits("request", new)
      /\ {"at", "next", "scripts", "videos", "uploads", "sent",
         "outcome", "raced"} \subseteq DOMAIN reset'
  BY DisturbKeeps DEF EverywhereDeletes, FormInv
<1>w. work["request"] = Nothing BY DEF PlaceInv
<1>n. request'.do # "fetch" BY <1>d DEF NoRequest
<1>f. FormInv' BY <1>d DEF FormInv
<1>1. CASE Violates("request", new) /\ Rollback("request")
  <2>2. StoreStep BY <1>1, <1>0, <1>d, RollbackStep
  <2>3. /\ work'["request"] = Nothing /\ rows' = rows
        /\ \A o \in Sessions \ {"request"} : work'[o] = work[o]
    BY <1>1, <1>0, OthersStay
  <2>4. IdInv' BY <2>2, <1>n, <1>d, IdsStay
  <2>5. PlaceInv' BY <2>3, <1>0, <1>d, PlaceStays
  <2> QED BY <2>2, <2>3, <2>4, <2>5, <1>f DEF GoodStep, NoneAdded
<1>2. CASE ~Violates("request", new) /\ Commit("request", new)
  <2>2. DOMAIN new = ids /\ \A i \in DOMAIN new : new[i] = Gone BY RemovingIs
  <2>3. DOMAIN new \subseteq 1..seq
    <3>1. \A j \in Of("request", "analytics", {request.id}) : j \in 1..seq
      BY <1>0, SeeRow DEF Of, StoreInv
    <3>2. request.id \in DOMAIN rows => request.id \in 1..seq BY DEF StoreInv
    <3> QED BY <2>2, <3>1, <3>2
  <2> HIDE DEF ids, new
  <2>4. Proper("request", new) BY <1>0, <1>2, <1>d, <2>2, Checked
  <2>5. StoreStep BY <2>3, <2>4, <1>0, <1>2, <1>d, ProperStep
  <2>6. work'["request"] = Nothing /\ \A o \in Sessions \ {"request"} : work'[o] = work[o]
    BY <1>2, <1>0, OthersStay
  <2>7. IdInv' BY <2>5, <1>n, <1>d, IdsStay
  <2>8. PlaceInv' BY <2>6, <1>0, <1>d, PlaceStays
  <2>9. DOMAIN rows' \ DOMAIN rows = {} BY <1>2, <2>2, <1>0, <1>w, CommitAddsNew
  <2> QED BY <2>5, <2>7, <2>8, <2>9, <1>f DEF GoodStep, NoneAdded
<1> QED BY <1>1, <1>2 DEF EverywhereDeletes

(* The reset's statements remove rows it sees. *)
LEMMA DoomedSeen ==
  ASSUME StoreInv, NEW t \in Tables
  PROVE  Doomed(t) \subseteq DOMAIN See("reset")
<1>1. CASE t = "pipeline_runs" BY <1>1 DEF Doomed, In
<1>2. CASE t = "analytics" BY <1>2 DEF Doomed, Of
<1>3. CASE t = "uploads" BY <1>3 DEF Doomed, Of
<1>4. CASE t = "videos" BY <1>4 DEF Doomed, In
<1>5. CASE t = "scripts" BY <1>5 DEF Doomed, In
<1>6. CASE t \notin {"pipeline_runs", "analytics", "uploads", "videos", "scripts"}
  <2>1. Doomed(t) = Of("reset", t, reset.scripts) BY <1>6 DEF Doomed
  <2> QED BY <2>1 DEF Of
<1> QED BY <1>1, <1>2, <1>3, <1>4, <1>5, <1>6

(* Each statement is about one table. *)
LEMMA OrderIs ==
  /\ ResetOrder = <<"pipeline_runs", "analytics", "uploads", "storyboards", "quality_reports",
                    "thumbnails", "voices", "videos", "scripts">>
  /\ Len(ResetOrder) = 9 /\ \A k \in 1..9 : ResetOrder[k] \in Tables
<1>1. ResetOrder = <<"pipeline_runs", "analytics", "uploads", "storyboards", "quality_reports",
                     "thumbnails", "voices", "videos", "scripts">>
  BY DEF ResetOrder
<1>2. Len(ResetOrder) = 9 BY <1>1
<1>3. \A k \in 1..9 : k = 1 \/ k = 2 \/ k = 3 \/ k = 4 \/ k = 5 \/ k = 6 \/ k = 7 \/ k = 8 \/ k = 9
  OBVIOUS
<1>4. \A k \in 1..9 : ResetOrder[k] \in Tables BY <1>1, <1>3 DEF Tables
<1> QED BY <1>1, <1>2, <1>4

\* Where the reset's statements are.
NextInv == reset.next \in 1..10

(* The end of a reset, and its next statement. *)
LEMMA ResetMoves ==
  ASSUME FormInv, NEW outcome
  PROVE  /\ ResetEnds(outcome) =>
              /\ reset'.at = "idle" /\ reset'.next = 1 /\ reset'.outcome = outcome
              /\ DOMAIN reset' = DOMAIN reset
         /\ reset' = [reset EXCEPT !.next = @ + 1] =>
              /\ reset'.at = reset.at /\ reset'.next = reset.next + 1
              /\ reset'.raced = reset.raced /\ reset'.scripts = reset.scripts
              /\ reset'.videos = reset.videos /\ reset'.uploads = reset.uploads
              /\ DOMAIN reset' = DOMAIN reset
BY DEF FormInv, ResetEnds

(* One statement of the reset. *)
LEMMA ResetDeletesStep ==
  ASSUME BaseInv, NextInv, ResetDeletes
  PROVE  GoodStep
<1> DEFINE t == ResetOrder[reset.next]
           new == ResetStatement
<1> USE DEF BaseInv
<1>0. "reset" \in Sessions /\ seq \in Nat BY DEF Sessions, StoreInv
<1>d. /\ reset.at = "delete" /\ reset.next <= 9 /\ ~Waits("reset", new)
      /\ seq' = seq /\ UNCHANGED <<run, request, sending, asked, tube>>
  BY OrderIs DEF ResetDeletes, Deleting
<1>t. t \in Tables BY <1>d, OrderIs DEF NextInv
<1>1. CASE Rollback("reset") /\ ResetEnds("failed")
  <2>1. reset'.at = "idle" /\ DOMAIN reset' = DOMAIN reset BY <1>1, ResetMoves
  <2>2. StoreStep BY <1>1, <1>0, <1>d, RollbackStep
  <2>3. /\ work'["reset"] = Nothing /\ rows' = rows
        /\ \A o \in Sessions \ {"reset"} : work'[o] = work[o]
    BY <1>1, <1>0, OthersStay
  <2>4. FormInv' BY <2>1, <1>d DEF FormInv
  <2>5. IdInv' BY <2>2, <1>d, IdsStay
  <2>6. PlaceInv' BY <2>1, <2>3, <1>0, <1>d, PlaceStays DEF Nothing
  <2> QED BY <2>2, <2>3, <2>4, <2>5, <2>6 DEF GoodStep, NoneAdded
<1>2. CASE /\ ~Violates("reset", new) /\ Flush("reset", new)
           /\ reset' = [reset EXCEPT !.next = @ + 1]
  <2>1. reset'.at = reset.at /\ DOMAIN reset' = DOMAIN reset BY <1>2, ResetMoves
  <2>2. DOMAIN new = Doomed(t) /\ \A i \in DOMAIN new : new[i] = Gone
    BY RemovingIs DEF ResetStatement
  <2>3. DOMAIN new \subseteq 1..seq
    <3>1. \A i \in DOMAIN See("reset") : i \in 1..seq BY <1>0, SeeRow DEF StoreInv
    <3> QED BY <3>1, <2>2, <1>t, DoomedSeen
  <2> HIDE DEF new
  <2>4. Proper("reset", new) BY <1>0, <1>2, <1>d, <2>2, Checked
  <2>5. StoreStep BY <2>3, <2>4, <1>0, <1>2, <1>d, ProperStep
  <2>6. /\ rows' = rows /\ work'["reset"] = Over(new, work["reset"])
        /\ \A o \in Sessions \ {"reset"} : work'[o] = work[o]
    BY <1>2, <1>0, OthersStay
  <2>7. \A i \in DOMAIN work'["reset"] : work'["reset"][i] = Gone
    BY <2>2, <2>6 DEF Over, PlaceInv
  <2>8. FormInv' BY <2>1, <1>d DEF FormInv
  <2>9. IdInv' BY <2>5, <1>d, IdsStay
  <2>10. PlaceInv' BY <2>1, <2>6, <2>7, <1>0, <1>d, PlaceStays
  <2> QED BY <2>5, <2>6, <2>8, <2>9, <2>10 DEF GoodStep, NoneAdded
<1> QED BY <1>1, <1>2 DEF ResetDeletes

(* The reset's commit. *)
LEMMA ResetCommitsStep ==
  ASSUME BaseInv, ResetCommits
  PROVE  GoodStep
<1> USE DEF BaseInv
<1>0. "reset" \in Sessions BY DEF Sessions
<1>d. /\ Commit("reset", Nothing) /\ ResetEnds("done")
      /\ seq' = seq /\ UNCHANGED <<run, request, sending, asked, tube>>
  BY DEF ResetCommits
<1>1. reset'.at = "idle" /\ DOMAIN reset' = DOMAIN reset BY <1>d, ResetMoves
<1>n. DOMAIN Nothing = {} BY DEF Nothing
<1>o. Over(Nothing, work["reset"]) = [i \in DOMAIN work["reset"] |-> work["reset"][i]]
  BY <1>n DEF Over
<1>2. Proper("reset", Nothing)
  <2>1. Stays("reset", Nothing) BY <1>n DEF Stays
  <2>2. ASSUME NEW o \in Sessions \ {"reset"} PROVE Apart(Over(Nothing, work["reset"]), work[o])
    <3>1. Apart(work["reset"], work[o]) BY <1>0 DEF StoreInv
    <3> QED BY <3>1, <1>o DEF Apart
  <2>3. Sound(Kept(Over(Nothing, Over(work["reset"], rows))))
    <3>1. Over(Nothing, Over(work["reset"], rows)) = Over(work["reset"], rows) BY <1>n DEF Over
    <3> QED BY <3>1, <1>0 DEF StoreInv, See
  <2> QED BY <2>1, <2>2, <2>3 DEF Proper
<1>3. StoreStep BY <1>0, <1>2, <1>d, <1>n, ProperStep
<1>4. work'["reset"] = Nothing /\ \A o \in Sessions \ {"reset"} : work'[o] = work[o]
  BY <1>0, <1>d, OthersStay
<1>5. FormInv' BY <1>1, <1>d DEF FormInv
<1>6. IdInv' BY <1>3, <1>d, IdsStay
<1>7. PlaceInv' BY <1>0, <1>1, <1>4, <1>d, <1>n, PlaceStays
<1>8. DOMAIN rows' \ DOMAIN rows = {}
  <2>1. SUFFICES ASSUME NEW i \in DOMAIN rows' \ DOMAIN rows PROVE FALSE OBVIOUS
  <2>2. i \in DOMAIN work["reset"] /\ rows'[i] = work["reset"][i] /\ rows'[i] # Gone
    BY <1>0, <1>d, <1>o, CommitAdds
  <2> QED BY <2>2 DEF PlaceInv
<1> QED BY <1>3, <1>5, <1>6, <1>7, <1>8 DEF GoodStep, NoneAdded

(* The steps of the reset that touch no row. *)
LEMMA ResetReadsStep ==
  ASSUME BaseInv,
         ResetStarts \/ ResetReads \/ \E refused \in SUBSET reset.sent : ResetYouTube(refused)
  PROVE  GoodStep
<1> USE DEF BaseInv
<1>0. "reset" \in Sessions BY DEF Sessions
<1>1. /\ rows' = rows /\ work' = work /\ seq' = seq /\ run' = run /\ request' = request
      /\ sending' = sending
  BY DEF ResetStarts, ResetReads, ResetYouTube
<1>2. reset.at \in {"idle", "scripts", "videos", "uploads", "youtube"}
      /\ DOMAIN reset' = DOMAIN reset
  <2>1. CASE ResetStarts BY <2>1 DEF ResetStarts
  <2>2. CASE ResetReads
    <3>1. CASE reset.at = "scripts" BY <2>2, <3>1 DEF ResetReads
    <3>2. CASE reset.at = "videos" BY <2>2, <3>2 DEF ResetReads
    <3>3. CASE reset.at = "uploads" BY <2>2, <3>3 DEF ResetReads
    <3> QED BY <2>2, <3>1, <3>2, <3>3 DEF ResetReads
  <2>3. CASE \E refused \in SUBSET reset.sent : ResetYouTube(refused) BY <2>3 DEF ResetYouTube
  <2> QED BY <2>1, <2>2, <2>3
<1>3. work["reset"] = Nothing BY <1>2 DEF PlaceInv
<1>4. StoreStep BY <1>1 DEF StoreStep, StoreInv
<1>5. FormInv' BY <1>1, <1>2 DEF FormInv
<1>6. IdInv' BY <1>1, <1>4, IdsStay
<1>7. PlaceInv' BY <1>0, <1>1, <1>3, PlaceStays DEF Nothing
<1> QED BY <1>1, <1>4, <1>5, <1>6, <1>7 DEF GoodStep, NoneAdded

(* PostgreSQL ends one of two sessions that wait for each other. *)
LEMMA DeadlockStep ==
  ASSUME BaseInv, DeadlockEndsRun \/ DeadlockEndsReset
  PROVE  GoodStep
<1> USE DEF BaseInv
<1>1. CASE DeadlockEndsRun
  <2>0. "run" \in Sessions BY DEF Sessions
  <2>d. /\ seq' = seq /\ UNCHANGED <<request, sending, reset, asked, tube>>
        /\ Rollback("run") /\ run' = Raised(FALSE)
    BY <1>1 DEF DeadlockEndsRun
  <2>2. StoreStep BY <2>0, <2>d, RollbackStep
  <2>3. run'.script = 0 /\ run'.video = 0 /\ DOMAIN run' = DOMAIN run BY <2>d, RunStops
  <2>4. work'["run"] = Nothing /\ rows' = rows /\ \A o \in Sessions \ {"run"} : work'[o] = work[o]
    BY <2>d, <2>0, OthersStay
  <2>5. FormInv' BY <2>3, <2>d DEF FormInv
  <2>6. IdInv' BY <2>2, <2>3, <2>d, IdsStay
  <2>7. PlaceInv' BY <2>4, <2>0, <2>d, PlaceStays
  <2> QED BY <2>2, <2>4, <2>5, <2>6, <2>7 DEF GoodStep, NoneAdded
<1>2. CASE DeadlockEndsReset
  <2>0. "reset" \in Sessions BY DEF Sessions
  <2>d. /\ seq' = seq /\ UNCHANGED <<run, request, sending, asked, tube>>
        /\ Rollback("reset") /\ ResetEnds("failed")
    BY <1>2 DEF DeadlockEndsReset
  <2>1. reset'.at = "idle" /\ DOMAIN reset' = DOMAIN reset BY <2>d, ResetMoves
  <2>2. StoreStep BY <2>0, <2>d, RollbackStep
  <2>3. /\ work'["reset"] = Nothing /\ rows' = rows
        /\ \A o \in Sessions \ {"reset"} : work'[o] = work[o]
    BY <2>d, <2>0, OthersStay
  <2>4. FormInv' BY <2>1, <2>d DEF FormInv
  <2>5. IdInv' BY <2>2, <2>d, IdsStay
  <2>6. PlaceInv' BY <2>1, <2>3, <2>0, <2>d, PlaceStays DEF Nothing
  <2> QED BY <2>2, <2>3, <2>4, <2>5, <2>6 DEF GoodStep, NoneAdded
<1> QED BY <1>1, <1>2

(* Every step is a good one. *)
LEMMA NextGood ==
  ASSUME BaseInv, NextInv, NextContent
  PROVE  GoodStep
<1>1. ASSUME NEW passed \in BOOLEAN, RunWrites(passed) \/ RunBooks(passed) PROVE GoodStep
  BY <1>1, RunWritesStep, RunBooksStep
<1>2. ASSUME RunDisconnects \/ RunHandles \/ RunRenders PROVE GoodStep
  BY <1>2, RunDisconnectsStep, RunHandlesStep, RunRendersStep
<1>3. ASSUME NEW ok \in BOOLEAN, RunRenderEnds(ok) \/ Answers(ok) \/ RenderDone(ok)
      PROVE  GoodStep
  BY <1>3, RunRenderEndsStep, AnswersStep, RenderDoneStep
<1>4. ASSUME NEW i \in DOMAIN rows,
             Takes(i) \/ Triggers(i) \/ Deletes(i) \/ FetchReads(i) \/ EverywhereAsks(i)
      PROVE  GoodStep
  BY <1>4, TakesStep, TriggersStep, DeletesStep, FetchReadsStep, EverywhereAsksStep
<1>5. ASSUME NEW s \in DOMAIN rows, NEW t \in {"storyboards", "thumbnails"}, Illustrates(t, s)
      PROVE  GoodStep
  BY <1>5, IllustratesStep
<1>6. ASSUME NEW s \in DOMAIN rows, NEW force \in BOOLEAN, Renders(s, force) PROVE GoodStep
  BY <1>6, RendersStep
<1>7. ASSUME FetchSaves \/ EverywhereDeletes PROVE GoodStep
  BY <1>7, FetchSavesStep, EverywhereDeletesStep
<1>8. ASSUME ResetStarts \/ ResetReads \/ \E refused \in SUBSET reset.sent : ResetYouTube(refused)
      PROVE  GoodStep
  BY <1>8, ResetReadsStep
<1>9. ASSUME ResetDeletes \/ ResetCommits \/ DeadlockEndsRun \/ DeadlockEndsReset PROVE GoodStep
  BY <1>9, ResetDeletesStep, ResetCommitsStep, DeadlockStep
<1> QED BY <1>1, <1>2, <1>3, <1>4, <1>5, <1>6, <1>7, <1>8, <1>9, Zenon DEF NextContent

(* Whoever writes while a reset is under way disturbs it, but for a rollback *)
(* and the call to YouTube, which change no row.                             *)
LEMMA NextDisturbs ==
  ASSUME NextContent
  PROVE  \/ Disturb
         \/ RunDisconnects
         \/ \E u \in DOMAIN rows : EverywhereAsks(u)
         \/ ResetStarts \/ ResetReads \/ ResetDeletes \/ ResetCommits
         \/ \E refused \in SUBSET reset.sent : ResetYouTube(refused)
         \/ DeadlockEndsRun \/ DeadlockEndsReset
<1>1. ASSUME NEW passed \in BOOLEAN, RunWrites(passed) \/ RunBooks(passed) PROVE Disturb
  BY <1>1 DEF RunWrites, RunBooks
<1>2. ASSUME RunHandles \/ RunRenders PROVE Disturb BY <1>2 DEF RunHandles, RunRenders
<1>3. ASSUME NEW ok \in BOOLEAN, RunRenderEnds(ok) \/ Answers(ok) \/ RenderDone(ok)
      PROVE  Disturb
  BY <1>3 DEF RunRenderEnds, Answers, RenderDone
<1>4. ASSUME NEW i \in DOMAIN rows, Takes(i) \/ Triggers(i) \/ Deletes(i) \/ FetchReads(i)
      PROVE  Disturb
  BY <1>4 DEF Takes, Triggers, Deletes, FetchReads, Asks
<1>5. ASSUME NEW s \in DOMAIN rows, NEW t \in {"storyboards", "thumbnails"}, Illustrates(t, s)
      PROVE  Disturb
  BY <1>5 DEF Illustrates, Asks
<1>6. ASSUME NEW s \in DOMAIN rows, NEW force \in BOOLEAN, Renders(s, force) PROVE Disturb
  BY <1>6 DEF Renders, Asks
<1>7. ASSUME FetchSaves \/ EverywhereDeletes PROVE Disturb
  BY <1>7 DEF FetchSaves, EverywhereDeletes
<1> QED BY <1>1, <1>2, <1>3, <1>4, <1>5, <1>6, <1>7, Zenon DEF NextContent

\* The committed rows of a table.
Rows(t) == {i \in DOMAIN rows : rows[i].t = t}

\* While nobody else writes, the reset knows every row it must delete.
ResetInv ==
  reset.at # "idle" /\ ~reset.raced =>
    /\ \A s \in Sessions \ {"reset"} : work[s] = Nothing
    /\ reset.at # "scripts" => reset.scripts = Rows("scripts")
    /\ reset.at \notin {"scripts", "videos"} => reset.videos = Rows("videos")
    /\ reset.at \notin {"scripts", "videos", "uploads"} => reset.uploads = Rows("uploads")
    /\ reset.at = "delete" =>
         DOMAIN work["reset"] =
           {i \in DOMAIN rows : \E k \in 1..(reset.next - 1) : rows[i].t = ResetOrder[k]}

(* The order of the statements, entry by entry. *)
LEMMA OrderEntries ==
  /\ ResetOrder[1] = "pipeline_runs" /\ ResetOrder[2] = "analytics" /\ ResetOrder[3] = "uploads"
  /\ ResetOrder[4] = "storyboards" /\ ResetOrder[5] = "quality_reports"
  /\ ResetOrder[6] = "thumbnails" /\ ResetOrder[7] = "voices" /\ ResetOrder[8] = "videos"
  /\ ResetOrder[9] = "scripts"
  /\ \A k \in 1..9 : k = 1 \/ k = 2 \/ k = 3 \/ k = 4 \/ k = 5 \/ k = 6 \/ k = 7 \/ k = 8 \/ k = 9
<1>1. \A k \in 1..9 : k = 1 \/ k = 2 \/ k = 3 \/ k = 4 \/ k = 5 \/ k = 6 \/ k = 7 \/ k = 8 \/ k = 9
  OBVIOUS
<1> QED BY <1>1 DEF ResetOrder

(* Every table has its statement, and only one. *)
LEMMA OrderCovers ==
  /\ \A t \in Tables : \E k \in 1..9 : ResetOrder[k] = t
  /\ \A j, k \in 1..9 : ResetOrder[j] = ResetOrder[k] => j = k
<1>1. \A t \in Tables : \E k \in 1..9 : ResetOrder[k] = t
  BY OrderEntries DEF Tables
<1>2. \A j, k \in 1..9 : ResetOrder[j] = ResetOrder[k] => j = k
  BY OrderEntries
<1> QED BY <1>1, <1>2

(* A table is emptied before the table its rows refer to. *)
LEMMA OrderAgrees ==
  ASSUME NEW t \in Tables \ {"pipeline_runs", "scripts"}, NEW k \in 1..9,
         ResetOrder[k] = ParentTable(t)
  PROVE  \E j \in 1..9 : j < k /\ ResetOrder[j] = t
<1>1. CASE t = "uploads"
  <2>1. ResetOrder[k] = ResetOrder[8] BY <1>1, OrderEntries DEF ParentTable
  <2>2. k = 8 BY <2>1, OrderCovers
  <2> QED BY <2>2, <1>1, OrderEntries
<1>2. CASE t = "analytics"
  <2>1. ResetOrder[k] = ResetOrder[3] BY <1>2, OrderEntries DEF ParentTable
  <2>2. k = 3 BY <2>1, OrderCovers
  <2> QED BY <2>2, <1>2, OrderEntries
<1>3. CASE t \notin {"uploads", "analytics"}
  <2>1. ResetOrder[k] = ResetOrder[9] BY <1>3, OrderEntries DEF ParentTable
  <2>2. k = 9 BY <2>1, OrderCovers
  <2>3. PICK j \in 1..9 : ResetOrder[j] = t BY OrderCovers
  <2>4. j # 9 BY <2>3, OrderEntries
  <2> QED BY <2>2, <2>3, <2>4
<1> QED BY <1>1, <1>2, <1>3

(* Of the rows of one table, those that refer to a set that holds all of the *)
(* parent table are all.                                                     *)
LEMMA AllOf ==
  ASSUME StoreInv, NEW s \in Sessions, NEW t \in Tables \ {"pipeline_runs", "scripts"},
         NEW ps, \A p \in DOMAIN See(s) : See(s)[p].t = ParentTable(t) => p \in ps
  PROVE  Of(s, t, ps) = In(s, t)
<1>1. \A i \in Of(s, t, ps) : i \in In(s, t) BY DEF Of, In
<1>2. ASSUME NEW i \in In(s, t) PROVE i \in Of(s, t, ps)
  <2>1. i \in DOMAIN See(s) /\ See(s)[i].t = t BY <1>2 DEF In
  <2>2. Fits(See(s), See(s)[i]) BY <2>1 DEF StoreInv, Sound
  <2>3. PICK p \in DOMAIN See(s) : See(s)[i].of = {p} /\ See(s)[p].t = ParentTable(t)
    BY <2>1, <2>2 DEF Fits
  <2>4. See(s)[i].of \cap ps # {} BY <2>3
  <2> QED BY <2>1, <2>4 DEF Of
<1> QED BY <1>1, <1>2

\* The tables the reset has emptied.
Emptied(t) == \E k \in 1..(reset.next - 1) : t = ResetOrder[k]

(* What an undisturbed reset still sees while it deletes. *)
LEMMA ResetSees ==
  ASSUME BaseInv, NextInv, ResetInv, reset.at = "delete", ~reset.raced
  PROVE  \A i : /\ i \in DOMAIN See("reset") <=> i \in DOMAIN rows /\ ~Emptied(rows[i].t)
                /\ i \in DOMAIN See("reset") => See("reset")[i] = rows[i]
<1>0. "reset" \in Sessions BY DEF Sessions
<1>1. \A i : i \in DOMAIN work["reset"] <=> i \in DOMAIN rows /\ Emptied(rows[i].t)
  BY DEF ResetInv, Emptied
<1>2. \A i \in DOMAIN work["reset"] : work["reset"][i] = Gone BY DEF BaseInv, PlaceInv
<1> QED BY <1>0, <1>1, <1>2, SeeRow DEF BaseInv

(* Its statement removes all rows of the table. *)
LEMMA ResetDooms ==
  ASSUME BaseInv, NextInv, ResetInv, reset.at = "delete", ~reset.raced, reset.next \in 1..9
  PROVE  Doomed(ResetOrder[reset.next]) = Rows(ResetOrder[reset.next])
<1> DEFINE t == ResetOrder[reset.next]
<1>s. \A i : /\ i \in DOMAIN See("reset") <=> i \in DOMAIN rows /\ ~Emptied(rows[i].t)
             /\ i \in DOMAIN See("reset") => See("reset")[i] = rows[i]
  BY ResetSees
<1> USE DEF BaseInv
<1>0. "reset" \in Sessions BY DEF Sessions
<1>1. t \in Tables BY OrderIs
<1>2. ~Emptied(t)
  <2>1. SUFFICES ASSUME NEW k \in 1..(reset.next - 1), t = ResetOrder[k] PROVE FALSE
    BY DEF Emptied
  <2>2. k \in 1..9 /\ k # reset.next OBVIOUS
  <2> QED BY <2>1, <2>2, OrderCovers
<1>3. In("reset", t) = Rows(t)
  <2>1. \A i \in In("reset", t) : i \in Rows(t) BY <1>s DEF In, Rows
  <2>2. \A i \in Rows(t) : i \in In("reset", t) BY <1>2, <1>s DEF In, Rows
  <2> QED BY <2>1, <2>2
<1>4. /\ reset.scripts = Rows("scripts") /\ reset.videos = Rows("videos")
      /\ reset.uploads = Rows("uploads")
  BY DEF ResetInv
<1>5. \A p \in DOMAIN See("reset") : p \in Rows(See("reset")[p].t) BY <1>s DEF Rows
<1> HIDE DEF t
<1>6. CASE t = "pipeline_runs" BY <1>3, <1>6 DEF Doomed, t
<1>7. CASE t = "analytics"
  <2>1. Doomed(t) = Of("reset", t, Rows("uploads")) BY <1>4, <1>7 DEF Doomed
  <2>2. ParentTable(t) = "uploads" BY <1>7 DEF ParentTable
  <2> QED BY <2>1, <2>2, <1>0, <1>1, <1>3, <1>5, <1>7, AllOf DEF t
<1>8. CASE t = "uploads"
  <2>1. Doomed(t) = Of("reset", t, Rows("videos")) BY <1>4, <1>8 DEF Doomed
  <2>2. ParentTable(t) = "videos" BY <1>8 DEF ParentTable
  <2> QED BY <2>1, <2>2, <1>0, <1>1, <1>3, <1>5, <1>8, AllOf DEF t
<1>9. CASE t = "videos"
  <2>1. Doomed(t) = In("reset", t) \cap Rows(t) BY <1>4, <1>9 DEF Doomed
  <2> QED BY <2>1, <1>3 DEF t
<1>10. CASE t = "scripts"
  <2>1. Doomed(t) = In("reset", t) \cap Rows(t) BY <1>4, <1>10 DEF Doomed
  <2> QED BY <2>1, <1>3 DEF t
<1>11. CASE t \notin {"pipeline_runs", "analytics", "uploads", "videos", "scripts"}
  <2>1. Doomed(t) = Of("reset", t, Rows("scripts")) BY <1>4, <1>11 DEF Doomed
  <2>2. ParentTable(t) = "scripts" BY <1>11 DEF ParentTable
  <2> QED BY <2>1, <2>2, <1>0, <1>1, <1>3, <1>5, <1>11, AllOf DEF t
<1> QED BY <1>6, <1>7, <1>8, <1>9, <1>10, <1>11

(* It is never refused. *)
LEMMA ResetUnrefused ==
  ASSUME BaseInv, NextInv, ResetInv, reset.at = "delete", ~reset.raced, reset.next \in 1..9
  PROVE  ~Violates("reset", ResetStatement)
<1> DEFINE t == ResetOrder[reset.next]
           new == ResetStatement
           old == Over(work["reset"], rows)
           after == Kept(Over(new, old))
<1>s. \A i : /\ i \in DOMAIN See("reset") <=> i \in DOMAIN rows /\ ~Emptied(rows[i].t)
             /\ i \in DOMAIN See("reset") => See("reset")[i] = rows[i]
  BY ResetSees
<1> USE DEF BaseInv
<1>1. DOMAIN new = Rows(t) /\ \A i \in DOMAIN new : new[i] = Gone
  BY RemovingIs, ResetDooms DEF ResetStatement
<1>2. \A i : i \in DOMAIN See("reset") <=> i \in DOMAIN old /\ old[i] # Gone
  BY DEF See, Kept
<1>3. \A i \in DOMAIN See("reset") : See("reset")[i] = old[i] BY DEF See, Kept
<1> HIDE DEF new, old
<1>4. \A i : i \in DOMAIN after <=> IF i \in DOMAIN new THEN new[i] # Gone
                                     ELSE i \in DOMAIN old /\ old[i] # Gone
  BY View
<1>5. \A i \in DOMAIN after : after[i] = IF i \in DOMAIN new THEN new[i] ELSE old[i] BY View
<1> HIDE DEF after
<1>6. ASSUME NEW i
      PROVE  /\ i \in DOMAIN after <=>
                  i \in DOMAIN rows /\ ~Emptied(rows[i].t) /\ rows[i].t # t
             /\ i \in DOMAIN after => after[i] = rows[i] /\ i \notin DOMAIN new
  BY <1>1, <1>2, <1>3, <1>4, <1>5, <1>s DEF Rows
<1>7. ASSUME NEW i \in DOMAIN after, NEW p \in after[i].of PROVE p \in DOMAIN after
  <2>1. i \in DOMAIN rows /\ after[i] = rows[i] /\ ~Emptied(rows[i].t) /\ rows[i].t # t
    BY <1>6
  <2>2. Fits(rows, rows[i]) BY <2>1 DEF StoreInv, Sound
  <2>3. rows[i].t \in Tables \ {"pipeline_runs", "scripts"}
    <3>1. rows[i].t \in Tables BY <2>2 DEF Fits, Whole
    <3>2. rows[i].t # "scripts" BY <2>1, <2>2, <1>7 DEF Fits
    <3>3. rows[i].t # "pipeline_runs"
      <4>1. ASSUME rows[i].t = "pipeline_runs" PROVE FALSE
        <5>1. rows[i].t = ResetOrder[1] BY <4>1, OrderEntries
        <5>2. reset.next # 1 BY <5>1, <2>1
        <5>3. 1 \in 1..(reset.next - 1) BY <5>2
        <5> QED BY <5>1, <5>3, <2>1 DEF Emptied
      <4> QED BY <4>1
    <3> QED BY <3>1, <3>2, <3>3
  <2>4. p \in DOMAIN rows /\ rows[p].t = ParentTable(rows[i].t)
    <3>1. \E q \in DOMAIN rows : rows[i].of = {q} /\ rows[q].t = ParentTable(rows[i].t)
      BY <2>2, <2>3 DEF Fits
    <3> QED BY <3>1, <2>1, <1>7
  <2>5. ASSUME NEW k \in 1..reset.next, rows[p].t = ResetOrder[k] PROVE FALSE
    <3>1. k \in 1..9 OBVIOUS
    <3>2. PICK j \in 1..9 : j < k /\ ResetOrder[j] = rows[i].t
      BY <3>1, <2>3, <2>4, <2>5, OrderAgrees
    <3>3. j \in 1..(reset.next - 1) BY <3>2
    <3> QED BY <3>2, <3>3, <2>1 DEF Emptied
  <2>6. rows[p].t # t BY <2>5
  <2>7. ~Emptied(rows[p].t)
    <3>1. ASSUME NEW k \in 1..(reset.next - 1), rows[p].t = ResetOrder[k] PROVE FALSE
      <4>1. k \in 1..reset.next OBVIOUS
      <4> QED BY <4>1, <3>1, <2>5
    <3> QED BY <3>1 DEF Emptied
  <2> QED BY <2>4, <2>6, <2>7, <1>6
<1>8. DOMAIN new \cap DOMAIN after = {} BY <1>6
<1>9. after = Kept(Over(new, Over(work["reset"], rows))) BY DEF after, old
<1> QED BY <1>1, <1>7, <1>8, <1>9 DEF Violates, new

\* What a reset that ends undisturbed leaves.
WipesStep ==
  reset.at # "idle" /\ reset'.at = "idle" /\ ~reset.raced =>
    reset'.outcome = "done" /\ rows' = Nothing

\* Rows and transactions stay, or the only change is a transaction that is empty already.
Still == rows' = rows /\ \A s \in Sessions : work'[s] = work[s] \/ (s # "reset" /\ work'[s] = Nothing)

(* A reset that nothing touches stays where it is. *)
LEMMA StillKeepsReset ==
  ASSUME ResetInv, NextInv, Still, reset' = reset
  PROVE  ResetInv' /\ NextInv' /\ WipesStep
<1>1. rows' = rows /\ \A s \in Sessions \ {"reset"} : work[s] = Nothing => work'[s] = Nothing
  BY DEF Still
<1>2. work'["reset"] = work["reset"] BY DEF Still, Sessions
<1>3. ResetInv' BY <1>1, <1>2 DEF ResetInv, Rows
<1> QED BY <1>3 DEF NextInv, WipesStep

(* Nor does one that has been disturbed promise anything. *)
LEMMA DisturbKeepsReset ==
  ASSUME FormInv, NextInv, Disturb
  PROVE  ResetInv' /\ NextInv' /\ WipesStep
<1>1. /\ reset'.at = reset.at /\ reset'.next = reset.next
      /\ reset.at # "idle" => reset'.raced
  BY DisturbKeeps
<1>2. ResetInv' BY <1>1 DEF ResetInv
<1> QED BY <1>1, <1>2 DEF NextInv, WipesStep

(* The reset starts: whoever is at work then counts as a disturbance. *)
LEMMA ResetStartsKeeps ==
  ASSUME BaseInv, NextInv, ResetStarts
  PROVE  ResetInv' /\ NextInv' /\ WipesStep
<1>1. /\ reset.at = "idle" /\ work' = work
      /\ reset' = [reset EXCEPT !.at = "scripts",
                                !.raced = (run.stage \notin {"begin", "ended"} \/ sending # 0
                                           \/ request.do # "none")]
  BY DEF ResetStarts
<1>2. /\ reset'.at = "scripts" /\ reset'.next = reset.next
      /\ ~reset'.raced => run.stage \in {"begin", "ended"} /\ sending = 0
  BY <1>1 DEF BaseInv, FormInv
<1>3. ASSUME ~reset'.raced, NEW s \in Sessions \ {"reset"} PROVE work[s] = Nothing
  <2>1. CASE s = "run" BY <2>1, <1>2, <1>3 DEF BaseInv, PlaceInv, Writing
  <2>2. CASE s = "publisher" BY <2>2, <1>2, <1>3 DEF BaseInv, PlaceInv
  <2>3. CASE s = "request" BY <2>3 DEF BaseInv, PlaceInv
  <2> QED BY <2>1, <2>2, <2>3 DEF Sessions
<1>4. ResetInv' BY <1>1, <1>2, <1>3 DEF ResetInv
<1> QED BY <1>1, <1>2, <1>4 DEF NextInv, WipesStep

(* What it reads is all there is. *)
LEMMA ResetReadsKeeps ==
  ASSUME BaseInv, NextInv, ResetInv, ResetReads
  PROVE  ResetInv' /\ NextInv' /\ WipesStep
<1> USE DEF BaseInv
<1>0. "reset" \in Sessions BY DEF Sessions
<1>1. rows' = rows /\ work' = work /\ reset.at \in {"scripts", "videos", "uploads"}
  BY DEF ResetReads
<1>2. See("reset") = rows BY <1>0, <1>1, SeeRows DEF PlaceInv
<1>3. \A t : In("reset", t) = Rows(t) BY <1>2 DEF In, Rows
<1>4. /\ \A t \in Tables : t = "videos" \/ t = "uploads" => t \in Tables \ {"pipeline_runs", "scripts"}
      /\ "videos" \in Tables /\ "uploads" \in Tables
      /\ ParentTable("videos") = "scripts" /\ ParentTable("uploads") = "videos"
  BY DEF Tables, ParentTable
<1>5. Of("reset", "videos", Rows("scripts")) = Rows("videos")
  <2>1. \A p \in DOMAIN See("reset") : See("reset")[p].t = "scripts" => p \in Rows("scripts")
    BY <1>2 DEF Rows
  <2> QED BY <2>1, <1>0, <1>3, <1>4, AllOf
<1>6. Of("reset", "uploads", Rows("videos")) = Rows("uploads")
  <2>1. \A p \in DOMAIN See("reset") : See("reset")[p].t = "videos" => p \in Rows("videos")
    BY <1>2 DEF Rows
  <2> QED BY <2>1, <1>0, <1>3, <1>4, AllOf
<1>r. \A t : Rows(t)' = Rows(t) BY <1>1 DEF Rows
<1>7. CASE reset.at = "scripts"
  <2>1. reset' = [reset EXCEPT !.scripts = In("reset", "scripts"), !.at = "videos"]
    BY <1>7 DEF ResetReads
  <2>2. /\ reset'.at = "videos" /\ reset'.scripts = Rows("scripts") /\ reset'.next = reset.next
        /\ reset'.raced = reset.raced
    BY <2>1, <1>3 DEF FormInv
  <2>3. ResetInv' BY <2>2, <1>1, <1>7, <1>r DEF ResetInv
  <2> QED BY <2>2, <2>3 DEF NextInv, WipesStep
<1>8. CASE reset.at = "videos"
  <2>1. reset' = [reset EXCEPT !.videos = Of("reset", "videos", reset.scripts), !.at = "uploads"]
    BY <1>8 DEF ResetReads
  <2>2. /\ reset'.at = "uploads" /\ reset'.scripts = reset.scripts /\ reset'.next = reset.next
        /\ reset'.raced = reset.raced /\ reset'.videos = Of("reset", "videos", reset.scripts)
    BY <2>1 DEF FormInv
  <2>3. ResetInv' BY <2>2, <1>1, <1>5, <1>8, <1>r DEF ResetInv
  <2> QED BY <2>2, <2>3 DEF NextInv, WipesStep
<1>9. CASE reset.at = "uploads"
  <2>1. reset' = LET found == Of("reset", "uploads", reset.videos) IN
                   [reset EXCEPT !.uploads = found, !.at = "youtube",
                                 !.sent = {u \in found : rows[u].st = "published"}]
    BY <1>9 DEF ResetReads
  <2>2. /\ reset'.at = "youtube" /\ reset'.scripts = reset.scripts /\ reset'.next = reset.next
        /\ reset'.raced = reset.raced /\ reset'.videos = reset.videos
        /\ reset'.uploads = Of("reset", "uploads", reset.videos)
    BY <2>1 DEF FormInv
  <2>3. ResetInv' BY <2>2, <1>1, <1>6, <1>9, <1>r DEF ResetInv
  <2> QED BY <2>2, <2>3 DEF NextInv, WipesStep
<1> QED BY <1>1, <1>7, <1>8, <1>9

\* The statements start with the first.
FirstInv == reset.at # "delete" => reset.next = 1

(* YouTube's videos go, no row does. *)
LEMMA ResetYouTubeKeeps ==
  ASSUME BaseInv, NextInv, ResetInv, FirstInv, NEW refused, ResetYouTube(refused)
  PROVE  ResetInv' /\ NextInv' /\ WipesStep
<1>1. /\ reset.at = "youtube" /\ rows' = rows /\ work' = work
      /\ reset' = [reset EXCEPT !.at = "delete"]
  BY DEF ResetYouTube
<1>2. /\ reset'.at = "delete" /\ reset'.next = 1 /\ reset'.raced = reset.raced
      /\ reset'.scripts = reset.scripts /\ reset'.videos = reset.videos
      /\ reset'.uploads = reset.uploads
  BY <1>1 DEF BaseInv, FormInv, FirstInv
<1>3. DOMAIN work["reset"] = {} BY <1>1 DEF BaseInv, PlaceInv, Nothing
<1>4. {i \in DOMAIN rows' : \E k \in 1..(reset'.next - 1) : rows'[i].t = ResetOrder[k]} = {}
  BY <1>2
<1>5. ResetInv'
  <2>1. \A t : Rows(t)' = Rows(t) BY <1>1 DEF Rows
  <2> QED BY <2>1, <1>1, <1>2, <1>3, <1>4 DEF ResetInv
<1> QED BY <1>2, <1>5 DEF NextInv, WipesStep

(* One statement after the other removes the rows of one table after the other. *)
LEMMA ResetDeletesKeeps ==
  ASSUME BaseInv, NextInv, ResetInv, ResetDeletes
  PROVE  ResetInv' /\ NextInv' /\ WipesStep
<1> DEFINE new == ResetStatement
           t == ResetOrder[reset.next]
<1>0. "reset" \in Sessions BY DEF Sessions
<1>1. reset.at = "delete" /\ reset.next \in 1..9
  BY OrderIs DEF ResetDeletes, Deleting, NextInv
<1>2. CASE Rollback("reset") /\ ResetEnds("failed") /\ Violates("reset", new)
  <2>1. reset'.at = "idle" /\ reset'.next = 1 BY <1>2, ResetMoves DEF BaseInv
  <2>2. reset.raced BY <1>1, <1>2, ResetUnrefused
  <2> QED BY <2>1, <2>2 DEF NextInv, ResetInv, WipesStep
<1>3. CASE Flush("reset", new) /\ reset' = [reset EXCEPT !.next = @ + 1]
  <2>1. /\ reset'.at = "delete" /\ reset'.next = reset.next + 1
        /\ reset'.raced = reset.raced /\ reset'.scripts = reset.scripts
        /\ reset'.videos = reset.videos /\ reset'.uploads = reset.uploads
    BY <1>1, <1>3, ResetMoves DEF BaseInv
  <2>2. /\ rows' = rows /\ work'["reset"] = Over(new, work["reset"])
        /\ \A o \in Sessions \ {"reset"} : work'[o] = work[o]
    BY <1>3, <1>0, OthersStay DEF BaseInv
  <2>3. reset'.next \in 1..10 BY <1>1, <2>1
  <2>4. ASSUME ~reset.raced
        PROVE  DOMAIN work'["reset"] =
                 {i \in DOMAIN rows' : \E k \in 1..(reset'.next - 1) : rows'[i].t = ResetOrder[k]}
    <3>1. DOMAIN new = Rows(t) BY <1>1, <2>4, RemovingIs, ResetDooms DEF ResetStatement
    <3>2. DOMAIN work'["reset"] = Rows(t) \cup DOMAIN work["reset"] BY <2>2, <3>1 DEF Over
    <3>3. DOMAIN work["reset"] =
            {i \in DOMAIN rows : \E k \in 1..(reset.next - 1) : rows[i].t = ResetOrder[k]}
      BY <1>1, <2>4 DEF ResetInv
    <3>4. \A x : (\E k \in 1..reset.next : x = ResetOrder[k]) <=>
                   x = t \/ \E k \in 1..(reset.next - 1) : x = ResetOrder[k]
      <4>1. \A k \in 1..reset.next : k = reset.next \/ k \in 1..(reset.next - 1) BY <1>1
      <4>2. reset.next \in 1..reset.next /\ \A k \in 1..(reset.next - 1) : k \in 1..reset.next
        BY <1>1
      <4> QED BY <4>1, <4>2
    <3>5. reset'.next - 1 = reset.next BY <1>1, <2>1
    <3> HIDE DEF t
    <3>6. ASSUME NEW i
          PROVE  i \in DOMAIN work'["reset"] <=>
                   i \in DOMAIN rows /\ \E k \in 1..reset.next : rows[i].t = ResetOrder[k]
      BY <3>2, <3>3, <3>4 DEF Rows
    <3> QED BY <3>5, <3>6, <2>2
  <2>5. ResetInv'
    <3>1. \A x : Rows(x)' = Rows(x) BY <2>2 DEF Rows
    <3> QED BY <3>1, <1>1, <2>1, <2>2, <2>4 DEF ResetInv
  <2> QED BY <2>1, <2>3, <2>5 DEF NextInv, WipesStep
<1> QED BY <1>2, <1>3 DEF ResetDeletes

(* Then nothing is left. *)
LEMMA ResetCommitsKeeps ==
  ASSUME BaseInv, NextInv, ResetInv, ResetCommits
  PROVE  ResetInv' /\ NextInv' /\ WipesStep
<1>1. /\ reset.at = "delete" /\ reset.next = 10 /\ Commit("reset", Nothing) /\ ResetEnds("done")
  BY OrderIs DEF ResetCommits
<1>2. reset'.at = "idle" /\ reset'.next = 1 /\ reset'.outcome = "done"
  BY <1>1, ResetMoves DEF BaseInv
<1>3. ASSUME ~reset.raced PROVE rows' = Nothing
  <2>1. \A i \in DOMAIN rows : i \in DOMAIN work["reset"]
    <3>1. reset.next - 1 = 9 BY <1>1
    <3>2. DOMAIN work["reset"] =
            {i \in DOMAIN rows : \E k \in 1..(reset.next - 1) : rows[i].t = ResetOrder[k]}
      BY <1>1, <1>3 DEF ResetInv
    <3>3. \A i \in DOMAIN rows : rows[i].t \in Tables BY DEF BaseInv, StoreInv, Sound, Fits, Whole
    <3>4. \A i \in DOMAIN rows : \E k \in 1..9 : rows[i].t = ResetOrder[k]
      BY <3>3, OrderCovers
    <3> QED BY <3>1, <3>2, <3>4
  <2>2. \A i \in DOMAIN work["reset"] : work["reset"][i] = Gone BY DEF BaseInv, PlaceInv
  <2> DEFINE all == Over(Nothing, Over(work["reset"], rows))
  <2>3. \A i \in DOMAIN all : all[i] = Gone BY <2>1, <2>2 DEF Over, Nothing
  <2>4. rows' = [i \in {j \in DOMAIN all : all[j] # Gone} |-> all[i]] BY <1>1 DEF Commit, Kept
  <2>5. {j \in DOMAIN all : all[j] # Gone} = {} BY <2>3
  <2> HIDE DEF all
  <2>6. rows' = [i \in {} |-> all[i]] BY <2>4, <2>5
  <2>7. [i \in {} |-> all[i]] = [i \in {} |-> Gone] OBVIOUS
  <2> QED BY <2>6, <2>7 DEF Nothing
<1> QED BY <1>2, <1>3 DEF NextInv, ResetInv, WipesStep

(* A deadlock takes another writer. *)
LEMMA DeadlockKeeps ==
  ASSUME BaseInv, NextInv, ResetInv, DeadlockEndsRun \/ DeadlockEndsReset
  PROVE  ResetInv' /\ NextInv' /\ WipesStep
<1>1. reset.raced
  <2>1. reset.at = "delete" /\ Open("run") BY DEF DeadlockEndsRun, DeadlockEndsReset, Deadlocked, Deleting
  <2>2. work["run"] # Nothing BY <2>1 DEF Open, Nothing
  <2> QED BY <2>1, <2>2 DEF ResetInv, Sessions
<1>2. CASE DeadlockEndsRun
  <2>1. reset' = reset BY <1>2 DEF DeadlockEndsRun
  <2> QED BY <1>1, <2>1 DEF ResetInv, NextInv, WipesStep
<1>3. CASE DeadlockEndsReset
  <2>1. ResetEnds("failed") BY <1>3 DEF DeadlockEndsReset
  <2>2. reset'.at = "idle" /\ reset'.next = 1 BY <2>1, ResetMoves DEF BaseInv
  <2> QED BY <1>1, <2>2 DEF ResetInv, NextInv, WipesStep
<1> QED BY <1>2, <1>3

\* The inductive invariant.
ContentInv == BaseInv /\ NextInv /\ FirstInv /\ ResetInv

(* It holds at the start. *)
LEMMA StartContent == InitContent => ContentInv
<1> SUFFICES ASSUME InitContent PROVE ContentInv OBVIOUS
<1> DEFINE r == Row("pipeline_runs", {}, "pending")
<1>n. DOMAIN Nothing = {} BY DEF Nothing
<1>1. /\ rows = One(RunId, r) /\ seq = 1 /\ work = [s \in Sessions |-> Nothing]
      /\ sending = 0 /\ request.do = "none" /\ RunId = 1
  BY DEF InitContent, NoRequest, RunId
<1>2. DOMAIN rows = {1} /\ rows[1] = r /\ rows = [i \in DOMAIN rows |-> rows[i]]
  BY <1>1 DEF One
<1>3. /\ {"stage", "script", "video"} \subseteq DOMAIN run
      /\ run.script = 0 /\ run.video = 0
  BY DEF InitContent
<1>4. /\ {"at", "next", "scripts", "videos", "uploads", "sent", "outcome", "raced"}
           \subseteq DOMAIN reset
      /\ reset.at = "idle" /\ reset.next = 1
  BY DEF InitContent
<1>5. r.t = "pipeline_runs" /\ r.of = {} /\ Whole(r) BY NewRow DEF Tables
<1>6. Sound(rows)
  <2>1. Fits(rows, r) BY <1>5 DEF Fits
  <2> QED BY <2>1, <1>2 DEF Sound
<1>7. StoreInv
  <2>1. \A s \in Sessions : work[s] = Nothing BY <1>1
  <2>2. \A s \in Sessions : See(s) = rows BY <2>1, <1>2, <1>6, OverNothing DEF See
  <2>3. \A s, o \in Sessions : Apart(work[s], work[o]) BY <2>1, <1>n DEF Apart
  <2>4. \A s \in Sessions : Keeps(work[s], rows) BY <2>1, <1>n DEF Keeps
  <2>5. work = [s \in Sessions |-> work[s]] BY <1>1
  <2> QED BY <2>1, <2>2, <2>3, <2>4, <2>5, <1>1, <1>2, <1>6, <1>n DEF StoreInv
<1>8. IdInv
  <2>1. \A t : Kind(0, t) BY <1>7, KindZero
  <2>2. Kind(1, "pipeline_runs") BY <1>1, <1>2, <1>5, <1>n DEF Kind
  <2> QED BY <2>1, <2>2, <1>1, <1>3 DEF IdInv
<1>9. PlaceInv BY <1>1, <1>4, <1>n DEF PlaceInv, Sessions
<1> QED BY <1>3, <1>4, <1>7, <1>8, <1>9 DEF ContentInv, BaseInv, FormInv, NextInv, FirstInv, ResetInv

(* A step that leaves the deletes in place, or leaves them, starts them anew. *)
LEMMA FirstStays ==
  ASSUME BaseInv, FirstInv, NextContent
  PROVE  FirstInv'
<1> USE DEF BaseInv
<1>1. CASE Disturb BY <1>1, DisturbKeeps DEF FirstInv
<1>2. CASE RunDisconnects \/ (\E u \in DOMAIN rows : EverywhereAsks(u)) \/ DeadlockEndsRun
  BY <1>2 DEF RunDisconnects, EverywhereAsks, DeadlockEndsRun, FirstInv
<1>3. CASE ResetStarts BY <1>3 DEF ResetStarts, FormInv, FirstInv
<1>4. CASE ResetReads
  <2>1. CASE reset.at = "scripts" BY <1>4, <2>1 DEF ResetReads, FormInv, FirstInv
  <2>2. CASE reset.at = "videos" BY <1>4, <2>2 DEF ResetReads, FormInv, FirstInv
  <2>3. CASE reset.at = "uploads" BY <1>4, <2>3 DEF ResetReads, FormInv, FirstInv
  <2> QED BY <1>4, <2>1, <2>2, <2>3 DEF ResetReads
<1>5. CASE \E refused \in SUBSET reset.sent : ResetYouTube(refused)
  BY <1>5 DEF ResetYouTube, FormInv, FirstInv
<1>6. CASE ResetDeletes
  <2>1. CASE ResetEnds("failed") BY <2>1, ResetMoves DEF FirstInv
  <2>2. CASE reset' = [reset EXCEPT !.next = @ + 1]
    BY <2>2, <1>6, ResetMoves DEF FirstInv, ResetDeletes, Deleting
  <2> QED BY <1>6, <2>1, <2>2 DEF ResetDeletes
<1>7. CASE ResetCommits \/ DeadlockEndsReset
  BY <1>7, ResetMoves DEF ResetCommits, DeadlockEndsReset, FirstInv
<1> QED BY <1>1, <1>2, <1>3, <1>4, <1>5, <1>6, <1>7, NextDisturbs

(* Every step keeps what is promised of the reset. *)
LEMMA NextKeepsReset ==
  ASSUME ContentInv, NextContent
  PROVE  ResetInv' /\ NextInv' /\ WipesStep
<1> USE DEF ContentInv
<1>1. CASE Disturb BY <1>1, DisturbKeepsReset DEF BaseInv
<1>2. CASE RunDisconnects
  <2>1. Rollback("run") /\ reset' = reset BY <1>2 DEF RunDisconnects
  <2>2. "run" \in Sessions BY DEF Sessions
  <2>3. work'["run"] = Nothing /\ rows' = rows /\ \A o \in Sessions \ {"run"} : work'[o] = work[o]
    BY <2>1, <2>2, OthersStay DEF BaseInv
  <2>4. Still BY <2>3 DEF Still
  <2> QED BY <2>1, <2>4, StillKeepsReset
<1>3. CASE \E u \in DOMAIN rows : EverywhereAsks(u)
  <2>1. rows' = rows /\ work' = work /\ reset' = reset BY <1>3 DEF EverywhereAsks
  <2>2. Still BY <2>1 DEF Still
  <2> QED BY <2>1, <2>2, StillKeepsReset
<1>4. CASE ResetStarts BY <1>4, ResetStartsKeeps
<1>5. CASE ResetReads BY <1>5, ResetReadsKeeps
<1>6. CASE \E refused \in SUBSET reset.sent : ResetYouTube(refused) BY <1>6, ResetYouTubeKeeps
<1>7. CASE ResetDeletes BY <1>7, ResetDeletesKeeps
<1>8. CASE ResetCommits BY <1>8, ResetCommitsKeeps
<1>9. CASE DeadlockEndsRun \/ DeadlockEndsReset BY <1>9, DeadlockKeeps
<1> QED BY <1>1, <1>2, <1>3, <1>4, <1>5, <1>6, <1>7, <1>8, <1>9, NextDisturbs

(* Every step keeps the invariant and does what the two action properties ask. *)
LEMMA ContentStep ==
  ASSUME ContentInv, [NextContent]_contentVars
  PROVE  ContentInv' /\ (NoneAdded /\ WipesStep)
<1>1. CASE NextContent
  <2>1. GoodStep BY <1>1, NextGood DEF ContentInv
  <2>2. StoreInv' BY <2>1, StoreStepKeepsStore DEF GoodStep, ContentInv, BaseInv
  <2>3. FirstInv' BY <1>1, FirstStays DEF ContentInv
  <2>4. ResetInv' /\ NextInv' /\ WipesStep BY <1>1, NextKeepsReset
  <2> QED BY <2>1, <2>2, <2>3, <2>4 DEF GoodStep, ContentInv, BaseInv
<1>2. CASE UNCHANGED contentVars
  <2>1. /\ rows' = rows /\ work' = work /\ seq' = seq /\ run' = run /\ request' = request
        /\ sending' = sending /\ reset' = reset
    BY <1>2 DEF contentVars
  <2>2. NoneAdded /\ WipesStep BY <2>1 DEF NoneAdded, WipesStep
  <2>3. StoreStep BY <2>1 DEF StoreStep, ContentInv, BaseInv, StoreInv
  <2>4. StoreInv' BY <2>3, StoreStepKeepsStore DEF ContentInv, BaseInv
  <2>5. IdInv' BY <2>1, <2>3, IdsStay DEF ContentInv, BaseInv
  <2>6. FormInv' /\ PlaceInv' /\ NextInv' /\ FirstInv'
    BY <2>1 DEF ContentInv, BaseInv, FormInv, PlaceInv, NextInv, FirstInv
  <2>7. ResetInv' BY <2>1 DEF ContentInv, ResetInv, Rows
  <2> QED BY <2>2, <2>4, <2>5, <2>6, <2>7 DEF ContentInv, BaseInv
<1> QED BY <1>1, <1>2

(***************************************************************************)
(* Referential integrity under READ COMMITTED: every committed row refers  *)
(* to rows of the right tables that are committed too, and so does every   *)
(* row that a session with an open transaction sees, however the run, the  *)
(* publisher, the requests and the reset are interleaved. A statement is   *)
(* checked only against what its own session sees; that two transactions,  *)
(* each sound by itself, commit to sound rows is due to the locks: a new   *)
(* reference holds its parent, a deleted row keeps new references waiting. *)
(***************************************************************************)
THEOREM ReferencesHold ==
  ContentSpec => [](Sound(rows) /\ \A s \in Sessions : Sound(See(s)))
<1>1. InitContent => ContentInv BY StartContent
<1>2. ContentInv /\ [NextContent]_contentVars => ContentInv' BY ContentStep
<1>3. ContentInv => Sound(rows) /\ \A s \in Sessions : Sound(See(s))
  BY DEF ContentInv, BaseInv, StoreInv
<1> QED BY <1>1, <1>2, <1>3, PTL DEF ContentSpec

(***************************************************************************)
(* Once the pipeline run's row is deleted, by a reset or by delete_run, no *)
(* script, quality report or voice is committed any more: the task of the  *)
(* run updates its own row in every transaction that would add one, and    *)
(* an update that finds no row fails.                                      *)
(***************************************************************************)
THEOREM NothingIsAddedWithoutRun == ContentSpec => NothingWithoutRun
<1>1. InitContent => ContentInv BY StartContent
<1>2. ContentInv /\ [NextContent]_contentVars => ContentInv' BY ContentStep
<1>3. ContentInv /\ [NextContent]_contentVars => NoneAdded BY ContentStep
<1>4. NoneAdded <=> \A i \in DOMAIN rows' \ DOMAIN rows :
        rows'[i].t \in {"scripts", "quality_reports", "voices"} => RunId \in DOMAIN rows'
  BY DEF NoneAdded
<1> QED BY <1>1, <1>2, <1>3, <1>4, PTL DEF ContentSpec, NothingWithoutRun

(***************************************************************************)
(* A hard reset that no other session overtakes ends with "done" and       *)
(* leaves no row of the channel: each DELETE of its order removes the rows *)
(* that would make the next one break a foreign key, for any content.      *)
(***************************************************************************)
THEOREM ResetLeavesNothing == ContentSpec => ResetEmpties
<1>1. InitContent => ContentInv BY StartContent
<1>2. ContentInv /\ [NextContent]_contentVars => ContentInv' BY ContentStep
<1>3. ContentInv /\ [NextContent]_contentVars => WipesStep BY ContentStep
<1>4. WipesStep <=> (reset.at # "idle" /\ reset'.at = "idle" /\ ~reset.raced =>
                       reset'.outcome = "done" /\ rows' = Nothing)
  BY DEF WipesStep
<1> QED BY <1>1, <1>2, <1>3, <1>4, PTL DEF ContentSpec, ResetEmpties
=============================================================================

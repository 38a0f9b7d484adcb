----------------------------- MODULE TimedUpload -----------------------------
(***************************************************************************)
(* One upload from the pipeline's choice of its time to YouTube's answer:  *)
(* compute_scheduled_at, then upload_video with its token, its resumable   *)
(* session and its chunks, called again by later ticks when it raised,     *)
(* while a repeated render may write the file that is being read.          *)
(* A file is a sequence of units, each of the film it belongs to; a chunk  *)
(* has ChunkSize units.  YouTube is external: what it may answer is        *)
(* modelled from what the uploader handles.                                *)
(***************************************************************************)
EXTENDS PeakScheduling, SequencesExt

CONSTANTS
  Zones,      \* channel time zones
  Configs,    \* Channel.config: peak windows, well-formed or not
  Floors,     \* now + pipeline_publish_delay_minutes
  ChunkSize,  \* units read at a time
  MaxSize,    \* bound: units of a film
  Faults,     \* kinds of failure that may happen
  MaxFaults,  \* bound: failures
  MaxCalls    \* bound: calls of upload_video

ASSUME TimedUploadAssumption ==
  /\ ChunkSize \in Nat \ {0} /\ MaxSize \in Nat \ {0}
  /\ MaxFaults \in Nat /\ MaxCalls \in Nat \ {0}
  /\ Faults \subseteq {"token", "refused", "timeout", "partial", "crash"}

\* Clocks are changed by an hour at most, and by an hour only on the hour.
ASSUME ClocksAssumption ==
  /\ Floors \subseteq Int
  /\ \A zone \in Zones :
       /\ {zone.before, zone.after, zone.change} \subseteq Int
       /\ zone.before - zone.after \in -Hour..Hour
       /\ zone.before - zone.after \in {-Hour, Hour} => (zone.change + zone.before) % Hour = 0

VARIABLES
  plan,     \* the channel's zone and windows and the earliest time, until the call
  due,      \* scheduled_at, until the call
  file,     \* the file at video_path
  writing,  \* a repeated render is writing it
  call,     \* upload_video: where it is, total_size, offset and the chunk read
  session,  \* the resumable session at YouTube
  tube,     \* the videos YouTube made, in order: is it the whole film?
  answer,   \* what the last call ended with
  calls, faults,
  film, raced  \* history: the file when the call began; written since

vars == <<plan, due, file, writing, call, session, tube, answer, calls, faults, film, raced>>
row == <<plan, due>>
disk == <<file, writing>>
history == <<film, raced>>

Never == -1
Types == {"short", "long"}
Plans == [zone : Zones, config : Configs, type : Types, floor : Floors]
NoPlan == [floor |-> Never]

\* A film of n units; version 2 is what a repeated render makes.
Film(version, n) == [i \in 1..n |-> version]

Idle == [at |-> "idle", total |-> 0, offset |-> 0, chunk |-> << >>]
NoSession == [total |-> 0, bytes |-> << >>]

Init ==
  /\ plan \in Plans /\ due = Never
  /\ file \in {Film(1, n) : n \in 1..MaxSize} /\ writing = FALSE
  /\ call = Idle /\ session = NoSession /\ tube = << >>
  /\ answer = "none" /\ calls = 0 /\ faults = 0
  /\ film = << >> /\ raced = FALSE

Fault(kind) == kind \in Faults /\ faults < MaxFaults /\ faults' = faults + 1

-----------------------------------------------------------------------------
(* The pipeline's upload stage.                                            *)

\* The channel's row is there: the topic refers to it.
Insert ==
  /\ due = Never /\ plan # NoPlan
  /\ due' = ScheduledAt(plan.zone, Windows(plan.config, plan.type), plan.floor)
  /\ UNCHANGED <<plan, disk, call, session, tube, answer, calls, faults, history>>

-----------------------------------------------------------------------------
(* upload_video.                                                           *)

Total == call.total
LastByte == call.offset + Len(call.chunk)

Raises ==
  /\ call' = Idle /\ answer' = "raised"
  /\ UNCHANGED <<row, disk, tube, calls, history>>

\* A tick's first call at its time, or another after one that raised: one at a time,
\* as PublishScheduler shows.  The time is forgotten, nothing reads it any more.
Begins ==
  /\ call.at = "idle" /\ calls < MaxCalls /\ calls' = calls + 1
  /\ \/ due # Never
     \/ answer = "raised"
  /\ plan' = NoPlan /\ due' = Never
  /\ film' = file /\ raced' = writing /\ answer' = "none"
  /\ call' = [Idle EXCEPT !.at = "token", !.total = Len(file)]
  /\ UNCHANGED <<disk, session, tube, faults>>

RefusesEmpty ==
  /\ call.at = "token" /\ Total = 0
  /\ Raises /\ UNCHANGED <<session, faults>>

\* A fresh manager has no token: it asks for one, and that may fail.
GetsToken ==
  /\ call.at = "token" /\ Total # 0
  /\ \/ /\ call' = [call EXCEPT !.at = "open"]
        /\ UNCHANGED <<row, disk, session, tube, answer, calls, faults, history>>
     \/ Fault("token") /\ Raises /\ UNCHANGED session

\* The session is opened for total_size bytes, then the file is opened.
OpensSession ==
  /\ call.at = "open"
  /\ \/ /\ call' = [call EXCEPT !.at = "read"]
        /\ session' = [total |-> Total, bytes |-> << >>]
        /\ UNCHANGED <<row, disk, tube, answer, calls, faults, history>>
     \/ (Fault("refused") \/ Fault("timeout")) /\ Raises /\ UNCHANGED session

\* The next chunk of the file as it is now.
Reads ==
  /\ call.at = "read" /\ Len(file) > call.offset
  /\ call' = [call EXCEPT !.at = "send",
       !.chunk = SubSeq(file, call.offset + 1, Min({call.offset + ChunkSize, Len(file)}))]
  /\ UNCHANGED <<row, disk, session, tube, answer, calls, faults, history>>

\* The file has no more, and YouTube has not returned the video.
ReadsNothing ==
  /\ call.at = "read" /\ Len(file) <= call.offset
  /\ Raises /\ UNCHANGED <<session, faults>>

(***************************************************************************)
(* YouTube: a chunk must begin where the stored bytes end and fit in what  *)
(* was announced.  It may store a part of it; with the last byte the video *)
(* is made.                                                                *)
(***************************************************************************)
Fits == call.offset = Len(session.bytes) /\ LastByte <= session.total

Stores ==
  /\ call.at = "send" /\ Fits
  /\ \E n \in 0..Len(call.chunk) :
       /\ IF n = Len(call.chunk) THEN UNCHANGED faults ELSE Fault("partial")
       /\ LET bytes == session.bytes \o SubSeq(call.chunk, 1, n) IN
          /\ session' = [session EXCEPT !.bytes = bytes]
          /\ IF Len(bytes) = session.total
             THEN tube' = Append(tube, bytes = film) /\ call' = [call EXCEPT !.at = "created"]
             ELSE UNCHANGED tube /\ call' = [call EXCEPT !.at = "incomplete"]
  /\ UNCHANGED <<row, disk, answer, calls, history>>

\* An error answer: to a chunk that does not fit, or for YouTube's own reasons.
Refuses ==
  /\ call.at = "send"
  /\ IF Fits THEN Fault("refused") ELSE UNCHANGED faults
  /\ Raises /\ UNCHANGED session

\* No answer in time, whatever was stored.
TimesOut ==
  /\ call.at \in {"send", "incomplete", "created"}
  /\ Fault("timeout") /\ Raises /\ UNCHANGED session

\* Faulty variant: 308 to the last chunk is taken for success.
GoesOnPast308 ==
  /\ call.at = "incomplete"
  /\ IF LastByte >= Total
     THEN call' = Idle /\ answer' = "video"
     ELSE call' = [call EXCEPT !.at = "read", !.offset = LastByte] /\ UNCHANGED answer
  /\ UNCHANGED <<row, disk, session, tube, calls, faults, history>>

\* 308: on to the next chunk, whatever the Range header says was stored.
GoesOn ==
  /\ call.at = "incomplete"
  /\ call' = [call EXCEPT !.at = "read", !.offset = LastByte]
  /\ UNCHANGED <<row, disk, session, tube, answer, calls, faults, history>>

\* 200 or 201 to the last chunk; YouTube sends neither before it.
Returns ==
  /\ call.at = "created" /\ LastByte >= Total
  /\ call' = Idle /\ answer' = "video"
  /\ UNCHANGED <<row, disk, session, tube, calls, faults, history>>

CallStep ==
  \/ RefusesEmpty \/ GetsToken \/ OpensSession \/ Reads \/ ReadsNothing
  \/ Stores \/ Refuses \/ TimesOut \/ GoesOn \/ Returns

\* The process dies; the row says again that the upload is due.
Crash ==
  /\ call.at # "idle" /\ Fault("crash")
  /\ call' = Idle /\ answer' = "raised" /\ writing' = FALSE
  /\ UNCHANGED <<row, file, session, tube, calls, history>>

-----------------------------------------------------------------------------
(* A repeated render writes the film at the same path.                     *)

Disturbs == raced' = (raced \/ (call.at # "idle"))

\* From the first call on: a write before it only changes the film it finds.
RenderTruncates ==
  /\ plan = NoPlan /\ ~writing /\ ~\E i \in DOMAIN file : file[i] = 2
  /\ file' = << >> /\ writing' = TRUE /\ Disturbs
  /\ UNCHANGED <<row, call, session, tube, answer, calls, faults, film>>

RenderAppends ==
  /\ writing /\ Len(file) < MaxSize
  /\ file' = Append(file, 2) /\ Disturbs
  /\ UNCHANGED <<row, writing, call, session, tube, answer, calls, faults, film>>

RenderEnds ==
  /\ writing /\ Len(file) > 0 /\ writing' = FALSE
  /\ UNCHANGED <<row, file, call, session, tube, answer, calls, faults, history>>

Render == RenderTruncates \/ RenderAppends \/ RenderEnds

Next == Insert \/ Begins \/ CallStep \/ Crash \/ Render

Spec == Init /\ [][Next]_vars

\* Requests are answered or time out.
FairSpec == Spec /\ WF_vars(CallStep)

-----------------------------------------------------------------------------
(* Properties.                                                             *)

(***************************************************************************)
(* An upload is scheduled for the first time from the floor on at which    *)
(* the channel's own clock shows a peak time, through weekends, midnights  *)
(* and clock changes ("evaluated using the channel's LOCALIZED datetime    *)
(* ... to avoid off-by-one-day errors near local midnight"); only where    *)
(* the change skips the window itself, for the moment of the change.  The  *)
(* horizon never decides.  Nothing is claimed of malformed windows: the    *)
(* code takes the defaults, the docstring promises the flat delay.         *)
(***************************************************************************)
AtPeak(t) == InPeak(plan.zone, Windows(plan.config, plan.type), t)
Malformed(config) ==
  config # NoWindows /\ ~(WellFormed(config.weekday) /\ WellFormed(config.weekend))

EarliestPeak ==
  due # Never /\ ~Malformed(plan.config) =>
    LET Skips == plan.zone.before < plan.zone.after /\ due = plan.zone.change IN
    /\ due >= plan.floor
    /\ \A t \in plan.floor..(due - 1) : ~AtPeak(t)
    /\ AtPeak(due) \/ Skips

(***************************************************************************)
(* A call of upload_video makes at most one video, of the whole film that  *)
(* was there when it began unless a render wrote meanwhile; it returns     *)
(* only with that video and always ends, though it ignores how much of a   *)
(* chunk was stored, never resumes, and reads the file as it goes.         *)
(***************************************************************************)
Call == INSTANCE UploadCall WITH
  outcome <- IF call.at # "idle" THEN "calling" ELSE answer,
  made <- call.at = "created",
  disturbed <- raced,
  videos <- tube

ImplementsUploadCall == Call!Spec
===============================================================================

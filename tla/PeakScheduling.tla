---------------------------- MODULE PeakScheduling ----------------------------
(***************************************************************************)
(* When an upload becomes due: compute_scheduled_at looks for the next     *)
(* peak window of the channel's local days.  Time is in half hours of UTC, *)
(* half hour 0 being a Monday's first; a zone changes its clocks once.     *)
(***************************************************************************)
EXTENDS Integers, Sequences, FiniteSetsExt

Hour == 2
Day == 24 * Hour
PEAK_SCHEDULING_HORIZON_HOURS == 48
Weekend(wall) == (wall \div Day) % 7 >= 5

\* A zone's offset before and after the UTC time at which its clocks change; an
\* unknown zone counts as UTC.
Zone(before, after, change) == [before |-> before, after |-> after, change |-> change]
ToLocal(zone, t) == t + (IF t < zone.change THEN zone.before ELSE zone.after)

\* zoneinfo with fold = 0: of a time that occurs twice the first, and a time that
\* is skipped by the clock in front of the change.
ToUtc(zone, wall) ==
  wall - (IF wall < zone.change + Max({zone.before, zone.after}) THEN zone.before ELSE zone.after)

(***************************************************************************)
(* Windows are hours [from, to) of weekdays and of weekend days.           *)
(***************************************************************************)
DEFAULT_PEAK_WINDOWS ==
  [short |-> [weekday |-> <<18, 22>>, weekend |-> <<11, 14>>],
   long  |-> [weekday |-> <<19, 21>>, weekend |-> <<12, 15>>]]

WellFormed(window) ==
  Len(window) = 2 /\ window[1] \in 0..23 /\ window[2] \in 0..24 /\ window[1] < window[2]

\* A channel without an entry of its own for the content type.
NoWindows == [weekday |-> << >>, weekend |-> << >>]

\* An entry counts if both its windows are well-formed; a malformed one is
\* replaced as if there were none, with a warning that says otherwise.
Windows(config, type) ==
  IF WellFormed(config.weekday) /\ WellFormed(config.weekend)
  THEN config ELSE DEFAULT_PEAK_WINDOWS[type]

\* The window of the local day that begins at midnight.
From(windows, midnight) ==
  midnight + Hour * (IF Weekend(midnight) THEN windows.weekend ELSE windows.weekday)[1]
Until(windows, midnight) ==
  midnight + Hour * (IF Weekend(midnight) THEN windows.weekend ELSE windows.weekday)[2]

Midnight(wall) == wall - (wall % Day)

\* The days looked at, from the floor's own on.
DaysAhead == 0..(PEAK_SCHEDULING_HORIZON_HOURS \div 24 + 1)

\* Faulty variant: a floor inside a window waits for the next one.
ScheduledAtNextStart(zone, windows, floor) ==
  LET wall == ToLocal(zone, floor)
      days == {Midnight(wall) + Day * k : k \in DaysAhead}
  IN  ToUtc(zone, From(windows, Min({d \in days : From(windows, d) >= wall})))

ScheduledAt(zone, windows, floor) ==
  LET wall == ToLocal(zone, floor)
      Inside(d) == From(windows, d) <= wall /\ wall < Until(windows, d)
      days == {d \in {Midnight(wall) + Day * k : k \in DaysAhead} :
                 Inside(d) \/ From(windows, d) >= wall}
      day == Min(days)
      candidate == ToUtc(zone, From(windows, day))
  IN  IF \/ days = {}
         \/ Inside(day)
         \/ candidate > floor + Hour * PEAK_SCHEDULING_HORIZON_HOURS
      THEN floor ELSE candidate

\* The local clock shows a time of a window.
InPeak(zone, windows, t) ==
  LET wall == ToLocal(zone, t) IN
  From(windows, Midnight(wall)) <= wall /\ wall < Until(windows, Midnight(wall))
===============================================================================

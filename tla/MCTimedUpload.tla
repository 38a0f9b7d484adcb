---------------------------- MODULE MCTimedUpload ----------------------------
(***************************************************************************)
(* Four zones, every mix of five windows for weekdays and weekends, and    *)
(* every half hour of a week whose Sunday changes the clocks.              *)
(***************************************************************************)
EXTENDS TimedUpload

UTC == Zone(0, 0, 0)
India == Zone(11, 11, 0)
NewYorkSpring == Zone(-10, -8, 638)
NewYorkFall == Zone(-8, -10, 636)
MCZones == {UTC, India, NewYorkSpring, NewYorkFall}

\* The last is malformed.
MCWindows == {<<18, 22>>, <<0, 1>>, <<1, 3>>, <<2, 3>>, <<23, 24>>, <<22, 6>>}
MCConfigs == [weekday : MCWindows, weekend : MCWindows] \cup {NoWindows}

MCFloors == 336..671
===============================================================================

---------------------------- MODULE MCPipelineRuns ----------------------------
(***************************************************************************)
(* Two runs while at most one failure has happened, one run with up to     *)
(* MaxFaults of them.                                                      *)
(***************************************************************************)
EXTENDS PipelineRuns

FewFailuresOfMany ==
  Cardinality({r \in Runs : run'[r].status # "none"}) <= 1 \/ faults' >= MaxFaults - 1

MCNext == Next /\ FewFailuresOfMany

MCSpec ==
  /\ Init /\ [][MCNext]_vars
  /\ WF_vars(Watchdog)
  /\ \A r \in Runs : WF_vars(TimePasses(r))
===============================================================================

------------------------------ MODULE MCDebate -------------------------------
(* The sets of faults of the runs of Debate. *)
EXTENDS DebateProps

TurnFaults ==
  {"topic", "drop", "reject", "error", "repeat", "disk", "judge_budget", "judge_kill", "handler"}
ProcessFaults == {"budget", "crash", "stall", "late", "repeat", "misjudge", "judge_budget"}
LiveFaults ==
  {"topic", "misjudge", "judge_budget", "judge_kill", "handler", "stall", "repeat"}
ErrorFaults == {"error"}
==============================================================================

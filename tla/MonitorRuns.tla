----------------------------- MODULE MonitorRuns -----------------------------
(***************************************************************************)
(* What every stage of the rig monitor stands on (lib/monitor/run.ts,      *)
(* lib/monitor/store.ts): runs that overlap, over one database with its    *)
(* clock and its table of alerts.  Alerts adds the evaluation and the      *)
(* posts of an alert, Issues the diagnosis and the issue an urgent one is  *)
(* handed off to; each says what a run and a row of the table are for it.  *)
(***************************************************************************)

CONSTANTS
  Runs,        \* the runs there can be at once
  RetryAfter,  \* RETRY_AFTER
  RetryFor,    \* RETRY_FOR
  MaxAlerts,   \* bounds the alerts opened
  MaxFailures, \* bounds the calls that fail and the runs that die
  MaxTime,     \* bounds the clock
  None         \* null

VARIABLES
  now,      \* the database's clock
  alerts,   \* monitor_alerts, in the order of their ids
  runs,     \* the runs under way
  failures  \* how many calls failed and runs died
=============================================================================

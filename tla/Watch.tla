-------------------------------- MODULE Watch --------------------------------
(***************************************************************************)
(* What RigWatch and VenueWatch stand on: the clock the monitor judges by, *)
(* the alerts that are open, and what an evaluation makes of them          *)
(* (lib/monitor/store.ts).                                                 *)
(***************************************************************************)
EXTENDS MonitorRules

CONSTANTS
  ResolveAfterAbsent,  \* RESOLVE_AFTER_ABSENT
  MaxTime              \* bounds the clock

VARIABLES
  now,    \* the database's clock
  alerts  \* the open alerts

(* applyFindings, for what stays open: a finding holds or opens its alert  *)
(* at its severity; an alert nothing names counts an absence, and resolves *)
(* at the last one.                                                        *)
Absent(findings) ==
  {[a EXCEPT !.absent = @ + 1] :
     a \in {b \in alerts : b.absent + 1 < ResolveAfterAbsent /\ \A f \in findings : ~IsFor(b, f)}}

Applied(findings) ==
  Absent(findings)
  \cup {[rule |-> f.rule, subject |-> f.subject, severity |-> f.severity,
         evidence |-> f.evidence, absent |-> 0] : f \in findings}
=============================================================================

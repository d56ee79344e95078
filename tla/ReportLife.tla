----------------------------- MODULE ReportLife -----------------------------
(***************************************************************************)
(* What the report pipeline promises of one report, seen from outside:     *)
(* whatever is requested, retried, patched late or repeated, a report is   *)
(* announced to its owner only when it is ready, and once for each time it *)
(* became ready.                                                           *)
(***************************************************************************)
EXTENDS Naturals

VARIABLES
  phase,        \* "absent", "working", "ready", "announced" or "failed"
  completions,  \* how often the report became ready
  notices       \* how often it was announced

vars == <<phase, completions, notices>>

Init ==
  /\ phase = "absent"
  /\ completions = 0
  /\ notices = 0

\* The report is asked for, or work on it goes on.
Work ==
  /\ phase' = "working"
  /\ UNCHANGED <<completions, notices>>

Complete ==
  /\ phase # "absent"
  /\ phase' = "ready"
  /\ completions' = completions + 1
  /\ UNCHANGED notices

Fail ==
  /\ phase # "absent"
  /\ phase' = "failed"
  /\ UNCHANGED <<completions, notices>>

Announce ==
  /\ phase = "ready"
  /\ phase' = "announced"
  /\ notices' = notices + 1
  /\ UNCHANGED completions

Next == Work \/ Complete \/ Fail \/ Announce

Spec == Init /\ [][Next]_vars
=============================================================================

----------------------------- MODULE BurnCycle -----------------------------
(***************************************************************************)
(* What the burner promises, without its tasks, timers and interrupts: one *)
(* burn per permission.  A start command or a loss of power on the fixture *)
(* gives the permission, a burn uses it up, and before the next burn the   *)
(* outcome has been listened for, shown and reported.                      *)
(***************************************************************************)
VARIABLES
  armed,       \* a burn is permitted
  phase        \* what the radio task is doing

cycle == <<armed, phase>>

TypeOK ==
  armed \in BOOLEAN /\ phase \in {"idle", "burning", "listening", "showing"}

Init == armed = FALSE /\ phase = "idle"

Arm == armed' = TRUE /\ phase' = phase

Burn == armed /\ phase = "idle" /\ armed' = FALSE /\ phase' = "burning"

\* The burn was verified, or it was not.
Burned   == phase = "burning" /\ phase' = "listening" /\ armed' = armed
Rejected == phase = "burning" /\ phase' = "showing" /\ armed' = armed

\* The card was heard, or it was not in time; the latter in the instant of a
\* power sample that arms the next burn as well.
Listened == phase = "listening" /\ phase' = "showing" /\ armed' \in {armed, TRUE}

Reported == phase = "showing" /\ phase' = "idle" /\ armed' = armed

Restart == armed' = FALSE /\ phase' = "idle"

Next == Arm \/ Burn \/ Burned \/ Rejected \/ Listened \/ Reported \/ Restart

Spec == Init /\ [][Next]_cycle

BurnEnds == phase = "burning" ~> phase = "idle"
=============================================================================

------------------------------ MODULE MCBurner ------------------------------
(***************************************************************************)
(* Burner for TLC.  The real timeouts are 100 ms for the system, rf300 and *)
(* success-tone timers, 200 ms for a second find, 600 ms for the failure   *)
(* tone, 1 s before the burn and 3 s of listening.                         *)
(***************************************************************************)
EXTENDS Burner, TLC

\* The cards differ in nothing but their names.
CardSymmetry == Permutations(Cards)

(* One SysTick per power sample: what outlasts a sample outlasts the three  *)
(* timers of 100 ms.  Timers of different tasks start at any distance from  *)
(* each other, so that they run out in any order though alike in length.    *)
ShortTimeout ==
  [t \in Timers |-> IF t \in {"system", "rf300", "beepOk"} THEN 1 ELSE 2]
=============================================================================

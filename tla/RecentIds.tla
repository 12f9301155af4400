----------------------------- MODULE RecentIds -----------------------------
(***************************************************************************)
(* What the white list is to who fills it: the Capacity identities added   *)
(* last, the oldest of which makes room for a new one.                     *)
(***************************************************************************)
EXTENDS Naturals, Sequences

CONSTANTS Uids, Capacity

VARIABLES
  listed,     \* the identities, the oldest first
  cleared     \* the list is being initialised

Init == listed = << >>

Add ==
  \E u \in Uids :
    /\ \A i \in 1 .. Len(listed) : listed[i] # u
    /\ listed' = Append(IF Len(listed) = Capacity THEN Tail(listed) ELSE listed, u)

Empty == cleared /\ listed' = << >>

Next == Add \/ Empty

Step == [Next]_listed
Spec == Init /\ [][Step]_listed
=============================================================================

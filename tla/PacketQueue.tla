---------------------------- MODULE PacketQueue ----------------------------
(***************************************************************************)
(* What a buffer of messages promises to the interrupt that fills it and   *)
(* to the main loop that empties it: a queue, as long as it is whole.  The *)
(* frame buffer and the request slots both make this promise.              *)
(***************************************************************************)
EXTENDS Naturals, Sequences

CONSTANT Frames

VARIABLES
  queue,       \* the frames that wait
  out,         \* the frame handed over last
  whole        \* the buffer still keeps its promise

pvars == <<queue, out, whole>>

Init == queue = << >> /\ out = << >> /\ whole = TRUE

\* Said of queue' rather than by naming the frame: Frames may be infinite.
Put ==
  /\ whole /\ UNCHANGED <<out, whole>>
  /\ Len(queue') = Len(queue) + 1
  /\ SubSeq(queue', 1, Len(queue)) = queue /\ queue'[Len(queue')] \in Frames

Take ==
  /\ whole /\ queue # << >>
  /\ out' = Head(queue) /\ queue' = Tail(queue) /\ whole' = whole

\* The buffer begins anew, empty and whole.
Clear == queue' = << >> /\ whole' = TRUE /\ out' \in {out, << >>}

\* A buffer that is not whole promises nothing until it is cleared.
Broken == whole' = FALSE

Next == Put \/ Take \/ Clear \/ Broken

Spec == Init /\ [][Next]_pvars
=============================================================================

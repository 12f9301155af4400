----------------------------- MODULE RadioPath -----------------------------
(***************************************************************************)
(* The way of a radio frame from the air to the burner: NrfLink up to the   *)
(* interrupt of the STM32, the frame buffer as the queue that SpiRing shows *)
(* it to be, with its status beside it, and the listening window of         *)
(* App_clickers_send_data_process, outside which the interrupt throws away  *)
(* what it reads.                                                          *)
(*                                                                         *)
(* The interrupt reads on whether the window is open or not, so a frame may *)
(* be on its way when a window opens.  The main loop does not run while the *)
(* interrupt does; SysTick, which ends a window, may.                       *)
(***************************************************************************)
EXTENDS NrfLink

CONSTANTS
  Room,     \* messages that make the frame buffer BUF_FULL
  Watched   \* frames that EachIsTaken is checked for

\* 248 whole frames: more than one stays behind when the reader takes one of them.
ASSUME RoomAssumption == Room \in Nat \ {0, 1}

VARIABLES
  listening,   \* rf_rev_status = 2
  queue,       \* the messages in SPI_RBUF
  status,      \* BUF_EMPTY, BUF_USEING or BUF_FULL
  reader,      \* where the main loop is: "test" when it does not read, "look" and
               \* "again" before the two tests of Size, "empty" and "using" before it
               \* stores that status, "astray" when top and bottom were set back under
               \* a message
  taken,       \* history: the messages the main loop took in this window
  opened       \* history: frames that had arrived when it opened, 0 outside one

windowVars == <<listening, queue, status, reader, taken, opened>>
pathVars == <<vars, windowVars>>

PathTypeOK ==
  /\ TypeOK
  /\ listening \in BOOLEAN /\ opened \in 0 .. air
  /\ queue \in Seq(Messages) /\ Len(queue) <= Room + 2 /\ taken \in Seq(Messages)
  /\ status \in {"empty", "using", "full"}
  /\ reader \in {"test", "look", "again", "empty", "using", "astray"}
  /\ reader = "test" /\ status # "empty" => queue # << >>

PathInit ==
  /\ Init /\ listening = FALSE /\ queue = << >> /\ status = "empty" /\ reader = "test"
  /\ taken = << >> /\ opened = 0

-----------------------------------------------------------------------------
(* spi_read_tx_payload is done: lines 354-360 of the interrupt.  The first  *)
(* message after BUF_EMPTY does not look at the room.  What is stored when  *)
(* the reader is astray is SpiRing's matter.                                *)
Store(m) ==
  IF listening /\ status # "full" /\ reader # "astray"
  THEN /\ queue' = Append(queue, m)
       /\ status' = IF status = "using" /\ Len(queue') >= Room THEN "full" ELSE "using"
  ELSE UNCHANGED <<queue, status>>

Interrupt ==
  \/ IsrRead /\ Store(Message) /\ UNCHANGED <<listening, reader, taken, opened>>
  \/ (IsrEnter \/ IsrLeave) /\ UNCHANGED windowVars

Receiver ==
  (Receive \/ SpisIdle \/ SpisArm \/ Expire) /\ UNCHANGED windowVars

\* Mutant: the frame buffer is not cleared.
OpenUncleared ==
  /\ ~listening /\ pc = "out" /\ reader \in {"test", "astray"}
  /\ listening' = TRUE /\ taken' = << >> /\ opened' = air
  /\ reader' = "test" /\ UNCHANGED <<vars, queue, status>>

\* A burn succeeded: lines 58-59.
Open ==
  /\ ~listening /\ pc = "out" /\ reader \in {"test", "astray"}
  /\ listening' = TRUE /\ queue' = << >> /\ status' = "empty"
  /\ taken' = << >> /\ opened' = air /\ reader' = "test"
  /\ UNCHANGED vars

\* A pass of the main loop takes one message, lines 73-96; spi_rd_buffer up to
\* the call of update_read_status.
Take ==
  /\ listening /\ pc = "out" /\ reader = "test" /\ status # "empty"
  /\ queue' = Tail(queue) /\ taken' = Append(taken, Head(queue)) /\ reader' = "look"
  /\ UNCHANGED <<vars, listening, status, opened>>

\* Mutant: a size of zero is one, too.
LookAtLeast ==
  /\ reader = "look" /\ pc = "out" /\ reader' = "using"
  /\ UNCHANGED <<vars, listening, queue, status, taken, opened>>

\* update_read_status: the status, which only the reader makes BUF_EMPTY, and
\* the first test of Size.
Look ==
  /\ reader = "look" /\ pc = "out"
  /\ reader' = IF status = "full" \/ queue # << >> THEN "using" ELSE "again"
  /\ UNCHANGED <<vars, listening, queue, status, taken, opened>>

(* The second test.  A message that came since the first has top and bottom *)
(* set back under it; what spi_rd_buffer finds from then on, until the next *)
(* window opens, is not recorded here.                                     *)
LookAgain ==
  /\ reader = "again" /\ pc = "out"
  /\ IF queue = << >>
     THEN reader' = "empty" /\ UNCHANGED <<queue, status>>
     ELSE reader' = "astray" /\ queue' = << >> /\ status' = "empty"
  /\ UNCHANGED <<vars, listening, taken, opened>>

\* The assignment the tests decided on, whatever was stored since.
StoreStatus(s) ==
  /\ reader = s /\ pc = "out"
  /\ reader' = "test" /\ status' = s
  /\ UNCHANGED <<vars, listening, queue, taken, opened>>

Reader == Take \/ Look \/ LookAgain \/ StoreStatus("empty") \/ StoreStatus("using")

\* The frame looked for was taken, or rf_3000_timer ran out.
Close ==
  /\ listening /\ listening' = FALSE /\ taken' = << >> /\ opened' = 0
  /\ UNCHANGED <<vars, queue, status, reader>>

PathNext == Interrupt \/ Receiver \/ Open \/ Reader \/ Close

(* Interrupts are served, a timer that runs expires, the main loop goes on. *)
PathSpec ==
  /\ PathInit /\ [][PathNext]_pathVars
  /\ WF_pathVars(Interrupt)
  /\ WF_pathVars((SpisIdle \/ SpisArm) /\ UNCHANGED windowVars)
  /\ WF_pathVars(Expire /\ UNCHANGED windowVars)
  /\ WF_pathVars(Reader)
-----------------------------------------------------------------------------
(* What a window brings belongs to it.  Every message taken in it but one   *)
(* cost a frame that arrived since it opened, and of the whole ones only    *)
(* the first can be older than it, the one that was on its way.  Frames     *)
(* come in the order of their arrival, a whole one newer than everything    *)
(* before it.  What a failed read leaves behind is the frame read last      *)
(* before, which may be older than the window, and come any number of       *)
(* times, until the first whole frame of the window is read; a frame of it  *)
(* is never followed by an older one.                                       *)
WindowIsFresh ==
  /\ listening => Len(taken) + Len(queue) <= air - opened + 1
  /\ \A i, j \in 1 .. Len(taken) : i < j =>
       /\ taken[j].kind = "whole" => taken[j].frame > opened
       /\ taken[i].kind # "phantom" /\ taken[j].kind # "phantom" =>
            /\ taken[i].frame <= taken[j].frame
            /\ taken[j].kind = "whole" => taken[i].frame < taken[j].frame

(* A message the reader does not see: it came between a test of Size and    *)
(* the assignment of BUF_EMPTY, and stays behind until the next one comes,  *)
(* or top and bottom were set back under it.                               *)
Overlooked == reader = "astray" \/ (status = "empty" /\ queue # << >>)

(* A frame that arrives in a window, at least the timer's three             *)
(* milliseconds after the one before, is taken whole unless the window ends *)
(* first, the frame buffer fills up, or a message is overlooked.            *)
EachIsTaken ==
  \A f \in Watched :
    (spaced /\ listening /\ pending /\ pc = "out" /\ buf = f) ~>
      \/ ~listening \/ status = "full" \/ Overlooked
      \/ Whole(f) \in {taken[i] : i \in 1 .. Len(taken)}
=============================================================================

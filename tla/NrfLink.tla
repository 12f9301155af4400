------------------------------ MODULE NrfLink ------------------------------
(***************************************************************************)
(* A radio frame on its way from the nRF51822 to the STM32: the event      *)
(* handler of the radio (main.c), the handler of the SPI slave (my_spi.c)  *)
(* and the timeout of a transfer (my_timer.c) on the one side, the         *)
(* interrupt that reads the frame (init.c, stm32f10x_it.c) on the other.   *)
(*                                                                         *)
(* The radio handler preempts the other two; the interrupt of the STM32    *)
(* runs beside all of them.  Frames are numbered as they arrive.  The SPI  *)
(* reads m_tx_buf in two steps, the part before a rewriting and the part   *)
(* after it.                                                               *)
(***************************************************************************)
EXTENDS Naturals, Sequences

CONSTANT MaxFrames   \* bound: frames that arrive

ASSUME LinkAssumption == MaxFrames \in Nat

VARIABLES
  spaced,    \* frames arrive at least the three milliseconds of the timer apart
  air,       \* frames that have arrived
  buf,       \* m_tx_buf: the frame in it
  busy,      \* spi_busy_status = SPI_BUSY
  timer,     \* spi_overtime_timer: "off", "own" when the frame in buf started it,
             \* "stale" when an earlier one did
  armed,     \* the SPI slave owns the buffers
  done,      \* its XFER_DONE handler: "none", "pending", or "idle" halfway
  pending,   \* the EXTI line of the STM32 is pending
  pc,        \* the interrupt of the STM32: "out", "reading" or "leaving"
  first,     \* the frame its first bytes came from, Def when there was none
  rbuf,      \* nrf_data.rbuf: the frame in it
  got        \* the messages the interrupt handed on

slave == <<armed, done>>
master == <<pending, pc, first, rbuf, got>>
vars == <<spaced, air, buf, busy, timer, slave, master>>

Def == MaxFrames + 1   \* no frame: 0xFF, what a slave without buffers sends

(* A message: the frame read; a frame read before, without its last byte   *)
(* (nrf_data as the failed read left it); or the one byte that             *)
(* spi_read_tx_payload makes of a transfer of nothing but 0xFF.            *)
Whole(f) == [kind |-> "whole", frame |-> f]
Left(f) == [kind |-> "left", frame |-> f]
Phantom == [kind |-> "phantom", frame |-> 0]

Messages == [kind : {"whole", "left", "phantom"}, frame : 0 .. air]

TypeOK ==
  /\ spaced \in BOOLEAN
  /\ air \in 0 .. MaxFrames /\ buf \in 0 .. air /\ busy \in BOOLEAN
  /\ timer \in {"off", "own", "stale"}
  /\ armed \in BOOLEAN /\ done \in {"none", "pending", "idle"}
  /\ armed => done = "none"
  /\ pending \in BOOLEAN /\ pc \in {"out", "reading", "leaving"}
  /\ pc # "out" => pending
  /\ first \in 0 .. air \cup {Def} /\ rbuf \in 0 .. air
  /\ got \in Seq(Messages)

Init ==
  /\ spaced \in BOOLEAN
  /\ air = 0 /\ buf = 0 /\ busy = FALSE /\ timer = "off"
  /\ armed = TRUE /\ done = "none"
  /\ pending = FALSE /\ pc = "out" /\ first = 0 /\ rbuf = 0 /\ got = << >>

-----------------------------------------------------------------------------
(* The nRF51822 *)

\* Mutant: the timer is not started.
StartedNever == timer

\* app_timer_start does nothing to a timer that runs.
Started == IF timer = "off" THEN "own" ELSE "stale"

\* nrf_esb_event_handler: fill the buffer, pulse the interrupt line.
Receive ==
  /\ air < MaxFrames /\ (spaced => timer = "off")
  /\ air' = air + 1
  /\ IF busy THEN UNCHANGED <<buf, busy, timer, pending>>
     ELSE buf' = air' /\ pending' = TRUE /\ busy' = TRUE /\ timer' = Started
  /\ UNCHANGED <<spaced, slave, pc, first, rbuf, got>>

\* spis_event_handler: first idle, then the buffers.  It does not stop the timer.
SpisIdle ==
  /\ done = "pending"
  /\ busy' = FALSE /\ done' = "idle"
  /\ UNCHANGED <<spaced, air, buf, timer, armed, master>>

\* Mutant: the buffers are not set.
SpisArmForgotten ==
  /\ done = "idle" /\ armed' = armed /\ done' = "none"
  /\ UNCHANGED <<spaced, air, buf, busy, timer, master>>

SpisArm ==
  /\ done = "idle"
  /\ armed' = TRUE /\ done' = "none"
  /\ UNCHANGED <<spaced, air, buf, busy, timer, master>>

(* A transfer takes far less than three milliseconds: the timer does not    *)
(* run out in the transfer that started it.                                 *)
Expire ==
  /\ timer # "off"
  /\ timer = "own" => ~pending /\ done = "none"
  /\ busy' = FALSE /\ timer' = "off"
  /\ UNCHANGED <<spaced, air, buf, slave, master>>

-----------------------------------------------------------------------------
(* The STM32: NRF1_RFIRQ_EXTI_IRQHandler and spi_read_tx_payload *)

IsrEnter ==
  /\ pending /\ pc = "out"
  /\ first' = (IF armed THEN buf ELSE Def) /\ pc' = "reading"
  /\ UNCHANGED <<spaced, air, buf, busy, timer, slave, pending, rbuf, got>>

\* The message is handed on whatever spi_read_tx_payload returns.  The check
\* finds every frame that was rewritten halfway.
Message ==
  IF first = Def THEN Phantom ELSE IF first = buf THEN Whole(buf) ELSE Left(rbuf)

\* A transfer the slave had no buffers for raises no event.
IsrRead ==
  /\ pc = "reading" /\ pc' = "leaving"
  /\ got' = Append(got, Message)
  /\ rbuf' = (IF first = buf THEN buf ELSE rbuf)
  /\ IF first = Def THEN UNCHANGED slave ELSE armed' = FALSE /\ done' = "pending"
  /\ UNCHANGED <<spaced, air, buf, busy, timer, pending, first>>

\* Mutant: the pending bit is not cleared.
IsrLeaveUncleared ==
  /\ pc = "leaving" /\ pc' = "out"
  /\ UNCHANGED <<spaced, air, buf, busy, timer, slave, pending, first, rbuf, got>>

\* The pending bit is cleared last: a pulse since the entry is lost.
IsrLeave ==
  /\ pc = "leaving" /\ pc' = "out" /\ pending' = FALSE
  /\ UNCHANGED <<spaced, air, buf, busy, timer, slave, first, rbuf, got>>

Isr == IsrEnter \/ IsrRead \/ IsrLeave
Next == Receive \/ SpisIdle \/ SpisArm \/ Expire \/ Isr

Spec == Init /\ [][Next]_vars
\* RadioPath adds the users of the messages, and the fairness.

-----------------------------------------------------------------------------
(* However dense the frames, the interrupt hands on whole frames in the     *)
(* order they arrived in, none of them twice (the lost pulse, the frame     *)
(* written over another and the early timeout lose frames only).            *)
FramesInOrder ==
  \A i, j \in 1 .. Len(got) :
    i < j /\ got[i].kind = "whole" /\ got[j].kind = "whole" => got[i].frame < got[j].frame

(* The receiver never stays deaf: SPI_BUSY ends, though the pulse may be    *)
(* lost and the transfer that would end it never happen.                    *)
BusyEnds == []<>~busy
=============================================================================

------------------------------ MODULE SpiRing ------------------------------
(***************************************************************************)
(* The frame buffer SPI_RBUF of ringbuffer.c between its two users: the    *)
(* receiver's interrupt, which writes whole frames and which the main loop *)
(* cannot interrupt, and App_clickers_send_data_process, which reads them  *)
(* and which the interrupt preempts between any two accesses.              *)
(*                                                                         *)
(* A frame occupies a header, its length, its data and a trailer.  The     *)
(* cells hold numbers, so that data may look like a header.                *)
(***************************************************************************)
EXTENDS Integers, Sequences, SequencesExt

CONSTANTS
  Frames,      \* the frames the receiver hands over, sequences of cells
  Header,      \* 0x5C
  Trailer,     \* 0xCA
  BufSize,     \* SPI_RBUF_SIZE
  PacketSize,  \* PACKETSIZE, the room that must be left for one more frame
  ScanDepth,   \* 256, the cells a uint8_t skip reaches
  Longest,     \* the length of a whole frame
  Shortest,    \* the length of the shortest spoilt one
  MaxShort,    \* bound: shorter ones received in one window
  MaxRaced     \* bound: frames received after a race, the racing one included

Cells == 0 .. BufSize - 1

\* Whole frames have the length the radio is configured for; what the interrupt
\* makes of a failed transfer is shorter (Left and Phantom of NrfLink).
ASSUME FrameAssumption ==
  /\ Frames \subseteq Seq(Nat) /\ \A f \in Frames : Len(f) \in Shortest .. Longest
  /\ Longest \in Nat /\ Shortest \in 1 .. Longest
\* A reader that finds BUF_FULL turns it into BUF_USEING without looking at the
\* room: each short frame it takes lets a whole one in.  PACKETSIZE bears 28 of them.
ASSUME SizeAssumption ==
  /\ BufSize \in Nat \ {0} /\ PacketSize \in 0 .. BufSize /\ ScanDepth \in Nat \ {0, 1}
  /\ MaxShort \in Nat
  /\ 2 * (Longest + 3) + MaxShort * (Longest - Shortest) <= PacketSize
  /\ Header \in Nat \ {0} /\ Trailer \in Nat \ {0} /\ MaxRaced \in Nat \ {0}

VARIABLES
  buf,         \* spi_rbuf
  top,         \* where the next frame is written
  bottom,      \* where the next frame is read
  size,        \* Size
  status,      \* BUF_EMPTY, BUF_USEING or BUF_FULL
  listening,   \* rf_rev_status is 2: the interrupt writes
  pc,          \* the reader's next access
  skip,        \* skip of spi_rd_buffer
  drop,        \* the bytes update_bottom will take off
  out,         \* rbuf, the last frame read
  held,        \* history: the frames received and not yet read
  shorts,      \* bound: frames shorter than Longest received in this window
  raced        \* history: frames received since one came while the reader held
               \* Size to be zero, that one included

ring == <<buf, top, bottom, size>>
vars == <<ring, status, listening, pc, skip, drop, out, held, shorts, raced>>

TypeOK ==
  /\ buf \in [Cells -> Nat] /\ top \in Cells /\ bottom \in Cells
  /\ size \in Int
  /\ status \in {"empty", "using", "full"} /\ listening \in BOOLEAN
  /\ pc \in {"test", "scan", "data", "update", "switch", "size", "again", "empty", "using"}
  /\ skip \in 0 .. ScanDepth - 1 /\ drop \in Nat
  /\ out \in Seq(Nat) /\ held \in Seq(Frames) /\ raced \in 0 .. MaxRaced
  /\ shorts \in 0 .. MaxShort

Init ==
  /\ buf = [i \in Cells |-> 0] /\ top = 0 /\ bottom = 0 /\ size = 0
  /\ status = "empty" /\ listening = FALSE
  /\ pc = "test" /\ skip = 0 /\ drop = 0 /\ out = << >> /\ held = << >>
  /\ shorts = 0 /\ raced = 0

\* Mutant: the index does not wrap.
AtUnwrapped(base, i) == base + i

At(base, i) == (base + i) % BufSize
-----------------------------------------------------------------------------
(* The writer                                                              *)

Packet(f) == <<Header, Len(f)>> \o f \o <<Trailer>>

\* Mutant: the buffer never becomes full.
WriteStatusNeverFull(s, newSize) == "using"

\* update_write_status: the first frame does not look at the room.
WriteStatus(s, newSize) ==
  IF s = "using" /\ newSize > BufSize - PacketSize THEN "full"
  ELSE IF s = "empty" THEN "using" ELSE s

\* NRF1_RFIRQ_EXTI_IRQHandler and spi_wr_buffer.
Receive(f) ==
  /\ listening /\ status # "full"
  /\ buf' = [i \in Cells |->
               LET k == ((i - top) % BufSize) + 1
               IN IF k <= Len(Packet(f)) THEN Packet(f)[k] ELSE buf[i]]
  /\ size' = size + Len(Packet(f))
  /\ top' = At(top, Len(Packet(f)))
  /\ status' = WriteStatus(status, size')
  /\ raced < MaxRaced
  /\ shorts' = shorts + (IF Len(f) < Longest THEN 1 ELSE 0) /\ shorts' <= MaxShort
  /\ raced' = IF raced > 0 \/ pc \in {"again", "empty"} THEN raced + 1 ELSE 0
  /\ held' = Append(held, f)
  /\ UNCHANGED <<bottom, listening, pc, skip, drop, out>>
-----------------------------------------------------------------------------
(* The reader                                                              *)

\* Task lines 58-59 with clear_buffer: the interrupt does not write before
\* line 59 lets it.
Open ==
  /\ pc = "test" /\ ~listening /\ listening' = TRUE
  /\ bottom' = 0 /\ top' = 0 /\ size' = 0 /\ status' = "empty"
  /\ held' = << >> /\ raced' = 0 /\ shorts' = 0
  /\ UNCHANGED <<buf, pc, skip, drop, out>>

\* The matching frame came, or rf_3000_timer expired.
Close ==
  /\ listening /\ listening' = FALSE
  /\ UNCHANGED <<ring, status, pc, skip, drop, out, held, shorts, raced>>

\* Task lines 73-79.
Test ==
  /\ pc = "test" /\ listening /\ status # "empty"
  /\ pc' = "scan" /\ skip' = 0
  /\ UNCHANGED <<ring, status, listening, drop, out, held, shorts, raced>>

\* One turn of the search for the header; get clears the cell it reads.
Scan ==
  /\ pc = "scan"
  /\ buf' = [buf EXCEPT ![At(bottom, skip)] = 0]
  /\ skip' = (skip + 1) % ScanDepth
  /\ pc' = IF buf[At(bottom, skip)] = Header THEN "data" ELSE "scan"
  /\ UNCHANGED <<top, bottom, size, status, listening, drop, out, held, shorts, raced>>

DropBytes(len) == len + skip + 2

\* The length and the data; the trailer stays in its cell.
ReadData ==
  LET len == buf[At(bottom, skip)]
  IN /\ pc = "data" /\ pc' = "update"
     /\ out' = [i \in 1 .. len |-> buf[At(bottom, skip + i)]]
     /\ buf' = [i \in Cells |-> IF (i - bottom - skip) % BufSize <= len THEN 0 ELSE buf[i]]
     /\ drop' = DropBytes(len)
     /\ held' = IF held = << >> THEN << >> ELSE Tail(held)
  /\ UNCHANGED <<top, bottom, size, status, listening, skip, shorts, raced>>

\* update_bottom, with the interrupts masked.
UpdateBottom ==
  /\ pc = "update" /\ pc' = "switch"
  /\ size' = size - drop /\ bottom' = At(bottom, drop) /\ drop' = 0
  /\ UNCHANGED <<buf, top, status, listening, skip, out, held, shorts, raced>>

\* update_read_status looks at the status, once, and then twice at Size,
\* which is volatile.
SwitchStatus ==
  /\ pc = "switch"
  /\ pc' = CASE status = "empty" -> "test" [] status = "using" -> "size"
             [] status = "full"  -> "using"
  /\ UNCHANGED <<ring, status, listening, skip, drop, out, held, shorts, raced>>

SizePositive ==
  /\ pc = "size" /\ pc' = IF size > 0 THEN "using" ELSE "again"
  /\ UNCHANGED <<ring, status, listening, skip, drop, out, held, shorts, raced>>

\* A size that is neither positive nor zero sets the whole buffer back.
SizeZero ==
  /\ pc = "again"
  /\ IF size = 0
     THEN pc' = "empty" /\ UNCHANGED <<top, bottom, status>>
     ELSE pc' = "test" /\ status' = "empty" /\ top' = 0 /\ bottom' = 0
  /\ UNCHANGED <<buf, size, listening, skip, drop, out, held, shorts, raced>>

\* Mutant: a buffer that was read empty stays in use.
StoreUsing(s) ==
  /\ pc = s /\ pc' = "test" /\ status' = "using"
  /\ UNCHANGED <<ring, listening, skip, drop, out, held, shorts, raced>>

\* The assignment the tests decided on.
StoreStatus(s) ==
  /\ pc = s /\ pc' = "test" /\ status' = s
  /\ UNCHANGED <<ring, listening, skip, drop, out, held, shorts, raced>>

Reader ==
  \/ Test \/ Scan \/ ReadData \/ UpdateBottom
  \/ SwitchStatus \/ SizePositive \/ SizeZero
  \/ StoreStatus("empty") \/ StoreStatus("using")

Next == (\E f \in Frames : Receive(f)) \/ Open \/ Close \/ Reader

Spec == Init /\ [][Next]_vars
FairSpec == Spec /\ WF_vars(Reader)
-----------------------------------------------------------------------------
\* The buffer is a queue: frames come out whole, in order and once, and none
\* is lost but those that find it full.  The only exception is a frame that
\* comes after the reader found Size not to be positive and before it has
\* stored BUF_EMPTY: it stays behind, or top and bottom are set back under it.
Queue == INSTANCE PacketQueue WITH queue <- held, whole <- raced = 0
QueueSpec == Queue!Spec

\* Between two reads the status tells the truth about the size: the main loop
\* overlooks no frame, and the interrupt turns one away only for lack of room.
StatusTracksSize ==
  pc = "test" /\ raced = 0 =>
    /\ status = "empty" <=> size = 0
    /\ status = "full" => size > BufSize - PacketSize
=============================================================================

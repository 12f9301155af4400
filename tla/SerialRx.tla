------------------------------ MODULE SerialRx ------------------------------
(***************************************************************************)
(* Requests on the serial line: the byte interrupt of stm32f10x_it.c cuts  *)
(* the stream into JSON objects and stores them in three slots, SysTick    *)
(* watches for pauses, and serial_cmd_process of task_serial_cmd.c takes   *)
(* one request per pass of the main loop.  The byte interrupt preempts     *)
(* SysTick, and both preempt the main loop.                                *)
(*                                                                         *)
(* A byte is one of five kinds: the two braces, a quote of either form, a  *)
(* blank (any character up to 32) and any other text.  Nul fills what is   *)
(* not written.                                                            *)
(***************************************************************************)
EXTENDS Integers, Sequences, FiniteSets

CONSTANTS
  Requests,    \* what the PC sends: sequences of kinds of bytes
  Slots,       \* JSON_ITEM_MAX
  SlotLen,     \* JSON_BUFFER_LEN
  MaxDamaged   \* bound: bytes sent after a stored request may have been damaged

Kinds == {"open", "close", "quote", "blank", "text"}
Nul == "nul"

ASSUME SerialAssumption ==
  /\ Requests \subseteq Seq(Kinds) \ {<< >>}
  /\ Slots \in Nat \ {0, 1} /\ SlotLen \in Nat \ {0} /\ MaxDamaged \in Nat \ {0}

\* The braces open in the first i bytes of r, those in quotations included, as
\* the interrupt counts them.
Depth(r, i) ==
  Cardinality({j \in 1 .. i : r[j] = "open"}) - Cardinality({j \in 1 .. i : r[j] = "close"})

\* Every request is one object, not nested deeper than a uint8_t counts.
ASSUME ObjectAssumption ==
  \A r \in Requests :
    /\ Len(r) > 1 /\ Depth(r, Len(r)) = 0
    /\ \A i \in 1 .. Len(r) - 1 : Depth(r, i) \in 1 .. 255

VARIABLES
  slot,        \* uart_irq_revice_massage
  index,       \* rjson_index, the slot being received into
  count,       \* rjson_count
  uart,        \* uart_status, "start" or "data"
  cnt,         \* uart_rx_cnt
  nesting,     \* uart_json_nesting_num, a uint8_t
  skip,        \* skip: inside a quotation
  rxing,       \* flag_uart_rxing
  tick,        \* the next step of SysTick's timeout; "none" outside it
  victim,      \* the index in SysTick's call of memset
  read,        \* json_read_index
  pc,          \* the next access of serial_cmd_process
  reg,         \* the register in which rjson_count is decremented
  taken,       \* the request cJSON_Parse was given last
  sending,     \* the request the PC is sending
  left,        \* what of it has not been sent
  idle,        \* history: a timeout has passed since the last byte
  clean,       \* history: the request began after a pause and has had none
  ideal,       \* history: it is clean and found the receiver as after a reset
  damaged      \* history: bytes sent since something happened that may damage a
               \* stored request; 0 when nothing has

rxVars   == <<slot, index, count, uart, cnt, nesting, skip, rxing>>
tickVars == <<tick, victim>>
mainVars == <<read, pc, reg, taken>>
pcVars   == <<sending, left, idle, clean, ideal>>
vars == <<rxVars, tickVars, mainVars, pcVars, damaged>>

SlotNumbers == 0 .. Slots - 1
Places == 1 .. SlotLen
Erased == [p \in Places |-> Nul]

TypeOK ==
  /\ slot \in [SlotNumbers -> [Places -> Kinds \cup {Nul}]]
  /\ index \in SlotNumbers /\ read \in SlotNumbers /\ count \in 0 .. Slots
  /\ uart \in {"start", "data"} /\ cnt \in 0 .. SlotLen /\ nesting \in 0 .. 255
  /\ skip \in 0 .. 1 /\ rxing \in BOOLEAN
  /\ tick \in {"none", "index", "erase", "nesting"} /\ victim \in SlotNumbers
  /\ pc \in {"wait", "run", "load", "store", "erase", "advance"} /\ reg \in 0 .. Slots
  /\ taken \in Seq(Kinds) /\ sending \in Requests \cup {<< >>} /\ left \in Seq(Kinds)
  /\ {idle, clean, ideal} \subseteq BOOLEAN /\ damaged \in 0 .. MaxDamaged

Init ==
  /\ slot = [s \in SlotNumbers |-> Erased]
  /\ index = 0 /\ count = 0 /\ uart = "start" /\ cnt = 0 /\ nesting = 0 /\ skip = 0
  /\ rxing = FALSE /\ tick = "none" /\ victim = 0
  /\ read = 0 /\ pc = "wait" /\ reg = 0 /\ taken = << >>
  /\ sending = << >> /\ left = << >> /\ idle = TRUE /\ clean = TRUE
  /\ ideal = TRUE /\ damaged = 0

\* The string in slot s, as far as the first Nul.
Text(s) ==
  LET end == CHOOSE n \in 0 .. SlotLen :
               /\ \A p \in 1 .. n : s[p] # Nul
               /\ n = SlotLen \/ s[n + 1] = Nul
  IN SubSeq(s, 1, end)
-----------------------------------------------------------------------------
(* The byte interrupt, uart_revice_data_state_mechine                      *)

\* The write of byte number n: one byte past a slot is the first of the next
\* one; past the last slot it is no request's.
Written(b, n) ==
  IF n < SlotLen THEN [slot EXCEPT ![index][n + 1] = b]
  ELSE IF index + 1 \in SlotNumbers THEN [slot EXCEPT ![index + 1][1] = b]
  ELSE slot

\* Lines 61-73.
FirstByte(b) ==
  /\ uart = "start"
  /\ IF b = "open"
     THEN /\ slot' = Written(b, 0) /\ cnt' = 1 /\ nesting' = 1
          /\ uart' = "data" /\ rxing' = TRUE
     ELSE UNCHANGED <<slot, cnt, nesting, uart, rxing>>
  /\ UNCHANGED <<index, count, skip>>

\* Mutant: a quotation is not noticed.
ToggledNever(b) == skip

Toggled(b) == IF b = "quote" THEN 1 - skip ELSE skip

\* Lines 79-82: a blank outside a quotation.
BlankByte(b) ==
  /\ uart = "data" /\ b = "blank" /\ skip = 0
  /\ UNCHANGED rxVars

\* Mutant: the count is not looked at; the byte is dropped.
OverlongByteIgnored(b) ==
  /\ uart = "data" /\ ~(b = "blank" /\ skip = 0) /\ cnt = SlotLen
  /\ UNCHANGED rxVars

\* Lines 89-102: the byte is written before the count is looked at.
OverlongByte(b) ==
  /\ uart = "data" /\ ~(b = "blank" /\ skip = 0) /\ cnt = SlotLen
  /\ slot' = [Written(b, cnt) EXCEPT ![index] = Erased]
  /\ skip' = Toggled(b)
  /\ uart' = "start" /\ cnt' = 0 /\ nesting' = 0 /\ rxing' = FALSE
  /\ UNCHANGED <<index, count>>

NestingAfter(b) ==
  (IF b = "open" THEN nesting + 1 ELSE IF b = "close" THEN nesting - 1 ELSE nesting) % 256

Ends(b) == b = "close" /\ NestingAfter(b) = 0

\* Lines 82-88 and 103-118.
DataByte(b) ==
  /\ uart = "data" /\ ~(b = "blank" /\ skip = 0) /\ cnt < SlotLen
  /\ slot' = Written(b, cnt)
  /\ skip' = Toggled(b) /\ nesting' = NestingAfter(b)
  /\ IF Ends(b)
     THEN /\ uart' = "start" /\ cnt' = 0 /\ rxing' = FALSE
          /\ index' = IF count < Slots THEN (index + 1) % Slots ELSE index
          /\ count' = IF count < Slots THEN count + 1 ELSE count
     ELSE cnt' = cnt + 1 /\ UNCHANGED <<uart, rxing, index, count>>

RxByte(b) == FirstByte(b) \/ BlankByte(b) \/ OverlongByte(b) \/ DataByte(b)

Stores(b) == IF uart = "start" THEN b = "open" ELSE ~(b = "blank" /\ skip = 0)

\* The slots with a request that was not taken, or not yet erased.
Held == count + IF pc = "erase" THEN 1 ELSE 0

\* The byte past the end of the slot falls into a slot that is held.
SpillsIntoNext == cnt = SlotLen /\ index + 1 \in SlotNumbers /\ Held = Slots - 1

\* The PC sends the next byte, of request r if none is under way.  Requests
\* stored before may be damaged when the slots are all held, by a byte past
\* the end of a slot, and when the request is counted between the two
\* accesses of line 108.
Send(r) ==
  LET stream == IF left = << >> THEN r ELSE left
      b == Head(stream)
      first == left = << >>
  IN /\ left # << >> => r = sending
     /\ sending' = r /\ left' = Tail(stream)
     /\ RxByte(b)
     /\ idle' = FALSE
     /\ clean' = IF first THEN idle \/ uart = "start" ELSE clean
     /\ ideal' = IF first THEN uart = "start" /\ skip = 0 /\ tick = "none" ELSE ideal
     /\ damaged < MaxDamaged
     /\ damaged' = IF \/ damaged > 0
                      \/ Stores(b) /\ (Held = Slots \/ (uart = "data" /\ SpillsIntoNext))
                      \/ count' # count /\ pc = "store"
                   THEN damaged + 1 ELSE 0
     /\ UNCHANGED <<tickVars, mainVars>>

\* The PC software is closed, or the cable is pulled.
Abandon ==
  /\ left # << >> /\ left' = << >> /\ sending' = << >>
  /\ UNCHANGED <<rxVars, tickVars, mainVars, idle, clean, ideal, damaged>>
-----------------------------------------------------------------------------
(* SysTick_Handler: no byte for 20 ms during reception.  The byte interrupt *)
(* may come after each of its accesses.                                     *)

Cut == clean' = (clean /\ left = << >>) /\ ideal' = (ideal /\ left = << >>)

\* Lines 286-289.
TimeoutTest ==
  /\ rxing /\ tick = "none" /\ tick' = "index" /\ Cut
  /\ UNCHANGED <<rxVars, victim, mainVars, sending, left, idle, damaged>>

\* Line 291.
TimeoutLoad ==
  /\ tick = "index" /\ tick' = "erase" /\ victim' = index
  /\ UNCHANGED <<rxVars, mainVars, pcVars, damaged>>

\* Requests stored before may be damaged when the slots are all held, and when one
\* was counted since the index was loaded.
TimeoutErase ==
  /\ tick = "erase" /\ tick' = "nesting" /\ victim' = 0 /\ Cut
  /\ slot' = [slot EXCEPT ![victim] = Erased]
  /\ damaged' = IF damaged = 0 /\ (Held = Slots \/ victim # index) THEN 1 ELSE damaged
  /\ UNCHANGED <<index, count, uart, cnt, nesting, skip, rxing, mainVars,
                 sending, left, idle>>

\* Mutant: the nesting is not set back.
TimeoutNestingForgotten ==
  /\ tick = "nesting" /\ tick' = "none" /\ idle' = TRUE /\ Cut
  /\ UNCHANGED <<rxVars, victim, mainVars, sending, left, damaged>>

\* uart_status, uart_rx_cnt and skip stay as they are.
TimeoutNesting ==
  /\ tick = "nesting" /\ tick' = "none" /\ nesting' = 0 /\ idle' = TRUE /\ Cut
  /\ UNCHANGED <<slot, index, count, uart, cnt, skip, rxing, victim, mainVars,
                 sending, left, damaged>>
-----------------------------------------------------------------------------
(* serial_cmd_process                                                      *)

\* Lines 65-74: the quotes are made equal and the slot is parsed.
Parse ==
  /\ pc = "wait" /\ tick = "none" /\ count > 0
  /\ taken' = Text(slot[read]) /\ pc' = "run"
  /\ UNCHANGED <<rxVars, tickVars, read, reg, pcVars, damaged>>

\* Lines 75-106: the command runs, or an error is reported.
Execute ==
  /\ pc = "run" /\ tick = "none" /\ pc' = "load"
  /\ UNCHANGED <<rxVars, tickVars, read, reg, taken, pcVars, damaged>>

\* Line 108, rjson_count--, reads and writes memory.
LoadCount ==
  /\ pc = "load" /\ tick = "none" /\ pc' = "store" /\ reg' = count
  /\ UNCHANGED <<rxVars, tickVars, read, taken, pcVars, damaged>>

StoreCount ==
  /\ pc = "store" /\ tick = "none" /\ pc' = "erase" /\ count' = reg - 1 /\ reg' = 0
  /\ UNCHANGED <<slot, index, uart, cnt, nesting, skip, rxing, tickVars, read, taken, pcVars, damaged>>

\* Line 109.
EraseSlot ==
  /\ pc = "erase" /\ tick = "none" /\ pc' = "advance"
  /\ slot' = [slot EXCEPT ![read] = Erased]
  /\ UNCHANGED <<index, count, uart, cnt, nesting, skip, rxing, tickVars, read, reg, taken,
                 pcVars, damaged>>

\* Mutant: the reader stays at its slot.
AdvanceNowhere ==
  /\ pc = "advance" /\ tick = "none" /\ pc' = "wait" /\ read' = read
  /\ UNCHANGED <<rxVars, tickVars, reg, taken, pcVars, damaged>>

\* Mutant: the index does not wrap.
AdvanceUnwrapped ==
  /\ pc = "advance" /\ tick = "none" /\ pc' = "wait" /\ read' = read + 1
  /\ UNCHANGED <<rxVars, tickVars, reg, taken, pcVars, damaged>>

\* Line 110.
Advance ==
  /\ pc = "advance" /\ tick = "none" /\ pc' = "wait" /\ read' = (read + 1) % Slots
  /\ UNCHANGED <<rxVars, tickVars, reg, taken, pcVars, damaged>>

\* The board loses its power, in the middle of a request or not.
Reset ==
  /\ slot' = [s \in SlotNumbers |-> Erased]
  /\ index' = 0 /\ count' = 0 /\ uart' = "start" /\ cnt' = 0 /\ nesting' = 0 /\ skip' = 0
  /\ rxing' = FALSE /\ tick' = "none" /\ victim' = 0
  /\ read' = 0 /\ pc' = "wait" /\ reg' = 0 /\ taken' = << >>
  /\ clean' = (clean /\ left = << >>) /\ ideal' = (ideal /\ left = << >>)
  /\ damaged' = 0
  /\ UNCHANGED <<sending, left, idle>>

Timeout == TimeoutTest \/ TimeoutLoad \/ TimeoutErase \/ TimeoutNesting
Reader == Parse \/ Execute \/ LoadCount \/ StoreCount \/ EraseSlot \/ Advance

Next ==
  \/ \E r \in Requests : Send(r)
  \/ Abandon
  \/ Timeout
  \/ Reader
  \/ Reset

Spec == Init /\ [][Next]_vars

\* The PC goes on sending.
FairSpec == Spec /\ WF_vars(\E r \in Requests : Send(r))
-----------------------------------------------------------------------------
(* What the PC may rely on                                                 *)

\* The bytes of r that are stored, all but the blanks outside quotations, and how
\* many of them are among the first i.
Kept(r) ==
  {i \in DOMAIN r : r[i] = "blank" => Cardinality({j \in 1 .. i : r[j] = "quote"}) % 2 = 1}
Rank(r, i) == Cardinality({j \in Kept(r) : j <= i})

\* A request as it is stored.
Stripped(r) ==
  [k \in 1 .. Cardinality(Kept(r)) |-> r[CHOOSE i \in Kept(r) : Rank(r, i) = k]]

RequestSent == left' = << >> /\ sending' # << >> /\ <<left, sending>>' # <<left, sending>>

\* A request sent without a pause to a receiver at rest is stored as sent and
\* counted, whatever the main loop is doing, if no request before it was
\* damaged and it fits.
RequestReceived ==
  [][RequestSent /\ ideal' /\ damaged' = 0 /\ Len(Stripped(sending')) <= SlotLen =>
       /\ count' = count + 1
       /\ Text(slot'[index]) = Stripped(sending')]_vars

\* After a timeout reception does not start again, as line 289 says it does: the
\* request after a pause is stored behind the erased one and may be lost.  But it
\* brings the receiver back to rest, so that the one after that is received.
RestAfterPause == [][RequestSent /\ clean' => uart' = "start"]_vars

\* However requests are cut off, the receiver does not wait for the end of
\* one forever, as long as bytes come (which the bound ends).
ReceptionEnds == []<>(uart = "start" \/ damaged = MaxDamaged)

\* The slots are a queue: the main loop is given every counted request once,
\* in order, as it was stored, until one of the things Send and TimeoutErase
\* name happens.
Waiting == count - IF pc \in {"run", "load", "store"} THEN 1 ELSE 0
FirstWaiting == read + IF pc = "wait" THEN 0 ELSE 1
Queue == INSTANCE PacketQueue WITH
  Frames <- Seq(Kinds), out <- taken,
  whole <- damaged = 0,
  queue <- [k \in 1 .. Waiting |-> Text(slot[(FirstWaiting + k - 1) % Slots])]
QueueSpec == Queue!Spec
=============================================================================

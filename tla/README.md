# Verification of the YYKSLQ card burner

The product burns Si24R2E active 2.4 GHz cards. An STM32F103 board finds a card
over NFC, programs its NVM over SPI, and then listens through an nRF51822
receiver for the frames the programmed card sends; a PC sends JSON requests over
a serial line and receives the results.

Two firmwares make it up: `YYKSLQ_CPU_STM32` (the burner board) and
`YYKSLQ_RX_NRF51822` (the receiver). Everything below is read off their sources;
the vendor libraries and the chips are modelled only as far as the firmware
uses them.

## Inventory

| Component | Code | State | Operations | Hard part |
| --- | --- | --- | --- | --- |
| main loop tasks | `User/main.c`, `user/task_*.c` | `rf_rev_status`, `card_process_status`, `beep_open_flag`, `find_card_ok`, `si24r2e_auto_burn_flag` | burn, listen, report, find card, commands | every status is also written by SysTick |
| software timers | `lib/common/app_timer.c` | counters of the registered timers | tick, clear | a timer keeps its count when its status moves on |
| power check | `Bsp/driver/si24r2e/si24r2e.c` | last three samples of the power pin | sample | a card exchanged between two samples |
| burn protocol | `bsp/driver/si24r2e/yyk_protocol.c`, `Bsp/driver/si24r2e/si24r2e.c` | write count, read back data, words of the card | read, verify, write, retry | contact lost in a write, a card of limited endurance |
| frame buffer | `lib/common/ringbuffer.c` | ring, `Size`, `status` | written by the external interrupt, read by the main loop | interrupt between the reader's test and its assignment |
| serial reception | `User/stm32f10x_it.c`, `user/task_serial_cmd.c` | frame state machine, three slots | byte, timeout, take | queue full, timeout in the middle of a request |
| emulated EEPROM | `bsp/driver/eeprom/eeprom.c` | page headers and slots in flash | read, write, transfer, recover, clear | power lost between two flash operations |
| white list | `lib/common/whitelist.c` | table, bitmap of used places, length | add, delete, search, load, store | adding after deleting |
| NFC reader | `Bsp/driver/rc500/mfrc500_*.c`, `user/task_find_card.c` | `g_cSNR`, `g_uid_len`, the ISO 14443-3 state of every card | request, anticollision, selection, halt, field off | cards come, go or miss a command between two exchanges |
| receiver link | `YYKSLQ_RX_NRF51822/user`, `bsp/board/init.c` | `spi_busy_status`, transmit buffer, overtime timer | frame, SPI transfer, timeout | a late timer, a lost pulse, a transfer too early |

How they interact: the receiver pulses a line of the STM32; its interrupt reads
the frame over SPI and puts it into the frame buffer while `rf_rev_status` is 2.
The main loop takes frames from there, takes requests from the slots the serial
interrupt fills, and polls the NFC reader. SysTick runs the software timers,
which write the statuses of the tasks directly, and samples the power pin every
100 ms. The white list lives in the emulated EEPROM and is loaded at start.

Interrupt priorities on the STM32 are external line, serial, SysTick, main loop.

## Modules

| Module | What it is |
| --- | --- |
| `Burner` | the main loop with SysTick, the radio interrupt, the fixture |
| `BurnCycle` | what the burner promises: one burn per permission, then a report |
| `MCBurner` | timeouts and symmetry for TLC |
| `BurnCard` | one call of the burn protocol on the words of a card |
| `PacketQueue` | a queue whose writer may find it full; promise of the next two |
| `SpiRing`, `MCSpiRing` | the frame buffer, cell by cell |
| `SerialRx`, `MCSerialRx` | reception, slots and the task that empties them |
| `KVStore` | what the emulated EEPROM promises |
| `Fee`, `MCFee` | the emulated EEPROM, one flash operation per step |
| `RecentIds` | what a list that is only added to promises |
| `WhiteList`, `MCWhiteList` | the white list over stored variables |
| `CardSelect`, `MCCardSelect` | how an identity comes from one of several cards into `g_cSNR` |
| `NrfLink` | a frame from the receiver to the frame buffer's interrupt |
| `RadioPath` | `NrfLink`, the frame buffer and the listening window together |
| `BurnerProofs`, `BurnCardProofs`, `SpiRingProofs`, `SerialRxProofs`, `WhiteListProofs`, `CardSelectProofs`, `RadioPathProofs`, `FeeProofs` | theorems about the module each is named after, see Proofs |

The models meet at these seams. `Burner` holds `SPI_RBUF` as the queue that
`SpiRing` is shown to be, and takes commands as `SerialRx` delivers them; its
`ReadNvm`, `Verify` and `WriteNvm` are the word-by-word `BurnCard` in one step
each. `WhiteList` uses variables that are written whole or not at all, which is
what `KVStore` says of `Fee`. `RadioFrame` of `Burner` is a frame `NrfLink` has
handed on; `RadioPath` extends `NrfLink` by the queue `SpiRing` promises and by
the window in which `Burner` listens. `Burner` selects the card of the fixture in
one step and takes its identity for whole: `CardSelect` is the pass of exchanges
behind that step, and `IdentityIsWhole` says how far it may be relied on.

## Burner

`pc` names the next group of statements of the main loop that touches a variable
an interrupt also touches; everything between two such points is one step.
`App_clickers_send_data_process` is `Clickers` to `Show`, the serial task
`NoCommand`, `StopBurn` and `StartBurn`, `App_card_process` `Gate` to
`CardLaunched`. `SysTick` is one run of `Timer_list_handler`: all timers in
order of registration, the 100 ms callback with its power sample included. The
buzzer pin and the flag that starts its timer are separate, because the code
sets them in separate statements. `Reset` stands for loss of supply and for the
watchdog.

The fixture: at most one card, removed and inserted at any moment. An exchange
takes at least `MinAbsent` power samples. `lag` counts samples between two looks
at the power flag: at most `PassLag` in a pass of the loop or a write, at most
`ReadLag` until the look after the next read. With `ReadLag` one larger than
`MinAbsent + 2` a card can be given the identity of another one; the assumption
`ExchangeAssumption` says that people are slower than that. From the delay loops
of `si24r2e.c` a write and the read after it take about eight samples, so it
amounts to an exchange that takes at least 0.6 s.

Runs:
- `burner` two cards (symmetric) exchanged at the largest delays the filter
  tolerates, two writes per burn: silence after a stop, a timer behind every tone,
  one burn per power cycle, a true report, a full listening window, no identity
  given to the other card, and refinement of `BurnCycle`. That a success is a
  burned card is said by `BurnCard`, word by word.
- `burner_live` weak fairness of the main loop as a whole and of SysTick. The
  loop in `main()` never blocks and SysTick is a hardware timer, so both go on;
  nothing is assumed of radio frames, commands, cards or samples. One write per
  burn; that retries end is `CallReturns` of `BurnCard`.
- `burner_zero_id` expects a violation, see Findings.

A SysTick of the runs is a power sample (100 ms); timers of 200 ms and more last
two of them. Timers of different tasks start at any distance from each other, so
that they run out in any order although alike in length. No SysTick of the runs
is without a sample: with two per sample (2.8 million states, 160 s) the same
properties hold, and the theorems of `BurnerProofs` are for all timeouts.
Two frames of the buffer are never needed at once by `Burner`, so `BufFrames` is 1.

## BurnCard

The words the firmware programs are grouped into word 0, which
`pre_wr_data` overwrites to unlock the chip; the other radio words from `txbuf`;
the period and the number from `conf.data`, the only ones read back. Every
access of the chip is a step; contact may be lost before each. A chip that loses
contact leaves the programming mode. Assumed of the chip: it counts one
programming per session, unlocking not counted. A defective chip ignores
programming. `get_power_status` may say either after contact was lost in the
call, since it follows three samples late, or just before it, the samples being
those of the time before.

`card_words` shows that a reported success is a card with the wanted data and,
unless a programming was cut short and not repeated, the radio words; that no
programming is wasted (unless contact was lost); that a failure is a card which
could not be burned (`FailureIsReal`); that every call returns. The 127th
programming is the exception in the third: it succeeds and is reported as a
failure, the count being looked at before the data just written are. The
program limit is 4 instead of 127; every count up to it is an initial state. The
loop's limit of 6 is the real one; `ConstantAssumption` asks for two at least, since
a call needs a second reading to see that its write succeeded.

The exception in `SuccessIsWhole` is real: data that match from an earlier
programming hide a word 0 left open by an interrupted one.

## SpiRing and PacketQueue

`Receive` is the interrupt (atomic: nothing the buffer knows preempts it);
`Reader` is `spi_rd_buffer` and `update_read_status`, one access of `Size`,
`status`, `top` or `bottom` per step. `held` is a history variable, the frames
received and not yet read; it guards nothing. `QueueSpec` says that what
`spi_rd_buffer` finds in the cells is its first frame, always.
`raced` counts frames that come between the reader's look at `Size` and its
assignment: the one window in which the promise fails, and the properties are
stated for the time before it (the model goes on after it).

Messages have different lengths. A whole frame has the length the radio is
configured for; a failed transfer leaves the interrupt with one a byte shorter or
of a single byte (`Left` and `Phantom` of `NrfLink`). The writer asks for room
when it has stored a frame and the reader turns `BUF_FULL` into `BUF_USEING`
without asking, so every short message taken from a full buffer lets a whole one
in. `SizeAssumption` is the room that remains: two whole frames with their headers
and trailers, and the difference of length once for every short message of a
window; `Longest` and `Shortest` are the extreme lengths. With the sizes of the firmware
(`PACKETSIZE` 249, lengths 9, 8 and 1) it bears 28 of them in a full buffer; with more TLC shows the ring overrun.

Bounds: 17 cells and packets of five and four, so that packets lie across the end
in every position; the data of one looks like a header. `MaxShort` bounds the short
frames of a window and is the largest `SizeAssumption` allows, `MaxRaced` the raced
frames, `ScanDepth` the search.

## SerialRx

`Send` is the next byte of a request, run through
`uart_revice_data_state_mechine`; `Abandon` ends a request early;
`TimeoutTest`, `TimeoutLoad`, `TimeoutErase` and `TimeoutNesting` are the timeout
branch of SysTick, split where the serial interrupt, of higher priority, may fall in:
after the test, after `rjson_index` is loaded into `victim`, after the erasure; `Parse` to
`Advance` are `serial_cmd_process` with `rjson_count--` as load and store. Bytes
are of five kinds, the braces called `open` and `close`. `ObjectAssumption` is what
the PC sends: every request is one object, nested at most 255 deep. The slots are a
queue until one of five things happens: a byte is stored, or the timeout erases, while all slots are
held; a byte past the end of a slot falls into a held one; a request is counted between
the two accesses of line 108, or between the timeout's load of the index and its
erasure, which then erases that request. `damaged` counts the bytes sent since then and is
bounded by `MaxDamaged`. Two slots of four or five bytes stand for three of 1000.

- `serial_queue` the request `{}` and a nested one: the queue, and `RestAfterPause`:
  the request after a pause may be lost but brings the receiver to rest, so that
  the one after it is received.
- `serial_framing` a request with blanks and a quotation, five bytes to a slot so
  that it fits without its outer blank: it is stored as sent, and reception ends.
  Fairness: the PC goes on sending; nothing is assumed of SysTick and the main loop.

## Fee and KVStore

A step is one operation of the flash controller (a half-word, an erasure); it is
done or not when the power fails. A failed programming leaves the error flag set
and every later operation refused until restart, `locked`. `Kept` is what the
pages hold for a variable in the middle of an operation, and under it `Fee`
implements `KVStore`: a variable changes by the write or the clear being served
and by nothing else, once, the power failing as it may. `unmended` remembers that
the power failed in `Fee_Init` and no `Fee_Init` has completed since: two failures
in a row lose data (see Findings), so the properties make no claim of that time.
Pages of four slots for two variables stand for 255 slots for 80; a transfer needs one slot for every
variable, and a recovery may find the slots of one more transfer in the page it fills:
`RoomAssumption` asks for `Slots > NumOfVar` and `Slots >= 2 * NumOfVar - 1`, below which
calls fail (with two slots TLC finds that). `ValueAssumption` says that 0xFFFF is no
address a loop looks for and that `None` and `NoPage` are told apart from values, pages
and results. 0xFFFF is among the values.

`CallsSucceed` says that no call fails, since a transfer always makes room, and that
a read between calls finds what is kept; `KnownGood`
that a watched pair is left with one valid and one erased page.

`fee_pair` has the power fail anywhere, in the recovery as well, as often as it
will. `fee_later_pair` expects a violation: two pairs, of which the second is
used. That the first pair keeps its promise does not extend to the others, since
recovery computes the addresses of the variables from the wrong number.

## WhiteList and RecentIds

A step is one stored variable. The bitmap of used places is one variable
instead of eight words; the stored copy of the length is left out, since nothing reads
it. Variables never stored leave the local variable of the loading loop as it was: for
an identity that is what the one loaded before it held, for the first what the stack did
(`Stack`), for the position of the oldest any value. Only loading has a caller in this
firmware: the other operations are the interface of the module, called in any order.

A position of 120 is let through by line 141 and lies past the table. In the flash
its words are those of the tables behind (`PastTable`); in RAM, `wl.uids[120]` is
`wl.len` and `wl.first_uid_pos` (`init.h:45-47`), so that `CopyUid` makes two 16-bit numbers
of the four bytes of the identity. A count so made may be smaller than the places
in use, or far beyond the table. A next identity that would go to a position past 120
goes to memory of which nothing is known: `AddAstray`, after which the model stands
still.

Three places stand for 120. An identity has its four words; two values of a byte
in the second and fourth make torn identities equal to others and give, as the count
and as the position, 1 and 257: one inside the table, one not. The stack
holds any of the identities. `WhatIsRead` is the view TLC tells states apart by: it
leaves out what stands at positions not in use, in RAM and in the flash, which an
operation writes before it or another one reads it.

In `whitelist` the power may fail between any two writes and the list may never
have been initialised; `spoilt` remembers that one of these happened, `deleted`
that an identity was deleted, until the list is initialised again. The count
covers the places in use, whenever the power fails, until an identity was written past
the table (`N \in use`), and till then count and position stay within their bounds.
A restart brings the same list back, no identity stands twice, and nothing is written
past the table (the first conjunct of `TypeOK`), unless `spoilt`.
The list implements `RecentIds` unless either: after a deletion it need not
hold the identities added last, and a power failure may tear one.

## CardSelect

A pass of `App_card_process` is a chain of exchanges, one step each: REQA,
anticollision and selection of the first cascade level and, for a card with a
seven-byte number, of the second. A number is named by the four bytes that are
reported; what a card sends in the first level is its `Prefix`, which cards may
share. Every card is out of the field or in a state of ISO 14443-3, and one that
hears a command not meant for it falls back in silence. In an exchange any cards
may miss the command, and the answer may be spoilt so that the reader notices, or
so that it does not: the checksum error is not among the bits it looks at
(`mfrc500_hw.c:473`). The supply that permits a burn, the start and stop commands,
the buzzer and the end of a burn come at any moment the code allows, the end of the
second find too early rather than too late.

- `card_select` two cards with short numbers and two with long ones of the same
  prefix, two faulty exchanges. `IdentityIsWhole`: from the end of a pass until the
  burn is over, the identity is that of the one card selected last, never a
  prefix, a left-over or a mixture. `AloneIsSelected`: a card that stays alone in
  the field is found.

`misled` is the exception: in the pass a card missed the REQA another answered, or a
wrong size or cascade bit passed for right. Then the prefix of a number, or the
second half of an earlier card's, is burned. One fault is enough for that; the
second lets it meet another one. Four cards give every pair of sizes and prefixes.

Fairness: the main loop goes on (`Pass`), and a burn comes to its end, which is
`BurnIsReported` of `Burner`. The task is taken to be let through by its power
check and its switch.

What the model also shows: with several cards in the field a collision is an error
and the pass is given up, although the comment of `PcdAnticoll`
(`mfrc500_ios14443.c:112-115`) speaks of one of them being obtained. Cards that are
out of step, one idle when the other is not, may be selected alone all the same;
`Burner` assumes at most one card in the fixture.

## NrfLink and RadioPath

Frames are numbered. `Receive` is the radio event handler, which preempts the
other two handlers of the receiver; `SpisIdle` and `SpisArm` are the two halves
of the slave's handler around the moment the buffers are given back; `Expire`
the overtime timer; `IsrEnter`, `IsrRead` and `IsrLeave` the STM32's interrupt: read
the first part, read the rest, leave and clear the pending bit. A timer is `own`
while it belongs to the frame in the buffer and `stale` afterwards: it is never
stopped. A slave without buffers sends 0xFF, which passes the check as a message of
one byte. The check is taken to detect every frame that was written over halfway,
and a transfer to be much shorter than the 3 ms of the timer.

`RadioPath` adds what happens to a message then. The interrupt reads whether or not
anyone listens, and stores the message while `rf_rev_status` is 2 and the buffer is
not full. `Open` clears the buffer and opens the window, `Close` is the match or the
timer; the main loop does not run while the interrupt does, SysTick may. A pass of the
main loop is `Take`, which takes a message out of the ring, then `Look` and `LookAgain`,
the tests of `Size` in `update_read_status`, and `StoreStatus`; a message may be stored
between any two of them.

- `radio_path` five frames, room for two messages, as many windows as may be.
  Whole frames keep their order and none is read twice. `WindowIsFresh`: every message
  of a window but one costs a frame that arrived in it; of the whole ones taken only the
  first can be older than the window, the one that was on its way when it opened; and a
  frame is never followed by an older one. A failed read hands on the frame read last
  (`Left`): it may be older than the window, and come any number of times, until the first
  whole frame of the window is read. `BusyEnds`: the receiver does not stay busy.
  `EachIsTaken`: a frame that arrives in the window and at least 3 ms after the one before
  is taken, unless the window ends, the buffer fills up, or a message is `Overlooked`.

`Overlooked` is what `raced` is in `SpiRing`: a message that came between a test of `Size`
and the store of `BUF_EMPTY` stays hidden until the next one comes, or has `top` and
`bottom` set back under it. In the second case (`astray`) the reader is followed no
further until the next window clears the buffer.

`spaced` is chosen initially: frames come at any moment, or at least 3 ms apart.
Weak fairness: pending interrupts are served, a running timer expires, the main
loop takes. Nothing is assumed of frames and windows. Three frames bring every
overlap of a transfer with the next frame and a stale timer; five fill the buffer
and leave one more for the window after. `EachIsTaken` is checked for the frames of
`Watched`, the first behind which a stale timer runs and the last, which nothing follows.

## Findings

- `burner_zero_id`: a card never heard is reported as a success, the message
  buffer's previous contents as its identity (`task_spi_message.c:157`).
- `fee_later_pair`: recovery looks for the wrong variables in every pair but the
  first (`eeprom.c:122`, 208), so one power failure in a transfer loses them.

Seen while modelling, and allowed for in what the properties claim:

- power failing in `Fee_InitPage` between 223 and 230 leaves two valid pages,
  which the next `Fee_Init` formats; every variable of the pair is lost
  (`unmended` of `Fee`);
- reception does not start anew after a timeout, as the comment of
  `stm32f10x_it.c:289` says: the next request is stored behind the erased one and
  may be lost (`RestAfterPause` states what holds instead);
- more than 28 short messages in a full buffer overrun the ring (`SizeAssumption`);
- frames sent before the burn may be compared with the card just burned: the whole one
  on its way, and through failed reads the one read last before it (`WindowIsFresh`);
- a frame that comes between the reader's test of `Size` and its store of `BUF_EMPTY` is
  not seen before the next one (`ringbuffer.c:90-93`; `raced` of `SpiRing`, `Overlooked`
  of `RadioPath`);
- the count an earlier match left in `rf_3000_timer` is cleared three statements after the
  next window opens and may cut that window short (`task_spi_message.c:59-62`; the
  exception of `ListenFullWindow`);
- a request completed between the timeout's load of `rjson_index` and its `memset` is
  erased (`stm32f10x_it.c:291`);
- a position of 120 is accepted when the white list is loaded (`whitelist.c:141`), and the
  next identity of a full list is then written over its length (`whitelist.c:343`,
  `init.h:45-47`), which may fall below the places in use (`CountCoversUse`);
- a wrong size or cascade bit makes a prefix or a left-over the identity
  (`misled` of `CardSelect`);
- the date does not advance at midnight, and the 30th and 31st are written into the
  next month's periods (`app_timer.c:358`, `yyk_protocol.c:190`), not modelled;
- the change log speaks of a FAIL tone of 300 ms, the timer is one of 600
  (`task_spi_message.c:160`); the properties do not depend on it;
- the interrupt ignores the result of the check and hands on what the buffer held
  before (`stm32f10x_it.c:343`; the `Left` messages of `NrfLink`);
- data that match from an earlier programming hide a word 0 left open by an
  interrupted one (`SuccessIsWhole` of `BurnCard`).

## Proofs

Eight modules state theorems for every value of the constants, each about the module
it is named after and from the assumptions that module declares; those of `FeeProofs`
with one hypothesis more, which is given there.

| Module | Proved | Beside type correctness, the invariant says |
| --- | --- | --- |
| `BurnerProofs` | `SilentWhenStopped`, `BeepHasTimer`, `BurnNeedsPowerCycle`, `ReportMatchesHeard`, `ListenFullWindow`, `OnlyOwnIdentity`, `CycleSpec` | which statuses leave a burn permitted, where a request may stand, what was heard in the window, how old the last look at the power flag is |
| `BurnCardProofs` | `SuccessIsWhole`, `FailureIsReal`, `WearIsNeeded` | what a session has written, what an unspoilt card holds, what the call rightly knows |
| `SpiRingProofs` | `StatusTracksSize`, `QueueSpec` | where every frame lies in the ring, how much room is owed |
| `SerialRxProofs` | `QueueSpec`, `RestAfterPause`, `RequestReceived` | where the receiver stands behind the waiting slots; how much of a request is open; what a slot holds while it is received into or free |
| `WhiteListProofs` | `SurvivesRestart`, `NoDuplicates`, `CountCoversUse`, `KeepsRecent` | how far the copies lag behind the tables at each step of an operation; where the oldest identity stands |
| `CardSelectProofs` | `IdentityIsWhole` | which cards may still answer, which identity `g_cSNR` holds |
| `RadioPathProofs` | `FramesInOrder`, `WindowIsFresh` | which message a pending pulse will bring |
| `FeeProofs` | `KnownGood`, `CallsSucceed`, `KeepsPromise` | in which state the first two pages are at every step of a call, what the copying loop has still to do and how much room it has |

`TypeOK` of each of these modules is a theorem too. Why the invariants are stronger
than the properties:

- **Burner.** A tone starts in the burn task two statements after the command task
  was last seen, so that the location has to be tied to `si24r2e_auto_burn_flag`
  (`RequestServed`). `CardChosen` says that a burn has a selected card, without which
  the type of `nvm` is not kept. For `OnlyOwnIdentity`, `Highs` counts the last power
  samples that agree with the pin, and `LooksInTime` bounds the samples since the card
  was looked at by it: only here is `ExchangeAssumption` used. The step lemmas are split by
  task. `CycleKept` maps a step of each task to a step of `BurnCycle` or to none.
- **BurnCard.** That success leaves the radio words needs the words already written
  in a session (`SessionState`) and that a card never cut short is blank or whole
  (`WholeCard`). That failures are real needs what the call knows in each phase of the
  loop while contact lasts (`Knowledge`).
- **SpiRing.** `Laid` puts every frame that waits at an offset behind `bottom`, one
  after the other, with its header, length and data in the cells, and the next free
  cell at `top`; what was read and not yet taken off comes before them. `Budget` bounds
  the room by counting whole frames, `Room`, rather than bytes: a full buffer is one frame over the
  limit, the reader between two status stores another one (`Owed`), and each short frame
  costs what it is shorter (`Shortfall`). With `SizeAssumption` that keeps `size`
  below the ring, so a frame that is written meets no frame that waits. `StatusFits`
  says what the status implies at each step of the reader. All of it holds while
  `raced` is zero; a step that ends this is `Broken` of the queue. The lemmas about `%`
  are proved first, since the provers do not know that a whole turn makes no difference.
- **SerialRx.** `Aligned` puts the receiver right behind the last waiting slot, in the
  ring of slots, through the two accesses of `rjson_count--`, the count and the erasure;
  it holds while `damaged` is zero. For `RestAfterPause`, `Nested` bounds the open
  braces by those of the bytes already sent, from `ObjectAssumption`. For
  `RequestReceived`, `Stored` puts what is sent of an ideal request into the slot, each
  byte at its rank among those kept (`Rank`), together with what the receiver counts; it
  stays because the reader erases another slot than the one received into (`AtRest`).
  That nothing follows the last byte needs `FreeIsBlank`: a request cut off or
  too long leaves a free slot blank behind its first byte, where a byte past the end of the slot
  before may stand. `StrippedText` then reads the slot as the request.
- **WhiteList.** Between the writes of an operation the store and the tables differ in
  a known way (`Copied`), so that what a restart will find is known in advance
  (`Restorable`). The count leads or lags the places in use by one (`Covered`), as long as
  nothing was written past the table. For `KeepsRecent`,
  `Order` says that positions are filled from the first on and, when all are, that the
  oldest identity is where the next one goes, in the flash as well between
  operations; then the ages count the positions round from `Start` (`Remembered`), so
  that adding appends (`Grown`), adding to a full list also drops the head (`Rolled`), and a
  restart reads the same list (`SameIds`). A deletion or a power failure inside an
  operation ends this, as in the property.
- **CardSelect.** While the request was not misheard, all cards that still take part
  have numbers of the announced length (`LengthIsRight`), so the number assembled is
  one card's.
- **RadioPath.** A message is either in `m_tx_buf` for the pulse that is pending or
  already read (`ReadOnce`, `CameOnce`), and all but one of a window are paid for by
  frames that arrived in it (`Paid`). `CameBefore` and `CameInOrder` say the same of the
  messages that wait as of those taken, and `Filled` ties the status to the queue at each
  step of the reader.

- **Fee.** `Flash` says that pages are filled from the first slot on and an erased one
  holds nothing; `Halfway` what the slot between its two half-words is. The rest says, call by
  call, where the first pair stands: a write is `Single`, `Transferring` or `Ending`;
  a recovery is one of the plans of `Mending` and `Formatting`; `Clearing`
  follows the erasures one by one; `Resting` lists what the power may leave. In a
  transfer and in a recovery the page that receives holds no variable with another value
  than the old page, save the one in its first slot (`Copied`), every variable
  the loop is past (`Passed`), and slots enough for the rest (`Ready`); a
  transfer cut short leaves those a recovery needs (`Torn`), which is where
  `RoomAssumption` is used. `KeptOf` gives `Kept` in each of these states, and the
  lemmas after it show, operation by operation, that it stays, except that it
  becomes the value asked for when the address of a write is programmed
  (`WriteTakesEffect`) and nothing when a clear erases it (`ClearForgets`).
  `PromiseKept` maps these two to `Store` and `Forget`, the beginnings and ends of
  calls to `Ask` and `Done`, and all else to no step.

  The theorems are about the variables of the first pair, whatever the pairs beyond hold
  and whatever happens to them: `FirstPairIsGood` and `PromiseKept` for any `Watched` among
  them, `NoCallFails` when only they are written. More cannot be had: in any other pair a
  recovery loses what it should copy (`fee_later_pair`, see Findings), and the last pair's
  ends with `NO_VALID_PAGE`, as it looks for addresses beyond all pages.
  Like the properties they claim nothing from a power failure in `Fee_Init` to
  the `Fee_Init` that completes.

All safety properties of the passing runs are proved. The liveness properties
(`BurnIsReported`, `BeepEnds`, `CallReturns`, `AloneIsSelected`, `ReceptionEnds`,
`BusyEnds`, `EachIsTaken`) are only model-checked: fairness and ENABLED are out of the
prover's reach. So is induction over data, which is why `SerialRx` states the depth of a
request and the bytes kept of it by counting, and `SpiRing` keeps its queue as history.

## Not modelled

The register set-up of the NFC reader and its Mifare and ISO 14443-4 commands,
which nothing calls; the M24SR driver and the nRF ring buffers (no caller); cJSON;
pins and LEDs; what is printed (`b_print`, the second buffer of `ringbuffer.c` and
`uart_send_data_state_machine`, which is empty); the digits of the clock. By far the
most of the repository is not the product's: the ST and Nordic libraries, the SDK's
headers and CMSIS. They are modelled where the firmware calls them, from that use,
which is why the models stand for a small share of all lines. In `BurnCard` the values of the
radio words: that the year in the low voltage word is added with `|` to the one
already there, and taken from the clock before the command sets it, is listed as
a hazard. Memory faults (a NULL protocol, `txbuf` beyond its end) have no
successor state to model and are listed as hazards too.

## Plan

Done: the modules above, in the order Burner, SpiRing, SerialRx, Fee, WhiteList,
NrfLink, BurnCard, CardSelect, RadioPath, and the theorems above. Next:

1. `TxBuf`: the radio words and the digits of the date, bit by bit.

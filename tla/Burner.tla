------------------------------- MODULE Burner -------------------------------
(***************************************************************************)
(* The burner firmware of the STM32 board: the endless main loop           *)
(*                                                                         *)
(*   App_clickers_send_data_process  (task_spi_message.c)                  *)
(*   App_seirial_cmd_process         (task_serial_cmd.c)                   *)
(*   App_card_process                (task_find_card.c)                    *)
(*                                                                         *)
(* preempted at any point by SysTick, which runs the software timers       *)
(* (app_timer.c) and samples the power pin of the fixture (si24r2e.c), and *)
(* by the receiver's external interrupt, which queues radio frames.        *)
(*                                                                         *)
(* pc names the next statement group of the main loop that touches state   *)
(* shared with an interrupt.  The statements in between touch only locals, *)
(* so nothing is lost by executing a group in one step.                    *)
(*                                                                         *)
(* The fixture is part of the model: at most one card is on it, a card has *)
(* the identity the NFC reader sees and the identity its radio chip holds  *)
(* in NVM, and programming copies the first into the second.               *)
(***************************************************************************)
EXTENDS Integers, Sequences, FiniteSets

CONSTANTS
  Cards,       \* the cards of the environment, named by their NFC identity
  NoCard,      \* nothing on the fixture; also the zeroed g_cSNR after reset
  Blank,       \* NVM content that is no card's identity (factory data, torn write)
  Timeout,     \* timeout of each software timer, in SysTicks
  MaxWrites,   \* writes one update_data call makes before it returns -1
  Flashes,     \* values of flash_count that keep the LED blinking
  BufFrames,   \* frames SPI_RBUF takes before its status is BUF_FULL
  PassLag,     \* power samples between a look at the flag and the end of the pass
               \* of the main loop, or of a write of the NVM, that follows
  ReadLag,     \* power samples between two looks with a read of the NVM in between
  MinAbsent    \* low power samples a person needs to exchange the card

CardTimers  == {"buzzer", "second"}
RadioTimers == {"rf3000", "rf300"}
BeepTimers  == {"beepOk", "beepFail"}
Timers      == {"system"} \cup CardTimers \cup RadioTimers \cup BeepTimers

ASSUME CardAssumption ==
  /\ NoCard \notin Cards /\ Blank \notin Cards /\ NoCard # Blank
ASSUME TimerAssumption ==
  /\ Timeout \in [Timers -> Nat \ {0}]
ASSUME BoundAssumption ==
  /\ MaxWrites \in Nat \ {0} /\ Flashes \in Nat /\ BufFrames \in Nat \ {0}
  /\ PassLag \in Nat /\ ReadLag \in Nat /\ MinAbsent \in Nat \ {0}
\* A card cannot be exchanged faster than the three-sample filter notices.
ASSUME ExchangeAssumption ==
  /\ PassLag < MinAbsent /\ ReadLag <= MinAbsent + 2

VARIABLES
  pc,          \* next statement group of the main loop
  rf,          \* rf_rev_status: 0 idle, 1 burn, 2 listen, 3 show, 4..6 blink
  result,      \* rf_rev_result
  flash,       \* flash_count
  beepFlag,    \* beep_open_flag: 1 success tone, 2 failure tone
  beep,        \* the buzzer pin
  card,        \* card_process_status: 1 seek, 3 found, 4 wait, 5 burn
  findOk,      \* find_card_ok
  autoBurn,    \* si24r2e_auto_burn_flag
  cnt,         \* the counter of every software timer
  io,          \* io_s, the last three samples of the power pin
  sel,         \* g_cSNR, the identity of the card selected over NFC
  conf,        \* the identity in conf.data, what is to be burned
  rd,          \* prdata, what si24r2e_read_nvm returned; Blank outside update_data
  tries,       \* writes made by the running update_data; 0 outside it
  frames,      \* SPI_RBUF
  msg,         \* spi_message: the identity it holds, NoCard when zeroed
  present,     \* the card on the fixture
  nvm,         \* the identity in every card's radio chip
  lag,         \* power samples since the main loop last read the flag or gave up a burn
  absent,      \* low power samples since the fixture was emptied
  armed,       \* history: power was lost or burning started since the last burn
  heard,       \* history: what the running listening window has brought
  window       \* history: SysTicks of the running listening window

mainVars  == <<rf, result, flash, beepFlag, beep, card, findOk, autoBurn>>
burnVars  == <<sel, conf, rd, tries, frames, msg>>
boardVars == <<present, nvm, absent>>
histVars  == <<armed, heard, window>>
vars == <<pc, mainVars, cnt, io, burnVars, boardVars, lag, histVars>>

BurnPcs == {"clickers", "read", "verify", "write", "listenOn", "beepOk",
            "flagOk", "clearTimer", "failed", "flagFail"}
Pcs == BurnPcs \cup {"receive", "check", "show", "serial", "gate", "dispatch",
        "find", "select", "selected", "halt", "launch", "launched"}

\* power_on_flag: the last three samples were all high.
PowerOn == io = <<1, 1, 1>>

TypeOK ==
  /\ pc \in Pcs /\ rf \in 0..6 /\ result \in {0, -1} /\ flash \in 0..Flashes
  /\ beepFlag \in 0..2 /\ beep \in BOOLEAN
  /\ card \in {0, 1, 3, 4, 5} /\ findOk \in 0..2
  /\ autoBurn \in BOOLEAN
  /\ cnt \in [Timers -> Nat] /\ \A t \in Timers : cnt[t] < Timeout[t]
  /\ io \in {0, 1} \X {0, 1} \X {0, 1}
  /\ sel \in Cards \cup {NoCard} /\ conf \in Cards \cup {NoCard, Blank}
  /\ rd \in Cards \cup {Blank} /\ tries \in 0..MaxWrites - 1
  /\ frames \in Seq(Cards \cup {Blank}) /\ Len(frames) <= BufFrames
  /\ msg \in Cards \cup {NoCard, Blank}
  /\ present \in Cards \cup {NoCard} /\ nvm \in [Cards -> Cards \cup {Blank}]
  /\ lag \in Nat /\ absent \in 0..MinAbsent
  /\ armed \in BOOLEAN /\ heard \in {"none", "other", "match"}
  /\ window \in Nat

Init ==
  /\ pc = "clickers" /\ rf = 0 /\ result = 0 /\ flash = 0
  /\ beepFlag = 0 /\ beep = FALSE
  /\ card = 0 /\ findOk = 0 /\ autoBurn = FALSE
  /\ cnt = [t \in Timers |-> 0] /\ io = <<0, 0, 0>>
  /\ sel = NoCard /\ conf = Blank /\ rd = Blank /\ tries = 0
  /\ frames = << >> /\ msg = NoCard
  /\ lag = 0 /\ armed = FALSE /\ heard = "none" /\ window = 0
  /\ present = NoCard /\ absent = MinAbsent
  /\ nvm = [c \in Cards |-> Blank]

Goto(from, to) == pc = from /\ pc' = to
-----------------------------------------------------------------------------
(* App_clickers_send_data_process, rf_rev_status 1: burn the selected card *)

\* Lines 39-44 and the UID synchronisation at the head of update_data.
Clickers ==
  /\ pc = "clickers"
  /\ IF rf = 1
     THEN pc' = "read" /\ conf' = sel
     ELSE pc' = "receive" /\ conf' = conf
  /\ UNCHANGED <<mainVars, cnt, io, sel, rd, tries, frames, msg, boardVars, lag, histVars>>

\* si24r2e_read_nvm: an empty fixture answers with no card's data.
ReadNvm ==
  /\ Goto("read", "verify")
  /\ rd' = IF present = NoCard THEN Blank ELSE nvm[present]
  /\ UNCHANGED <<mainVars, cnt, io, sel, conf, tries, frames, msg, boardVars, lag, histVars>>

\* No power or an implausible program count is -3, a count of 127 is -2; the
\* count belongs to the card and either may happen.
Verify ==
  /\ pc = "verify"
  /\ \/ pc' = "failed" /\ tries' = 0
     \/ PowerOn /\ rd = conf /\ pc' = "listenOn" /\ tries' = 0
     \/ PowerOn /\ rd # conf /\ pc' = "write" /\ tries' = tries
  /\ rd' = Blank /\ lag' = 0
  /\ UNCHANGED <<mainVars, cnt, io, sel, conf, frames, msg, boardVars, histVars>>

\* si24r2e_write_nvm programs the card that is there; a write may be torn.
WriteNvm ==
  /\ pc = "write"
  /\ \/ present = NoCard /\ nvm' = nvm
     \/ /\ present # NoCard
        /\ \E v \in {conf, Blank} : nvm' = [nvm EXCEPT ![present] = v]
  /\ IF tries + 1 < MaxWrites
     THEN pc' = "read" /\ tries' = tries + 1 /\ lag' = lag
     ELSE pc' = "failed" /\ tries' = 0 /\ lag' = 0
  /\ UNCHANGED <<mainVars, cnt, io, sel, conf, rd, frames, msg, present, absent, histVars>>

\* Lines 58-59.
ListenOn ==
  /\ Goto("listenOn", "beepOk")
  /\ frames' = << >> /\ rf' = 2
  /\ heard' = "none" /\ window' = 0
  /\ UNCHANGED <<result, flash, beepFlag, beep, card, findOk, autoBurn, cnt, io,
                 sel, conf, rd, tries, msg, boardVars, lag, armed>>

BeepOk ==       \* line 60
  /\ Goto("beepOk", "flagOk")
  /\ beep' = TRUE
  /\ UNCHANGED <<rf, result, flash, beepFlag, card, findOk, autoBurn, cnt, io,
                 burnVars, boardVars, lag, histVars>>

\* Mutant: beep_open_flag is not set for the success tone.
FlagOkForgotten ==
  Goto("flagOk", "clearTimer") /\ UNCHANGED <<mainVars, cnt, io, burnVars, boardVars, lag, histVars>>

FlagOk ==       \* line 61
  /\ Goto("flagOk", "clearTimer")
  /\ beepFlag' = 1
  /\ UNCHANGED <<rf, result, flash, beep, card, findOk, autoBurn, cnt, io,
                 burnVars, boardVars, lag, histVars>>

\* Mutant: rf3000 goes on from the count the last window left.
ClearTimerForgotten ==
  /\ Goto("clearTimer", "receive") /\ window' = 0
  /\ UNCHANGED <<mainVars, cnt, io, burnVars, boardVars, lag, armed, heard>>

ClearTimer ==   \* line 62
  /\ Goto("clearTimer", "receive")
  /\ cnt' = [cnt EXCEPT !["rf3000"] = 0]
  /\ window' = 0
  /\ UNCHANGED <<mainVars, io, burnVars, boardVars, lag, armed, heard>>

\* Lines 66-68: no timer runs in status 3, so the group is one step.
Failed ==
  /\ Goto("failed", "flagFail")
  /\ result' = -1 /\ rf' = 3 /\ beep' = TRUE
  /\ heard' = "none"
  /\ UNCHANGED <<flash, beepFlag, card, findOk, autoBurn, cnt, io,
                 burnVars, boardVars, lag, armed, window>>

\* Mutant: beep_open_flag is not set for the failure tone.
FlagFailForgotten ==
  Goto("flagFail", "receive") /\ UNCHANGED <<mainVars, cnt, io, burnVars, boardVars, lag, histVars>>

FlagFail ==     \* line 69
  /\ Goto("flagFail", "receive")
  /\ beepFlag' = 2
  /\ UNCHANGED <<rf, result, flash, beep, card, findOk, autoBurn, cnt, io,
                 burnVars, boardVars, lag, histVars>>
-----------------------------------------------------------------------------
(* App_clickers_send_data_process, rf_rev_status 2..6: listen and report   *)

\* Lines 73-79.
Receive ==
  /\ pc = "receive"
  /\ IF rf = 2 /\ frames # << >>
     THEN /\ pc' = "check"
          /\ msg' = Head(frames) /\ frames' = Tail(frames)
     ELSE /\ pc' = "show" /\ UNCHANGED <<msg, frames>>
  /\ UNCHANGED <<mainVars, cnt, io, sel, conf, rd, tries, boardVars, lag, histVars>>

\* Mutant: a foreign frame leaves rf_rev_result alone.
CheckRssiLenient ==
  /\ Goto("check", "show")
  /\ IF msg = conf
     THEN rf' = 3 /\ result' = 0 /\ heard' = "match"
     ELSE rf' = rf /\ result' = result /\ heard' = "other"
  /\ UNCHANGED <<flash, beepFlag, beep, card, findOk, autoBurn, cnt, io,
                 burnVars, boardVars, lag, armed, window>>

\* Lines 96-105; rf3000 may have moved the status on since line 73.
CheckRssi ==
  /\ Goto("check", "show")
  /\ IF msg = conf
     THEN rf' = 3 /\ result' = 0 /\ heard' = "match"
     ELSE rf' = rf /\ result' = -1 /\ heard' = "other"
  /\ UNCHANGED <<flash, beepFlag, beep, card, findOk, autoBurn, cnt, io,
                 burnVars, boardVars, lag, armed, window>>

\* check_rssi_print and the return to idle, lines 129-141.
Report ==
  /\ rf = 4 /\ flash = Flashes
  /\ rf' = 0 /\ result' = 0 /\ flash' = 0 /\ heard' = "none"

\* Mutant: status 6, where rf300 leaves the blinking, is not taken back to 3.
ShowStuck ==
  /\ Goto("show", "serial")
  /\ \/ rf = 3 /\ rf' = 4 /\ UNCHANGED <<result, flash, heard>>
     \/ /\ rf = 4 /\ flash < Flashes
        /\ rf' = 5 /\ flash' = flash + 1 /\ UNCHANGED <<result, heard>>
     \/ Report
     \/ rf \notin {3, 4} /\ UNCHANGED <<rf, result, flash, heard>>
  /\ UNCHANGED <<beepFlag, beep, card, findOk, autoBurn, cnt, io,
                 burnVars, boardVars, lag, armed, window>>

\* Lines 109-147.  SysTick moves no status into 3 or 4 except 2 to 3, which
\* the next pass sees, so the three tests of the status are one step.
Show ==
  /\ Goto("show", "serial")
  /\ \/ rf = 3 /\ rf' = 4 /\ UNCHANGED <<result, flash, heard>>
     \/ /\ rf = 4 /\ flash < Flashes
        /\ rf' = 5 /\ flash' = flash + 1 /\ UNCHANGED <<result, heard>>
     \/ Report
     \/ rf = 6 /\ rf' = 3 /\ UNCHANGED <<result, flash, heard>>
     \/ rf \in {0, 1, 2, 5} /\ UNCHANGED <<rf, result, flash, heard>>
  /\ UNCHANGED <<beepFlag, beep, card, findOk, autoBurn, cnt, io,
                 burnVars, boardVars, lag, armed, window>>
-----------------------------------------------------------------------------
(* App_seirial_cmd_process: the commands that reach this state machine     *)

\* No request is pending, or one that does not concern burning.
NoCommand ==
  /\ Goto("serial", "gate")
  /\ UNCHANGED <<mainVars, cnt, io, burnVars, boardVars, lag, histVars>>

\* Mutant: the buzzer is left alone.
StopBurnLoud ==
  /\ Goto("serial", "gate")
  /\ card' = 0 /\ autoBurn' = FALSE
  /\ UNCHANGED <<rf, result, flash, beepFlag, beep, findOk, cnt, io,
                 burnVars, boardVars, lag, histVars>>

\* si24r2e_auto_burn, setting 0.
StopBurn ==
  /\ Goto("serial", "gate")
  /\ beep' = FALSE /\ card' = 0 /\ autoBurn' = FALSE
  /\ UNCHANGED <<rf, result, flash, beepFlag, findOk, cnt, io,
                 burnVars, boardVars, lag, histVars>>

\* si24r2e_auto_burn, setting not 0; an index above 13 answers -1 and leaves
\* the card status alone, but sets the flag as well.
StartBurn(known) ==
  /\ Goto("serial", "gate")
  /\ card' = IF known THEN 1 ELSE card
  /\ autoBurn' = TRUE
  /\ armed' = (armed \/ known)
  /\ UNCHANGED <<rf, result, flash, beepFlag, beep, findOk, cnt, io,
                 burnVars, boardVars, lag, heard, window>>
-----------------------------------------------------------------------------
(* App_card_process: find a card over NFC and hand it to the burn task     *)

Gate ==         \* lines 92-95
  /\ pc = "gate"
  /\ pc' = IF PowerOn /\ autoBurn THEN "dispatch" ELSE "clickers"
  /\ lag' = 0
  /\ UNCHANGED <<mainVars, cnt, io, burnVars, boardVars, histVars>>

\* Mutant: the card task does not wait for the radio task.
DispatchEager ==
  /\ pc = "dispatch"
  /\ pc' = CASE card = 1 -> "find" [] card = 3 -> "halt" [] card = 5 -> "launch"
             [] OTHER -> "clickers"
  /\ UNCHANGED <<mainVars, cnt, io, burnVars, boardVars, lag, histVars>>

\* Lines 97-102; the rest of the pass works on this copy of the card status,
\* which pc remembers.
Dispatch ==
  /\ pc = "dispatch"
  /\ \/ rf # 0 /\ pc' = "clickers"
     \/ rf = 0 /\ card = 1 /\ pc' = "find"
     \/ rf = 0 /\ card = 3 /\ pc' = "halt"
     \/ rf = 0 /\ card = 5 /\ pc' = "launch"
     \/ rf = 0 /\ card \notin {1, 3, 5} /\ pc' = "clickers"
  /\ UNCHANGED <<mainVars, cnt, io, burnVars, boardVars, lag, histVars>>

\* PcdRequest, lines 114-139: no answer, an answer in the same 200 ms as the
\* last one (which restarts the timer), or a card to select.
FindCard ==
  /\ pc = "find"
  /\ \/ pc' = "clickers" /\ UNCHANGED <<findOk, cnt>>
     \/ /\ present # NoCard /\ findOk = 1 /\ pc' = "clickers"
        /\ cnt' = [cnt EXCEPT !["second"] = 0] /\ findOk' = findOk
     \/ /\ present # NoCard /\ findOk # 1 /\ pc' = "select"
        /\ findOk' = 0 /\ cnt' = cnt
  /\ UNCHANGED <<rf, result, flash, beepFlag, beep, card, autoBurn, io,
                 burnVars, boardVars, lag, histVars>>

\* Anticollision and select, lines 141-185, may fail at any exchange.
SelectCard ==
  /\ pc = "select"
  /\ \/ pc' = "clickers" /\ sel' = sel
     \/ /\ present # NoCard /\ sel' = present
        /\ pc' \in {"clickers", "selected"}
  /\ UNCHANGED <<mainVars, cnt, io, conf, rd, tries, frames, msg, boardVars, lag, histVars>>

CardSelected == \* lines 167 and 179
  /\ Goto("selected", "clickers")
  /\ card' = 3
  /\ UNCHANGED <<rf, result, flash, beepFlag, beep, findOk, autoBurn, cnt, io,
                 burnVars, boardVars, lag, histVars>>

CardHalt ==     \* lines 192-218
  /\ Goto("halt", "clickers")
  /\ card' = 4
  /\ UNCHANGED <<rf, result, flash, beepFlag, beep, findOk, autoBurn, cnt, io,
                 burnVars, boardVars, lag, histVars>>

CardLaunch ==   \* line 227
  /\ Goto("launch", "launched")
  /\ rf' = 1 /\ armed' = FALSE
  /\ UNCHANGED <<result, flash, beepFlag, beep, card, findOk, autoBurn, cnt, io,
                 burnVars, boardVars, lag, heard, window>>

\* Mutant: card_process_status keeps the value that launched the burn.
CardLaunchedAgain ==
  /\ Goto("launched", "clickers")
  /\ findOk' = 1
  /\ UNCHANGED <<rf, result, flash, beepFlag, beep, card, autoBurn, cnt, io,
                 burnVars, boardVars, lag, histVars>>

CardLaunched == \* lines 229-238
  /\ Goto("launched", "clickers")
  /\ card' = 0 /\ findOk' = 1
  /\ UNCHANGED <<rf, result, flash, beepFlag, beep, autoBurn, cnt, io,
                 burnVars, boardVars, lag, histVars>>
-----------------------------------------------------------------------------
(* The interrupts                                                          *)

\* Mutant: one high sample is enough.
PowerSampleSingle(pin) == <<pin, pin, pin>>

\* sync_power_check replaces the oldest of the three samples.
PowerSample(pin) == <<io[2], io[3], pin>>

\* The status a timer watches and the value it runs in; the buzzer timer
\* sees the card status as the power check, earlier in the list, leaves it.
Running(t, cardNow) ==
  CASE t = "system"   -> TRUE
    [] t = "buzzer"   -> cardNow = 4
    [] t = "second"   -> findOk = 1
    [] t = "rf3000"   -> rf = 2
    [] t = "rf300"    -> rf = 5
    [] t = "beepOk"   -> beepFlag = 1
    [] t = "beepFail" -> beepFlag = 2

\* Mutant: the count is compared before it is incremented.
ExpiresLate(t, cardNow) == Running(t, cardNow) /\ cnt[t] = Timeout[t]

Expires(t, cardNow) == Running(t, cardNow) /\ cnt[t] + 1 = Timeout[t]

\* Timer_list_handler: a timer whose status moved on keeps its count.
SysTick(pin) ==
  LET sampling == Expires("system", card)
      low      == sampling /\ PowerSample(pin) # <<1, 1, 1>>
      cardNow  == IF low THEN 1 ELSE card
      Fires(t) == Expires(t, cardNow)
  IN /\ sampling => lag < IF pc \in {"read", "verify"} THEN ReadLag ELSE PassLag
     /\ pin = 1 => present # NoCard
     /\ cnt' = [t \in Timers |-> IF Fires(t) THEN 0
                                 ELSE IF Running(t, cardNow) THEN cnt[t] + 1
                                 ELSE cnt[t]]
     /\ io' = IF sampling THEN PowerSample(pin) ELSE io
     /\ card' = IF Fires("buzzer") THEN 5 ELSE cardNow
     /\ findOk' = IF Fires("second") THEN 2 ELSE findOk
     /\ rf' = IF Fires("rf3000") THEN 3 ELSE IF Fires("rf300") THEN 6 ELSE rf
     /\ beepFlag' = IF Fires("beepOk") \/ Fires("beepFail") THEN 0 ELSE beepFlag
     /\ beep' = (beep /\ ~Fires("beepOk") /\ ~Fires("beepFail"))
     /\ armed' = (armed \/ low)
     /\ lag' = IF sampling THEN lag + 1 ELSE lag
     /\ absent' = IF sampling /\ present = NoCard /\ absent < MinAbsent
                  THEN absent + 1 ELSE absent
     /\ window' = IF Running("rf3000", card) THEN window + 1 ELSE 0
  /\ UNCHANGED <<pc, result, flash, autoBurn, burnVars, present, nvm, heard>>

\* NRF1_RFIRQ_EXTI_IRQHandler: a frame some card sends, or a foreign one.
RadioFrame(f) ==
  /\ rf = 2 /\ Len(frames) < BufFrames
  /\ f \in {nvm[c] : c \in Cards} \cup {Blank}
  /\ frames' = Append(frames, f)
  /\ UNCHANGED <<pc, mainVars, cnt, io, sel, conf, rd, tries, msg, boardVars, lag, histVars>>
-----------------------------------------------------------------------------
(* The fixture and the supply of the board                                 *)

InsertCard(c) ==
  /\ present = NoCard /\ absent = MinAbsent
  /\ present' = c
  /\ UNCHANGED <<pc, mainVars, cnt, io, burnVars, nvm, absent, lag, histVars>>

RemoveCard ==
  /\ present # NoCard
  /\ present' = NoCard /\ absent' = 0
  /\ UNCHANGED <<pc, mainVars, cnt, io, burnVars, nvm, lag, histVars>>

\* The board loses power or the watchdog bites: RAM is as Platform_Init
\* leaves it, and a write under way is torn.
Reset ==
  /\ pc' = "clickers" /\ rf' = 0 /\ result' = 0 /\ flash' = 0
  /\ beepFlag' = 0 /\ beep' = FALSE
  /\ card' = 0 /\ findOk' = 0 /\ autoBurn' = FALSE
  /\ cnt' = [t \in Timers |-> 0] /\ io' = <<0, 0, 0>>
  /\ sel' = NoCard /\ conf' = Blank /\ rd' = Blank /\ tries' = 0
  /\ frames' = << >> /\ msg' = NoCard
  /\ lag' = 0 /\ armed' = FALSE /\ heard' = "none" /\ window' = 0
  /\ nvm' = IF pc = "write" /\ present # NoCard
            THEN [nvm EXCEPT ![present] = Blank] ELSE nvm
  /\ UNCHANGED <<present, absent>>
-----------------------------------------------------------------------------
BurnTask ==
  \/ Clickers \/ ReadNvm \/ Verify \/ WriteNvm
  \/ ListenOn \/ BeepOk \/ FlagOk \/ ClearTimer \/ Failed \/ FlagFail
  \/ Receive \/ CheckRssi \/ Show
SerialTask ==
  \/ NoCommand \/ StopBurn \/ \E known \in BOOLEAN : StartBurn(known)
CardTask ==
  \/ Gate \/ Dispatch \/ FindCard \/ SelectCard \/ CardSelected
  \/ CardHalt \/ CardLaunch \/ CardLaunched
MainLoop == BurnTask \/ SerialTask \/ CardTask

Next ==
  \/ MainLoop
  \/ \E pin \in {0, 1} : SysTick(pin)
  \/ \E f \in Cards \cup {Blank} : RadioFrame(f)
  \/ \E c \in Cards : InsertCard(c)
  \/ RemoveCard
  \/ Reset

Spec == Init /\ [][Next]_vars

\* The processor never stops running the main loop, and the SysTick never
\* stops ticking.
Fairness == WF_vars(MainLoop) /\ WF_vars(\E pin \in {0, 1} : SysTick(pin))
FairSpec == Spec /\ Fairness
-----------------------------------------------------------------------------
(* What the burner owes its user                                           *)

\* Once a card is burned, another burn starts only after the fixture lost
\* power or a start command arrived (readme, 2017-06-22 item 3).  SysTick
\* and App_card_process both write card_process_status, so the request that
\* line 229 clears can cross a new one.
BurnNeedsPowerCycle == [][rf # 1 /\ rf' = 1 => armed]_vars

\* After the stop command the buzzer is silent and stays so until the next
\* start (readme, 2017-06-09 item 1), whatever tone was sounding and whatever
\* burn was still being reported.
SilentWhenStopped == ~autoBurn => ~beep

\* A sounding buzzer has a timer that will switch it off: the callback of an
\* earlier tone that comes between BEEP_EN and the assignment of
\* beep_open_flag leaves no tone without one.
BeepHasTimer == beep => beepFlag # 0 \/ pc \in {"flagOk", "flagFail"}

\* No card ever holds the identity of another one: a card exchanged between
\* its selection over NFC and the end of the burn, a second later, is noticed.
OnlyOwnIdentity == \A c \in Cards : nvm[c] \in {c, Blank}

ReportStep == pc = "show" /\ pc' = "serial" /\ rf = 4 /\ rf' = 0

\* A report that rests on a received frame tells the truth about it: it says
\* 0 exactly when the card in conf was heard, and shows that card.
ReportMatchesHeard ==
  [][ReportStep /\ heard # "none" =>
       /\ result = 0 <=> heard = "match"
       /\ result = 0 => msg = conf]_vars

\* readme, 2017-06-22 item 1: no report of success shows the all-zero
\* identity of a message buffer nothing was received into.
NoZeroIdReported ==
  [][ReportStep /\ result = 0 => msg # NoCard]_vars

\* Lines 96-100: the frame that was received is found to match.
MatchStep == pc = "check" /\ pc' = "show"

\* Wherever the tasks are, listening ends without a matching frame only when
\* rf3000 has run its full time since line 62, or before that line cleared
\* what an earlier window had left in its count.
ListenFullWindow ==
  [][rf = 2 /\ rf' = 3 /\ ~MatchStep =>
       \/ window + 1 = Timeout["rf3000"]
       \/ pc \in {"beepOk", "flagOk", "clearTimer"}]_vars

\* Every burn is eventually reported and the burner is free for the next
\* card, whatever frames arrive and whenever the timers expire.
BurnIsReported == rf = 1 ~> rf = 0

\* No tone sounds forever.
BeepEnds == beep ~> ~beep

\* The promise of the whole cycle, see BurnCycle.
Phase ==
  CASE rf = 0 -> "idle" [] rf = 1 -> "burning" [] rf = 2 -> "listening"
    [] OTHER -> "showing"
Cycle == INSTANCE BurnCycle WITH phase <- Phase
CycleSpec == Cycle!Spec
CycleLive == Cycle!BurnEnds
=============================================================================

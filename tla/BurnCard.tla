------------------------------- MODULE BurnCard -------------------------------
(***************************************************************************)
(* One call of zkxl_yyk_protocol_update_uid (yyk_protocol.c) seen from the  *)
(* NVM of the card: the read, verify, write loop on the words of the chip   *)
(* (si24r2e.c), a start command that prepares txbuf before it, and contact  *)
(* losses of the fixture between any two accesses.  Burner takes a read and *)
(* a write as one step each; here the words are written one after another.  *)
(*                                                                         *)
(* The 28 words the firmware sets are grouped by what the code tells apart: *)
(* word 0, which unlocking overwrites; the other radio words, from txbuf;   *)
(* the period of the year and the card number, from conf.data.  Only the    *)
(* last two are read back.                                                  *)
(***************************************************************************)
EXTENDS Integers, Sequences

CONSTANTS
  Periods,     \* ten day periods of the year, the first three bytes of conf.data
  Full,        \* program count at which a card is full (127)
  LastRetry,   \* last value of re_write_count (6)
  MaxStarts,   \* bound: start commands
  MaxDips      \* bound: contact losses

ASSUME ConstantAssumption ==
  /\ Full \in Nat \ {0} /\ LastRetry \in Nat \ {0, 1}
  /\ Periods # {} /\ {"blank", "none"} \cap Periods = {}
  /\ MaxStarts \in Nat /\ MaxDips \in Nat

Words   == <<"config", "radio", "period", "number">>
WordSet == {Words[i] : i \in DOMAIN Words}
DataWords == {"period", "number"}

VARIABLES
  pc,        \* next access of the call; "idle" outside it
  txbuf,     \* radio words of txbuf: "boot" or "set" by a start command
  rtc,       \* period of system_rtc_timer
  want,      \* period in conf.data
  rd,        \* prdata: whether it equals conf.data
  retry,     \* re_write_count
  result,    \* what the last call returned
  nvm,       \* the words of the card
  worn,      \* the card's own program count
  sound,     \* the chip takes what is programmed; a defective one ignores it
  power,     \* the card has contact
  session,   \* the chip accepts programming
  dipped,    \* history: contact was lost in the running call, or just before it
  torn,      \* history: programming was cut short since it was last completed
  starts,    \* bound
  dips       \* bound

callVars == <<want, rd, retry, result>>
cardVars == <<nvm, worn, sound, session, torn>>
vars == <<pc, txbuf, rtc, callVars, cardVars, power, dipped, starts, dips>>

Value(w) ==
  CASE w = "config" -> txbuf
    [] w = "radio"  -> txbuf
    [] w = "period" -> want
    [] w = "number" -> "own"

Pcs == {"idle", "readData", "readCount", "compare", "unlock"} \cup WordSet

\* Contents of every group of words; "open" is what unlocking leaves.
Contents == [WordSet -> {"blank", "open", "boot", "set", "own"} \cup Periods]

TypeOK ==
  /\ pc \in Pcs /\ txbuf \in {"boot", "set"} /\ rtc \in Periods
  /\ want \in Periods \cup {"none"} /\ rd \in BOOLEAN
  /\ retry \in 0..LastRetry
  /\ result \in {0, -1, -2, -3, 1}
  /\ nvm \in Contents /\ worn \in 0..Full + 1 /\ sound \in BOOLEAN
  /\ power \in BOOLEAN /\ session \in BOOLEAN /\ dipped \in BOOLEAN
  /\ torn \in BOOLEAN /\ starts \in 0..MaxStarts /\ dips \in 0..MaxDips

\* A new card in a fixture that was switched on; 1 says that nothing returned yet.
Init ==
  /\ pc = "idle" /\ txbuf = "boot" /\ rtc \in Periods
  /\ want = "none" /\ rd = FALSE /\ retry = 0 /\ result = 1
  /\ nvm = [w \in WordSet |-> "blank"] /\ worn \in 0..Full
  /\ sound \in BOOLEAN
  /\ power = TRUE /\ session = FALSE /\ dipped = FALSE /\ torn = FALSE
  /\ starts = 0 /\ dips = 0

Return(r) ==
  /\ pc' = "idle" /\ result' = r /\ retry' = 0 /\ rd' = FALSE
-----------------------------------------------------------------------------
(* The commands around the call *)

\* serial_cmd_si24r2e_rd_wr_nvm: yyk_protocol_update_rf_setting, then the time
\* of the command.  The one configuration the firmware has passes every check.
Start(p) ==
  /\ pc = "idle" /\ starts < MaxStarts
  /\ txbuf' = "set" /\ rtc' = p /\ starts' = starts + 1
  /\ UNCHANGED <<pc, callVars, cardVars, power, dipped, dips>>

\* The head of the call puts the number and the period into conf.data.  A loss of
\* contact shortly before it may still be on its way through the three samples.
Synchronise ==
  /\ pc = "idle" /\ txbuf = "set" /\ power
  /\ pc' = "readData" /\ want' = rtc /\ result' = 1
  /\ dipped' \in {FALSE, dipped}
  /\ UNCHANGED <<txbuf, rtc, rd, retry, cardVars, power, starts, dips>>
-----------------------------------------------------------------------------
(* si24r2e_read_nvm and the checks of the loop *)

Matches == \A w \in DataWords : nvm[w] = Value(w)

\* A chip without contact answers with nothing a card number looks like.
ReadData ==
  /\ pc = "readData"
  /\ rd' = (power /\ Matches) /\ pc' = "readCount"
  /\ UNCHANGED <<txbuf, rtc, want, retry, result, cardVars, power,
                 dipped, starts, dips>>

\* Mutant: a full card is told from a bad reading, but still written.
ReadCountLate ==
  /\ pc = "readCount"
  /\ \E c \in IF power THEN {worn} ELSE {0, Full + 1},
        on \in IF dipped THEN BOOLEAN ELSE {TRUE} :
       \/ (c > Full \/ ~on) /\ Return(-3)
       \/ c <= Full /\ on /\ pc' = "compare" /\ UNCHANGED <<rd, retry, result>>
  /\ UNCHANGED <<txbuf, rtc, want, cardVars, power, dipped, starts, dips>>

\* Without contact the count is all zeros or all ones.  get_power_status follows
\* the contact with a delay of three samples, so after a loss it may say either.
ReadCount ==
  /\ pc = "readCount"
  /\ \E c \in IF power THEN {worn} ELSE {0, Full + 1},
        on \in IF dipped THEN BOOLEAN ELSE {TRUE} :
       \/ /\ c > Full \/ ~on
          /\ Return(-3)
       \/ /\ c = Full /\ on
          /\ Return(-2)
       \/ /\ c < Full /\ on
          /\ pc' = "compare"
          /\ UNCHANGED <<rd, retry, result>>
  /\ UNCHANGED <<txbuf, rtc, want, cardVars, power, dipped, starts, dips>>

Compare ==
  /\ pc = "compare"
  /\ \/ rd /\ Return(0)
     \/ ~rd /\ pc' = "unlock" /\ UNCHANGED <<rd, retry, result>>
  /\ UNCHANGED <<txbuf, rtc, want, cardVars, power, dipped, starts, dips>>
-----------------------------------------------------------------------------
(* si24r2e_write_nvm *)

\* A chip whose word 0 is set is unlocked, which overwrites the word; then the
\* programming mode is entered.
Unlock ==
  /\ pc = "unlock" /\ pc' = Words[1]
  /\ session' = (power /\ sound)
  /\ IF power /\ sound /\ nvm["config"] # "blank"
     THEN nvm' = [nvm EXCEPT !["config"] = "open"] /\ torn' = TRUE
     ELSE UNCHANGED <<nvm, torn>>
  /\ UNCHANGED <<txbuf, rtc, callVars, worn, sound, power, dipped, starts, dips>>

\* Mutant: the write that uses up the retries counts as a success.
AfterWriteTrusted ==
  IF retry + 1 >= LastRetry
  THEN Return(0)
  ELSE pc' = "readData" /\ retry' = retry + 2 /\ UNCHANGED <<rd, result>>

\* Mutant: the test after the write is missing.
AfterWriteUnbounded ==
  pc' = "readData" /\ retry' = retry + 2 /\ UNCHANGED <<rd, result>>

\* Mutant: the write starts the loop anew.
AfterWriteAnew ==
  pc' = "readData" /\ retry' = 0 /\ UNCHANGED <<rd, result>>

\* Mutant: the first write is not read back.
AfterWriteOnce ==
  Return(-1)

\* The increment after the write and the one of the loop.
AfterWrite ==
  IF retry + 1 >= LastRetry
  THEN Return(-1)
  ELSE pc' = "readData" /\ retry' = retry + 2 /\ UNCHANGED <<rd, result>>

\* wr_data, the words in ascending order.  The chip counts one programming.
WriteWord ==
  /\ \E i \in DOMAIN Words :
       /\ pc = Words[i]
       /\ nvm'  = IF session THEN [nvm EXCEPT ![Words[i]] = Value(Words[i])] ELSE nvm
       /\ worn' = IF session /\ i = 1 /\ worn <= Full THEN worn + 1 ELSE worn
       /\ torn' = IF session THEN i < Len(Words) ELSE torn
       /\ IF i < Len(Words)
          THEN /\ pc' = Words[i + 1] /\ session' = session
               /\ UNCHANGED <<rd, retry, result>>
          ELSE /\ session' = FALSE
               /\ AfterWrite
  /\ UNCHANGED <<txbuf, rtc, want, sound, power, dipped, starts, dips>>
-----------------------------------------------------------------------------
(* The fixture *)

Dip ==
  /\ power /\ dips < MaxDips
  /\ power' = FALSE /\ session' = FALSE /\ dipped' = TRUE /\ dips' = dips + 1
  /\ UNCHANGED <<pc, txbuf, rtc, callVars, nvm, worn, sound, torn, starts>>

Contact ==
  /\ ~power /\ power' = TRUE
  /\ UNCHANGED <<pc, txbuf, rtc, callVars, cardVars, dipped, starts, dips>>

Call == ReadData \/ ReadCount \/ Compare \/ Unlock \/ WriteWord

Next ==
  \/ \E p \in Periods : Start(p)
  \/ Synchronise
  \/ Call
  \/ Dip
  \/ Contact

\* The call runs in the main loop, which nothing stops.
Spec == Init /\ [][Next]_vars /\ WF_vars(Call)
-----------------------------------------------------------------------------
(* What a call promises *)

\* A call that returns 0 leaves a card that holds the wanted number and period
\* and, unless an earlier programming was cut short and not repeated, the radio
\* words of a start command.  The loop reads back the data only (lines 224-230):
\* that the radio words are right rests on the order in which words are written
\* and on txbuf being prepared before the first call.
SuccessIsWhole ==
  result = 0 =>
    /\ nvm["period"] = want /\ nvm["number"] = "own"
    /\ ~torn => nvm["config"] = "set" /\ nvm["radio"] = "set"

\* A card that could be burned is not refused: where contact was kept for the
\* whole call, it fails only on a chip that ignores programming, or when the count
\* is used up (the 127th programming included: the count is looked at before the
\* data that were just written are, lines 221-224).
FailureIsReal ==
  result < 0 /\ ~dipped => ~sound \/ worn >= Full

\* A card takes a limited number of programmings.  Unless contact was lost in the
\* call, none is spent on a full card or on one that holds the wanted data.
WearIsNeeded ==
  [][worn' > worn => dipped \/ (worn < Full /\ ~Matches)]_vars

\* Every call returns, also when contact is lost again and again.
CallReturns == pc # "idle" ~> pc = "idle"
=============================================================================

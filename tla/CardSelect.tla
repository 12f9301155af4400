----------------------------- MODULE CardSelect -----------------------------
(***************************************************************************)
(* How an identity comes from a card into g_cSNR: App_card_process          *)
(* (task_find_card.c) and the reader driver below it (mfrc500_*.c), against *)
(* any number of ISO 14443-A cards in the field.                            *)
(*                                                                         *)
(* A pass of the task is a chain of exchanges, each one step: REQA,         *)
(* anticollision and selection of the first cascade level, and the same     *)
(* for the second level when the card has a seven-byte number.  Cards come  *)
(* and go between the exchanges; in an exchange a card may miss the command *)
(* and the answer may be spoilt, with or without the reader noticing.       *)
(*                                                                         *)
(* Burner takes a pass as two steps and one card; here are the cards.  The  *)
(* fixture's supply and the start command are the action Permit.            *)
(***************************************************************************)
EXTENDS Naturals, FiniteSets

CONSTANTS
  Cards,      \* cards, named by the four bytes of their number that are reported
  Double,     \* those whose number takes two cascade levels
  Prefix,     \* first level of the number of each of them; cards may share it
  None,       \* what g_cSNR holds before anything was read
  Garbled,    \* a number no card has whose check byte is right
  MaxFaults   \* bound: exchanges that go wrong

Prefixes == {Prefix[c] : c \in Double}

ASSUME CardAssumption ==
  /\ Double \subseteq Cards /\ Prefixes \cap Cards = {}
  /\ None # Garbled /\ {None, Garbled} \cap (Cards \cup Prefixes) = {}
ASSUME BoundAssumption == MaxFaults \in Nat

VARIABLES
  status,     \* card_process_status: 1 seek, 3 found, 4 wait, 5 burn
  findOk,     \* find_card_ok
  uidLen,     \* g_uid_len
  snr,        \* g_cSNR: its first and its second four bytes
  busy,       \* rf_rev_status # 0: a burn is under way or reported
  pc,         \* next step of the task; "idle" between two passes
  st,         \* every card: out of the field, or its ISO 14443-3 state
  chosen,     \* history: the cards that answered the last selection
  misled,     \* history: in this pass a card missed the request another answered,
              \* or a wrong size or cascade bit passed for right
  faults      \* bound

readerVars == <<status, findOk, uidLen, snr, busy>>
vars == <<readerVars, pc, st, chosen, misled, faults>>

Exchanges == {"request", "anticoll1", "select1", "anticoll2", "select2"}
Numbers == Cards \cup Prefixes \cup {None, Garbled}

TypeOK ==
  /\ status \in {0, 1, 3, 4, 5} /\ findOk \in 0..2 /\ uidLen \in {0, 4, 8}
  /\ snr \in Numbers \X Numbers /\ busy \in BOOLEAN
  /\ pc \in {"idle", "halt", "launch"} \cup Exchanges
  /\ st \in [Cards -> {"out", "idle", "ready1", "ready2", "active"}]
  /\ chosen \subseteq Cards /\ misled \in BOOLEAN /\ faults \in 0..MaxFaults

Init ==
  /\ status = 0 /\ findOk = 0 /\ uidLen = 0 /\ snr = <<None, None>>
  /\ busy = FALSE /\ pc = "idle" /\ st = [c \in Cards |-> "out"]
  /\ chosen = {} /\ misled = FALSE /\ faults = 0

InField == {c \in Cards : st[c] # "out"}

\* Without the field a card forgets its state.
FieldOff == st' = [c \in Cards |-> IF c \in InField THEN "idle" ELSE "out"]
-----------------------------------------------------------------------------
(* An exchange: PcdComTransceive and the cards *)

\* What goes wrong in it: cards that miss the command, and an answer spoilt so
\* that the reader notices ("noise") or does not ("wrong": bit 3 of RegErrorFlag,
\* the checksum, is not in the mask 0x17, and an even number of bits passes the
\* parity).
Faults == [deaf : SUBSET InField, answer : {"clear", "noise", "wrong"}]
Clean == [deaf |-> {}, answer |-> "clear"]

\* The first part of a card's number.
First(c) == IF c \in Double THEN Prefix[c] ELSE c

\* The cards that answer: in the state the command is for and, when it is a
\* selection, of the number it names.
Answering(f) ==
  {c \in InField \ f.deaf :
     CASE pc = "request"   -> st[c] = "idle"
       [] pc = "anticoll1" -> st[c] = "ready1"
       [] pc = "select1"   -> st[c] = "ready1" /\ First(c) = snr[1]
       [] pc = "anticoll2" -> st[c] = "ready2"
       [] pc = "select2"   -> st[c] = "ready2" /\ c = snr[2]}

Becomes(c) ==
  CASE pc = "request" -> "ready1"
    [] pc = "select1" -> IF c \in Double THEN "ready2" ELSE "active"
    [] pc = "select2" -> "active"
    [] OTHER -> st[c]

\* Every other card that hears the command falls back to idle, in silence.
Exchange(f) ==
  /\ f = Clean \/ faults < MaxFaults
  /\ faults' = IF f = Clean THEN faults ELSE faults + 1
  /\ st' = [c \in Cards |->
              IF c \in Answering(f) THEN Becomes(c)
              ELSE IF c \in InField \ f.deaf THEN "idle" ELSE st[c]]

\* What a card answers: the size bit of ATQA, its number, the cascade bit of SAK.
Answer(c) ==
  CASE pc \in {"request", "select1"} -> c \in Double
    [] pc = "anticoll1" -> First(c)
    [] OTHER -> c
Answers(f) == {Answer(c) : c \in Answering(f)}

\* A collision is an error like any other, as is a missing answer.
Received(f) == f.answer # "noise" /\ Cardinality(Answers(f)) = 1

Bit(f) == IF f.answer = "wrong" THEN ~(TRUE \in Answers(f)) ELSE TRUE \in Answers(f)
Number(f) == IF f.answer = "wrong" THEN Garbled ELSE CHOOSE n \in Answers(f) : TRUE

GiveUp == pc' = "idle" /\ UNCHANGED <<readerVars, chosen, misled>>
-----------------------------------------------------------------------------
(* App_card_process *)

\* Lines 94-104, 192 and 220.
Dispatch ==
  /\ pc = "idle" /\ ~busy
  /\ \/ status = 1 /\ pc' = "request"
     \/ status = 3 /\ pc' = "halt"
     \/ status = 5 /\ pc' = "launch"
  /\ UNCHANGED <<readerVars, st, chosen, misled, faults>>

\* Mutant: the length of an earlier card is kept.
LengthKept(f) == IF Bit(f) THEN 8 ELSE uidLen

Length(f) == IF Bit(f) THEN 8 ELSE 4

\* Mutant: the end of the second find does not end it.
SecondFindEver == findOk # 0

\* In the 200 ms of the second find an answer only restarts them.
SecondFind == findOk = 1

\* Lines 111-139.
Request ==
  /\ pc = "request"
  /\ \E f \in Faults :
       /\ Exchange(f)
       /\ \/ (~Received(f) \/ SecondFind) /\ GiveUp
          \/ /\ Received(f) /\ ~SecondFind
             /\ pc' = "anticoll1" /\ findOk' = 0 /\ uidLen' = Length(f)
             /\ chosen' = {} /\ misled' = (f.answer = "wrong" \/ f.deaf # {})
             /\ UNCHANGED <<status, snr, busy>>

\* Lines 141-145 and 156-161.
Anticoll(from, to, i) ==
  /\ pc = from
  /\ \E f \in Faults :
       /\ Exchange(f)
       /\ \/ ~Received(f) /\ GiveUp
          \/ /\ Received(f)
             /\ pc' = to /\ snr' = [snr EXCEPT ![i] = Number(f)]
             /\ UNCHANGED <<status, findOk, uidLen, busy, chosen, misled>>

Found(f) ==
  /\ pc' = "idle" /\ status' = 3 /\ chosen' = Answering(f)
  /\ UNCHANGED <<findOk, uidLen, snr, busy>>

\* Lines 148-152 and 175-185.
Select1 ==
  /\ pc = "select1"
  /\ \E f \in Faults :
       /\ Exchange(f)
       /\ \/ ~Received(f) /\ GiveUp
          \/ /\ Received(f)
             /\ misled' = (misled \/ f.answer = "wrong")
             /\ IF uidLen = 8 /\ Bit(f)
                THEN pc' = "anticoll2" /\ UNCHANGED <<readerVars, chosen>>
                ELSE Found(f)

\* Lines 162-173: this SAK is not looked at.
Select2 ==
  /\ pc = "select2"
  /\ \E f \in Faults :
       /\ Exchange(f)
       /\ \/ ~Received(f) /\ GiveUp
          \/ Received(f) /\ Found(f) /\ misled' = misled

\* Deselect and PcdHalt are sent without a checksum; the field that is switched
\* off after them is what frees the card.
Halt ==
  /\ pc = "halt" /\ pc' = "idle" /\ status' = 4 /\ FieldOff
  /\ UNCHANGED <<findOk, uidLen, snr, busy, chosen, misled, faults>>

Launch ==
  /\ pc = "launch" /\ pc' = "idle"
  /\ busy' = TRUE /\ status' = 0 /\ findOk' = 1
  /\ UNCHANGED <<uidLen, snr, st, chosen, misled, faults>>

Pass ==
  \/ Dispatch \/ Request \/ Anticoll("anticoll1", "select1", 1) \/ Select1
  \/ Anticoll("anticoll2", "select2", 2) \/ Select2 \/ Halt \/ Launch
-----------------------------------------------------------------------------
(* What happens around the task *)

\* The loss of the fixture's supply, at any moment, and the start command.
Permit ==
  /\ status # 1 /\ status' = 1
  /\ UNCHANGED <<findOk, uidLen, snr, busy, pc, st, chosen, misled, faults>>

\* The stop command comes from the main loop.
Stop ==
  /\ pc = "idle" /\ status' = 0 /\ FieldOff
  /\ UNCHANGED <<findOk, uidLen, snr, busy, pc, chosen, misled, faults>>

BuzzerExpires ==
  /\ status = 4 /\ status' = 5
  /\ UNCHANGED <<findOk, uidLen, snr, busy, pc, st, chosen, misled, faults>>

\* Mutant: the timer of the second find adds to its status.
SecondFindAdds ==
  /\ findOk # 0 /\ findOk' = findOk + 1
  /\ UNCHANGED <<status, uidLen, snr, busy, pc, st, chosen, misled, faults>>

SecondFindExpires ==
  /\ findOk = 1 /\ findOk' = 2
  /\ UNCHANGED <<status, uidLen, snr, busy, pc, st, chosen, misled, faults>>

\* The burn and its report are over; Burner has the phases.
BurnOver ==
  /\ busy /\ pc = "idle" /\ busy' = FALSE
  /\ UNCHANGED <<status, findOk, uidLen, snr, pc, st, chosen, misled, faults>>

Come(c) ==
  /\ st[c] = "out" /\ st' = [st EXCEPT ![c] = "idle"]
  /\ UNCHANGED <<readerVars, pc, chosen, misled, faults>>

Go(c) ==
  /\ st[c] # "out" /\ st' = [st EXCEPT ![c] = "out"]
  /\ UNCHANGED <<readerVars, pc, chosen, misled, faults>>

Next ==
  \/ Pass
  \/ Permit \/ Stop \/ BuzzerExpires \/ SecondFindExpires \/ BurnOver
  \/ \E c \in Cards : Come(c) \/ Go(c)

(* The main loop goes on and a burn comes to its end (BurnIsReported).     *)
Spec == Init /\ [][Next]_vars /\ WF_vars(Pass) /\ WF_vars(BurnOver)
-----------------------------------------------------------------------------
Identity == IF uidLen = 8 THEN snr[2] ELSE snr[1]

(* The identity that is burned belongs to one card, the one selected last:  *)
(* whatever cards come, go or miss a command between two exchanges, it is   *)
(* no prefix, no left-over of an earlier card and no mixture of two, until  *)
(* the burn that uses it is over.  Only a pass that began with a wrong idea *)
(* of the number's length can spoil it: a card missed the REQA that another *)
(* answered, or a wrong size or cascade bit passed for right.               *)
IdentityIsWhole ==
  busy \/ status \in {3, 4, 5} => misled \/ chosen = {Identity}

\* One card for good, and the second find of an earlier one is over.
Alone(c) == InField = {c} /\ findOk # 1

(* A card that stays alone in the field is taken: a pass given up halfway   *)
(* leaves it in a state in which it misses the next REQA, no longer.        *)
AloneIsSelected ==
  \A c \in Cards : <>[]Alone(c) => []<>(status # 1)
=============================================================================

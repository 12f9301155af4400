---------------------------- MODULE SerialRxProofs ----------------------------
(***************************************************************************)
(* What the reception of requests promises, for any requests, any number of *)
(* slots and any length of a slot.                                         *)
(***************************************************************************)
EXTENDS SerialRx, SequenceTheorems, FiniteSetTheorems, WellFoundedInduction, TLAPS

USE SerialAssumption

\* A request is taken only when one is counted, so the count is not decremented
\* below zero.
Counted ==
  /\ pc \in {"run", "load"} => count >= 1
  /\ pc = "store" => reg >= 1

\* The receiver stands right behind the last waiting request, and what is held
\* fits the slots.
Aligned == damaged = 0 =>
  /\ index = (FirstWaiting + Waiting) % Slots
  /\ Held <= Slots
  /\ pc = "store" => reg = count

IInv == TypeOK /\ Counted /\ Aligned

-----------------------------------------------------------------------------
(* Numbers modulo the slots                                                *)

LEMMA ModRange ==
  ASSUME NEW n \in Nat \ {0}, NEW x \in Int
  PROVE  x % n \in 0 .. n - 1
  OBVIOUS

\* One and two turns of the ring are enough for what follows.
LEMMA ModTurns ==
  ASSUME NEW n \in Nat \ {0}, NEW x \in 0 .. 3 * n - 1
  PROVE  /\ x < n => x % n = x
         /\ n <= x /\ x < 2 * n => x % n = x - n
         /\ 2 * n <= x => x % n = x - 2 * n
  OBVIOUS

\* Places of the ring less than a turn apart differ.
LEMMA ModApart ==
  ASSUME NEW n \in Nat \ {0}, NEW x \in 0 .. 2 * n - 1, NEW y \in 0 .. 2 * n - 1,
         x < y, y < x + n
  PROVE  x % n # y % n
  BY ModTurns

\* A turn more or less makes no difference.
LEMMA ModShift ==
  ASSUME NEW n \in Nat \ {0}, NEW x \in n .. 3 * n - 1
  PROVE  x % n = (x - n) % n
<1>1. /\ x \in 0 .. 3 * n - 1 /\ x - n \in 0 .. 3 * n - 1
      /\ x < 2 * n <=> x - n < n
      /\ 2 * n <= x <=> n <= x - n
      /\ x - n < 2 * n /\ n <= x
  OBVIOUS
<1>2. CASE x < 2 * n
  <2>1. x % n = x - n
    BY <1>1, <1>2, ModTurns
  <2>2. (x - n) % n = x - n
    BY <1>1, <1>2, ModTurns
  <2>3. QED BY <2>1, <2>2
<1>3. CASE 2 * n <= x
  <2>1. x % n = x - 2 * n
    BY <1>1, <1>3, ModTurns
  <2>2. (x - n) % n = (x - n) - n
    BY <1>1, <1>3, ModTurns
  <2>3. QED BY <2>1, <2>2
<1>4. QED BY <1>2, <1>3

LEMMA ModSum ==
  ASSUME NEW n \in Nat \ {0}, NEW x \in 0 .. 2 * n - 1, NEW i \in 0 .. n
  PROVE  ((x % n) + i) % n = (x + i) % n
<1>1. CASE x < n
  <2>1. x % n = x
    BY <1>1, ModTurns
  <2>2. QED BY <2>1
<1>2. CASE n <= x
  <2>1. x % n = x - n
    BY <1>2, ModTurns
  <2>2. x + i \in n .. 3 * n - 1 /\ (x + i) - n = (x - n) + i
    BY <1>2
  <2>3. (x + i) % n = ((x + i) - n) % n
    BY <2>2, ModShift
  <2>4. QED BY <2>1, <2>2, <2>3
<1>3. QED BY <1>1, <1>2

-----------------------------------------------------------------------------
(* Strings                                                                 *)

\* The string in a slot ends before its first Nul, or fills the slot.
LEMMA TextIsString ==
  ASSUME NEW s \in [Places -> Kinds \cup {Nul}]
  PROVE  Text(s) \in Seq(Kinds)
<1> DEFINE Ends0(n) == /\ \A p \in 1 .. n : s[p] # Nul
                       /\ n = SlotLen \/ s[n + 1] = Nul
           end == CHOOSE n \in 0 .. SlotLen : Ends0(n)
           N == {p \in Places : s[p] = Nul}
<1>1. \E n \in 0 .. SlotLen : Ends0(n)
  <2>1. CASE N = {}
    <3>1. SlotLen \in 0 .. SlotLen /\ Ends0(SlotLen)
      BY <2>1 DEF Places
    <3>2. QED BY <3>1
  <2>2. CASE N # {}
    <3>1. PICK x \in N : \A y \in N : <<y, x>> \notin OpToRel(<, Nat)
      <4>1. N \subseteq Nat
        BY DEF Places
      <4>2. QED BY <2>2, <4>1, NatLessThanWellFounded, WFMin
    <3>2. x - 1 \in 0 .. SlotLen /\ (x - 1) + 1 = x
      BY DEF Places
    <3>3. ASSUME NEW p \in 1 .. x - 1 PROVE s[p] # Nul
      <4>1. p \in Places /\ p < x /\ p \in Nat /\ x \in Nat
        BY DEF Places
      <4>2. <<p, x>> \in OpToRel(<, Nat)
        BY <4>1 DEF OpToRel
      <4>3. QED BY <3>1, <4>1, <4>2
    <3>4. Ends0(x - 1)
      BY <3>2, <3>3
    <3>5. QED BY <3>2, <3>4
  <2>3. QED BY <2>1, <2>2
<1>2. end \in 0 .. SlotLen /\ Ends0(end)
  BY <1>1
<1>3. Text(s) = SubSeq(s, 1, end)
  BY DEF Text
<1> HIDE DEF end
<1>4. \A p \in 1 .. end : s[p] \in Kinds
  BY <1>2 DEF Places
<1>5. SubSeq(s, 1, end) = [p \in 1 .. end |-> s[p]]
  BY <1>2
<1>6. end \in Nat
  BY <1>2
<1>7. [p \in 1 .. end |-> s[p]] \in Seq(Kinds)
  BY <1>4, <1>6, IsASeq
<1>8. QED BY <1>3, <1>5, <1>7

-----------------------------------------------------------------------------
(* Types                                                                   *)

LEMMA ErasedIsSlot == Erased \in [Places -> Kinds \cup {Nul}]
BY DEF Erased

LEMMA WrittenType ==
  ASSUME TypeOK, NEW b \in Kinds, NEW n \in 0 .. SlotLen
  PROVE  Written(b, n) \in [SlotNumbers -> [Places -> Kinds \cup {Nul}]]
<1>1. 1 \in Places /\ (n < SlotLen => n + 1 \in Places)
  BY DEF Places
<1>2. slot \in [SlotNumbers -> [Places -> Kinds \cup {Nul}]]
  BY DEF TypeOK
<1>3. QED BY <1>1, <1>2 DEF Written

\* A byte of the request being sent.
LEMMA NextByte ==
  ASSUME TypeOK, NEW r \in Requests, left # << >> => r = sending
  PROVE  LET stream == IF left = << >> THEN r ELSE left
         IN stream \in Seq(Kinds) /\ stream # << >> /\ Head(stream) \in Kinds /\ Tail(stream) \in Seq(Kinds)
<1> DEFINE stream == IF left = << >> THEN r ELSE left
<1>1. left \in Seq(Kinds)
  BY DEF TypeOK
<1>2. stream \in Seq(Kinds) /\ stream # << >>
  BY <1>1
<1>3. Head(stream) \in Kinds /\ Tail(stream) \in Seq(Kinds)
  BY <1>2, HeadTailProperties
<1>4. QED BY <1>2, <1>3

LEMMA RxByteType ==
  ASSUME TypeOK, NEW b \in Kinds, RxByte(b)
  PROVE  /\ slot' \in [SlotNumbers -> [Places -> Kinds \cup {Nul}]]
         /\ index' \in SlotNumbers /\ count' \in 0 .. Slots
         /\ uart' \in {"start", "data"} /\ cnt' \in 0 .. SlotLen /\ nesting' \in 0 .. 255
         /\ skip' \in 0 .. 1 /\ rxing' \in BOOLEAN
         /\ count' \in {count, count + 1}
<1> USE DEF rxVars
<1>1. slot \in [SlotNumbers -> [Places -> Kinds \cup {Nul}]] /\ cnt \in 0 .. SlotLen
  BY DEF TypeOK
<1>2. Toggled(b) \in 0 .. 1
  BY DEF Toggled, TypeOK
<1>3. NestingAfter(b) \in 0 .. 255
  <2>1. nesting \in 0 .. 255
    BY DEF TypeOK
  <2>2. \A x \in Int : x % 256 \in 0 .. 255
    OBVIOUS
  <2> DEFINE x == IF b = "open" THEN nesting + 1 ELSE IF b = "close" THEN nesting - 1 ELSE nesting
  <2>3. x \in Int /\ NestingAfter(b) = x % 256
    BY <2>1 DEF NestingAfter
  <2> HIDE DEF x
  <2>4. QED BY <2>2, <2>3
<1>4. CASE FirstByte(b)
  <2>1. slot' \in [SlotNumbers -> [Places -> Kinds \cup {Nul}]]
    <3>1. slot' \in {slot, Written(b, 0)}
      BY <1>4, Zenon DEF FirstByte
    <3>2. Written(b, 0) \in [SlotNumbers -> [Places -> Kinds \cup {Nul}]]
      BY WrittenType
    <3>3. QED BY <1>1, <3>1, <3>2
  <2>2. /\ index' = index /\ count' = count /\ skip' = skip
        /\ uart' \in {uart, "data"} /\ cnt' \in {cnt, 1} /\ nesting' \in {nesting, 1}
        /\ rxing' \in {rxing, TRUE}
    BY <1>4, Zenon DEF FirstByte
  <2>3. cnt' \in 0 .. SlotLen /\ nesting' \in 0 .. 255 /\ count' \in 0 .. Slots
    BY <1>1, <2>2 DEF TypeOK
  <2>4. rxing' \in BOOLEAN /\ index' \in SlotNumbers /\ uart' \in {"start", "data"} /\ skip' \in 0 .. 1
    BY <2>2, Zenon DEF TypeOK
  <2>5. QED BY <2>1, <2>2, <2>3, <2>4
<1>5. CASE BlankByte(b)
  BY <1>5 DEF BlankByte, TypeOK
<1>6. CASE OverlongByte(b)
  <2>1. slot' \in [SlotNumbers -> [Places -> Kinds \cup {Nul}]]
    <3>1. slot' = [Written(b, cnt) EXCEPT ![index] = Erased]
      BY <1>6 DEF OverlongByte
    <3>2. QED BY <1>1, <3>1, WrittenType, ErasedIsSlot
  <2>2. /\ index' = index /\ count' = count /\ skip' \in 0 .. 1
        /\ uart' = "start" /\ cnt' = 0 /\ nesting' = 0 /\ rxing' = FALSE
    BY <1>2, <1>6 DEF OverlongByte
  <2>3. index' \in SlotNumbers /\ count' \in 0 .. Slots /\ cnt' \in 0 .. SlotLen /\ nesting' \in 0 .. 255
    BY <2>2 DEF TypeOK
  <2>4. QED BY <2>1, <2>2, <2>3
<1>7. CASE DataByte(b)
  <2>1. slot' \in [SlotNumbers -> [Places -> Kinds \cup {Nul}]]
    BY <1>1, <1>7, WrittenType DEF DataByte
  <2>2. skip' \in 0 .. 1 /\ nesting' \in 0 .. 255
    BY <1>2, <1>3, <1>7 DEF DataByte
  <2>3. CASE Ends(b)
    <3>1. /\ uart' = "start" /\ cnt' = 0 /\ rxing' = FALSE
          /\ index' = IF count < Slots THEN (index + 1) % Slots ELSE index
          /\ count' = IF count < Slots THEN count + 1 ELSE count
      BY <1>7, <2>3 DEF DataByte
    <3>2. index \in SlotNumbers /\ count \in 0 .. Slots
      BY DEF TypeOK
    <3>3. (index + 1) % Slots \in SlotNumbers
      BY <3>2, ModRange DEF SlotNumbers
    <3>4. index' \in SlotNumbers
      BY <3>1, <3>2, <3>3
    <3>5. count' \in 0 .. Slots /\ count' \in {count, count + 1}
      BY <3>1, <3>2
    <3>6. cnt' \in 0 .. SlotLen
      BY <3>1
    <3>7. QED BY <2>1, <2>2, <3>1, <3>4, <3>5, <3>6
  <2>4. CASE ~Ends(b)
    <3>1. cnt' = cnt + 1 /\ cnt < SlotLen /\ uart' = uart /\ rxing' = rxing /\ index' = index /\ count' = count
      BY <1>7, <2>4 DEF DataByte
    <3>2. cnt' \in 0 .. SlotLen
      BY <1>1, <3>1
    <3>3. QED BY <2>1, <2>2, <3>1, <3>2 DEF TypeOK
  <2>5. QED BY <2>3, <2>4
<1>8. QED BY <1>4, <1>5, <1>6, <1>7 DEF RxByte

LEMMA InitTypes == Init => TypeOK /\ Counted
<1> SUFFICES ASSUME Init PROVE TypeOK /\ Counted
  OBVIOUS
<1>1. 0 \in SlotNumbers /\ << >> \in Seq(Kinds)
  BY EmptySeq DEF SlotNumbers
<1>2. slot \in [SlotNumbers -> [Places -> Kinds \cup {Nul}]]
  BY ErasedIsSlot DEF Init
<1>3. /\ index \in SlotNumbers /\ read \in SlotNumbers /\ count \in 0 .. Slots
      /\ cnt \in 0 .. SlotLen /\ nesting \in 0 .. 255 /\ skip \in 0 .. 1 /\ reg \in 0 .. Slots
      /\ damaged \in 0 .. MaxDamaged
  BY <1>1 DEF Init
<1>4. /\ rxing \in BOOLEAN /\ tick \in {"none", "index", "erase", "nesting"}
      /\ victim \in SlotNumbers /\ {idle, clean, ideal} \subseteq BOOLEAN
  BY <1>1, Zenon DEF Init
<1>5. QED BY <1>1, <1>2, <1>3, <1>4 DEF Init, TypeOK, Counted

LEMMA ResetTypes ==
  ASSUME TypeOK, Reset
  PROVE  TypeOK' /\ Counted'
<1>1. 0 \in SlotNumbers /\ << >> \in Seq(Kinds)
  BY EmptySeq DEF SlotNumbers
<1>2. slot' \in [SlotNumbers -> [Places -> Kinds \cup {Nul}]]
  BY ErasedIsSlot DEF Reset
<1>3. /\ index' \in SlotNumbers /\ read' \in SlotNumbers /\ count' \in 0 .. Slots
      /\ cnt' \in 0 .. SlotLen /\ nesting' \in 0 .. 255 /\ skip' \in 0 .. 1 /\ reg' \in 0 .. Slots
      /\ damaged' \in 0 .. MaxDamaged
  BY <1>1 DEF Reset
<1>4. /\ {idle, clean, ideal}' \subseteq BOOLEAN /\ rxing' \in BOOLEAN
      /\ tick' \in {"none", "index", "erase", "nesting"}
  BY Zenon DEF Reset, TypeOK
<1>5. QED BY <1>1, <1>2, <1>3, <1>4 DEF Reset, TypeOK, Counted

LEMMA SendTypes ==
  ASSUME TypeOK, Counted, NEW r \in Requests, Send(r)
  PROVE  TypeOK' /\ Counted'
<1> DEFINE stream == IF left = << >> THEN r ELSE left
           b == Head(stream)
<1>1. left # << >> => r = sending
  BY DEF Send
<1>2. b \in Kinds /\ Tail(stream) \in Seq(Kinds)
  BY <1>1, NextByte
<1>3. RxByte(b) /\ left' = Tail(stream) /\ sending' = r
  BY DEF Send
<1> HIDE DEF b
<1>4. /\ slot' \in [SlotNumbers -> [Places -> Kinds \cup {Nul}]]
      /\ index' \in SlotNumbers /\ count' \in 0 .. Slots
      /\ uart' \in {"start", "data"} /\ cnt' \in 0 .. SlotLen /\ nesting' \in 0 .. 255
      /\ skip' \in 0 .. 1 /\ rxing' \in BOOLEAN
      /\ count' \in {count, count + 1}
  BY <1>2, <1>3, RxByteType
<1>5. tick' = tick /\ victim' = victim /\ read' = read /\ pc' = pc /\ reg' = reg /\ taken' = taken
  BY DEF Send, tickVars, mainVars
<1>6. idle' = FALSE /\ (clean' \in BOOLEAN) /\ (ideal' \in BOOLEAN)
  <2>1. {clean, ideal, idle} \subseteq BOOLEAN /\ tick \in {"none", "index", "erase", "nesting"}
    BY Zenon DEF TypeOK
  <2>2. QED BY <2>1, Zenon DEF Send
<1>7. damaged' \in 0 .. MaxDamaged
  <2>1. damaged \in 0 .. MaxDamaged
    BY DEF TypeOK
  <2>2. damaged < MaxDamaged /\ damaged' \in {0, damaged + 1}
    BY Zenon DEF Send
  <2>3. QED BY <2>1, <2>2
<1>8. count \in 0 .. Slots
  BY DEF TypeOK
<1>9. Counted'
  BY <1>4, <1>5, <1>8 DEF Counted
<1>10. {idle, clean, ideal}' \subseteq BOOLEAN /\ tick' \in {"none", "index", "erase", "nesting"}
  BY <1>5, <1>6, Zenon DEF TypeOK
<1>11. QED BY <1>2, <1>3, <1>4, <1>5, <1>7, <1>9, <1>10 DEF TypeOK

LEMMA OtherTypes ==
  ASSUME TypeOK, Counted, Abandon \/ Timeout
  PROVE  TypeOK' /\ Counted'
<1> USE DEF rxVars, tickVars, mainVars, pcVars
<1>1. /\ {idle, clean, ideal} \subseteq BOOLEAN /\ rxing \in BOOLEAN
      /\ tick \in {"none", "index", "erase", "nesting"}
  BY Zenon DEF TypeOK
<1>2. /\ slot \in [SlotNumbers -> [Places -> Kinds \cup {Nul}]]
      /\ index \in SlotNumbers /\ read \in SlotNumbers /\ count \in 0 .. Slots
      /\ uart \in {"start", "data"} /\ cnt \in 0 .. SlotLen /\ nesting \in 0 .. 255
      /\ skip \in 0 .. 1 /\ victim \in SlotNumbers
      /\ pc \in {"wait", "run", "load", "store", "erase", "advance"} /\ reg \in 0 .. Slots
      /\ taken \in Seq(Kinds) /\ sending \in Requests \cup {<< >>} /\ left \in Seq(Kinds)
      /\ damaged \in 0 .. MaxDamaged
  BY Zenon DEF TypeOK
<1>3. /\ {idle, clean, ideal}' \subseteq BOOLEAN /\ rxing' \in BOOLEAN
      /\ tick' \in {"none", "index", "erase", "nesting"}
  BY <1>1, Zenon DEF Abandon, Timeout, TimeoutTest, TimeoutLoad, TimeoutErase, TimeoutNesting, Cut
<1>4. CASE Abandon
  <2>1. left' \in Seq(Kinds) /\ sending' \in Requests \cup {<< >>}
    BY <1>4, EmptySeq DEF Abandon
  <2>2. QED BY <1>2, <1>3, <1>4, <2>1 DEF Abandon, TypeOK, Counted
<1>5. CASE TimeoutTest \/ TimeoutLoad
  <2>1. UNCHANGED <<slot, index, count, uart, cnt, nesting, skip, read, pc, reg, taken,
                    sending, left, damaged>>
    BY <1>5 DEF TimeoutTest, TimeoutLoad
  <2>2. victim' \in {victim, index}
    BY <1>5, Zenon DEF TimeoutTest, TimeoutLoad
  <2>3. QED BY <1>2, <1>3, <2>1, <2>2 DEF TypeOK, Counted
<1>6. CASE TimeoutErase
  <2>1. slot' \in [SlotNumbers -> [Places -> Kinds \cup {Nul}]]
    BY <1>2, <1>6, ErasedIsSlot DEF TimeoutErase
  <2>2. damaged' \in 0 .. MaxDamaged
    <3>1. damaged' \in {1, damaged}
      BY <1>6, Zenon DEF TimeoutErase
    <3>2. QED BY <1>2, <3>1
  <2>3. UNCHANGED <<index, count, uart, cnt, nesting, skip, read, pc, reg, taken, sending, left>>
    BY <1>6 DEF TimeoutErase
  <2>4. victim' \in SlotNumbers
    BY <1>6 DEF TimeoutErase, SlotNumbers
  <2>5. QED BY <1>2, <1>3, <2>1, <2>2, <2>3, <2>4 DEF TypeOK, Counted
<1>7. CASE TimeoutNesting
  <2>1. UNCHANGED <<slot, index, count, uart, cnt, skip, victim, read, pc, reg, taken,
                    sending, left, damaged>>
    BY <1>7 DEF TimeoutNesting
  <2>2. nesting' \in 0 .. 255
    BY <1>7 DEF TimeoutNesting
  <2>3. QED BY <1>2, <1>3, <2>1, <2>2 DEF TypeOK, Counted
<1>8. QED BY <1>4, <1>5, <1>6, <1>7 DEF Timeout

LEMMA ReaderTypes ==
  ASSUME TypeOK, Counted, Reader
  PROVE  TypeOK' /\ Counted'
<1> USE DEF rxVars, tickVars, pcVars
<1>1. /\ {idle, clean, ideal} \subseteq BOOLEAN /\ rxing \in BOOLEAN
      /\ tick \in {"none", "index", "erase", "nesting"}
  BY Zenon DEF TypeOK
<1>2. /\ slot \in [SlotNumbers -> [Places -> Kinds \cup {Nul}]]
      /\ index \in SlotNumbers /\ read \in SlotNumbers /\ count \in 0 .. Slots
      /\ uart \in {"start", "data"} /\ cnt \in 0 .. SlotLen /\ nesting \in 0 .. 255
      /\ skip \in 0 .. 1
      /\ pc \in {"wait", "run", "load", "store", "erase", "advance"} /\ reg \in 0 .. Slots
      /\ taken \in Seq(Kinds) /\ sending \in Requests \cup {<< >>} /\ left \in Seq(Kinds)
      /\ damaged \in 0 .. MaxDamaged
  BY Zenon DEF TypeOK
<1>3. /\ {idle, clean, ideal}' \subseteq BOOLEAN /\ rxing' \in BOOLEAN
      /\ tick' \in {"none", "index", "erase", "nesting"}
  BY <1>1, Zenon DEF Reader, Parse, Execute, LoadCount, StoreCount, EraseSlot, Advance
<1>4. /\ UNCHANGED <<index, uart, cnt, nesting, skip, victim, sending, left, damaged>>
      /\ victim \in SlotNumbers
  BY DEF Reader, Parse, Execute, LoadCount, StoreCount, EraseSlot, Advance, TypeOK
<1>5. CASE Parse
  <2>1. taken' \in Seq(Kinds)
    BY <1>2, <1>5, TextIsString DEF Parse
  <2>2. UNCHANGED <<slot, count, read, reg>> /\ pc' = "run" /\ count > 0
    BY <1>5 DEF Parse
  <2>3. QED BY <1>2, <1>3, <1>4, <2>1, <2>2 DEF TypeOK, Counted
<1>6. CASE Execute
  <2>1. UNCHANGED <<slot, count, read, reg, taken>> /\ pc = "run" /\ pc' = "load"
    BY <1>6 DEF Execute
  <2>2. QED BY <1>2, <1>3, <1>4, <2>1 DEF TypeOK, Counted
<1>7. CASE LoadCount
  <2>1. UNCHANGED <<slot, count, read, taken>> /\ pc = "load" /\ pc' = "store" /\ reg' = count
    BY <1>7 DEF LoadCount
  <2>2. QED BY <1>2, <1>3, <1>4, <2>1 DEF TypeOK, Counted
<1>8. CASE StoreCount
  <2>1. UNCHANGED <<slot, read, taken>> /\ pc = "store" /\ pc' = "erase" /\ reg' = 0
        /\ count' = reg - 1
    BY <1>8 DEF StoreCount
  <2>2. count' \in 0 .. Slots /\ reg' \in 0 .. Slots
    BY <1>2, <2>1 DEF Counted
  <2>3. QED BY <1>2, <1>3, <1>4, <2>1, <2>2 DEF TypeOK, Counted
<1>9. CASE EraseSlot
  <2>1. UNCHANGED <<count, read, reg, taken>> /\ pc' = "advance"
    BY <1>9 DEF EraseSlot
  <2>2. slot' \in [SlotNumbers -> [Places -> Kinds \cup {Nul}]]
    BY <1>2, <1>9, ErasedIsSlot DEF EraseSlot
  <2>3. QED BY <1>2, <1>3, <1>4, <2>1, <2>2 DEF TypeOK, Counted
<1>10. CASE Advance
  <2>1. UNCHANGED <<slot, count, reg, taken>> /\ pc' = "wait" /\ read' = (read + 1) % Slots
    BY <1>10 DEF Advance
  <2>2. read' \in SlotNumbers
    <3>1. read + 1 \in Int
      BY <1>2 DEF SlotNumbers
    <3>2. QED BY <2>1, <3>1, ModRange DEF SlotNumbers
  <2>3. QED BY <1>2, <1>3, <1>4, <2>1, <2>2 DEF TypeOK, Counted
<1>11. QED BY <1>5, <1>6, <1>7, <1>8, <1>9, <1>10 DEF Reader

LEMMA StepTypes ==
  ASSUME TypeOK, Counted, [Next]_vars
  PROVE  TypeOK' /\ Counted'
<1>1. CASE UNCHANGED vars
  <2>1. UNCHANGED <<slot, index, count, uart, cnt, nesting, skip, rxing>>
    BY <1>1 DEF vars, rxVars
  <2>2. UNCHANGED <<tick, victim, read, pc, reg, taken, sending, left, idle, clean, ideal, damaged>>
    BY <1>1 DEF vars, tickVars, mainVars, pcVars
  <2>3. Counted'
    BY <2>1, <2>2 DEF Counted
  <2>4. TypeOK'
    BY <2>1, <2>2, Zenon DEF TypeOK
  <2>5. QED BY <2>3, <2>4
<1>2. QED BY <1>1, SendTypes, OtherTypes, ReaderTypes, ResetTypes DEF Next

\* Every variable stays in its type, see TypeOK: among it that the indices stay
\* inside the slots, and the count of requests and of bytes in bounds.
THEOREM TypeCorrect == Spec => []TypeOK
<1>1. TypeOK /\ Counted /\ [Next]_vars => (TypeOK /\ Counted)'
  BY StepTypes
<1>2. QED BY InitTypes, <1>1, PTL DEF Spec

-----------------------------------------------------------------------------
(* The slots as a queue                                                    *)

Place(k) == (FirstWaiting + k - 1) % Slots

Items == [k \in 1 .. Waiting |-> Text(slot[(FirstWaiting + k - 1) % Slots])]

\* A step keeps the receiver where it belongs and is one of the queue, or none.
QueueStep == Aligned' /\ [Queue!Next]_(Queue!pvars)

LEMMA WindowBounds ==
  ASSUME IInv, damaged = 0
  PROVE  /\ FirstWaiting \in 0 .. Slots /\ Waiting \in 0 .. Slots
         /\ Waiting <= Held
         /\ FirstWaiting = Slots => pc # "wait"
         /\ \A k \in 1 .. Waiting : Place(k) \in SlotNumbers
<1>1. /\ read \in 0 .. Slots - 1 /\ count \in 0 .. Slots /\ reg \in 0 .. Slots
      /\ pc \in {"wait", "run", "load", "store", "erase", "advance"}
  BY DEF IInv, TypeOK, SlotNumbers
<1>2. FirstWaiting \in 0 .. Slots /\ (FirstWaiting = Slots => pc # "wait")
  BY <1>1 DEF FirstWaiting
<1>3. Waiting \in 0 .. Slots /\ Waiting <= Held
  BY <1>1 DEF IInv, Counted, Aligned, Waiting, Held
<1>4. \A k \in 1 .. Waiting : Place(k) \in SlotNumbers
  BY <1>2, <1>3, ModRange DEF Place, SlotNumbers
<1>5. QED BY <1>2, <1>3, <1>4

\* The slot being received into is not one that waits, nor is the next one when
\* two are free.
LEMMA WindowApart ==
  ASSUME IInv, damaged = 0, Held < Slots, NEW k \in 1 .. Waiting
  PROVE  /\ Place(k) # index
         /\ index + 1 \in SlotNumbers /\ Held < Slots - 1 => Place(k) # index + 1
<1> DEFINE x == FirstWaiting + k - 1
           y == FirstWaiting + Waiting
<1>1. /\ FirstWaiting \in 0 .. Slots /\ Waiting \in 0 .. Slots /\ Waiting < Slots
      /\ Held < Slots - 1 => Waiting < Slots - 1
  <2>1. Held \in Int
    BY DEF IInv, TypeOK, Held
  <2>2. QED BY <2>1, WindowBounds
<1>2. index = y % Slots
  BY DEF IInv, Aligned
<1>3. x \in 0 .. 2 * Slots - 1 /\ y \in 0 .. 2 * Slots - 1 /\ x < y /\ y < x + Slots
  BY <1>1
<1>4. Place(k) = x % Slots
  BY DEF Place
<1>5. Place(k) # index
  BY <1>2, <1>3, <1>4, ModApart
<1>6. ASSUME index + 1 \in SlotNumbers, Held < Slots - 1
      PROVE  Place(k) # index + 1
  <2>1. y + 1 \in 0 .. 2 * Slots - 1 /\ x < y + 1 /\ y + 1 < x + Slots
    BY <1>1, <1>3, <1>6
  <2>2. ((y % Slots) + 1) % Slots = (y + 1) % Slots
    BY <1>3, ModSum
  <2>3. (index + 1) % Slots = index + 1
    <3>1. index + 1 \in 0 .. 3 * Slots - 1 /\ index + 1 < Slots
      BY <1>6 DEF SlotNumbers
    <3>2. QED BY <3>1, ModTurns
  <2>4. index + 1 = (y + 1) % Slots
    BY <1>2, <2>2, <2>3
  <2>5. QED BY <1>3, <1>4, <2>1, <2>4, ModApart
<1>7. QED BY <1>5, <1>6

LEMMA SameItems ==
  ASSUME IInv, FirstWaiting' = FirstWaiting, Waiting' = Waiting,
         \A k \in 1 .. Waiting : slot'[Place(k)] = slot[Place(k)]
  PROVE  Items' = Items
BY DEF Items, Place

\* What waits are strings.
LEMMA ItemsType ==
  ASSUME IInv, damaged = 0
  PROVE  Items \in [1 .. Waiting -> Seq(Kinds)] /\ Items \in Seq(Seq(Kinds)) /\ Len(Items) = Waiting
<1>1. \A k \in 1 .. Waiting : Text(slot[Place(k)]) \in Seq(Kinds)
  <2>1. slot \in [SlotNumbers -> [Places -> Kinds \cup {Nul}]]
    BY DEF IInv, TypeOK
  <2>2. QED BY <2>1, WindowBounds, TextIsString
<1>2. Waiting \in Nat
  BY WindowBounds
<1>3. Items \in [1 .. Waiting -> Seq(Kinds)]
  BY <1>1 DEF Items, Place
<1>4. QED BY <1>2, <1>3

LEMMA Stutters ==
  ASSUME Items' = Items, taken' = taken, damaged = 0, damaged' = 0
  PROVE  [Queue!Next]_(Queue!pvars)
BY DEF Queue!pvars, Items

LEMMA Breaks ==
  ASSUME damaged' # 0
  PROVE  QueueStep
BY DEF QueueStep, Aligned, Queue!Next, Queue!Broken

\* What a byte does to the slots.
LEMMA RxByteEffect ==
  ASSUME TypeOK, NEW b \in Kinds, RxByte(b)
  PROVE  /\ ~Stores(b) => slot' = slot /\ count' = count /\ index' = index
         /\ \/ count' = count /\ index' = index
            \/ count' = count + 1 /\ count < Slots /\ index' = (index + 1) % Slots
         /\ \A s \in SlotNumbers :
              s # index /\ (s = index + 1 => ~(uart = "data" /\ cnt = SlotLen)) => slot'[s] = slot[s]
<1>1. /\ slot \in [SlotNumbers -> [Places -> Kinds \cup {Nul}]]
      /\ cnt \in 0 .. SlotLen /\ count \in 0 .. Slots /\ index \in SlotNumbers
  BY Zenon DEF TypeOK
<1>2. ASSUME NEW n \in 0 .. SlotLen, NEW s \in SlotNumbers, s # index, s = index + 1 => n < SlotLen
      PROVE  Written(b, n)[s] = slot[s]
  BY <1>1, <1>2 DEF Written
<1>3. CASE FirstByte(b)
  <2>1. /\ slot' = slot \/ slot' = Written(b, 0)
        /\ ~Stores(b) => slot' = slot
        /\ count' = count /\ index' = index
    BY <1>3, Zenon DEF FirstByte, Stores
  <2>2. 0 \in 0 .. SlotLen /\ 0 < SlotLen
    OBVIOUS
  <2>3. QED BY <1>2, <2>1, <2>2
<1>4. CASE BlankByte(b)
  BY <1>4 DEF BlankByte, rxVars
<1>5. CASE OverlongByte(b)
  <2>1. /\ slot' = [Written(b, cnt) EXCEPT ![index] = Erased]
        /\ count' = count /\ index' = index /\ uart = "data" /\ cnt = SlotLen /\ Stores(b)
    BY <1>5 DEF OverlongByte, Stores
  <2>2. ASSUME NEW s \in SlotNumbers, s # index, s # index + 1
        PROVE  slot'[s] = slot[s]
    <3>1. Written(b, cnt)[s] = slot[s]
      BY <1>1, <1>2, <2>2
    <3>2. Written(b, cnt) \in [SlotNumbers -> [Places -> Kinds \cup {Nul}]]
      BY <1>1, WrittenType
    <3>3. QED BY <2>1, <2>2, <3>1, <3>2
  <2>3. QED BY <2>1, <2>2
<1>6. CASE DataByte(b)
  <2>1. slot' = Written(b, cnt) /\ cnt < SlotLen /\ Stores(b)
    BY <1>6 DEF DataByte, Stores
  <2>2. \A s \in SlotNumbers : s # index => slot'[s] = slot[s]
    BY <1>1, <1>2, <2>1
  <2>3. \/ count' = count /\ index' = index
        \/ count' = count + 1 /\ count < Slots /\ index' = (index + 1) % Slots
    BY <1>6 DEF DataByte
  <2>4. QED BY <2>1, <2>2, <2>3
<1>7. QED BY <1>3, <1>4, <1>5, <1>6 DEF RxByte

\* One more item behind the others.
LEMMA PutFact ==
  ASSUME NEW S, NEW n \in Nat, NEW q \in [1 .. n -> S], NEW r \in [1 .. n + 1 -> S],
         \A k \in 1 .. n : r[k] = q[k]
  PROVE  Len(r) = Len(q) + 1 /\ SubSeq(r, 1, Len(q)) = q /\ r[Len(r)] \in S
<1>1. q \in Seq(S) /\ Len(q) = n /\ r \in Seq(S) /\ Len(r) = n + 1
  OBVIOUS
<1>2. SubSeq(r, 1, n) = [k \in 1 .. n |-> r[k]]
  BY <1>1
<1>3. SubSeq(r, 1, n) = q
  BY <1>2
<1>4. QED BY <1>1, <1>3

\* One item less in front.
LEMMA TakeFact ==
  ASSUME NEW S, NEW n \in Nat, NEW q \in [1 .. n + 1 -> S], NEW r \in [1 .. n -> S],
         \A k \in 1 .. n : r[k] = q[k + 1]
  PROVE  q # << >> /\ Head(q) = q[1] /\ Tail(q) = r
<1>1. q \in Seq(S) /\ Len(q) = n + 1
  OBVIOUS
<1>2. q # << >> /\ Head(q) = q[1]
  BY <1>1
<1>3. /\ Tail(q) \in Seq(S) /\ Len(Tail(q)) = n
      /\ \A k \in 1 .. n : Tail(q)[k] = q[k + 1]
  BY <1>1, <1>2, HeadTailProperties
<1>4. r \in Seq(S) /\ Len(r) = n
  OBVIOUS
<1>5. \A k \in 1 .. n : Tail(q)[k] = r[k]
  BY <1>3
<1>6. Tail(q) = r
  BY <1>3, <1>4, <1>5, SeqEqual
<1>7. QED BY <1>2, <1>6

LEMMA SendQueue ==
  ASSUME IInv, TypeOK', Counted', NEW r \in Requests, Send(r)
  PROVE  QueueStep
<1> SUFFICES ASSUME damaged' = 0 PROVE QueueStep
  BY Breaks
<1> DEFINE b == Head(IF left = << >> THEN r ELSE left)
<1>1. b \in Kinds
  BY NextByte DEF Send, IInv
<1>2. RxByte(b) /\ UNCHANGED <<read, pc, reg, taken>>
  BY DEF Send, mainVars
<1>3. /\ damaged = 0
      /\ ~(Stores(b) /\ (Held = Slots \/ (uart = "data" /\ SpillsIntoNext)))
      /\ ~(count' # count /\ pc = "store")
  <2>1. damaged \in Nat
    BY DEF IInv, TypeOK
  <2>2. damaged + 1 # 0
    BY <2>1
  <2>3. ~(\/ damaged > 0
          \/ Stores(b) /\ (Held = Slots \/ (uart = "data" /\ SpillsIntoNext))
          \/ count' # count /\ pc = "store")
    BY <2>2, Zenon DEF Send
  <2>4. QED BY <2>1, <2>3
<1> HIDE DEF b
<1>4. TypeOK /\ Counted
  BY DEF IInv
<1>5. /\ ~Stores(b) => slot' = slot /\ count' = count /\ index' = index
      /\ \/ count' = count /\ index' = index
         \/ count' = count + 1 /\ count < Slots /\ index' = (index + 1) % Slots
      /\ \A s \in SlotNumbers :
           s # index /\ (s = index + 1 => ~(uart = "data" /\ cnt = SlotLen)) => slot'[s] = slot[s]
  BY <1>1, <1>2, <1>4, RxByteEffect
<1>6. /\ count \in 0 .. Slots /\ Held <= Slots /\ Held \in Nat /\ index = (FirstWaiting + Waiting) % Slots
      /\ pc = "store" => reg = count
      /\ index \in SlotNumbers
  BY <1>3 DEF IInv, TypeOK, Aligned, Held
<1>7. FirstWaiting' = FirstWaiting
  BY <1>2 DEF FirstWaiting
<1>8. \A k \in 1 .. Waiting : slot'[Place(k)] = slot[Place(k)]
  <2>1. CASE ~Stores(b)
    BY <1>5, <2>1
  <2>2. CASE Stores(b)
    <3> SUFFICES ASSUME NEW k \in 1 .. Waiting PROVE slot'[Place(k)] = slot[Place(k)]
      OBVIOUS
    <3>1. Held < Slots
      BY <1>3, <1>6, <2>2
    <3>2. Place(k) \in SlotNumbers /\ Place(k) # index
      BY <1>3, <3>1, WindowBounds, WindowApart
    <3>3. ASSUME Place(k) = index + 1, uart = "data", cnt = SlotLen PROVE FALSE
      <4>1. Held < Slots - 1
        BY <1>3, <1>6, <2>2, <3>1, <3>2, <3>3 DEF SpillsIntoNext
      <4>2. QED BY <1>3, <3>1, <3>2, <3>3, <4>1, WindowApart
    <3>4. QED BY <1>5, <3>2, <3>3
  <2>3. QED BY <2>1, <2>2
<1>9. CASE count' = count /\ index' = index
  <2>1. Waiting' = Waiting /\ Held' = Held
    BY <1>2, <1>9 DEF Waiting, Held
  <2>2. Items' = Items
    BY <1>7, <1>8, <2>1, SameItems
  <2>3. Aligned'
    BY <1>2, <1>6, <1>7, <1>9, <2>1 DEF Aligned
  <2>4. QED BY <1>2, <1>3, <2>2, <2>3, Stutters DEF QueueStep
<1>10. CASE count' = count + 1 /\ count < Slots /\ index' = (index + 1) % Slots
  <2>1. Stores(b) /\ Held < Slots /\ pc # "store"
    BY <1>3, <1>5, <1>6, <1>10
  <2>2. Waiting' = Waiting + 1 /\ Held' = Held + 1
    BY <1>2, <1>6, <1>10 DEF Waiting, Held
  <2>3. FirstWaiting \in 0 .. Slots /\ Waiting \in 0 .. Slots /\ Waiting < Slots
    BY <1>3, <1>6, <2>1, WindowBounds
  <2>4. index' = (FirstWaiting + (Waiting + 1)) % Slots
    <3>1. FirstWaiting + Waiting \in 0 .. 2 * Slots - 1 /\ (FirstWaiting + Waiting) + 1 = FirstWaiting + (Waiting + 1)
      BY <2>3
    <3>2. (((FirstWaiting + Waiting) % Slots) + 1) % Slots = ((FirstWaiting + Waiting) + 1) % Slots
      BY <3>1, ModSum
    <3>3. QED BY <1>6, <1>10, <3>1, <3>2
  <2>5. Held' <= Slots
    BY <1>6, <2>1, <2>2
  <2>6. Aligned'
    BY <1>2, <1>7, <2>1, <2>2, <2>4, <2>5 DEF Aligned
  <2>7. Items \in [1 .. Waiting -> Seq(Kinds)] /\ Items' \in [1 .. Waiting + 1 -> Seq(Kinds)]
    <3>1. IInv'
      BY <2>6 DEF IInv
    <3>2. Items' \in [1 .. Waiting' -> Seq(Kinds)]
      <4>1. ASSUME NEW k \in 1 .. Waiting' PROVE Place(k)' \in SlotNumbers
        <5>1. FirstWaiting + k - 1 \in Int
          BY <2>2, <2>3
        <5>2. Place(k)' = (FirstWaiting + k - 1) % Slots
          BY <1>7 DEF Place
        <5>3. QED BY <5>1, <5>2, ModRange DEF SlotNumbers
      <4>2. slot' \in [SlotNumbers -> [Places -> Kinds \cup {Nul}]]
        BY DEF TypeOK
      <4>3. \A k \in 1 .. Waiting' : Text(slot'[Place(k)']) \in Seq(Kinds)
        BY <4>1, <4>2, TextIsString
      <4>4. QED BY <4>3 DEF Items, Place
    <3>3. QED BY <1>3, <2>2, <3>2, ItemsType
  <2>8. \A k \in 1 .. Waiting : Items'[k] = Items[k]
    BY <1>7, <1>8, <2>2, <2>3 DEF Items, Place
  <2>9. Len(Items') = Len(Items) + 1 /\ SubSeq(Items', 1, Len(Items)) = Items
        /\ Items'[Len(Items')] \in Seq(Kinds)
    <3>1. Waiting \in Nat
      BY <2>3
    <3>2. QED BY <2>7, <2>8, <3>1, PutFact
  <2>10. Queue!Put
    BY <1>2, <1>3, <2>9 DEF Queue!Put, Items
  <2>11. QED BY <2>6, <2>10 DEF QueueStep, Queue!Next
<1>11. QED BY <1>5, <1>9, <1>10

LEMMA OtherQueue ==
  ASSUME IInv, Abandon \/ Timeout
  PROVE  QueueStep
<1> SUFFICES ASSUME damaged' = 0 PROVE QueueStep
  BY Breaks
<1> USE DEF rxVars, mainVars
<1>1. UNCHANGED <<index, count, read, pc, reg, taken>>
  BY DEF Abandon, Timeout, TimeoutTest, TimeoutLoad, TimeoutErase, TimeoutNesting
<1>2. FirstWaiting' = FirstWaiting /\ Waiting' = Waiting /\ Held' = Held
  BY <1>1 DEF FirstWaiting, Waiting, Held
<1>3. damaged = 0 /\ (TimeoutErase => Held # Slots /\ victim = index)
  BY DEF Abandon, Timeout, TimeoutTest, TimeoutLoad, TimeoutErase, TimeoutNesting
<1>4. Aligned'
  BY <1>1, <1>2, <1>3 DEF IInv, Aligned
<1>5. ASSUME NEW k \in 1 .. Waiting PROVE slot'[Place(k)] = slot[Place(k)]
  <2>1. CASE TimeoutErase
    <3>1. Held < Slots
      <4>1. Held \in Int /\ Held <= Slots
        BY <1>3 DEF IInv, TypeOK, Aligned, Held
      <4>2. QED BY <1>3, <2>1, <4>1
    <3>2. Place(k) \in SlotNumbers /\ Place(k) # index
      BY <1>3, <3>1, WindowBounds, WindowApart
    <3>3. slot' = [slot EXCEPT ![index] = Erased] /\ slot \in [SlotNumbers -> [Places -> Kinds \cup {Nul}]]
      BY <1>3, <2>1, Zenon DEF TimeoutErase, IInv, TypeOK
    <3>4. QED BY <3>2, <3>3
  <2>2. CASE ~TimeoutErase
    BY <2>2 DEF Abandon, Timeout, TimeoutTest, TimeoutLoad, TimeoutNesting
  <2>3. QED BY <2>1, <2>2
<1>6. Items' = Items
  BY <1>2, <1>5, SameItems
<1>7. QED BY <1>1, <1>3, <1>4, <1>6, Stutters DEF QueueStep

LEMMA ResetQueue ==
  ASSUME IInv, Reset
  PROVE  QueueStep
<1>1. /\ index' = 0 /\ count' = 0 /\ read' = 0 /\ pc' = "wait" /\ reg' = 0 /\ taken' = << >>
      /\ damaged' = 0
  BY DEF Reset
<1>2. FirstWaiting' = 0 /\ Waiting' = 0 /\ Held' = 0
  <2>1. FirstWaiting' = 0 + 0
    BY <1>1 DEF FirstWaiting
  <2>2. Waiting' = 0 - 0
    BY <1>1 DEF Waiting
  <2>3. Held' = 0 + 0
    BY <1>1 DEF Held
  <2>4. QED BY <2>1, <2>2, <2>3
<1>3. Aligned'
  <2>1. (0 + 0) % Slots = 0
    BY ModTurns
  <2>2. QED BY <1>1, <1>2, <2>1 DEF Aligned
<1>4. Items' = << >>
  <2>1. Items' = [k \in 1 .. 0 |-> Text(slot'[(FirstWaiting' + k - 1) % Slots])]
    BY <1>2 DEF Items
  <2>2. QED BY <2>1
<1>5. Queue!Clear
  BY <1>1, <1>4 DEF Queue!Clear, Items
<1>6. QED BY <1>3, <1>5 DEF QueueStep, Queue!Next

\* Where the main loop is in a pass does not matter to what waits.
LEMMA PassQueue ==
  ASSUME IInv, Execute \/ LoadCount \/ StoreCount \/ EraseSlot
  PROVE  QueueStep
<1> SUFFICES ASSUME damaged' = 0 PROVE QueueStep
  BY Breaks
<1> USE DEF rxVars, pcVars
<1>1. UNCHANGED <<index, read, taken, damaged>>
  BY DEF Execute, LoadCount, StoreCount, EraseSlot
<1>2. /\ count \in 0 .. Slots /\ index = (FirstWaiting + Waiting) % Slots /\ Held <= Slots
      /\ pc = "store" => reg = count
      /\ pc = "store" => reg >= 1
  BY <1>1 DEF IInv, TypeOK, Aligned, Counted
<1>3. \/ pc = "run" /\ pc' = "load" /\ count' = count
      \/ pc = "load" /\ pc' = "store" /\ count' = count /\ reg' = count
      \/ pc = "store" /\ pc' = "erase" /\ count' = reg - 1
      \/ pc = "erase" /\ pc' = "advance" /\ count' = count
  BY DEF Execute, LoadCount, StoreCount, EraseSlot
<1>4. FirstWaiting' = FirstWaiting /\ Waiting' = Waiting
  BY <1>1, <1>2, <1>3 DEF FirstWaiting, Waiting
<1>5. Held' <= Slots
  BY <1>2, <1>3 DEF Held
<1>6. Aligned'
  BY <1>1, <1>2, <1>3, <1>4, <1>5 DEF Aligned
<1>7. ASSUME NEW k \in 1 .. Waiting PROVE slot'[Place(k)] = slot[Place(k)]
  <2>1. CASE EraseSlot
    <3>1. pc = "erase" /\ slot' = [slot EXCEPT ![read] = Erased]
      BY <2>1 DEF EraseSlot
    <3>2. Waiting < Slots /\ FirstWaiting = read + 1 /\ read \in 0 .. Slots - 1 /\ Waiting \in 0 .. Slots
      BY <1>2, <3>1 DEF Waiting, Held, FirstWaiting, IInv, TypeOK, SlotNumbers
    <3>3. Place(k) = (read + k) % Slots
      <4>1. FirstWaiting + k - 1 = read + k
        BY <3>2
      <4>2. QED BY <4>1 DEF Place
    <3>4. /\ read \in 0 .. 2 * Slots - 1 /\ read + k \in 0 .. 2 * Slots - 1 /\ read \in 0 .. 3 * Slots - 1
          /\ read < read + k /\ read + k < read + Slots /\ read < Slots
      BY <3>2
    <3>5. read % Slots # (read + k) % Slots
      BY <3>4, ModApart
    <3>6. read % Slots = read
      BY <3>4, ModTurns
    <3>7. Place(k) # read
      BY <3>3, <3>5, <3>6
    <3>8. Place(k) \in SlotNumbers /\ slot \in [SlotNumbers -> [Places -> Kinds \cup {Nul}]]
      BY <1>1, WindowBounds DEF IInv, TypeOK
    <3>9. QED BY <3>1, <3>7, <3>8
  <2>2. CASE ~EraseSlot
    BY <2>2 DEF Execute, LoadCount, StoreCount
  <2>3. QED BY <2>1, <2>2
<1>8. Items' = Items
  BY <1>4, <1>7, SameItems
<1>9. QED BY <1>1, <1>6, <1>8, Stutters DEF QueueStep

LEMMA ParseQueue ==
  ASSUME IInv, Parse
  PROVE  QueueStep
<1> SUFFICES ASSUME damaged' = 0 PROVE QueueStep
  BY Breaks
<1> USE DEF rxVars, pcVars
<1>1. /\ pc = "wait" /\ pc' = "run" /\ count > 0 /\ taken' = Text(slot[read])
      /\ UNCHANGED <<slot, index, count, read, reg, damaged>>
  BY DEF Parse
<1>2. /\ count \in 0 .. Slots /\ read \in 0 .. Slots - 1 /\ damaged = 0
      /\ index = (FirstWaiting + Waiting) % Slots /\ Held <= Slots
  BY <1>1 DEF IInv, TypeOK, Aligned, SlotNumbers
<1>3. FirstWaiting = read /\ FirstWaiting' = read + 1 /\ Waiting = count /\ Waiting' = count - 1
  BY <1>1, <1>2 DEF FirstWaiting, Waiting
<1>4. Aligned'
  <2>1. FirstWaiting' + Waiting' = FirstWaiting + Waiting
    BY <1>2, <1>3
  <2>2. Held' = Held
    BY <1>1 DEF Held
  <2>3. pc' # "store"
    BY <1>1
  <2>4. QED BY <1>1, <1>2, <2>1, <2>2, <2>3 DEF Aligned
<1>5. Items \in [1 .. (count - 1) + 1 -> Seq(Kinds)] /\ count - 1 \in Nat
  BY <1>1, <1>2, <1>3, ItemsType
<1>6. ASSUME NEW k \in 1 .. count - 1
      PROVE  /\ k + 1 \in 1 .. count /\ k \in 1 .. Waiting'
             /\ Items'[k] = Text(slot[(read + k) % Slots])
             /\ Items[k + 1] = Text(slot[(read + k) % Slots])
  <2>1. /\ k \in 1 .. Waiting' /\ k + 1 \in 1 .. Waiting
        /\ FirstWaiting' + k - 1 = read + k /\ FirstWaiting + (k + 1) - 1 = read + k
    BY <1>2, <1>3
  <2>2. Items'[k] = Text(slot'[(FirstWaiting' + k - 1) % Slots])
    BY <2>1 DEF Items
  <2>3. Items[k + 1] = Text(slot[(FirstWaiting + (k + 1) - 1) % Slots])
    BY <2>1 DEF Items
  <2>4. QED BY <1>1, <1>3, <2>1, <2>2, <2>3
<1>7. Items' \in [1 .. count - 1 -> Seq(Kinds)]
  <2>1. \A k \in 1 .. count - 1 : Items'[k] = Items[k + 1] /\ k + 1 \in 1 .. (count - 1) + 1
    BY <1>2, <1>6
  <2>2. \A k \in 1 .. count - 1 : Items'[k] \in Seq(Kinds)
    BY <1>5, <2>1
  <2>3. Items' = [k \in 1 .. count - 1 |-> Items'[k]]
    BY <1>3 DEF Items
  <2>4. QED BY <2>2, <2>3
<1>8. Items # << >> /\ Head(Items) = Items[1] /\ Tail(Items) = Items'
  BY <1>5, <1>6, <1>7, TakeFact
<1>9. Items[1] = Text(slot[read])
  <2>1. 1 \in 1 .. Waiting /\ FirstWaiting + 1 - 1 = read /\ read \in 0 .. 3 * Slots - 1 /\ read < Slots
    BY <1>1, <1>2, <1>3
  <2>2. read % Slots = read
    BY <2>1, ModTurns
  <2>3. Items[1] = Text(slot[(FirstWaiting + 1 - 1) % Slots])
    BY <2>1 DEF Items
  <2>4. QED BY <2>1, <2>2, <2>3
<1>10. Queue!Take
  BY <1>1, <1>2, <1>8, <1>9 DEF Queue!Take, Items
<1>11. QED BY <1>4, <1>10 DEF QueueStep, Queue!Next

LEMMA AdvanceQueue ==
  ASSUME IInv, Advance
  PROVE  QueueStep
<1> SUFFICES ASSUME damaged' = 0 PROVE QueueStep
  BY Breaks
<1> USE DEF rxVars, pcVars
<1>1. /\ pc = "advance" /\ pc' = "wait" /\ read' = (read + 1) % Slots
      /\ UNCHANGED <<slot, index, count, reg, taken, damaged>>
  BY DEF Advance
<1>2. /\ count \in 0 .. Slots /\ read \in 0 .. Slots - 1 /\ damaged = 0
      /\ index = (FirstWaiting + Waiting) % Slots /\ Held <= Slots
  BY <1>1 DEF IInv, TypeOK, Aligned, SlotNumbers
<1>3. /\ FirstWaiting = read + 1 /\ FirstWaiting' = FirstWaiting % Slots
      /\ Waiting = count /\ Waiting' = count
  <2>1. FirstWaiting = read + 1
    BY <1>1 DEF FirstWaiting
  <2>2. FirstWaiting' = read' + 0
    BY <1>1 DEF FirstWaiting
  <2>3. (read + 1) % Slots \in Int
    BY <1>2, ModRange
  <2>4. Waiting = count - 0 /\ Waiting' = count - 0
    BY <1>1 DEF Waiting
  <2>5. QED BY <1>1, <1>2, <2>1, <2>2, <2>3, <2>4
<1>4. FirstWaiting \in 0 .. 2 * Slots - 1
  BY <1>2, <1>3
<1>5. Aligned'
  <2>1. ((FirstWaiting % Slots) + count) % Slots = (FirstWaiting + count) % Slots
    BY <1>2, <1>4, ModSum
  <2>2. Held' = Held
    BY <1>1 DEF Held
  <2>3. pc' # "store"
    BY <1>1
  <2>4. QED BY <1>1, <1>2, <1>3, <2>1, <2>2, <2>3 DEF Aligned
<1>6. ASSUME NEW k \in 1 .. Waiting
      PROVE  (FirstWaiting' + k - 1) % Slots = (FirstWaiting + k - 1) % Slots
  <2>1. k - 1 \in 0 .. Slots /\ FirstWaiting \in Int /\ FirstWaiting % Slots \in Int
    BY <1>2, <1>3, <1>4, ModRange
  <2>2. ((FirstWaiting % Slots) + (k - 1)) % Slots = (FirstWaiting + (k - 1)) % Slots
    BY <1>4, <2>1, ModSum
  <2>3. (FirstWaiting % Slots) + (k - 1) = FirstWaiting' + k - 1 /\ FirstWaiting + (k - 1) = FirstWaiting + k - 1
    BY <1>3, <2>1
  <2>4. QED BY <2>2, <2>3
<1>7. Items' = Items
  BY <1>1, <1>3, <1>6 DEF Items
<1>8. QED BY <1>1, <1>2, <1>5, <1>7, Stutters DEF QueueStep

LEMMA StepQueue ==
  ASSUME IInv, TypeOK', Counted', [Next]_vars
  PROVE  QueueStep
<1>1. CASE UNCHANGED vars
  <2>1. UNCHANGED <<slot, index, count, uart, cnt, nesting, skip, rxing>>
    BY <1>1 DEF vars, rxVars
  <2>2. UNCHANGED <<read, pc, reg, taken, damaged>>
    BY <1>1 DEF vars, mainVars
  <2>3. FirstWaiting' = FirstWaiting /\ Waiting' = Waiting /\ Held' = Held
    BY <2>1, <2>2 DEF FirstWaiting, Waiting, Held
  <2>4. Items' = Items
    BY <2>1, <2>3 DEF Items
  <2>5. Aligned'
    BY <2>1, <2>2, <2>3 DEF IInv, Aligned
  <2>6. CASE damaged' = 0
    BY <2>2, <2>4, <2>5, <2>6, Stutters DEF QueueStep
  <2>7. CASE damaged' # 0
    BY <2>7, Breaks
  <2>8. QED BY <2>6, <2>7
<1>2. QED BY <1>1, SendQueue, OtherQueue, ResetQueue, PassQueue, ParseQueue, AdvanceQueue DEF Next, Reader

LEMMA Invariance == Spec => []IInv
<1>1. Init => IInv
  <2> SUFFICES ASSUME Init PROVE Aligned
    BY InitTypes DEF IInv
  <2>1. /\ index = 0 /\ count = 0 /\ read = 0 /\ pc = "wait"
    BY DEF Init
  <2>2. FirstWaiting = 0 + 0 /\ Waiting = 0 - 0 /\ Held = 0 + 0
    BY <2>1 DEF FirstWaiting, Waiting, Held
  <2>3. (0 + 0) % Slots = 0
    BY ModTurns
  <2>4. QED BY <2>1, <2>2, <2>3 DEF Aligned
<1>2. IInv /\ [Next]_vars => IInv'
  BY StepTypes, StepQueue DEF IInv, QueueStep
<1>3. QED BY <1>1, <1>2, PTL DEF Spec

\* The slots are a queue as long as no stored request may have been damaged: the
\* main loop is given every counted request once and in order, whatever bytes,
\* timeouts and resets come between its accesses, see QueueSpec.
THEOREM QueueKept == Spec => QueueSpec
<1>1. Init => Queue!Init
  <2> SUFFICES ASSUME Init PROVE Queue!Init
    OBVIOUS
  <2>1. /\ count = 0 /\ read = 0 /\ pc = "wait" /\ damaged = 0 /\ taken = << >>
    BY DEF Init
  <2>2. Waiting = 0 - 0
    BY <2>1 DEF Waiting
  <2>3. Items = [k \in 1 .. 0 |-> Text(slot[(FirstWaiting + k - 1) % Slots])]
    BY <2>2 DEF Items
  <2>4. Items = << >>
    BY <2>3
  <2>5. QED BY <2>1, <2>4 DEF Queue!Init, Items
<1>2. IInv /\ [Next]_vars => [Queue!Next]_(Queue!pvars)
  BY StepTypes, StepQueue DEF IInv, QueueStep
<1>3. QED BY <1>1, <1>2, Invariance, PTL DEF Spec, QueueSpec, Queue!Spec

-----------------------------------------------------------------------------
(* Back at rest after a request                                            *)

\* How far the request is sent.
Sent == Len(sending) - Len(left)

UnderWay == left # << >> =>
  /\ sending \in Requests /\ Sent \in 1 .. Len(sending) - 1
  /\ \A k \in 1 .. Len(left) : left[k] = sending[Sent + k]

\* After a pause nothing is counted as open, and of a request that is clean no
\* more than the bytes sent of it have opened.
Nested ==
  /\ idle /\ uart = "data" => nesting = 0
  /\ clean /\ left # << >> /\ uart = "data" => nesting \in 1 .. Depth(sending, Sent)

\* How often b stands among the first i bytes.
CountOf(r, i, b) == Cardinality({j \in 1 .. i : r[j] = b})

LEMMA CountStep ==
  ASSUME NEW r, NEW i \in Nat, NEW b
  PROVE  /\ CountOf(r, i, b) \in Nat
         /\ r[i + 1] = b => CountOf(r, i + 1, b) = CountOf(r, i, b) + 1
         /\ r[i + 1] # b => CountOf(r, i + 1, b) = CountOf(r, i, b)
         /\ CountOf(r, 0, b) = 0
<1> DEFINE S == {j \in 1 .. i : r[j] = b}
           T == {j \in 1 .. i + 1 : r[j] = b}
<1>1. IsFiniteSet(S)
  <2>1. IsFiniteSet(1 .. i)
    BY FS_Interval
  <2>2. S \subseteq 1 .. i
    OBVIOUS
  <2>3. QED BY <2>1, <2>2, FS_Subset
<1>2. Cardinality(S) \in Nat
  BY <1>1, FS_CardinalityType
<1>3. CountOf(r, i, b) = Cardinality(S) /\ CountOf(r, i + 1, b) = Cardinality(T)
  BY Zenon DEF CountOf
<1>4. CountOf(r, 0, b) = 0
  <2>1. {j \in 1 .. 0 : r[j] = b} = {}
    OBVIOUS
  <2>2. Cardinality({j \in 1 .. 0 : r[j] = b}) = 0
    BY <2>1, FS_EmptySet, Zenon
  <2>3. QED BY <2>2, Zenon DEF CountOf
<1>5. CASE r[i + 1] = b
  <2>1. T = S \cup {i + 1} /\ i + 1 \notin S
    BY <1>5
  <2>2. Cardinality(S \cup {i + 1}) = Cardinality(S) + 1
    BY <1>1, <2>1, FS_AddElement
  <2> HIDE DEF S, T
  <2>3. QED BY <1>2, <1>3, <1>4, <1>5, <2>1, <2>2
<1>6. CASE r[i + 1] # b
  <2>1. T = S
    BY <1>6
  <2> HIDE DEF S, T
  <2>2. QED BY <1>2, <1>3, <1>4, <1>6, <2>1
<1>7. QED BY <1>5, <1>6

LEMMA DepthStep ==
  ASSUME NEW r, NEW i \in Nat
  PROVE  /\ Depth(r, i) \in Int /\ Depth(r, 0) = 0
         /\ r[i + 1] = "open" => Depth(r, i + 1) = Depth(r, i) + 1
         /\ r[i + 1] = "close" => Depth(r, i + 1) = Depth(r, i) - 1
         /\ r[i + 1] \notin {"open", "close"} => Depth(r, i + 1) = Depth(r, i)
<1>1. /\ Depth(r, i) = CountOf(r, i, "open") - CountOf(r, i, "close")
      /\ Depth(r, i + 1) = CountOf(r, i + 1, "open") - CountOf(r, i + 1, "close")
      /\ Depth(r, 0) = CountOf(r, 0, "open") - CountOf(r, 0, "close")
  BY Zenon DEF Depth, CountOf
<1>2. /\ CountOf(r, i, "open") \in Nat /\ CountOf(r, 0, "open") = 0
      /\ r[i + 1] = "open" => CountOf(r, i + 1, "open") = CountOf(r, i, "open") + 1
      /\ r[i + 1] # "open" => CountOf(r, i + 1, "open") = CountOf(r, i, "open")
  BY CountStep
<1>3. /\ CountOf(r, i, "close") \in Nat /\ CountOf(r, 0, "close") = 0
      /\ r[i + 1] = "close" => CountOf(r, i + 1, "close") = CountOf(r, i, "close") + 1
      /\ r[i + 1] # "close" => CountOf(r, i + 1, "close") = CountOf(r, i, "close")
  BY CountStep
<1>4. QED BY <1>1, <1>2, <1>3

\* The byte sent is the next of the request.
LEMMA SendPosition ==
  ASSUME TypeOK, UnderWay, NEW r \in Requests, Send(r)
  PROVE  \E n \in Nat :
           /\ n < Len(r) /\ (n = 0 <=> left = << >>) /\ (n > 0 => n = Sent /\ r = sending)
           /\ RxByte(r[n + 1]) /\ r[n + 1] \in Kinds
           /\ Len(left') = Len(r) - (n + 1) /\ left' \in Seq(Kinds) /\ sending' = r
           /\ \A k \in 1 .. Len(left') : left'[k] = r[n + 1 + k]
<1> DEFINE stream == IF left = << >> THEN r ELSE left
           n == IF left = << >> THEN 0 ELSE Sent
<1>1. left # << >> => r = sending
  BY DEF Send
<1>2. stream \in Seq(Kinds) /\ stream # << >> /\ Head(stream) \in Kinds /\ Tail(stream) \in Seq(Kinds)
  BY <1>1, NextByte
<1>3. RxByte(Head(stream)) /\ left' = Tail(stream) /\ sending' = r
  BY DEF Send
<1>4. r \in Seq(Kinds) /\ left \in Seq(Kinds) /\ Len(r) \in Nat /\ Len(left) \in Nat /\ r # << >>
  BY DEF TypeOK
<1>5. /\ n \in Nat /\ n < Len(r) /\ (n = 0 <=> left = << >>) /\ Len(stream) = Len(r) - n
      /\ (n > 0 => n = Sent /\ r = sending)
      /\ \A k \in 1 .. Len(stream) : stream[k] = r[n + k]
  <2>1. CASE left = << >>
    BY <1>4, <2>1
  <2>2. CASE left # << >>
    <3>1. /\ Sent \in 1 .. Len(r) - 1 /\ Sent = Len(r) - Len(left) /\ r = sending
          /\ \A k \in 1 .. Len(left) : left[k] = r[Sent + k]
      BY <1>1, <2>2 DEF UnderWay, Sent
    <3>2. QED BY <1>4, <2>2, <3>1
  <2>3. QED BY <2>1, <2>2
<1> HIDE DEF stream, n
<1>6. Head(stream) = stream[1] /\ Len(Tail(stream)) = Len(stream) - 1
      /\ \A k \in 1 .. Len(Tail(stream)) : Tail(stream)[k] = stream[k + 1]
  BY <1>2, HeadTailProperties
<1>7. Head(stream) = r[n + 1]
  BY <1>4, <1>5, <1>6
<1>8. Len(left') = Len(r) - (n + 1)
  BY <1>3, <1>4, <1>5, <1>6
<1>9. ASSUME NEW k \in 1 .. Len(left') PROVE left'[k] = r[n + 1 + k]
  <2>1. left'[k] = stream[k + 1] /\ k + 1 \in 1 .. Len(stream) /\ n + (k + 1) = n + 1 + k
    BY <1>3, <1>4, <1>5, <1>6, <1>8
  <2>2. QED BY <1>5, <2>1
<1>10. QED BY <1>2, <1>3, <1>5, <1>7, <1>8, <1>9

LEMMA SendRest ==
  ASSUME TypeOK, UnderWay, Nested, NEW r \in Requests, Send(r)
  PROVE  UnderWay' /\ Nested' /\ (RequestSent /\ clean' => uart' = "start")
<1>1. PICK n \in Nat :
        /\ n < Len(r) /\ (n = 0 <=> left = << >>) /\ (n > 0 => n = Sent /\ r = sending)
        /\ RxByte(r[n + 1]) /\ r[n + 1] \in Kinds
        /\ Len(left') = Len(r) - (n + 1) /\ left' \in Seq(Kinds) /\ sending' = r
        /\ \A k \in 1 .. Len(left') : left'[k] = r[n + 1 + k]
  BY SendPosition
<1> DEFINE b == r[n + 1]
           d == Depth(r, n)
           e == Depth(r, n + 1)
<1>2. /\ Len(r) \in Nat /\ Depth(r, Len(r)) = 0
      /\ \A i \in 1 .. Len(r) - 1 : Depth(r, i) \in 1 .. 255
  BY ObjectAssumption
<1>3. Sent' = n + 1
  BY <1>1, <1>2 DEF Sent
<1>4. left' # << >> <=> n + 1 < Len(r)
  BY <1>1, <1>2
<1>5. UnderWay'
  BY <1>1, <1>2, <1>3, <1>4 DEF UnderWay
<1>6. /\ d \in Int /\ e \in Int /\ (n = 0 => d = 0)
      /\ b = "open" => e = d + 1
      /\ b = "close" => e = d - 1
      /\ b \notin {"open", "close"} => e = d
  <2>1. /\ Depth(r, n) \in Int /\ Depth(r, 0) = 0
        /\ b = "open" => Depth(r, n + 1) = Depth(r, n) + 1
        /\ b = "close" => Depth(r, n + 1) = Depth(r, n) - 1
        /\ b \notin {"open", "close"} => Depth(r, n + 1) = Depth(r, n)
    BY DepthStep
  <2>2. Depth(r, n + 1) \in Int
    BY DepthStep
  <2>3. n = 0 => d = 0
    BY <2>1, Zenon
  <2>4. QED BY <2>1, <2>2, <2>3, Zenon
<1>7. IF left' = << >> THEN e = 0 ELSE e \in 1 .. 255
  <2>1. CASE n + 1 = Len(r)
    <3>1. e = 0
      BY <1>2, <2>1, Zenon
    <3>2. QED BY <1>4, <2>1, <3>1
  <2>2. CASE n + 1 < Len(r)
    <3>1. n + 1 \in 1 .. Len(r) - 1
      BY <1>2, <2>2
    <3>2. e \in 1 .. 255
      BY <1>2, <3>1, Zenon
    <3>3. QED BY <1>4, <2>2, <3>2
  <2>3. QED BY <1>1, <1>2, <2>1, <2>2
<1> HIDE DEF d, e
<1>8. idle' = FALSE /\ (clean' = IF left = << >> THEN idle \/ uart = "start" ELSE clean)
  BY DEF Send
<1>9. uart \in {"start", "data"} /\ nesting \in 0 .. 255
  BY DEF TypeOK
\* Before the byte: nothing is open, or no more than was sent.
<1>10. ASSUME clean', uart = "data"
       PROVE  nesting <= d /\ (n = 0 \/ nesting >= 1)
  <2>1. CASE n = 0
    <3>1. idle
      BY <1>1, <1>8, <1>10, <2>1
    <3>2. nesting = 0
      BY <1>10, <3>1 DEF Nested
    <3>3. QED BY <1>6, <2>1, <3>2
  <2>2. CASE n # 0
    <3>1. left # << >> /\ n = Sent /\ r = sending /\ clean
      <4>1. left # << >> /\ n = Sent /\ r = sending
        BY <1>1, <2>2
      <4>2. QED BY <1>8, <1>10, <4>1, Zenon
    <3>2. nesting \in 1 .. Depth(sending, Sent)
      BY <1>10, <3>1 DEF Nested
    <3>3. d = Depth(sending, Sent)
      BY <3>1, Zenon DEF d
    <3>4. QED BY <1>6, <3>1, <3>2, <3>3
  <2>3. QED BY <2>1, <2>2
<1>11. n > 0 => d \in 1 .. 255
  <2>1. n > 0 => n \in 1 .. Len(r) - 1
    BY <1>1, <1>2
  <2>2. QED BY <1>2, <2>1, Zenon DEF d
<1>12. d >= 0
  BY <1>6, <1>11
<1>13. n = 0 => b = "open"
  <2> SUFFICES ASSUME n = 0 PROVE b = "open"
    OBVIOUS
  <2>1. Len(r) > 1
    BY ObjectAssumption
  <2>2. left' # << >>
    BY <1>4, <2>1
  <2>3. e >= 1 /\ d = 0
    BY <1>6, <1>7, <2>2
  <2>4. b # "open" => e <= d
    BY <1>6
  <2>5. QED BY <1>6, <2>3, <2>4
<1> HIDE DEF b
<1>14. RxByte(b)
  BY <1>1 DEF b
<1>15. \A x \in 0 .. 255 : x % 256 = x
  OBVIOUS
<1>16. ASSUME clean', uart' = "data"
       PROVE  left' # << >> /\ nesting' \in 1 .. e
  <2>1. CASE FirstByte(b)
    <3>1. uart = "start" /\ b = "open" /\ nesting' = 1
      BY <1>16, <2>1 DEF FirstByte
    <3>2. e >= 1
      BY <1>6, <1>12, <3>1
    <3>3. QED BY <1>6, <1>7, <3>1, <3>2
  <2>2. CASE BlankByte(b)
    <3>1. b = "blank" /\ uart = "data" /\ nesting' = nesting
      BY <2>2 DEF BlankByte, rxVars
    <3>2. n # 0 /\ e = d
      BY <1>6, <1>13, <3>1
    <3>3. d \in 1 .. 255
      BY <1>1, <1>11, <3>2
    <3>4. nesting <= d /\ nesting >= 1
      BY <1>10, <1>16, <3>1, <3>2
    <3>5. QED BY <1>7, <1>9, <3>1, <3>2, <3>3, <3>4
  <2>3. CASE OverlongByte(b)
    BY <1>16, <2>3 DEF OverlongByte
  <2>4. CASE DataByte(b)
    <3>1. uart = "data" /\ nesting' = NestingAfter(b) /\ ~Ends(b)
      BY <1>16, <2>4 DEF DataByte
    <3>2. nesting <= d /\ (n = 0 \/ nesting >= 1)
      BY <1>10, <1>16, <3>1
    <3>3. CASE b = "open"
      <4>1. e = d + 1 /\ d >= 0
        BY <1>6, <1>12, <3>3
      <4>2. left' # << >> /\ e \in 1 .. 255
        BY <1>6, <1>7, <4>1
      <4>3. nesting + 1 \in 0 .. 255
        <5>1. nesting <= d /\ d + 1 <= 255 /\ d \in Int
          BY <1>6, <3>2, <4>1, <4>2
        <5>2. QED BY <1>9, <5>1
      <4>4. nesting' = nesting + 1
        BY <1>15, <3>1, <3>3, <4>3 DEF NestingAfter
      <4>5. QED BY <1>6, <1>9, <3>2, <4>1, <4>2, <4>4
    <3>4. CASE b = "close"
      <4>1. n # 0
        BY <1>13, <3>4
      <4>2. nesting >= 1 /\ nesting - 1 \in 0 .. 255
        BY <1>9, <3>2, <4>1
      <4>3. nesting' = nesting - 1
        BY <1>15, <3>1, <3>4, <4>2 DEF NestingAfter
      <4>4. nesting - 1 # 0
        BY <3>1, <3>4, <4>3 DEF Ends
      <4>5. e = d - 1
        BY <1>6, <3>4
      <4>6. nesting - 1 \in 1 .. e
        BY <1>6, <1>9, <3>2, <4>2, <4>4, <4>5
      <4>7. QED BY <1>7, <4>3, <4>6
    <3>5. CASE b \notin {"open", "close"}
      <4>1. n # 0 /\ e = d
        BY <1>6, <1>13, <3>5
      <4>2. nesting' = nesting
        BY <1>9, <3>1, <3>5 DEF NestingAfter
      <4>3. nesting \in 1 .. e
        BY <1>6, <1>9, <3>2, <4>1
      <4>4. QED BY <1>7, <4>2, <4>3
    <3>6. QED BY <3>3, <3>4, <3>5
  <2>5. QED BY <1>14, <2>1, <2>2, <2>3, <2>4 DEF RxByte
<1>17. Nested'
  <2>1. clean' /\ left' # << >> /\ uart' = "data" => nesting' \in 1 .. Depth(sending', Sent')
    BY <1>1, <1>3, <1>16, Zenon DEF e
  <2>2. QED BY <1>8, <2>1 DEF Nested
<1>18. uart' \in {"start", "data"}
  BY <1>1, <1>14, RxByteType DEF b
<1>19. RequestSent /\ clean' => uart' = "start"
  BY <1>16, <1>18 DEF RequestSent
<1>20. QED BY <1>5, <1>17, <1>19

LEMMA OtherRest ==
  ASSUME TypeOK, UnderWay, Nested,
         Abandon \/ Timeout \/ Reader \/ Reset \/ UNCHANGED vars
  PROVE  UnderWay' /\ Nested' /\ ~RequestSent
<1> USE DEF rxVars, mainVars, pcVars
<1>1. CASE Abandon
  <2>1. left' = << >> /\ sending' = << >> /\ UNCHANGED <<idle, uart, nesting>>
    BY <1>1 DEF Abandon
  <2>2. QED BY <2>1 DEF UnderWay, Nested, RequestSent
<1>2. CASE TimeoutTest \/ TimeoutErase
  <2>1. UNCHANGED <<sending, left, idle, uart, nesting>> /\ (clean' => left = << >>)
    BY <1>2 DEF TimeoutTest, TimeoutErase, Cut
  <2>2. QED BY <2>1 DEF UnderWay, Nested, Sent, RequestSent
<1>3. CASE TimeoutNesting
  <2>1. UNCHANGED <<sending, left>> /\ (clean' => left = << >>) /\ nesting' = 0
    BY <1>3 DEF TimeoutNesting, Cut
  <2>2. QED BY <2>1 DEF UnderWay, Nested, Sent, RequestSent
<1>4. CASE TimeoutLoad \/ Reader
  <2>1. UNCHANGED <<sending, left, idle, clean, uart, nesting>>
    BY <1>4 DEF TimeoutLoad, Reader, Parse, Execute, LoadCount, StoreCount, EraseSlot, Advance
  <2>2. QED BY <2>1 DEF UnderWay, Nested, Sent, RequestSent
<1>5. CASE Reset
  <2>1. UNCHANGED <<sending, left>> /\ uart' = "start"
    BY <1>5 DEF Reset
  <2>2. QED BY <2>1 DEF UnderWay, Nested, Sent, RequestSent
<1>6. CASE UNCHANGED vars
  <2>1. UNCHANGED <<sending, left, idle, clean, uart, nesting>>
    BY <1>6 DEF vars
  <2>2. QED BY <2>1 DEF UnderWay, Nested, Sent, RequestSent
<1>7. QED BY <1>1, <1>2, <1>3, <1>4, <1>5, <1>6 DEF Timeout

\* A request sent whole after a pause, or to a receiver at rest, leaves the receiver
\* at rest, whatever was open before and whichever timeouts came, see RestAfterPause.
THEOREM PauseBringsRest == Spec => RestAfterPause
<1> DEFINE RestInv == TypeOK /\ Counted /\ UnderWay /\ Nested
<1>1. Init => RestInv
  BY InitTypes DEF Init, UnderWay, Nested
<1>2. RestInv /\ [Next]_vars => RestInv' /\ [RequestSent /\ clean' => uart' = "start"]_vars
  BY StepTypes, SendRest, OtherRest DEF Next
<1>3. QED BY <1>1, <1>2, PTL DEF Spec, RestAfterPause
-----------------------------------------------------------------------------
(* Requests stored as they were sent                                       *)

\* The receiver at rest counts from nothing, and while it receives it has a slot
\* to do so.
AtRest ==
  /\ uart = "start" => cnt = 0
  /\ damaged = 0 /\ uart = "data" => Held < Slots

\* A slot that is not held is blank from its second byte on, up to what is being
\* received; a byte past the slot before may stand in its first.
FreeIsBlank == damaged = 0 =>
  \A j \in 0 .. Slots - Held - 1 : \A p \in 2 .. SlotLen :
    slot[(index + j) % Slots][p] # Nul => j = 0 /\ p <= cnt

Fits(r) == Len(Stripped(r)) <= SlotLen

\* What is sent of an ideal request stands in the slot, and the receiver knows its
\* length, its depth, and whether a quotation is open.
Stored == left # << >> /\ ideal /\ damaged = 0 /\ Fits(sending) =>
  /\ uart = "data" /\ cnt = Rank(sending, Sent) /\ nesting = Depth(sending, Sent)
  /\ skip = CountOf(sending, Sent, "quote") % 2
  /\ \A i \in Kept(sending) : i <= Sent => slot[index][Rank(sending, i)] = sending[i]

Whole == AtRest /\ FreeIsBlank /\ Stored

\* One more byte kept is one more stored.
LEMMA RankStep ==
  ASSUME NEW r \in Seq(Kinds), NEW i \in Nat
  PROVE  /\ IsFiniteSet({j \in Kept(r) : j <= i}) /\ Rank(r, i) \in Nat
         /\ Rank(r, 0) = 0
         /\ i + 1 \in Kept(r) => Rank(r, i + 1) = Rank(r, i) + 1
         /\ i + 1 \notin Kept(r) => Rank(r, i + 1) = Rank(r, i)
<1> DEFINE S == {j \in Kept(r) : j <= i}
           T == {j \in Kept(r) : j <= i + 1}
<1>1. Kept(r) \subseteq Nat \ {0}
  <2>1. Kept(r) \subseteq DOMAIN r
    BY Zenon DEF Kept
  <2>2. DOMAIN r = 1 .. Len(r)
    OBVIOUS
  <2>3. QED BY <2>1, <2>2
<1>2. IsFiniteSet(S)
  <2>1. IsFiniteSet(1 .. i)
    BY FS_Interval
  <2>2. S \subseteq 1 .. i
    BY <1>1
  <2>3. QED BY <2>1, <2>2, FS_Subset
<1>3. Cardinality(S) \in Nat
  BY <1>2, FS_CardinalityType
<1>4. Rank(r, i) = Cardinality(S) /\ Rank(r, i + 1) = Cardinality(T)
  BY Zenon DEF Rank
<1>5. Rank(r, 0) = 0
  <2>1. {j \in Kept(r) : j <= 0} = {}
    BY <1>1
  <2>2. Cardinality({j \in Kept(r) : j <= 0}) = 0
    BY <2>1, FS_EmptySet, Zenon
  <2>3. QED BY <2>2, Zenon DEF Rank
<1>6. CASE i + 1 \in Kept(r)
  <2>1. T = S \cup {i + 1} /\ i + 1 \notin S
    BY <1>1, <1>6
  <2>2. Cardinality(S \cup {i + 1}) = Cardinality(S) + 1
    BY <1>2, <2>1, FS_AddElement
  <2>3. Rank(r, i + 1) = Rank(r, i) + 1
    BY <1>4, <2>1, <2>2, Zenon
  <2>4. QED BY <1>2, <1>3, <1>4, <1>5, <1>6, <2>3, Zenon
<1>7. CASE i + 1 \notin Kept(r)
  <2>1. T = S
    BY <1>1, <1>7
  <2>2. Rank(r, i + 1) = Rank(r, i)
    BY <1>4, <2>1, Zenon
  <2>3. QED BY <1>2, <1>3, <1>4, <1>5, <1>7, <2>2, Zenon
<1>8. QED BY <1>6, <1>7

\* Further on in a request at least as many are kept.
LEMMA RankGrows ==
  ASSUME NEW r \in Seq(Kinds), NEW i \in Nat, NEW j \in Nat, i <= j
  PROVE  Rank(r, i) <= Rank(r, j)
<1> DEFINE S(n) == {k \in Kept(r) : k <= n}
<1>1. IsFiniteSet(S(j))
  BY RankStep
<1>2. S(i) \subseteq S(j)
  BY DEF Kept
<1>3. Cardinality(S(i)) <= Cardinality(S(j))
  BY <1>1, <1>2, FS_Subset
<1>4. QED BY <1>3 DEF Rank

\* The whole request.
LEMMA RankAll ==
  ASSUME NEW r \in Seq(Kinds)
  PROVE  /\ Kept(r) \subseteq 1 .. Len(r)
         /\ Cardinality(Kept(r)) = Rank(r, Len(r)) /\ Rank(r, Len(r)) \in Nat
         /\ Len(Stripped(r)) = Rank(r, Len(r))
<1>1. Kept(r) \subseteq 1 .. Len(r) /\ Len(r) \in Nat
  BY DEF Kept
<1>2. Kept(r) = {j \in Kept(r) : j <= Len(r)}
  BY <1>1
<1>3. Cardinality(Kept(r)) = Rank(r, Len(r))
  BY <1>2 DEF Rank
<1>4. Rank(r, Len(r)) \in Nat
  BY <1>1, RankStep
<1>5. Len(Stripped(r)) = Rank(r, Len(r))
  BY <1>3, <1>4 DEF Stripped
<1>6. QED BY <1>1, <1>3, <1>4, <1>5

\* Every place up to the last one filled is that of a byte.
LEMMA RankFound ==
  ASSUME NEW r \in Seq(Kinds), NEW n \in Nat, NEW k \in 1 .. Rank(r, n)
  PROVE  \E i \in Kept(r) : i <= n /\ Rank(r, i) = k
<1> DEFINE R == {i \in Nat : Rank(r, i) >= k}
<1>1. Rank(r, n) \in Nat /\ Rank(r, 0) = 0
  BY RankStep
<1>2. n \in R
  BY <1>1
<1>3. PICK x \in R : \A y \in R : <<y, x>> \notin OpToRel(<, Nat)
  BY <1>2, NatLessThanWellFounded, WFMin
<1>4. x \in Nat
  OBVIOUS
<1>5. /\ Rank(r, x) >= k /\ Rank(r, n) >= k
      /\ \A y \in Nat : Rank(r, y) >= k => <<y, x>> \notin OpToRel(<, Nat)
  BY <1>2, <1>3
<1> HIDE DEF R
<1>6. \A y \in Nat : Rank(r, y) \in Nat
  BY RankStep, Zenon
<1>7. x # 0
  <2>1. x = 0 => 0 >= k
    BY <1>1, <1>5, Zenon
  <2>2. QED BY <2>1
<1>8. PICK w \in Nat : x = w + 1
  BY <1>4, <1>7
<1>9. ~(Rank(r, w) >= k)
  <2>1. <<w, x>> \in OpToRel(<, Nat)
    BY <1>4, <1>8 DEF OpToRel
  <2>2. QED BY <1>5, <2>1, Zenon
<1>10. x <= n
  <2>1. n < x => <<n, x>> \in OpToRel(<, Nat)
    BY <1>4 DEF OpToRel
  <2>2. ~(n < x)
    BY <1>5, <2>1, Zenon
  <2>3. QED BY <1>4, <2>2
<1>11. /\ w + 1 \in Kept(r) => Rank(r, w + 1) = Rank(r, w) + 1
       /\ w + 1 \notin Kept(r) => Rank(r, w + 1) = Rank(r, w)
  BY RankStep, Zenon
<1>12. Rank(r, w + 1) >= k
  BY <1>5, <1>8, Zenon
<1>13. Rank(r, w) \in Nat
  BY <1>6, Zenon
<1>14. w + 1 \in Kept(r)
  BY <1>9, <1>11, <1>12, Zenon
<1>15. Rank(r, w + 1) = k
  <2>1. Rank(r, w + 1) = Rank(r, w) + 1
    BY <1>11, <1>14, Zenon
  <2>2. QED BY <1>9, <1>12, <1>13, <2>1
<1>16. QED BY <1>8, <1>10, <1>14, <1>15, Zenon

\* The string in a slot ends where only its first Nul can be.
LEMMA TextIs ==
  ASSUME NEW s \in [Places -> Kinds \cup {Nul}], NEW m \in 0 .. SlotLen,
         \A p \in 1 .. m : s[p] # Nul, m = SlotLen \/ s[m + 1] = Nul
  PROVE  Text(s) = [k \in 1 .. m |-> s[k]]
<1> DEFINE Ends0(n) == /\ \A p \in 1 .. n : s[p] # Nul
                       /\ n = SlotLen \/ s[n + 1] = Nul
           end == CHOOSE n \in 0 .. SlotLen : Ends0(n)
<1>1. Ends0(m)
  OBVIOUS
<1>2. end \in 0 .. SlotLen /\ Ends0(end)
  BY <1>1
<1>3. Text(s) = SubSeq(s, 1, end)
  BY DEF Text
<1> HIDE DEF end
<1>4. end = m
  <2>1. ~(end < m)
    <3>1. end < m => end + 1 \in 1 .. m /\ end # SlotLen
      BY <1>2
    <3>2. QED BY <1>2, <3>1
  <2>2. ~(m < end)
    <3>1. m < end => m + 1 \in 1 .. end /\ m # SlotLen
      BY <1>2
    <3>2. QED BY <1>1, <1>2, <3>1
  <2>3. QED BY <1>2, <2>1, <2>2
<1>5. SubSeq(s, 1, m) = [k \in 1 .. m |-> s[k]]
  OBVIOUS
<1>6. QED BY <1>3, <1>4, <1>5

\* A request is one object: it begins and ends with a brace.
LEMMA IsObject ==
  ASSUME NEW r \in Requests
  PROVE  /\ r \in Seq(Kinds) /\ Len(r) \in Nat /\ Len(r) > 1
         /\ r[1] = "open" /\ r[Len(r)] = "close"
         /\ Depth(r, 0) = 0 /\ Depth(r, Len(r)) = 0
         /\ \A i \in 1 .. Len(r) - 1 : Depth(r, i) \in 1 .. 255
<1>1. /\ r \in Seq(Kinds) /\ Len(r) \in Nat /\ Len(r) > 1 /\ Depth(r, Len(r)) = 0
      /\ \A i \in 1 .. Len(r) - 1 : Depth(r, i) \in 1 .. 255
  BY ObjectAssumption
<1>2. Depth(r, 0) = 0
  BY DepthStep, Zenon
<1>3. r[1] = "open"
  <2>1. 1 \in 1 .. Len(r) - 1 /\ 0 + 1 = 1 /\ 0 \in Nat
    BY <1>1
  <2>2. Depth(r, 1) \in 1 .. 255
    BY <1>1, <2>1, Zenon
  <2>3. /\ r[0 + 1] = "close" => Depth(r, 0 + 1) = Depth(r, 0) - 1
        /\ r[0 + 1] \notin {"open", "close"} => Depth(r, 0 + 1) = Depth(r, 0)
    BY <2>1, DepthStep, Zenon
  <2>4. /\ r[1] = "close" => Depth(r, 1) = 0 - 1
        /\ r[1] \notin {"open", "close"} => Depth(r, 1) = 0
    BY <1>2, <2>1, <2>3, Zenon
  <2>5. \A d \in 1 .. 255 : d # 0 - 1 /\ d # 0
    OBVIOUS
  <2>6. QED BY <2>2, <2>4, <2>5, Zenon
<1>4. r[Len(r)] = "close"
  <2>1. PICK n \in Nat : n + 1 = Len(r) /\ n \in 1 .. Len(r) - 1
    <3>1. Len(r) - 1 \in Nat /\ (Len(r) - 1) + 1 = Len(r) /\ Len(r) - 1 \in 1 .. Len(r) - 1
      BY <1>1
    <3>2. QED BY <3>1, Zenon
  <2>2. Depth(r, n) \in 1 .. 255
    BY <1>1, <2>1, Zenon
  <2>3. /\ r[n + 1] = "open" => Depth(r, n + 1) = Depth(r, n) + 1
        /\ r[n + 1] \notin {"open", "close"} => Depth(r, n + 1) = Depth(r, n)
    BY DepthStep, Zenon
  <2>4. Depth(r, n + 1) = 0
    BY <1>1, <2>1, Zenon
  <2>5. \A d \in 1 .. 255 : d + 1 # 0 /\ d # 0
    OBVIOUS
  <2>6. QED BY <2>1, <2>2, <2>3, <2>4, <2>5, Zenon
<1>5. QED BY <1>1, <1>2, <1>3, <1>4

\* No step that leaves the stored requests sound sees a byte written when all slots are
\* held, or past the end of one when none but it is free.
LEMMA SoundSend ==
  ASSUME IInv, AtRest, UnderWay, NEW r \in Requests, Send(r), damaged' = 0
  PROVE  \E n \in Nat :
           LET b == r[n + 1]
           IN /\ n < Len(r) /\ (n = 0 <=> left = << >>) /\ (n > 0 => n = Sent /\ r = sending)
              /\ RxByte(b) /\ b \in Kinds
              /\ sending' = r /\ Sent' = n + 1 /\ (left' # << >> <=> n + 1 < Len(r))
              /\ damaged = 0 /\ (Stores(b) => Held < Slots)
              /\ count' # count => pc # "store"
              /\ UNCHANGED <<pc, read, reg, tick>>
<1>1. PICK n \in Nat :
        /\ n < Len(r) /\ (n = 0 <=> left = << >>) /\ (n > 0 => n = Sent /\ r = sending)
        /\ RxByte(r[n + 1]) /\ r[n + 1] \in Kinds
        /\ Len(left') = Len(r) - (n + 1) /\ left' \in Seq(Kinds) /\ sending' = r
        /\ \A k \in 1 .. Len(left') : left'[k] = r[n + 1 + k]
  BY SendPosition DEF IInv
<1>2. Len(r) \in Nat
  BY IsObject
<1>3. Sent' = n + 1 /\ (left' # << >> <=> n + 1 < Len(r))
  BY <1>1, <1>2 DEF Sent
<1> DEFINE c == Head(IF left = << >> THEN r ELSE left)
<1>4. c = r[n + 1]
  <2>1. CASE left = << >>
    <3>1. n = 0 /\ r \in Seq(Kinds) /\ r # << >>
      BY <1>1, <2>1
    <3>2. c = r[1]
      BY <2>1, <3>1
    <3>3. QED BY <3>1, <3>2
  <2>2. CASE left # << >>
    <3>1. n = Sent /\ r = sending /\ left \in Seq(Kinds)
      BY <1>1, <2>2 DEF IInv, TypeOK
    <3>2. 1 \in 1 .. Len(left)
      BY <2>2, <3>1
    <3>3. left[1] = sending[Sent + 1]
      BY <2>2, <3>2 DEF UnderWay
    <3>4. c = left[1]
      BY <2>2, <3>1
    <3>5. QED BY <3>1, <3>3, <3>4
  <2>3. QED BY <2>1, <2>2
<1>5. /\ damaged = 0
      /\ ~(Stores(c) /\ (Held = Slots \/ (uart = "data" /\ SpillsIntoNext)))
      /\ ~(count' # count /\ pc = "store")
  <2>1. damaged \in Nat
    BY DEF IInv, TypeOK
  <2>2. damaged + 1 # 0
    BY <2>1
  <2>3. ~(\/ damaged > 0
          \/ Stores(c) /\ (Held = Slots \/ (uart = "data" /\ SpillsIntoNext))
          \/ count' # count /\ pc = "store")
    BY <2>2, Zenon DEF Send
  <2>4. QED BY <2>1, <2>3
<1> HIDE DEF c
<1>6. Stores(r[n + 1]) => Held < Slots
  <2>1. Held \in Nat /\ Held <= Slots
    BY <1>5 DEF IInv, TypeOK, Aligned, Held
  <2>2. Stores(r[n + 1]) => Held # Slots
    BY <1>4, <1>5, Zenon
  <2>3. QED BY <2>1, <2>2
<1>7. UNCHANGED <<pc, read, reg, tick>>
  BY DEF Send, tickVars, mainVars
<1>8. QED BY <1>1, <1>3, <1>5, <1>6, <1>7, Zenon

\* The free places of the ring, from the receiver's on.
LEMMA FreePlaces ==
  ASSUME NEW i \in SlotNumbers, NEW j \in 0 .. Slots - 1
  PROVE  (i + j) % Slots \in SlotNumbers /\ ((i + j) % Slots = i <=> j = 0)
<1>1. i \in 0 .. 2 * Slots - 1 /\ i + j \in 0 .. 2 * Slots - 1 /\ i \in 0 .. 3 * Slots - 1 /\ i < Slots
  BY DEF SlotNumbers
<1>2. i % Slots = i
  BY <1>1, ModTurns
<1>3. (i + j) % Slots \in SlotNumbers
  BY <1>1, ModRange DEF SlotNumbers
<1>4. j # 0 => i % Slots # (i + j) % Slots
  <2>1. j # 0 => i < i + j /\ i + j < i + Slots
    BY <1>1
  <2>2. QED BY <1>1, <2>1, ModApart
<1>5. j = 0 => i + j = i
  BY <1>1
<1>6. QED BY <1>2, <1>3, <1>4, <1>5

\* After a reset all slots are blank.
LEMMA InitWhole == Init => UnderWay /\ Whole
<1> SUFFICES ASSUME Init PROVE UnderWay /\ Whole
  OBVIOUS
<1>1. /\ slot = [s \in SlotNumbers |-> Erased] /\ index = 0 /\ uart = "start" /\ cnt = 0
      /\ count = 0 /\ pc = "wait" /\ left = << >>
  BY DEF Init
<1>2. AtRest /\ Stored /\ UnderWay
  BY <1>1 DEF AtRest, Stored, UnderWay
<1>3. FreeIsBlank
  <2> SUFFICES ASSUME NEW j \in 0 .. Slots - Held - 1, NEW p \in 2 .. SlotLen
               PROVE  slot[(index + j) % Slots][p] = Nul
    BY DEF FreeIsBlank
  <2>1. Held = 0 + 0
    BY <1>1 DEF Held
  <2>2. index \in SlotNumbers /\ j \in 0 .. Slots - 1 /\ p \in Places
    BY <1>1, <2>1 DEF SlotNumbers, Places
  <2>3. (index + j) % Slots \in SlotNumbers
    BY <2>2, FreePlaces
  <2>4. QED BY <1>1, <2>2, <2>3 DEF Erased
<1>4. QED BY <1>2, <1>3 DEF Whole

\* A byte leaves the free slots blank behind it.
LEMMA SendFree ==
  ASSUME IInv, TypeOK', AtRest, FreeIsBlank, UnderWay, NEW r \in Requests, Send(r)
  PROVE  AtRest' /\ FreeIsBlank'
<1>1. TypeOK /\ uart \in {"start", "data"} /\ cnt \in 0 .. SlotLen
  BY DEF IInv, TypeOK
<1>2. uart' = "start" => cnt' = 0
  <2>1. PICK b \in Kinds : RxByte(b)
    BY <1>1, SendPosition
  <2>2. CASE FirstByte(b)
    BY <2>2, Zenon DEF FirstByte, AtRest
  <2>3. CASE BlankByte(b)
    BY <2>3 DEF BlankByte, rxVars, AtRest
  <2>4. CASE OverlongByte(b)
    BY <2>4 DEF OverlongByte
  <2>5. CASE DataByte(b)
    BY <2>5 DEF DataByte
  <2>6. QED BY <2>1, <2>2, <2>3, <2>4, <2>5 DEF RxByte
<1> SUFFICES ASSUME damaged' = 0 PROVE AtRest' /\ FreeIsBlank'
  BY <1>2 DEF AtRest, FreeIsBlank
<1>3. PICK n \in Nat :
        /\ RxByte(r[n + 1]) /\ r[n + 1] \in Kinds /\ damaged = 0
        /\ Stores(r[n + 1]) => Held < Slots
        /\ UNCHANGED pc
  BY SoundSend
<1> DEFINE b == r[n + 1]
<1>4. RxByte(b) /\ b \in Kinds /\ (Stores(b) => Held < Slots)
  BY <1>3
<1> HIDE DEF b
<1>5. /\ slot \in [SlotNumbers -> [Places -> Kinds \cup {Nul}]] /\ index \in SlotNumbers
      /\ count \in 0 .. Slots /\ Held \in Nat /\ Held >= count
  BY DEF IInv, TypeOK, Held
<1>6. \A j \in 0 .. Slots - Held - 1 :
        /\ j \in 0 .. Slots - 1
        /\ (index + j) % Slots \in SlotNumbers /\ ((index + j) % Slots = index <=> j = 0)
  <2> SUFFICES ASSUME NEW j \in 0 .. Slots - Held - 1
               PROVE  /\ j \in 0 .. Slots - 1
                      /\ (index + j) % Slots \in SlotNumbers
                      /\ ((index + j) % Slots = index <=> j = 0)
    OBVIOUS
  <2>1. j \in 0 .. Slots - 1
    BY <1>5
  <2>2. QED BY <1>5, <2>1, FreePlaces
<1>7. \A j \in 0 .. Slots - Held - 1 : \A p \in 2 .. SlotLen :
        p \in Places /\ (slot[(index + j) % Slots][p] # Nul => j = 0 /\ p <= cnt)
  BY <1>3 DEF FreeIsBlank, Places
\* As far as the count of requests does not change.
<1>8. ASSUME count' = count, index' = index, uart' = "data" => Held < Slots,
             \A j \in 0 .. Slots - Held - 1 : \A p \in 2 .. SlotLen :
               slot'[(index + j) % Slots][p] # Nul => j = 0 /\ p <= cnt'
      PROVE  AtRest' /\ FreeIsBlank'
  <2>1. Held' = Held
    BY <1>3, <1>8 DEF Held
  <2>2. QED BY <1>2, <1>8, <2>1 DEF AtRest, FreeIsBlank
<1>9. CASE FirstByte(b)
  <2>1. CASE b = "open"
    <3>1. /\ uart = "start" /\ slot' = Written(b, 0) /\ cnt' = 1 /\ count' = count /\ index' = index
      BY <1>9, <2>1, Zenon DEF FirstByte
    <3>2. Held < Slots
      BY <1>4, <2>1, <3>1 DEF Stores
    <3>3. slot' = [slot EXCEPT ![index][1] = b]
      BY <3>1 DEF Written
    <3>4. ASSUME NEW j \in 0 .. Slots - Held - 1, NEW p \in 2 .. SlotLen
          PROVE  slot'[(index + j) % Slots][p] # Nul => j = 0 /\ p <= cnt'
      <4>1. p # 1
        OBVIOUS
      <4>2. slot'[(index + j) % Slots][p] = slot[(index + j) % Slots][p]
        BY <1>5, <1>6, <1>7, <3>3, <4>1
      <4>3. cnt = 0
        BY <3>1 DEF AtRest
      <4>4. QED BY <1>7, <3>1, <4>2, <4>3
    <3>5. QED BY <1>8, <3>1, <3>2, <3>4
  <2>2. CASE b # "open"
    <3>1. /\ uart = "start" /\ UNCHANGED <<slot, cnt, count, index, uart>>
      BY <1>9, <2>2, Zenon DEF FirstByte
    <3>2. QED BY <1>7, <1>8, <3>1
  <2>3. QED BY <2>1, <2>2
<1>10. CASE BlankByte(b)
  <2>1. uart = "data" /\ UNCHANGED <<slot, cnt, count, index, uart>>
    BY <1>10 DEF BlankByte, rxVars
  <2>2. Held < Slots
    BY <1>3, <2>1 DEF AtRest
  <2>3. QED BY <1>7, <1>8, <2>1, <2>2
<1>11. CASE OverlongByte(b)
  <2>1. /\ uart' = "start" /\ cnt' = 0 /\ count' = count /\ index' = index /\ cnt = SlotLen
        /\ slot' = [Written(b, cnt) EXCEPT ![index] = Erased]
    BY <1>11 DEF OverlongByte
  <2>2. Written(b, cnt) \in [SlotNumbers -> [Places -> Kinds \cup {Nul}]]
    BY <1>1, <1>4, WrittenType
  <2>3. Written(b, cnt) = IF index + 1 \in SlotNumbers THEN [slot EXCEPT ![index + 1][1] = b] ELSE slot
    BY <2>1 DEF Written
  <2>4. ASSUME NEW j \in 0 .. Slots - Held - 1, NEW p \in 2 .. SlotLen
        PROVE  slot'[(index + j) % Slots][p] = Nul
    <3>1. CASE j = 0
      <4>1. (index + j) % Slots = index /\ p \in Places
        BY <1>6, <1>7, <3>1
      <4>2. QED BY <1>5, <2>1, <2>2, <4>1 DEF Erased
    <3>2. CASE j # 0
      <4>1. (index + j) % Slots # index /\ (index + j) % Slots \in SlotNumbers /\ p # 1 /\ p \in Places
        BY <1>6, <1>7, <3>2
      <4>2. slot'[(index + j) % Slots][p] = Written(b, cnt)[(index + j) % Slots][p]
        BY <2>1, <2>2, <4>1
      <4>3. Written(b, cnt)[(index + j) % Slots][p] = slot[(index + j) % Slots][p]
        BY <1>5, <2>3, <4>1
      <4>4. QED BY <1>7, <3>2, <4>2, <4>3
    <3>3. QED BY <3>1, <3>2
  <2>5. QED BY <1>8, <2>1, <2>4
<1>12. CASE DataByte(b)
  <2>1. /\ uart = "data" /\ cnt < SlotLen /\ slot' = Written(b, cnt)
    BY <1>12 DEF DataByte
  <2>2. Held < Slots
    BY <1>3, <2>1 DEF AtRest
  <2>3. slot' = [slot EXCEPT ![index][cnt + 1] = b] /\ cnt + 1 \in Places
    BY <1>1, <2>1 DEF Written, Places
  <2>4. ASSUME NEW j \in 0 .. Slots - Held - 1, NEW p \in 2 .. SlotLen, j # 0 \/ p # cnt + 1
        PROVE  slot'[(index + j) % Slots][p] = slot[(index + j) % Slots][p]
    <3>1. /\ (index + j) % Slots \in SlotNumbers /\ ((index + j) % Slots = index <=> j = 0)
          /\ p \in Places
      BY <1>6, <1>7
    <3>2. QED BY <1>5, <2>3, <2>4, <3>1
  <2>5. CASE ~Ends(b)
    <3>1. cnt' = cnt + 1 /\ UNCHANGED <<uart, index, count>>
      BY <1>12, <2>5 DEF DataByte
    <3>2. ASSUME NEW j \in 0 .. Slots - Held - 1, NEW p \in 2 .. SlotLen,
                 slot'[(index + j) % Slots][p] # Nul
          PROVE  j = 0 /\ p <= cnt'
      <4>1. CASE j = 0 /\ p = cnt + 1
        BY <1>1, <3>1, <4>1
      <4>2. CASE j # 0 \/ p # cnt + 1
        <5>1. j = 0 /\ p <= cnt
          BY <1>7, <2>4, <3>2, <4>2
        <5>2. QED BY <1>1, <3>1, <5>1
      <4>3. QED BY <4>1, <4>2
    <3>3. QED BY <1>8, <2>2, <3>1, <3>2
  <2>6. CASE Ends(b)
    <3>1. count < Slots
      BY <1>5, <2>2
    <3>2. uart' = "start" /\ index' = (index + 1) % Slots /\ count' = count + 1
      BY <1>12, <2>6, <3>1 DEF DataByte
    <3>3. Held' = Held + 1
      BY <1>3, <1>5, <3>2 DEF Held
    <3>4. ASSUME NEW j \in 0 .. Slots - Held' - 1, NEW p \in 2 .. SlotLen
          PROVE  slot'[(index' + j) % Slots][p] = Nul
      <4>1. /\ j + 1 \in 0 .. Slots - Held - 1 /\ j + 1 # 0 /\ j \in 0 .. Slots
            /\ index + 1 \in 0 .. 2 * Slots - 1 /\ (index + 1) + j = index + (j + 1)
        BY <1>5, <3>3 DEF SlotNumbers
      <4>2. (index' + j) % Slots = (index + (j + 1)) % Slots
        <5>1. (((index + 1) % Slots) + j) % Slots = ((index + 1) + j) % Slots
          BY <4>1, ModSum
        <5>2. QED BY <3>2, <4>1, <5>1
      <4>3. slot'[(index + (j + 1)) % Slots][p] = slot[(index + (j + 1)) % Slots][p]
        BY <2>4, <4>1
      <4>4. slot[(index + (j + 1)) % Slots][p] = Nul
        BY <1>7, <4>1
      <4>5. QED BY <4>2, <4>3, <4>4
    <3>5. QED BY <1>2, <3>2, <3>4 DEF AtRest, FreeIsBlank
  <2>7. QED BY <2>5, <2>6
<1>13. QED BY <1>4, <1>9, <1>10, <1>11, <1>12 DEF RxByte

\* Every other step keeps them blank, too: the slot that is freed was erased.
LEMMA OtherFree ==
  ASSUME IInv, AtRest, FreeIsBlank,
         Abandon \/ Timeout \/ Reader \/ Reset \/ UNCHANGED vars
  PROVE  AtRest' /\ FreeIsBlank'
<1>1. /\ slot \in [SlotNumbers -> [Places -> Kinds \cup {Nul}]] /\ index \in SlotNumbers
      /\ count \in 0 .. Slots /\ reg \in 0 .. Slots /\ read \in SlotNumbers
      /\ Held \in Nat /\ Held >= count
  BY DEF IInv, TypeOK, Held
<1>2. \A j \in 0 .. Slots - Held - 1 :
        (index + j) % Slots \in SlotNumbers /\ ((index + j) % Slots = index <=> j = 0)
  <2> SUFFICES ASSUME NEW j \in 0 .. Slots - Held - 1
               PROVE  (index + j) % Slots \in SlotNumbers /\ ((index + j) % Slots = index <=> j = 0)
    OBVIOUS
  <2>1. j \in 0 .. Slots - 1
    BY <1>1
  <2>2. QED BY <1>1, <2>1, FreePlaces
<1>3. CASE Reset
  <2>1. /\ slot' = [s \in SlotNumbers |-> Erased] /\ index' = 0 /\ uart' = "start" /\ cnt' = 0
        /\ count' = 0 /\ pc' = "wait"
    BY <1>3 DEF Reset
  <2>2. ASSUME NEW j \in 0 .. Slots - Held' - 1, NEW p \in 2 .. SlotLen
        PROVE  slot'[(index' + j) % Slots][p] = Nul
    <3>1. Held' = 0 + 0
      BY <2>1 DEF Held
    <3>2. index' \in SlotNumbers /\ j \in 0 .. Slots - 1 /\ p \in Places
      BY <2>1, <3>1 DEF SlotNumbers, Places
    <3>3. (index' + j) % Slots \in SlotNumbers
      BY <3>2, FreePlaces
    <3>4. QED BY <2>1, <3>2, <3>3 DEF Erased
  <2>3. QED BY <2>1, <2>2 DEF AtRest, FreeIsBlank
<1>4. CASE Abandon \/ TimeoutTest \/ TimeoutLoad \/ TimeoutNesting \/ Parse \/ Execute
           \/ LoadCount \/ Advance \/ UNCHANGED vars
  <2>1. UNCHANGED <<slot, index, count, uart, cnt, damaged>>
    BY <1>4 DEF Abandon, TimeoutTest, TimeoutLoad, TimeoutNesting, Parse, Execute, LoadCount,
                Advance, vars, rxVars, pcVars
  <2>2. pc = "erase" <=> pc' = "erase"
    BY <1>4 DEF Abandon, TimeoutTest, TimeoutLoad, TimeoutNesting, Parse, Execute, LoadCount,
                Advance, vars, mainVars
  <2>3. Held' = Held
    BY <2>1, <2>2 DEF Held
  <2>4. QED BY <2>1, <2>3 DEF AtRest, FreeIsBlank
<1>5. CASE TimeoutErase
  <2>1. /\ UNCHANGED <<index, count, uart, cnt, pc>>
        /\ slot' = [slot EXCEPT ![victim] = Erased] /\ (damaged' = 0 => damaged = 0)
    BY <1>5 DEF TimeoutErase, mainVars
  <2>2. Held' = Held
    BY <2>1 DEF Held
  <2>3. ASSUME damaged = 0, NEW j \in 0 .. Slots - Held - 1, NEW p \in 2 .. SlotLen,
               slot'[(index + j) % Slots][p] # Nul
        PROVE  j = 0 /\ p <= cnt
    <3>1. p \in Places
      BY DEF Places
    <3>2. slot'[(index + j) % Slots][p] \in {Nul, slot[(index + j) % Slots][p]}
      BY <1>1, <1>2, <2>1, <3>1 DEF Erased
    <3>3. QED BY <2>3, <3>2 DEF FreeIsBlank
  <2>4. QED BY <2>1, <2>2, <2>3 DEF AtRest, FreeIsBlank
<1>6. CASE StoreCount
  <2>1. /\ UNCHANGED <<slot, index, uart, cnt, damaged>> /\ pc = "store" /\ pc' = "erase"
        /\ count' = reg - 1
    BY <1>6 DEF StoreCount
  <2>2. damaged = 0 => Held' = Held
    BY <1>1, <2>1 DEF IInv, Aligned, Held
  <2>3. QED BY <2>1, <2>2 DEF AtRest, FreeIsBlank
<1>7. CASE EraseSlot
  <2>1. /\ UNCHANGED <<index, count, uart, cnt, damaged>> /\ pc = "erase" /\ pc' = "advance"
        /\ slot' = [slot EXCEPT ![read] = Erased]
    BY <1>7 DEF EraseSlot, pcVars
  <2>2. Held = count + 1 /\ Held' = count
    BY <1>1, <2>1 DEF Held
  <2>3. ASSUME damaged = 0, NEW j \in 0 .. Slots - count - 1, NEW p \in 2 .. SlotLen,
               slot'[(index + j) % Slots][p] # Nul
        PROVE  j = 0 /\ p <= cnt
    <3>1. p \in Places
      BY DEF Places
    <3>2. CASE j < Slots - count - 1
      <4>1. j \in 0 .. Slots - Held - 1
        BY <1>1, <2>2, <3>2
      <4>2. slot'[(index + j) % Slots][p] \in {Nul, slot[(index + j) % Slots][p]}
        BY <1>1, <1>2, <2>1, <3>1, <4>1 DEF Erased
      <4>3. QED BY <2>3, <4>1, <4>2 DEF FreeIsBlank
    <3>3. CASE j = Slots - count - 1
      <4>1. index = (read + 1 + count) % Slots /\ count + 1 <= Slots
        <5>1. FirstWaiting = read + 1 /\ Waiting = count - 0
          BY <2>1 DEF FirstWaiting, Waiting
        <5>2. Waiting = count
          BY <1>1, <5>1
        <5>3. QED BY <1>1, <2>2, <2>3, <5>1, <5>2 DEF IInv, Aligned
      <4>2. /\ read + 1 + count \in 0 .. 2 * Slots - 1 /\ j \in 0 .. Slots
            /\ (read + 1 + count) + j = read + Slots
            /\ read + Slots \in Slots .. 3 * Slots - 1 /\ (read + Slots) - Slots = read
            /\ read \in 0 .. 3 * Slots - 1 /\ read < Slots
        BY <1>1, <3>3, <4>1 DEF SlotNumbers
      <4>3. (index + j) % Slots = (read + Slots) % Slots
        BY <4>1, <4>2, ModSum
      <4>4. (read + Slots) % Slots = read % Slots
        BY <4>2, ModShift
      <4>5. (index + j) % Slots = read
        BY <4>2, <4>3, <4>4, ModTurns
      <4>6. QED BY <1>1, <2>1, <2>3, <3>1, <4>5 DEF Erased
    <3>4. QED BY <1>1, <3>2, <3>3
  <2>4. Held' < Slots \/ ~(damaged = 0 /\ uart = "data")
    BY <1>1, <2>2 DEF AtRest
  <2>5. QED BY <2>1, <2>2, <2>3, <2>4 DEF AtRest, FreeIsBlank
<1>8. QED BY <1>3, <1>4, <1>5, <1>6, <1>7 DEF Reader, Timeout

\* The reader, a pause and a reset do not come near what is being received.
LEMMA OtherStored ==
  ASSUME IInv, AtRest, Stored,
         Abandon \/ Timeout \/ Reader \/ Reset \/ UNCHANGED vars
  PROVE  Stored'
<1> SUFFICES ASSUME left' # << >>, ideal', damaged' = 0, Fits(sending') PROVE Stored'
  BY DEF Stored
<1>1. ~Abandon
  BY DEF Abandon
<1>2. ~TimeoutTest /\ ~TimeoutErase /\ ~TimeoutNesting /\ ~Reset
  BY DEF TimeoutTest, TimeoutErase, TimeoutNesting, Cut, Reset
<1>3. CASE TimeoutLoad \/ Reader
  <2>1. UNCHANGED <<index, uart, cnt, nesting, skip, sending, left, ideal, damaged>>
    BY <1>3 DEF TimeoutLoad, Reader, Parse, Execute, LoadCount, StoreCount, EraseSlot, Advance,
                rxVars, pcVars
  <2>2. uart = "data"
    BY <2>1 DEF Stored
  <2>3. slot'[index] = slot[index]
    <3>1. CASE EraseSlot
      <4>1. pc = "erase" /\ slot' = [slot EXCEPT ![read] = Erased]
        BY <3>1 DEF EraseSlot
      <4>2. count \in 0 .. Slots /\ read \in SlotNumbers /\ index \in SlotNumbers
            /\ slot \in [SlotNumbers -> [Places -> Kinds \cup {Nul}]]
        BY DEF IInv, TypeOK
      <4>3. count + 1 < Slots
        BY <2>1, <2>2, <4>1 DEF AtRest, Held
      <4>4. index = (read + (1 + count)) % Slots
        <5>1. FirstWaiting = read + 1 /\ Waiting = count - 0
          BY <4>1 DEF FirstWaiting, Waiting
        <5>2. FirstWaiting + Waiting = read + (1 + count)
          BY <4>2, <5>1 DEF SlotNumbers
        <5>3. QED BY <2>1, <5>2 DEF IInv, Aligned
      <4>5. 1 + count \in 0 .. Slots - 1 /\ 1 + count # 0
        BY <4>2, <4>3
      <4>6. index # read
        BY <4>2, <4>4, <4>5, FreePlaces
      <4>7. QED BY <4>1, <4>2, <4>6
    <3>2. CASE ~EraseSlot
      BY <1>3, <3>2 DEF TimeoutLoad, Reader, Parse, Execute, LoadCount, StoreCount, Advance,
                        rxVars
    <3>3. QED BY <3>1, <3>2
  <2>4. Sent' = Sent
    BY <2>1 DEF Sent
  <2>5. QED BY <2>1, <2>3, <2>4 DEF Stored
<1>4. CASE UNCHANGED vars
  <2>1. UNCHANGED <<slot, index, uart, cnt, nesting, skip, sending, left, ideal, damaged>>
    BY <1>4 DEF vars, rxVars, pcVars
  <2>2. Sent' = Sent
    BY <2>1 DEF Sent
  <2>3. QED BY <2>1, <2>2 DEF Stored
<1>5. QED BY <1>1, <1>2, <1>3, <1>4 DEF Timeout

\* Which bytes are kept is known from the quotes before them.
LEMMA KeptByte ==
  ASSUME NEW r \in Seq(Kinds), NEW n \in Nat, n < Len(r)
  PROVE  /\ CountOf(r, n, "quote") % 2 \in 0 .. 1
         /\ n + 1 \in Kept(r) <=> ~(r[n + 1] = "blank" /\ CountOf(r, n, "quote") % 2 = 0)
         /\ CountOf(r, n + 1, "quote") % 2 =
              IF r[n + 1] = "quote" THEN 1 - (CountOf(r, n, "quote") % 2)
              ELSE CountOf(r, n, "quote") % 2
<1>1. /\ CountOf(r, n, "quote") \in Nat
      /\ r[n + 1] = "quote" => CountOf(r, n + 1, "quote") = CountOf(r, n, "quote") + 1
      /\ r[n + 1] # "quote" => CountOf(r, n + 1, "quote") = CountOf(r, n, "quote")
  BY CountStep
<1>2. \A c \in Nat : c % 2 \in 0 .. 1 /\ (c + 1) % 2 = 1 - (c % 2) /\ (c % 2 = 1 <=> c % 2 # 0)
  OBVIOUS
<1>3. n + 1 \in DOMAIN r
  OBVIOUS
<1>4. n + 1 \in Kept(r) <=> (r[n + 1] = "blank" => CountOf(r, n + 1, "quote") % 2 = 1)
  BY <1>3, Zenon DEF Kept, CountOf
<1>5. "blank" # "quote"
  OBVIOUS
<1>6. CASE r[n + 1] = "quote"
  BY <1>1, <1>2, <1>4, <1>5, <1>6, Zenon
<1>7. CASE r[n + 1] # "quote"
  BY <1>1, <1>2, <1>4, <1>5, <1>7, Zenon
<1>8. QED BY <1>6, <1>7

\* A kept byte has a place, behind those of the bytes before it.
LEMMA RankPlace ==
  ASSUME NEW r \in Seq(Kinds), NEW n \in Nat, NEW i \in Kept(r), i <= n
  PROVE  i \in Nat /\ Rank(r, i) \in 1 .. Rank(r, n)
<1>1. i \in 1 .. Len(r)
  BY RankAll
<1>2. PICK w \in Nat : i = w + 1
  <2>1. i - 1 \in Nat /\ i = (i - 1) + 1
    BY <1>1
  <2>2. QED BY <2>1
<1>3. Rank(r, w + 1) = Rank(r, w) + 1 /\ Rank(r, w) \in Nat
  BY <1>2, RankStep
<1>4. Rank(r, i) <= Rank(r, n)
  BY <1>1, RankGrows
<1>5. Rank(r, n) \in Nat
  BY RankStep
<1>6. Rank(r, i) = Rank(r, w + 1)
  BY <1>2
<1>7. QED BY <1>1, <1>3, <1>4, <1>5, <1>6

\* Before a byte of an ideal request, the first or a later one.
LEMMA BeforeByte ==
  ASSUME IInv, Whole, UnderWay, NEW r \in Requests, Send(r), ideal', damaged' = 0, Fits(r)
  PROVE  \E n \in Nat :
           /\ n < Len(r) /\ sending' = r /\ Sent' = n + 1 /\ (left' # << >> <=> n + 1 < Len(r))
           /\ RxByte(r[n + 1]) /\ r[n + 1] \in Kinds /\ damaged = 0
           /\ (Stores(r[n + 1]) => Held < Slots) /\ UNCHANGED pc
           /\ uart = (IF n = 0 THEN "start" ELSE "data") /\ (n # 0 => nesting = Depth(r, n))
           /\ cnt = Rank(r, n) /\ skip = CountOf(r, n, "quote") % 2
           /\ \A i \in Kept(r) : i <= n => slot[index][Rank(r, i)] = r[i]
<1>1. PICK n \in Nat :
        /\ n < Len(r) /\ (n = 0 <=> left = << >>) /\ (n > 0 => n = Sent /\ r = sending)
        /\ RxByte(r[n + 1]) /\ r[n + 1] \in Kinds
        /\ sending' = r /\ Sent' = n + 1 /\ (left' # << >> <=> n + 1 < Len(r))
        /\ damaged = 0 /\ (Stores(r[n + 1]) => Held < Slots)
        /\ UNCHANGED pc
  BY SoundSend DEF Whole
<1>2. r \in Seq(Kinds)
  BY IsObject
<1>3. ideal' = IF left = << >> THEN uart = "start" /\ skip = 0 /\ tick = "none" ELSE ideal
  BY DEF Send
<1>4. CASE n = 0
  <2>1. uart = "start" /\ skip = 0
    BY <1>1, <1>3, <1>4, Zenon
  <2>2. cnt = 0
    BY <2>1 DEF Whole, AtRest
  <2>3. Rank(r, 0) = 0
    BY <1>2, RankStep
  <2>4. CountOf(r, 0, "quote") = 0
    BY CountStep
  <2>5. 0 % 2 = 0
    OBVIOUS
  <2>6. \A i \in Kept(r) : ~(i <= 0)
    <3>1. Kept(r) \subseteq 1 .. Len(r)
      BY <1>2, RankAll
    <3>2. QED BY <3>1
  <2>7. cnt = Rank(r, n) /\ skip = CountOf(r, n, "quote") % 2
    BY <1>4, <2>1, <2>2, <2>3, <2>4, <2>5, Zenon
  <2>8. \A i \in Kept(r) : i <= n => slot[index][Rank(r, i)] = r[i]
    BY <1>4, <2>6, Zenon
  <2>9. QED BY <1>1, <1>4, <2>1, <2>7, <2>8, Zenon
<1>5. CASE n # 0
  <2>1. n > 0
    BY <1>5
  <2>2. left # << >> /\ n = Sent /\ r = sending
    BY <1>1, <1>5, <2>1, Zenon
  <2>3. ideal
    BY <1>3, <2>2, Zenon
  <2>4. Fits(sending)
    BY <2>2, Zenon
  <2>5. /\ uart = "data" /\ cnt = Rank(sending, Sent) /\ nesting = Depth(sending, Sent)
        /\ skip = CountOf(sending, Sent, "quote") % 2
        /\ \A i \in Kept(sending) : i <= Sent => slot[index][Rank(sending, i)] = sending[i]
    BY <1>1, <2>2, <2>3, <2>4, Zenon DEF Whole, Stored
  <2>6. QED BY <1>1, <1>5, <2>2, <2>5, Zenon
<1>6. QED BY <1>4, <1>5

\* The byte sent last is known, whoever moves.
LEMMA SendOnWay ==
  ASSUME TypeOK, UnderWay, NEW r \in Requests, Send(r)
  PROVE  UnderWay'
<1>1. PICK n \in Nat :
        /\ n < Len(r) /\ Len(left') = Len(r) - (n + 1) /\ left' \in Seq(Kinds) /\ sending' = r
        /\ \A k \in 1 .. Len(left') : left'[k] = r[n + 1 + k]
  BY SendPosition
<1>2. Len(r) \in Nat
  BY IsObject
<1>3. Sent' = n + 1 /\ (left' # << >> <=> n + 1 < Len(r))
  BY <1>1, <1>2 DEF Sent
<1>4. QED BY <1>1, <1>2, <1>3 DEF UnderWay

\* Only a byte sent ends a request.
LEMMA OtherOnWay ==
  ASSUME TypeOK, UnderWay,
         Abandon \/ Timeout \/ Reader \/ Reset \/ UNCHANGED vars
  PROVE  UnderWay' /\ ~RequestSent
<1>1. \/ left' = << >> /\ sending' = << >>
      \/ left' = left /\ sending' = sending
  BY DEF Abandon, Timeout, TimeoutTest, TimeoutLoad, TimeoutErase, TimeoutNesting, Reader,
         Reset, Parse, Execute, LoadCount, StoreCount, EraseSlot, Advance, vars, pcVars
<1>2. QED BY <1>1 DEF UnderWay, Sent, RequestSent

\* A slot that holds the kept bytes of r and nothing behind them holds r as it is stored.
LEMMA StrippedText ==
  ASSUME NEW r \in Seq(Kinds), NEW s \in [Places -> Kinds \cup {Nul}],
         Rank(r, Len(r)) \in 0 .. SlotLen,
         \A i \in Kept(r) : s[Rank(r, i)] = r[i],
         Rank(r, Len(r)) = SlotLen \/ s[Rank(r, Len(r)) + 1] = Nul
  PROVE  Text(s) = Stripped(r)
<1> DEFINE m == Rank(r, Len(r))
           at(k) == CHOOSE i \in Kept(r) : Rank(r, i) = k
<1>1. \A k \in 1 .. m : at(k) \in Kept(r) /\ Rank(r, at(k)) = k
  <2> SUFFICES ASSUME NEW k \in 1 .. m PROVE at(k) \in Kept(r) /\ Rank(r, at(k)) = k
    OBVIOUS
  <2>1. \E i \in Kept(r) : Rank(r, i) = k
    <3>1. Len(r) \in Nat
      OBVIOUS
    <3>2. QED BY <3>1, RankFound
  <2>2. QED BY <2>1, Zenon
<1>2. \A i \in Kept(r) : r[i] \in Kinds
  <2>1. \A i \in 1 .. Len(r) : r[i] \in Kinds
    OBVIOUS
  <2>2. QED BY <2>1, RankAll
<1>3. Stripped(r) = [k \in 1 .. m |-> r[at(k)]]
  BY RankAll, Zenon DEF Stripped
<1>4. m \in 0 .. SlotLen /\ (m = SlotLen \/ s[m + 1] = Nul)
  OBVIOUS
<1> HIDE DEF m, at
<1>5. \A k \in 1 .. m : s[k] = r[at(k)] /\ s[k] # Nul
  <2>1. \A k \in 1 .. m : s[k] = r[at(k)]
    BY <1>1, Zenon
  <2>2. Nul \notin Kinds
    BY DEF Nul, Kinds
  <2>3. ASSUME NEW k \in 1 .. m PROVE s[k] # Nul
    <3>1. r[at(k)] \in Kinds
      BY <1>1, <1>2, Zenon
    <3>2. s[k] \in Kinds
      BY <2>1, <3>1, Zenon
    <3>3. QED BY <2>2, <3>2, Zenon
  <2>4. QED BY <2>1, <2>3, Zenon
<1>6. Text(s) = [k \in 1 .. m |-> s[k]]
  BY <1>4, <1>5, TextIs
<1>7. QED BY <1>3, <1>5, <1>6

\* A byte of an ideal request is left out, or stored behind those before it; the last one
\* counts the request.
LEMMA SendStored ==
  ASSUME IInv, TypeOK', Whole, UnderWay, NEW r \in Requests, Send(r), ideal', damaged' = 0,
         Fits(r)
  PROVE  /\ Stored'
         /\ left' = << >> => count' = count + 1 /\ Text(slot'[index]) = Stripped(r)
<1>1. PICK n \in Nat :
        /\ n < Len(r) /\ sending' = r /\ Sent' = n + 1 /\ (left' # << >> <=> n + 1 < Len(r))
        /\ RxByte(r[n + 1]) /\ r[n + 1] \in Kinds /\ damaged = 0
        /\ (Stores(r[n + 1]) => Held < Slots) /\ UNCHANGED pc
        /\ uart = (IF n = 0 THEN "start" ELSE "data") /\ (n # 0 => nesting = Depth(r, n))
        /\ cnt = Rank(r, n) /\ skip = CountOf(r, n, "quote") % 2
        /\ \A i \in Kept(r) : i <= n => slot[index][Rank(r, i)] = r[i]
  BY BeforeByte
<1> DEFINE b == r[n + 1]
           q == CountOf(r, n, "quote") % 2
           d == Depth(r, n)
           e == Depth(r, n + 1)
<1>2. /\ r \in Seq(Kinds) /\ Len(r) \in Nat /\ Len(r) > 1
      /\ r[1] = "open" /\ r[Len(r)] = "close"
      /\ Depth(r, 0) = 0 /\ Depth(r, Len(r)) = 0
      /\ \A i \in 1 .. Len(r) - 1 : Depth(r, i) \in 1 .. 255
  BY IsObject
<1>3. /\ q \in 0 .. 1 /\ skip = q
      /\ n + 1 \in Kept(r) <=> ~(b = "blank" /\ q = 0)
      /\ CountOf(r, n + 1, "quote") % 2 = IF b = "quote" THEN 1 - q ELSE q
  BY <1>1, <1>2, KeptByte, Zenon
<1>4. /\ cnt = Rank(r, n) /\ cnt \in Nat
      /\ n + 1 \in Kept(r) => Rank(r, n + 1) = cnt + 1
      /\ n + 1 \notin Kept(r) => Rank(r, n + 1) = cnt
  <2>1. r \in Seq(Kinds)
    BY <1>2
  <2>2. /\ Rank(r, n) \in Nat
        /\ n + 1 \in Kept(r) => Rank(r, n + 1) = Rank(r, n) + 1
        /\ n + 1 \notin Kept(r) => Rank(r, n + 1) = Rank(r, n)
    BY <2>1, RankStep
  <2>3. QED BY <1>1, <2>2, Zenon
<1>5. Rank(r, n + 1) <= Rank(r, Len(r)) /\ Rank(r, Len(r)) <= SlotLen
      /\ Rank(r, Len(r)) \in 0 .. SlotLen /\ Rank(r, n + 1) \in Nat
  <2>1. n + 1 \in Nat /\ n + 1 <= Len(r)
    BY <1>1, <1>2
  <2>2. Rank(r, n + 1) <= Rank(r, Len(r))
    BY <1>2, <2>1, RankGrows
  <2>3. Rank(r, Len(r)) \in Nat /\ Len(Stripped(r)) = Rank(r, Len(r))
    BY <1>2, RankAll
  <2>4. Rank(r, n + 1) \in Nat
    BY <1>2, <2>1, RankStep
  <2>5. QED BY <2>2, <2>3, <2>4 DEF Fits
<1>6. /\ e \in Int /\ (b = "open" => e = d + 1) /\ (b = "close" => e = d - 1)
      /\ (b \notin {"open", "close"} => e = d)
  <2>1. /\ r[n + 1] = "open" => Depth(r, n + 1) = Depth(r, n) + 1
        /\ r[n + 1] = "close" => Depth(r, n + 1) = Depth(r, n) - 1
        /\ r[n + 1] \notin {"open", "close"} => Depth(r, n + 1) = Depth(r, n)
    BY DepthStep
  <2>2. Depth(r, n + 1) \in Int
    BY DepthStep
  <2>3. QED BY <2>1, <2>2, Zenon
<1>7. /\ n + 1 < Len(r) => e \in 1 .. 255
      /\ n + 1 = Len(r) => e = 0 /\ b = "close"
      /\ n # 0 => d \in 1 .. 255
      /\ n = 0 => d = 0 /\ b = "open"
  <2>1. /\ n + 1 < Len(r) => n + 1 \in 1 .. Len(r) - 1
        /\ n # 0 => n \in 1 .. Len(r) - 1
    BY <1>1, <1>2
  <2>2. n = 0 => d = 0 /\ b = "open"
    <3>1. 0 + 1 = 1
      OBVIOUS
    <3>2. QED BY <1>2, <3>1, Zenon
  <2>3. n + 1 < Len(r) => e \in 1 .. 255
    BY <1>2, <2>1, Zenon
  <2>4. n + 1 = Len(r) => e = 0 /\ b = "close"
    BY <1>2, Zenon
  <2>5. n # 0 => d \in 1 .. 255
    BY <1>2, <2>1, Zenon
  <2>6. QED BY <2>2, <2>3, <2>4, <2>5
<1>8. /\ slot \in [SlotNumbers -> [Places -> Kinds \cup {Nul}]] /\ index \in SlotNumbers
      /\ slot' \in [SlotNumbers -> [Places -> Kinds \cup {Nul}]]
      /\ count \in 0 .. Slots /\ Held \in Nat /\ Held >= count
  BY DEF IInv, TypeOK, Held
<1>9. uart = (IF n = 0 THEN "start" ELSE "data") /\ (n # 0 => nesting = d) /\ skip = q
  BY <1>1, Zenon
<1>10. \A i \in Kept(r) : i <= n => slot[index][Rank(r, i)] = r[i] /\ Rank(r, i) \in 1 .. cnt
  <2>1. \A i \in Kept(r) : i <= n => Rank(r, i) \in 1 .. Rank(r, n)
    BY <1>2, RankPlace
  <2>2. QED BY <1>1, <2>1, Zenon
<1>11. RxByte(b) /\ (left' # << >> <=> n + 1 < Len(r)) /\ n + 1 <= Len(r)
       /\ (Stores(b) => Held < Slots) /\ pc' = pc
  <2>1. n + 1 <= Len(r)
    BY <1>1, <1>2
  <2>2. QED BY <1>1, <2>1, Zenon
<1> HIDE DEF b, q, d, e
\* What is left to show, when the receiver goes on.
<1>12. ASSUME uart' = "data", cnt' = Rank(r, n + 1), nesting' = e, index' = index,
              skip' = CountOf(r, n + 1, "quote") % 2, n + 1 < Len(r),
              \A i \in Kept(r) : i <= n + 1 => slot'[index][Rank(r, i)] = r[i]
       PROVE  /\ Stored'
              /\ left' = << >> => count' = count + 1 /\ Text(slot'[index]) = Stripped(r)
  <2>1. nesting' = Depth(r, n + 1)
    BY <1>12 DEF e
  <2>2. sending' = r /\ Sent' = n + 1 /\ left' # << >>
    BY <1>1, <1>12, Zenon
  <2>3. /\ cnt' = Rank(sending', Sent') /\ nesting' = Depth(sending', Sent')
        /\ skip' = CountOf(sending', Sent', "quote") % 2
        /\ \A i \in Kept(sending') : i <= Sent' => slot'[index'][Rank(sending', i)] = sending'[i]
    BY <1>12, <2>1, <2>2, Zenon
  <2>4. QED BY <1>12, <2>2, <2>3, Zenon DEF Stored
\* A kept byte goes behind the others.
<1>13. ASSUME n + 1 \in Kept(r), slot' = [slot EXCEPT ![index][cnt + 1] = b]
       PROVE  /\ cnt + 1 \in Places
              /\ \A i \in Kept(r) : i <= n + 1 => slot'[index][Rank(r, i)] = r[i]
  <2>1. cnt + 1 \in Places /\ Rank(r, n + 1) = cnt + 1
    BY <1>4, <1>5, <1>13 DEF Places
  <2>2. slot'[index] = [slot[index] EXCEPT ![cnt + 1] = b] /\ slot[index] \in [Places -> Kinds \cup {Nul}]
    BY <1>8, <1>13
  <2>3. ASSUME NEW i \in Kept(r), i <= n + 1 PROVE slot'[index][Rank(r, i)] = r[i]
    <3>1. CASE i = n + 1
      <4>1. slot'[index][cnt + 1] = b
        BY <2>1, <2>2
      <4>2. QED BY <2>1, <3>1, <4>1, Zenon DEF b
    <3>2. CASE i # n + 1
      <4>1. i \in Nat
        BY <1>2, RankAll
      <4>2. i <= n
        BY <2>3, <3>2, <4>1
      <4>3. slot[index][Rank(r, i)] = r[i] /\ Rank(r, i) \in 1 .. cnt
        BY <1>10, <4>2, Zenon
      <4>4. Rank(r, i) \in Places /\ Rank(r, i) # cnt + 1
        BY <1>4, <2>1, <4>3 DEF Places
      <4>5. slot'[index][Rank(r, i)] = slot[index][Rank(r, i)]
        BY <2>2, <4>4
      <4>6. QED BY <4>3, <4>5
    <3>3. QED BY <3>1, <3>2
  <2>4. QED BY <2>1, <2>3
<1>14. CASE FirstByte(b)
  <2>1. uart = "start"
    BY <1>14 DEF FirstByte
  <2>2. n = 0 /\ d = 0 /\ b = "open"
    <3>1. "start" # "data"
      OBVIOUS
    <3>2. QED BY <1>7, <1>9, <2>1, <3>1, Zenon
  <2>3. /\ slot' = Written(b, 0) /\ cnt' = 1 /\ nesting' = 1 /\ uart' = "data"
        /\ UNCHANGED <<index, count, skip>>
    BY <1>14, <2>2, Zenon DEF FirstByte
  <2>4. n + 1 \in Kept(r) /\ CountOf(r, n + 1, "quote") % 2 = q
    BY <1>3, <2>2
  <2>5. cnt = 0
    BY <2>1 DEF Whole, AtRest
  <2>6. slot' = [slot EXCEPT ![index][cnt + 1] = b] /\ cnt' = cnt + 1
    BY <2>3, <2>5 DEF Written
  <2>7. e = 1 /\ n + 1 < Len(r)
    BY <1>2, <1>6, <2>2
  <2>8. QED BY <1>4, <1>9, <1>12, <1>13, <2>3, <2>4, <2>6, <2>7
<1>15. ASSUME uart = "data"
       PROVE  n # 0 /\ nesting = d /\ d \in 1 .. 255
  <2>1. "start" # "data"
    OBVIOUS
  <2>2. n # 0
    BY <1>9, <1>15, <2>1, Zenon
  <2>3. QED BY <1>7, <1>9, <2>2, Zenon
<1>16. CASE BlankByte(b)
  <2>1. uart = "data" /\ b = "blank" /\ skip = 0
        /\ UNCHANGED <<slot, index, count, uart, cnt, nesting, skip>>
    BY <1>16 DEF BlankByte, rxVars
  <2>2. n + 1 \notin Kept(r) /\ CountOf(r, n + 1, "quote") % 2 = q /\ e = d
    BY <1>3, <1>6, <1>9, <2>1
  <2>3. n + 1 < Len(r)
    BY <1>2, <1>7, <1>11, <2>1
  <2>4. \A i \in Kept(r) : i <= n + 1 => slot'[index][Rank(r, i)] = r[i]
    <3> SUFFICES ASSUME NEW i \in Kept(r), i <= n + 1 PROVE slot'[index][Rank(r, i)] = r[i]
      OBVIOUS
    <3>1. i \in Nat /\ i # n + 1
      BY <1>2, <2>2, RankAll
    <3>2. i <= n
      BY <3>1
    <3>3. QED BY <1>10, <2>1, <3>2
  <2>5. nesting' = e /\ cnt' = Rank(r, n + 1) /\ uart' = "data"
    BY <1>4, <1>15, <2>1, <2>2
  <2>6. QED BY <1>9, <1>12, <2>1, <2>2, <2>3, <2>4, <2>5
<1>17. CASE OverlongByte(b)
  <2>1. uart = "data" /\ ~(b = "blank" /\ skip = 0) /\ cnt = SlotLen
    BY <1>17 DEF OverlongByte
  <2>2. n + 1 \in Kept(r)
    BY <1>3, <1>9, <2>1, Zenon
  <2>3. QED BY <1>4, <1>5, <2>1, <2>2
<1>18. CASE DataByte(b)
  <2>1. /\ uart = "data" /\ ~(b = "blank" /\ skip = 0) /\ cnt < SlotLen
        /\ slot' = Written(b, cnt) /\ skip' = Toggled(b) /\ nesting' = NestingAfter(b)
    BY <1>18 DEF DataByte
  <2>2. n # 0 /\ nesting = d /\ d \in 1 .. 255
    BY <1>15, <2>1
  <2>3. n + 1 \in Kept(r)
    BY <1>3, <1>9, <2>1, Zenon
  <2>4. slot' = [slot EXCEPT ![index][cnt + 1] = b]
    BY <2>1 DEF Written
  <2>5. /\ cnt + 1 \in Places
        /\ \A i \in Kept(r) : i <= n + 1 => slot'[index][Rank(r, i)] = r[i]
    BY <1>13, <2>3, <2>4
  <2>6. skip' = CountOf(r, n + 1, "quote") % 2
    BY <1>3, <1>9, <2>1 DEF Toggled
  <2>7. NestingAfter(b) = e
    <3>1. \A x \in 0 .. 255 : x % 256 = x
      OBVIOUS
    <3>2. e \in 0 .. 255
      <4>1. n + 1 < Len(r) \/ n + 1 = Len(r)
        BY <1>2, <1>11
      <4>2. e \in 1 .. 255 \/ e = 0
        BY <1>7, <4>1, Zenon
      <4>3. QED BY <4>2
    <3>3. e = IF b = "open" THEN nesting + 1 ELSE IF b = "close" THEN nesting - 1 ELSE nesting
      BY <1>6, <2>2
    <3>4. QED BY <3>1, <3>2, <3>3 DEF NestingAfter
  <2>8. CASE n + 1 < Len(r)
    <3>1. ~Ends(b)
      <4>1. e \in 1 .. 255
        BY <1>7, <2>8, Zenon
      <4>2. QED BY <2>7, <4>1 DEF Ends
    <3>2. cnt' = cnt + 1 /\ UNCHANGED <<uart, index, count>>
      BY <1>18, <3>1 DEF DataByte
    <3>3. QED BY <1>4, <1>12, <2>1, <2>3, <2>5, <2>6, <2>7, <2>8, <3>2
  <2>9. CASE n + 1 = Len(r)
    <3>1. left' = << >>
      BY <1>2, <1>11, <2>9
    <3>2. Ends(b)
      BY <1>7, <2>7, <2>9 DEF Ends
    <3>3. count' = count + 1
      <4>1. Stores(b)
        BY <2>1 DEF Stores
      <4>2. count < Slots
        BY <1>8, <1>11, <4>1
      <4>3. QED BY <1>18, <3>2, <4>2 DEF DataByte
    <3>4. Text(slot'[index]) = Stripped(r)
      <4> DEFINE m == Rank(r, Len(r))
      <4>1. m = cnt + 1 /\ m \in 0 .. SlotLen
        BY <1>4, <1>5, <2>3, <2>9, Zenon
      <4>2. slot'[index] \in [Places -> Kinds \cup {Nul}]
        BY <1>8
      <4>3. \A i \in Kept(r) : slot'[index][Rank(r, i)] = r[i]
        <5>1. \A i \in Kept(r) : i <= Len(r)
          BY <1>2, RankAll
        <5>2. QED BY <2>5, <2>9, <5>1
      <4>4. m = SlotLen \/ slot'[index][m + 1] = Nul
        <5> SUFFICES ASSUME m # SlotLen PROVE slot'[index][m + 1] = Nul
          OBVIOUS
        <5>1. m + 1 \in 2 .. SlotLen /\ m + 1 \in Places /\ m + 1 # cnt + 1 /\ ~(m + 1 <= cnt)
          BY <1>4, <4>1 DEF Places
        <5> HIDE DEF m
        <5>2. Held < Slots
          BY <1>1, <2>1 DEF Whole, AtRest
        <5>3. 0 \in 0 .. Slots - Held - 1 /\ 0 \in 0 .. Slots - 1
          BY <1>8, <5>2
        <5>4. (index + 0) % Slots = index
          BY <1>8, <5>3, FreePlaces
        <5>5. slot[(index + 0) % Slots][m + 1] = Nul
          BY <1>1, <5>1, <5>3 DEF Whole, FreeIsBlank
        <5>6. slot'[index][m + 1] = slot[index][m + 1]
          BY <1>8, <2>4, <2>5, <5>1
        <5>7. QED BY <5>4, <5>5, <5>6
      <4>5. QED BY <1>2, <4>1, <4>2, <4>3, <4>4, StrippedText
    <3>5. Stored'
      BY <3>1 DEF Stored
    <3>6. QED BY <3>3, <3>4, <3>5
  <2>10. QED BY <1>2, <1>11, <2>8, <2>9
<1>19. QED BY <1>11, <1>14, <1>16, <1>17, <1>18 DEF RxByte

\* Every byte keeps the invariant, and the last of an ideal request counts it.
LEMMA SendWhole ==
  ASSUME IInv, TypeOK', Whole, UnderWay, NEW r \in Requests, Send(r)
  PROVE  /\ Whole'
         /\ RequestSent /\ ideal' /\ damaged' = 0 /\ Fits(sending') =>
              count' = count + 1 /\ Text(slot'[index]) = Stripped(sending')
<1>1. sending' = r
  BY DEF Send
<1>2. AtRest' /\ FreeIsBlank'
  BY SendFree DEF Whole
<1>3. CASE ideal' /\ damaged' = 0 /\ Fits(sending')
  <2>1. /\ Stored'
        /\ left' = << >> => count' = count + 1 /\ Text(slot'[index]) = Stripped(r)
    BY <1>1, <1>3, SendStored
  <2>2. QED BY <1>1, <1>2, <2>1 DEF Whole, RequestSent
<1>4. CASE ~(ideal' /\ damaged' = 0 /\ Fits(sending'))
  <2>1. Stored'
    BY <1>4 DEF Stored
  <2>2. QED BY <1>2, <1>4, <2>1 DEF Whole
<1>5. QED BY <1>3, <1>4

\* A request sent without a pause to a receiver at rest is stored as sent, without the
\* blanks outside quotations, and counted, whatever the reader does meanwhile, and
\* whatever was cut off or too long before it, see RequestReceived.
THEOREM RequestIsReceived == Spec => RequestReceived
<1> DEFINE WInv == UnderWay /\ Whole
           Step == RequestSent /\ ideal' /\ damaged' = 0 /\ Len(Stripped(sending')) <= SlotLen =>
                     count' = count + 1 /\ Text(slot'[index]) = Stripped(sending')
<1>1. Init => WInv
  BY InitWhole
<1>2. ASSUME IInv, IInv', WInv, [Next]_vars
      PROVE  WInv' /\ [Step]_vars
  <2>1. TypeOK /\ TypeOK'
    BY <1>2 DEF IInv
  <2>2. CASE \E r \in Requests : Send(r)
    <3>1. PICK r \in Requests : Send(r)
      BY <2>2
    <3>2. UnderWay'
      <4>1. TypeOK /\ UnderWay
        BY <1>2, <2>1
      <4>2. QED BY <3>1, <4>1, SendOnWay
    <3>3. Whole' /\ Step
      BY <1>2, <2>1, <3>1, SendWhole DEF Fits
    <3>4. QED BY <3>2, <3>3
  <2>3. CASE Abandon \/ Timeout \/ Reader \/ Reset \/ UNCHANGED vars
    <3>1. UnderWay' /\ ~RequestSent
      BY <1>2, <2>1, <2>3, OtherOnWay
    <3>2. Whole'
      BY <1>2, <2>3, OtherFree, OtherStored DEF Whole
    <3>3. QED BY <3>1, <3>2
  <2>4. QED BY <1>2, <2>2, <2>3 DEF Next
<1>3. IInv /\ IInv' /\ WInv /\ [Next]_vars => WInv' /\ [Step]_vars
  BY <1>2
<1> HIDE DEF WInv
<1>4. QED BY <1>1, <1>3, Invariance, PTL DEF Spec, RequestReceived
=============================================================================

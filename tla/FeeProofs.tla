------------------------------ MODULE FeeProofs ------------------------------
(***************************************************************************)
(* What the emulated EEPROM promises for the variables of its first pair   *)
(* of pages, for every number of pairs, of variables and of slots that     *)
(* leaves room for a recovery, and for all values.                         *)
(***************************************************************************)
EXTENDS Fee, WellFoundedInduction, TLAPS

\* The variables of the first pair, and all a call may look for.
Home == 0 .. NumOfVar - 1
Places == 0 .. 2 * Pairs * NumOfVar

\* The call works on the first pair.
Ours == IF op = "write" THEN asked[1] \in Home ELSE op \in {"init", "clear"} /\ pair = 1

Pending == {copy[i] : i \in 1 .. Len(copy)}
Distinct == \A i, j \in 1 .. Len(copy) : copy[i] = copy[j] => i = j
Spent == IF half = << >> THEN 0 ELSE 1

-----------------------------------------------------------------------------
(* Pages                                                                   *)

\* Slots are used from the first on.
Packed(p) == \A j, k \in 1 .. Slots : k \in Free(p) /\ k < j => j \in Free(p)
Unused(p) == Free(p) = 1 .. Slots
Ready(p, n) == \A k \in 1 .. Slots : Slots - n < k => k \in Free(p)
FirstAddress(p) == pages[p].slot[1].address

Flash ==
  /\ \A p \in Page : Packed(p) /\ (Status(p) = "ERASED" => Unused(p))
  /\ \A p \in {0, 1} : \A k \in 1 .. Slots : pages[p].slot[k].address \in Home \cup {Blank}

\* One page is valid and the other erased; one receives from the other; one has
\* received all and the other is erased.
Whole(r) == Status(r) = "VALID_PAGE" /\ Status(1 - r) = "ERASED"
Moving(r) == Status(r) = "RECEIVE_DATA" /\ Status(1 - r) = "VALID_PAGE"
Moved(r) == Status(r) = "RECEIVE_DATA" /\ Status(1 - r) = "ERASED"

\* Only the variable of the first slot has a newer value in the page that receives.
Copied(r) == \A x \in Home :
  Holding(r, x) # {} => x = FirstAddress(r) \/ Latest(r, x) = Latest(1 - r, x)
Passed(r) == \A x \in Home \ Pending : Holding(1 - r, x) # {} => Holding(r, x) # {}

-----------------------------------------------------------------------------
(* The calls                                                               *)

Control ==
  /\ op \in {"off", "idle"} \/ (op \in {"init", "clear"} /\ pair = 0) =>
       copy = << >> /\ half = << >> /\ todo = << >>
  /\ op \in {"off", "idle", "write"} => pair = 0
  /\ op = "clear" => copy = << >> /\ half = << >>
  /\ op = "init" /\ copy # << >> => todo # << >>
  /\ todo # << >> \/ op \in {"off", "init"} => ~locked
  /\ copy \in Seq(Places)
  /\ ~Ours => /\ \A i \in 1 .. Len(copy) : copy[i] \notin Home
              /\ \A i \in 1 .. Len(todo) : todo[i].page \notin {0, 1}

\* Between the two half-words of a store.
Halfway == half # << >> =>
  /\ copy # << >> /\ half.address = Head(copy) /\ half.page = WritePage(Head(copy))
  /\ pages[half.page].slot[half.slot].address = Blank
  /\ pages[half.page].slot[half.slot].data = ValueOf(half.address)
  /\ \A k \in 1 .. Slots : /\ k < half.slot => k \notin Free(half.page)
                           /\ half.slot < k => k \in Free(half.page)

\* What the power may leave, save in a recovery.
Torn(r) == Moving(r) /\ Copied(r)
           /\ Ready(r, NumOfVar - (IF FirstAddress(r) = Blank THEN 0 ELSE 1))
Fresh == Status(0) = "ERASED" /\ Status(1) = "ERASED"
Cleared == Status(0) = "VALID_PAGE" /\ Status(1) = "VALID_PAGE" /\ Unused(0)

Resting == op = "off" \/ (op = "init" /\ pair = 0) =>
  unmended \/ Fresh \/ Cleared \/ \E r \in {0, 1} : Whole(r) \/ Torn(r) \/ Moved(r)

Settled == op = "idle" \/ (op = "clear" /\ pair = 0) \/ (op = "write" /\ ~Ours) =>
  unmended \/ \E r \in {0, 1} : Whole(r)

\* A write, without a transfer and with one.
Single(r) == todo = << >> /\ Whole(r)
             /\ (copy = <<asked[1]>> \/ (copy = << >> /\ Latest(r, asked[1]) = asked[2]))

Transferring(r) ==
  /\ todo = <<Erase(1 - r), Mark(r)>> /\ Moving(r) /\ Copied(r) /\ Passed(r)
  /\ Len(copy) <= NumOfVar /\ Pending \subseteq Home /\ Distinct
  /\ Ready(r, Slots - NumOfVar + Len(copy) - Spent)
  /\ half # << >> => half.slot <= NumOfVar - Len(copy) + 1
  /\ \A x \in Pending : Holding(r, x) = {}
  /\ IF asked[1] \in Pending
     THEN copy[1] = asked[1] /\ Len(copy) = NumOfVar /\ FirstAddress(r) = Blank
     ELSE FirstAddress(r) = asked[1] /\ Latest(r, asked[1]) = asked[2]

Ending(r) == todo = <<Mark(r)>> /\ copy = << >> /\ Moved(r) /\ Latest(r, asked[1]) = asked[2]

Writing == op = "write" /\ Ours =>
  unmended \/ \E r \in {0, 1} : Single(r) \/ Transferring(r) \/ Ending(r)

\* Fee_InitPage on the first pair.
Recovering(r) ==
  /\ Copied(r) /\ Passed(r)
  /\ Len(copy) <= NumOfVar /\ Pending \subseteq Home /\ Distinct
  /\ Ready(r, Len(copy) - (IF FirstAddress(r) \in Pending THEN 1 ELSE 0) - Spent)
  /\ half # << >> =>
       /\ Head(copy) # FirstAddress(r)
       /\ half.slot <= Slots - Len(copy) + (IF FirstAddress(r) \in Pending THEN 1 ELSE 0) + 1

Mending(r) ==
  \/ todo = <<Mark(r), Erase(1 - r)>> /\ Moving(r) /\ (unmended \/ Recovering(r))
  \/ /\ copy = << >>
     /\ \/ todo = << >> /\ Whole(r)
        \/ todo = <<Erase(1 - r)>> /\ Status(r) = "VALID_PAGE"
           /\ (unmended \/ Status(1 - r) # "RECEIVE_DATA")
        \/ todo = <<Mark(r)>> /\ Status(1 - r) = "ERASED" /\ (unmended \/ Moved(r))
        \/ todo = <<Erase(1 - r), Mark(r)>> /\ (unmended \/ Moved(r))
Formatting ==
  /\ copy = << >>
  /\ \/ todo = Format(0) /\ (unmended \/ Fresh \/ Cleared)
     \/ todo = <<Mark(0), Erase(1)>> /\ Status(0) = "ERASED"
        /\ (unmended \/ Status(1) # "RECEIVE_DATA")

Recovery == op = "init" /\ pair = 1 => Formatting \/ \E r \in {0, 1} : Mending(r)

\* Fee_Init clearing the first pair.
Clearing == op = "clear" /\ pair = 1 =>
  \/ todo = <<Erase(0)>> \o Format(0) /\ (unmended \/ \E r \in {0, 1} : Whole(r))
  \/ todo \in {Format(0), <<Mark(0), Erase(1)>>} /\ Status(0) = "ERASED"
     /\ (unmended \/ Status(1) # "RECEIVE_DATA")
  \/ todo = <<Erase(1)>> /\ Status(0) = "VALID_PAGE" /\ Unused(0)
     /\ (unmended \/ Status(1) # "RECEIVE_DATA")
  \/ todo = << >> /\ Whole(0) /\ Unused(0)

Beyond == op \in {"init", "clear"} /\ 1 < pair =>
  \E r \in {0, 1} : Whole(r) /\ (op = "clear" => r = 0 /\ Unused(0))

IInv ==
  /\ TypeOK /\ Flash /\ Control /\ Halfway
  /\ Resting /\ Settled /\ Writing /\ Recovery /\ Clearing /\ Beyond

-----------------------------------------------------------------------------
(* Numbers and sequences                                                   *)

LEMMA Sizes ==
  /\ Pairs \in Nat \ {0} /\ NumOfVar \in Nat \ {0} /\ Slots \in Nat \ {0}
  /\ NumOfVar < Slots /\ 2 * NumOfVar - 1 <= Slots
BY SizeAssumption, RoomAssumption

\* Numbers have a least one.
LEMMA MinFound ==
  ASSUME NEW S, S \subseteq Nat, S # {}
  PROVE  Min(S) \in S /\ \A y \in S : Min(S) <= y
<1>1. PICK x \in S : \A y \in S : <<y, x>> \notin OpToRel(<, Nat)
  BY NatLessThanWellFounded, WFMin
<1>2. \A y \in S : x <= y
  <2> SUFFICES ASSUME NEW y \in S, ~(x <= y) PROVE FALSE
    OBVIOUS
  <2>1. <<y, x>> \in Nat \X Nat /\ y < x
    OBVIOUS
  <2>2. <<y, x>> \in OpToRel(<, Nat)
    BY <2>1 DEF OpToRel
  <2>3. QED BY <1>1, <2>2
<1>3. QED BY <1>2 DEF Min

\* A member that no other exceeds is the greatest.
LEMMA MaxIs ==
  ASSUME NEW S, S \subseteq Nat, NEW m \in S, \A y \in S : y <= m
  PROVE  Max(S) = m
<1>1. \A y \in S : m >= y
  OBVIOUS
<1>2. Max(S) \in S /\ \A y \in S : Max(S) >= y
  BY <1>1, Zenon DEF Max
<1>3. PICK x \in Nat : x = Max(S)
  BY <1>2
<1>4. m >= x /\ x >= m /\ m \in Nat
  BY <1>1, <1>2, <1>3
<1>5. m = x
  BY <1>4
<1>6. QED BY <1>3, <1>5

\* The greatest of some slots is as far from the end as the least of their mirror image.
LEMMA MaxFound ==
  ASSUME NEW S, S \subseteq 1 .. Slots, S # {}
  PROVE  Max(S) \in S /\ \A y \in S : y <= Max(S)
<1> DEFINE T == {k \in 0 .. Slots : Slots - k \in S}
<1>1. T \subseteq Nat /\ T # {}
  <2>1. PICK x \in S : TRUE
    OBVIOUS
  <2>2. Slots - x \in 0 .. Slots /\ Slots - (Slots - x) = x
    BY <2>1, Sizes
  <2>3. QED BY <2>1, <2>2
<1>2. PICK t \in T : \A y \in T : t <= y
  BY <1>1, MinFound
<1>3. Slots - t \in S /\ \A y \in S : y <= Slots - t
  <2>1. ASSUME NEW y \in S PROVE y <= Slots - t
    <3>1. Slots - y \in T
      <4>1. Slots - y \in 0 .. Slots /\ Slots - (Slots - y) = y
        BY Sizes
      <4>2. QED BY <4>1
    <3>2. t <= Slots - y /\ t \in Nat /\ y \in Nat
      BY <1>2, <3>1
    <3>3. QED BY <3>2, Sizes
  <2>2. QED BY <1>2, <2>1
<1>4. Max(S) = Slots - t
  <2>1. S \subseteq Nat
    OBVIOUS
  <2>2. QED BY <1>3, <2>1, MaxIs, Zenon
<1>5. QED BY <1>3, <1>4

\* Heads and tails of the plans, which have four entries at most.
LEMMA Tuples ==
  ASSUME NEW a, NEW b, NEW c, NEW d
  PROVE  /\ Tail(<<a>>) = << >> /\ Tail(<<a, b>>) = <<b>> /\ Tail(<<a, b, c>>) = <<b, c>>
         /\ Tail(<<a, b, c, d>>) = <<b, c, d>>
         /\ Head(<<a>>) = a /\ Head(<<a, b>>) = a /\ Head(<<a, b, c>>) = a
         /\ Head(<<a, b, c, d>>) = a
         /\ <<a>> # << >> /\ <<a, b>> # << >> /\ <<a, b, c>> # << >> /\ <<a, b, c, d>> # << >>
OBVIOUS

LEMMA Longer ==
  ASSUME NEW S, NEW a \in S, NEW s \in Seq(S)
  PROVE  /\ Head(<<a>> \o s) = a /\ Tail(<<a>> \o s) = s /\ <<a>> \o s # << >>
         /\ <<a>> \o s \in Seq(S) /\ Len(<<a>> \o s) = Len(s) + 1
         /\ (<<a>> \o s)[1] = a /\ \A i \in 1 .. Len(s) : (<<a>> \o s)[i + 1] = s[i]
OBVIOUS

\* A sequence over a set is one over a larger set.
LEMMA Within ==
  ASSUME NEW S, NEW T, S \subseteq T, NEW s \in Seq(S)
  PROVE  s \in Seq(T) /\ \A i \in 1 .. Len(s) : s[i] \in S
OBVIOUS

LEMMA NoneLeft == \A S : << >> \in Seq(S) /\ Len(<< >>) = 0
OBVIOUS

\* What the copying loop takes off the front, and what is left.
LEMMA HeadAndTail ==
  ASSUME NEW S, NEW s \in Seq(S), s # << >>
  PROVE  /\ Len(s) \in Nat \ {0} /\ 1 \in 1 .. Len(s) /\ Head(s) = s[1] /\ Head(s) \in S
         /\ Tail(s) \in Seq(S) /\ Len(Tail(s)) = Len(s) - 1
         /\ \A i \in 1 .. Len(s) - 1 : Tail(s)[i] = s[i + 1]
OBVIOUS

-----------------------------------------------------------------------------
(* Where a variable is kept                                                *)

LEMMA FirstPages == 0 \in Page /\ 1 \in Page /\ 1 - 0 = 1 /\ 1 - 1 = 0
BY Sizes DEF Page

\* The first pair of pages is that of the variables of Home, and of no others.
LEMMA PagesOf ==
  ASSUME NEW v \in Nat
  PROVE  /\ First(v) \in Nat /\ Second(v) = First(v) + 1 /\ First(v) # Second(v)
         /\ (First(v) \in Page) = (Second(v) \in Page)
         /\ v \in Home => First(v) = 0 /\ Second(v) = 1
         /\ v \notin Home => First(v) \notin {0, 1} /\ Second(v) \notin {0, 1}
<1>1. PICK q \in Nat : q = v \div NumOfVar
  BY Sizes
<1>2. (q = 0) = (v \in Home)
  BY <1>1, Sizes DEF Home
<1>3. First(v) = 2 * q /\ Second(v) = 2 * q + 1
  BY <1>1 DEF First, Second
<1>4. (2 * q \in Page) = (2 * q + 1 \in Page)
  BY Sizes DEF Page
<1>5. QED BY <1>2, <1>3, <1>4

\* The addresses, and the numbers the store takes for addresses, are none of them 0xFFFF.
LEMMA AddressInPlaces ==
  /\ Addresses \subseteq Places /\ Home \subseteq Places /\ Blank \notin Places /\ Places \subseteq Nat
  /\ \A a \in Addresses : \A i \in 1 .. NumOfVar :
       (a \div NumOfVar) * NumOfVar + i - 1 \in Places
  /\ \A n \in 0 .. Pairs - 1 : \A i \in 1 .. NumOfVar :
       (2 * n) * NumOfVar + i - 1 \in Places
<1>1. PICK K \in Nat : K = Pairs * NumOfVar
  BY Sizes
<1>2. NumOfVar <= K
  <2>1. 1 <= Pairs /\ NumOfVar \in Nat
    BY Sizes
  <2>2. NumOfVar * 1 <= NumOfVar * Pairs
    BY <2>1, Sizes
  <2>3. QED BY <1>1, <2>1, <2>2, Sizes
<1>3. Places = 0 .. 2 * K
  BY <1>1, Sizes DEF Places
<1>4. Addresses \subseteq 0 .. K - 1
  BY <1>1, SizeAssumption
<1>5. Addresses \subseteq Places /\ Home \subseteq Places /\ Places \subseteq Nat
  BY <1>2, <1>3, <1>4, Sizes DEF Home
<1>6. Blank \notin Places
  BY ValueAssumption DEF Places
<1>7. ASSUME NEW a \in Addresses, NEW i \in 1 .. NumOfVar
      PROVE  (a \div NumOfVar) * NumOfVar + i - 1 \in Places
  <2>1. a \in Nat /\ a <= K - 1
    BY <1>4
  <2>2. PICK q \in Nat : q = a \div NumOfVar
    BY <2>1, Sizes
  <2>3. PICK b \in Nat : b = q * NumOfVar
    BY Sizes
  <2>4. b <= a
    BY <2>1, <2>2, <2>3, Sizes
  <2>5. b + i - 1 \in 0 .. 2 * K
    BY <1>2, <2>1, <2>4, Sizes
  <2>6. QED BY <1>3, <2>2, <2>3, <2>5
<1>8. ASSUME NEW n \in 0 .. Pairs - 1, NEW i \in 1 .. NumOfVar
      PROVE  (2 * n) * NumOfVar + i - 1 \in Places
  <2>1. PICK m \in Nat : n = Pairs - 1 - m
    BY Sizes
  <2>2. PICK b \in Nat : b = m * NumOfVar
    BY Sizes
  <2>3. (2 * n) * NumOfVar = 2 * K - 2 * NumOfVar - 2 * b
    BY <1>1, <2>1, <2>2, Sizes
  <2>4. PICK c \in Nat : c = (2 * n) * NumOfVar
    BY Sizes
  <2>5. c + i - 1 \in 0 .. 2 * K
    BY <2>3, <2>4, Sizes
  <2>6. QED BY <1>3, <2>4, <2>5
<1>9. QED BY <1>5, <1>6, <1>7, <1>8

LEMMA StatusTypes ==
  ASSUME TypeOK
  PROVE  /\ \A p : Status(p) \in {"ERASED", "RECEIVE_DATA", "VALID_PAGE"}
         /\ \A p : Status(p) # "ERASED" => p \in Page
         /\ \A p \in Page : Status(p) = pages[p].status
BY DEF TypeOK, Status

\* A page that is chosen belongs to the pair of the variable and is not erased.
LEMMA Chosen ==
  ASSUME TypeOK, NEW v \in Nat
  PROVE  /\ \/ ReadPage(v) = NoPage /\ WritePage(v) = NoPage
            \/ /\ ReadPage(v) \in Page /\ WritePage(v) \in Page
               /\ ReadPage(v) # NoPage /\ WritePage(v) # NoPage
               /\ Status(ReadPage(v)) = "VALID_PAGE" /\ Status(WritePage(v)) # "ERASED"
         /\ WritePage(v) = NoPage \/ WritePage(v) \in {First(v), Second(v)}
         /\ ReadPage(v) = NoPage \/ ReadPage(v) \in {First(v), Second(v)}
<1>1. NoPage \notin Page
  BY ValueAssumption
<1>2. QED BY <1>1, StatusTypes DEF ReadPage, WritePage

\* The page of a variable of the first pair that is read, and the one that is written.
LEMMA HomePages ==
  ASSUME TypeOK, NEW v \in Home, NEW r \in {0, 1}
  PROVE  /\ Whole(r) => ReadPage(v) = r /\ WritePage(v) = r
         /\ Moving(r) => ReadPage(v) = 1 - r /\ WritePage(v) = r
         /\ r \in Page /\ 1 - r \in Page /\ r # NoPage /\ 1 - r # NoPage
<1>1. v \in Nat
  BY DEF Home
<1>2. First(v) = 0 /\ Second(v) = 1
  BY <1>1, PagesOf
<1>3. NoPage \notin Page
  BY ValueAssumption
<1>4. CASE r = 0
  BY <1>2, <1>3, <1>4, FirstPages DEF Whole, Moving, ReadPage, WritePage
<1>5. CASE r = 1
  BY <1>2, <1>3, <1>5, FirstPages DEF Whole, Moving, ReadPage, WritePage
<1>6. QED BY <1>4, <1>5

\* A slot is free when both its half-words are.
LEMMA SlotTypes ==
  ASSUME TypeOK, NEW p \in Page
  PROVE  /\ \A k \in 1 .. Slots : /\ pages[p].slot[k].data \in Data \cup {Blank}
                                  /\ pages[p].slot[k].address \in Addresses \cup {Blank}
                                  /\ pages[p].slot[k] = [data |-> pages[p].slot[k].data,
                                                         address |-> pages[p].slot[k].address]
         /\ \A k : k \in Free(p) <=> /\ k \in 1 .. Slots /\ pages[p].slot[k].data = Blank
                                     /\ pages[p].slot[k].address = Blank
<1>1. pages[p].slot \in [1 .. Slots -> [data : Data \cup {Blank}, address : Addresses \cup {Blank}]]
  BY DEF TypeOK
<1>2. \A k \in 1 .. Slots :
        pages[p].slot[k] \in [data : Data \cup {Blank}, address : Addresses \cup {Blank}]
  BY <1>1
<1>3. QED BY <1>2 DEF Free

\* A value that is found, and one that is not.
LEMMA Found ==
  ASSUME TypeOK, NEW p \in Page, NEW v, v # Blank
  PROVE  /\ Holding(p, v) = {} => Latest(p, v) = None
         /\ Holding(p, v) # {} => /\ Latest(p, v) \in Data \cup {Blank} /\ Latest(p, v) # None
                                  /\ v \in Addresses
                                  /\ Max(Holding(p, v)) \in Holding(p, v)
<1>1. Holding(p, v) \subseteq 1 .. Slots
  BY DEF Holding
<1>2. ASSUME Holding(p, v) # {}
      PROVE  /\ Max(Holding(p, v)) \in Holding(p, v) /\ v \in Addresses
             /\ Latest(p, v) \in Data \cup {Blank}
  <2>1. Max(Holding(p, v)) \in Holding(p, v)
    BY <1>1, <1>2, MaxFound, Zenon
  <2>2. PICK m \in 1 .. Slots : m = Max(Holding(p, v)) /\ pages[p].slot[m].address = v
    BY <2>1 DEF Holding
  <2>3. pages[p].slot[m].address \in Addresses \cup {Blank} /\ pages[p].slot[m].data \in Data \cup {Blank}
    BY SlotTypes, Zenon
  <2>4. Latest(p, v) = pages[p].slot[m].data
    BY <1>2, <2>2, Zenon DEF Latest
  <2>5. QED BY <2>1, <2>2, <2>3, <2>4
<1>3. None \notin Data \cup {Blank}
  BY ValueAssumption
<1>4. Holding(p, v) = {} => Latest(p, v) = None
  BY Zenon DEF Latest
<1>5. QED BY <1>2, <1>3, <1>4

-----------------------------------------------------------------------------
(* What an operation of the flash changes                                  *)

LEMMA PagesKept ==
  ASSUME pages' = pages
  PROVE  /\ \A p : Status(p)' = Status(p) /\ Free(p)' = Free(p) /\ FirstAddress(p)' = FirstAddress(p)
         /\ \A p, x : Holding(p, x)' = Holding(p, x) /\ Latest(p, x)' = Latest(p, x)
         /\ \A x : ReadPage(x)' = ReadPage(x) /\ WritePage(x)' = WritePage(x)
         /\ \A p : /\ Packed(p)' = Packed(p) /\ Unused(p)' = Unused(p) /\ Copied(p)' = Copied(p)
                   /\ Whole(p)' = Whole(p) /\ Moving(p)' = Moving(p) /\ Moved(p)' = Moved(p)
         /\ \A p, n : Ready(p, n)' = Ready(p, n)
BY DEF Status, Free, FirstAddress, Holding, Latest, ReadPage, WritePage, Packed, Unused,
       Copied, Whole, Moving, Moved, Ready

\* Data without an address are not seen by any read.
LEMMA DataProgrammed ==
  ASSUME TypeOK, NEW p \in Page, NEW k \in 1 .. Slots, NEW d \in Data \cup {Blank},
         pages[p].slot[k].address = Blank, pages' = [pages EXCEPT ![p].slot[k].data = d]
  PROVE  /\ \A q : Status(q)' = Status(q)
         /\ \A q \in Page : \A x : Holding(q, x)' = Holding(q, x)
         /\ \A q \in Page : \A x : x # Blank => Latest(q, x)' = Latest(q, x)
         /\ \A q \in Page : \A j \in 1 .. Slots :
              /\ pages'[q].slot[j].address = pages[q].slot[j].address
              /\ q # p \/ j # k => (j \in Free(q)') = (j \in Free(q))
         /\ pages'[p].slot[k].data = d
<1>1. /\ pages \in [Page -> [status : {"ERASED", "RECEIVE_DATA", "VALID_PAGE"},
                            slot : [1 .. Slots -> [data : Data \cup {Blank},
                                                   address : Addresses \cup {Blank}]]]]
  BY DEF TypeOK
<1>2. \A q \in Page : /\ pages'[q].status = pages[q].status
                      /\ \A j \in 1 .. Slots :
                           /\ pages'[q].slot[j].address = pages[q].slot[j].address
                           /\ q # p \/ j # k => pages'[q].slot[j] = pages[q].slot[j]
  BY <1>1
<1>3. pages'[p].slot[k].data = d
  <2>1. /\ pages[p].slot \in [1 .. Slots -> [data : Data \cup {Blank}, address : Addresses \cup {Blank}]]
        /\ pages[p].slot[k] = [data |-> pages[p].slot[k].data,
                               address |-> pages[p].slot[k].address]
    BY <1>1, SlotTypes
  <2>2. pages'[p].slot = [pages[p].slot EXCEPT ![k].data = d]
    BY <1>1
  <2>3. pages'[p].slot[k] = [pages[p].slot[k] EXCEPT !.data = d]
    BY <2>1, <2>2
  <2>4. QED BY <2>1, <2>3
<1>4. \A q : Status(q)' = Status(q)
  BY <1>2 DEF Status
<1>5. \A q \in Page : \A x : Holding(q, x)' = Holding(q, x)
  BY <1>2 DEF Holding
<1>6. ASSUME NEW q \in Page, NEW x, x # Blank
      PROVE  Latest(q, x)' = Latest(q, x)
  <2>1. CASE Holding(q, x) = {}
    BY <1>5, <2>1, Zenon DEF Latest
  <2>2. CASE Holding(q, x) # {}
    <3>1. Max(Holding(q, x)) \in Holding(q, x)
      BY <1>6, <2>2, Found, Zenon
    <3>2. PICK m \in 1 .. Slots : m = Max(Holding(q, x)) /\ pages[q].slot[m].address = x
      BY <3>1 DEF Holding
    <3>3. q # p \/ m # k
      BY <1>6, <3>2
    <3>4. pages'[q].slot[m] = pages[q].slot[m]
      BY <1>2, <3>2, <3>3
    <3>5. Latest(q, x) = pages[q].slot[m].data /\ Latest(q, x)' = pages'[q].slot[m].data
      BY <1>5, <2>2, <3>2, Zenon DEF Latest
    <3>6. QED BY <3>4, <3>5
  <2>3. QED BY <2>1, <2>2
<1>7. \A q \in Page : \A j \in 1 .. Slots : q # p \/ j # k => (j \in Free(q)') = (j \in Free(q))
  BY <1>2 DEF Free
<1>8. QED BY <1>2, <1>3, <1>4, <1>5, <1>6, <1>7

Newest(p, v) == Max(Holding(p, v))

\* An address programmed behind all others makes its slot the latest of the variable.
LEMMA AddressProgrammed ==
  ASSUME TypeOK, NEW p \in Page, NEW k \in 1 .. Slots, NEW v \in Addresses,
         pages[p].slot[k].address = Blank, \A j \in 1 .. Slots : k < j => j \in Free(p),
         pages' = [pages EXCEPT ![p].slot[k].address = v]
  PROVE  /\ \A q : Status(q)' = Status(q)
         /\ \A q \in Page : \A x : x # Blank /\ (q # p \/ x # v) =>
              Holding(q, x)' = Holding(q, x) /\ Latest(q, x)' = Latest(q, x)
         /\ Holding(p, v)' # {}
         /\ \A q \in Page : \A j \in 1 .. Slots : pages'[q].slot[j].data = pages[q].slot[j].data
         /\ \A q \in Page : \A j \in 1 .. Slots : q # p \/ j # k =>
              pages'[q].slot[j].address = pages[q].slot[j].address
         /\ \A q \in Page : \A j \in 1 .. Slots : q # p \/ j # k =>
              (j \in Free(q)') = (j \in Free(q))
         /\ pages'[p].slot[k].address = v /\ k \notin Free(p)'
         /\ Newest(p, v)' = k
<1>1. /\ pages \in [Page -> [status : {"ERASED", "RECEIVE_DATA", "VALID_PAGE"},
                            slot : [1 .. Slots -> [data : Data \cup {Blank},
                                                   address : Addresses \cup {Blank}]]]]
  BY DEF TypeOK
<1>2. \A q \in Page : /\ pages'[q].status = pages[q].status
                      /\ \A j \in 1 .. Slots :
                           /\ pages'[q].slot[j].data = pages[q].slot[j].data
                           /\ q # p \/ j # k => pages'[q].slot[j] = pages[q].slot[j]
  BY <1>1
<1>3. pages'[p].slot[k].address = v
  <2>1. pages'[p].slot = [pages[p].slot EXCEPT ![k].address = v]
    BY <1>1
  <2>2. pages[p].slot \in [1 .. Slots -> [data : Data \cup {Blank}, address : Addresses \cup {Blank}]]
    BY <1>1
  <2>3. pages[p].slot[k] \in [data : Data \cup {Blank}, address : Addresses \cup {Blank}]
    BY <2>2
  <2>4. k \in DOMAIN pages[p].slot
    BY <1>1
  <2>5. pages'[p].slot[k] = [pages[p].slot[k] EXCEPT !.address = v]
    BY <2>1, <2>4
  <2>6. QED BY <2>5, <2>3
<1>4. \A q : Status(q)' = Status(q)
  BY <1>2 DEF Status
<1>5. v # Blank
  BY AddressInPlaces
<1>6. ASSUME NEW q \in Page, NEW x, x # Blank, q # p \/ x # v
      PROVE  Holding(q, x)' = Holding(q, x) /\ Latest(q, x)' = Latest(q, x)
  <2>1. Holding(q, x)' = Holding(q, x)
    BY <1>2, <1>3, <1>6 DEF Holding
  <2>2. \A j \in Holding(q, x) : pages'[q].slot[j].data = pages[q].slot[j].data
    BY <1>2 DEF Holding
  <2>3. Holding(q, x) # {} => Max(Holding(q, x)) \in Holding(q, x)
    BY <1>6, Found
  <2>4. QED BY <2>1, <2>2, <2>3, Zenon DEF Latest
<1>7. k \in Holding(p, v)'
  BY <1>3 DEF Holding
<1>8. ASSUME NEW j \in Holding(p, v)' PROVE j <= k
  <2>1. j \in 1 .. Slots /\ pages'[p].slot[j].address = v
    BY DEF Holding
  <2>2. CASE k < j
    <3>1. pages'[p].slot[j] = pages[p].slot[j] /\ pages[p].slot[j].address = Blank
      BY <1>2, <2>1, <2>2, SlotTypes
    <3>2. QED BY <1>5, <2>1, <3>1
  <2>3. QED BY <2>1, <2>2
<1>9. Max(Holding(p, v)') = k
  <2>1. Holding(p, v)' \subseteq Nat
    BY DEF Holding
  <2>2. QED BY <1>7, <1>8, <2>1, MaxIs
<1>10. Newest(p, v)' = k
  BY <1>9 DEF Newest
<1>11. \A q \in Page : \A j \in 1 .. Slots : q # p \/ j # k => (j \in Free(q)') = (j \in Free(q))
  BY <1>2 DEF Free
<1>12. k \notin Free(p)'
  BY <1>3, <1>5 DEF Free
<1>13. \A q \in Page : \A j \in 1 .. Slots :
         q # p \/ j # k => pages'[q].slot[j].address = pages[q].slot[j].address
  BY <1>2
<1>14. QED BY <1>2, <1>3, <1>4, <1>6, <1>7, <1>10, <1>11, <1>12, <1>13

\* Marking a page, as one that receives or as a valid one.
LEMMA StatusProgrammed ==
  ASSUME TypeOK, NEW p \in Page, NEW s \in {"RECEIVE_DATA", "VALID_PAGE"},
         pages' = [pages EXCEPT ![p].status = s]
  PROVE  /\ Status(p)' = s /\ \A q : q # p => Status(q)' = Status(q)
         /\ \A q \in Page : /\ Free(q)' = Free(q) /\ FirstAddress(q)' = FirstAddress(q)
                            /\ pages'[q].slot = pages[q].slot
         /\ \A q \in Page : \A x : Holding(q, x)' = Holding(q, x) /\ Latest(q, x)' = Latest(q, x)
<1>1. /\ pages \in [Page -> [status : {"ERASED", "RECEIVE_DATA", "VALID_PAGE"},
                            slot : [1 .. Slots -> [data : Data \cup {Blank},
                                                   address : Addresses \cup {Blank}]]]]
  BY DEF TypeOK
<1>2. /\ \A q \in Page : pages'[q].slot = pages[q].slot
      /\ \A q \in Page : q # p => pages'[q].status = pages[q].status
      /\ pages'[p].status = s
  BY <1>1
<1>3. Status(p)' = s /\ \A q : q # p => Status(q)' = Status(q)
  BY <1>2 DEF Status
<1>4. \A q \in Page : Free(q)' = Free(q) /\ FirstAddress(q)' = FirstAddress(q)
  BY <1>2 DEF Free, FirstAddress
<1>5. \A q \in Page : \A x : Holding(q, x)' = Holding(q, x)
  BY <1>2 DEF Holding
<1>6. ASSUME NEW q \in Page, NEW x PROVE Latest(q, x)' = Latest(q, x)
  <2>1. Holding(q, x)' = Holding(q, x) /\ pages'[q].slot = pages[q].slot
    BY <1>2, <1>5
  <2>2. QED BY <2>1 DEF Latest
<1>7. QED BY <1>2, <1>3, <1>4, <1>5, <1>6

\* An erased page holds nothing, and no other page changes.
LEMMA Erased ==
  ASSUME TypeOK, NEW p \in Page, pages' = [pages EXCEPT ![p] = EmptyPage]
  PROVE  /\ Status(p)' = "ERASED" /\ Unused(p)' /\ \A q : q # p => Status(q)' = Status(q)
         /\ \A x : x # Blank => Holding(p, x)' = {} /\ Latest(p, x)' = None
         /\ \A k \in 1 .. Slots : pages'[p].slot[k].address = Blank
         /\ \A q \in Page : q # p => /\ Free(q)' = Free(q) /\ FirstAddress(q)' = FirstAddress(q)
                                     /\ pages'[q] = pages[q]
         /\ \A q \in Page : \A x : q # p => Holding(q, x)' = Holding(q, x) /\ Latest(q, x)' = Latest(q, x)
<1>1. /\ \A q \in Page : q # p => pages'[q] = pages[q]
      /\ pages'[p] = EmptyPage
  BY DEF TypeOK
<1>2. \A k \in 1 .. Slots : EmptyPage.slot[k] = [data |-> Blank, address |-> Blank]
  BY DEF EmptyPage
<1>3. Status(p)' = "ERASED" /\ \A q : q # p => Status(q)' = Status(q)
  BY <1>1 DEF Status, EmptyPage
<1>4. Unused(p)'
  BY <1>1, <1>2 DEF Unused, Free
<1>5. \A x : x # Blank => Holding(p, x)' = {} /\ Latest(p, x)' = None
  BY <1>1, <1>2 DEF Holding, Latest
<1>6. \A q \in Page : q # p => Free(q)' = Free(q) /\ FirstAddress(q)' = FirstAddress(q)
  BY <1>1 DEF Free, FirstAddress
<1>7. \A q \in Page : \A x : q # p => Holding(q, x)' = Holding(q, x) /\ Latest(q, x)' = Latest(q, x)
  BY <1>1 DEF Holding, Latest
<1>8. \A k \in 1 .. Slots : pages'[p].slot[k].address = Blank
  BY <1>1, <1>2
<1>9. QED BY <1>1, <1>3, <1>4, <1>5, <1>6, <1>7, <1>8


-----------------------------------------------------------------------------
(* Calls and restarts                                                      *)

LEMMA FlashKept ==
  ASSUME Flash, pages' = pages
  PROVE  Flash'
BY PagesKept DEF Flash

\* The flash starts erased.
LEMMA InitStep == Init => IInv
<1> SUFFICES ASSUME Init PROVE IInv
  OBVIOUS
<1>1. /\ op = "off" /\ asked = << >> /\ pair = 0 /\ copy = << >> /\ half = << >>
      /\ todo = << >> /\ status = "" /\ locked = FALSE /\ unmended = FALSE
  BY DEF Init
<1>2. \A k \in 1 .. Slots : EmptyPage.slot[k] = [data |-> Blank, address |-> Blank]
  BY DEF EmptyPage
<1>3. /\ pages \in [Page -> [status : {"ERASED", "RECEIVE_DATA", "VALID_PAGE"},
                            slot : [1 .. Slots -> [data : Data \cup {Blank},
                                                   address : Addresses \cup {Blank}]]]]
      /\ \A p \in Page : pages[p].status = "ERASED" /\ pages[p].slot = EmptyPage.slot
  BY DEF Init, EmptyPage
<1>4. TypeOK
  <2>1. pair \in 0 .. Pairs
    <3>1. 0 \in 0 .. Pairs
      BY Sizes
    <3>2. QED BY <1>1, <3>1, Zenon
  <2>2. copy \in Seq(Nat) /\ todo \in Seq([page : Page, status : {"ERASED", "VALID_PAGE"}])
    BY <1>1, NoneLeft, Zenon
  <2>3. QED BY <1>1, <1>3, <2>1, <2>2 DEF TypeOK
<1>5. Flash
  <2>1. \A p \in Page : Unused(p)
    BY <1>2, <1>3 DEF Unused, Free
  <2>2. \A p \in Page : Packed(p)
    BY <2>1 DEF Unused, Packed
  <2>3. QED BY <1>2, <1>3, <2>1, <2>2, FirstPages DEF Flash
<1>6. Fresh
  BY <1>3 DEF Fresh, Status
<1>7. Control
  <2>1. copy \in Seq(Places) /\ Len(copy) = 0 /\ Len(todo) = 0
    BY <1>1, NoneLeft
  <2>2. (\A i \in 1 .. Len(copy) : copy[i] \notin Home)
        /\ \A i \in 1 .. Len(todo) : todo[i].page \notin {0, 1}
    BY <2>1
  <2>3. QED BY <1>1, <2>1, <2>2 DEF Control
<1>8. QED BY <1>1, <1>4, <1>5, <1>6, <1>7
     DEF IInv, Halfway, Resting, Settled, Writing, Recovery, Clearing, Beyond

\* The invariant, operation by operation.
LEMMA WriteStep ==
  ASSUME IInv, NEW v \in Addresses, NEW d \in Data, Write(v, d)
  PROVE  IInv'
<1>1. /\ op = "idle" /\ op' = "write" /\ asked' = <<v, d>> /\ copy' = <<v>>
      /\ UNCHANGED <<pages, pair, half, todo, status, locked, unmended>>
  BY DEF Write
<1>2. pair = 0 /\ half = << >> /\ todo = << >> /\ copy = << >>
  BY <1>1 DEF IInv, Control
<1>3. v \in Places /\ v \in Nat /\ asked'[1] = v
  BY <1>1, AddressInPlaces
<1>4. TypeOK'
  <2>1. asked' \in Addresses \X Data /\ asked' # << >> /\ copy' \in Seq(Nat)
    BY <1>1, <1>3
  <2>2. QED BY <1>1, <2>1 DEF IInv, TypeOK
<1>5. Flash'
  BY <1>1, FlashKept DEF IInv
<1>6. Control'
  <2>1. copy' \in Seq(Places) /\ copy' # << >> /\ Len(copy') = 1 /\ copy'[1] = v
    BY <1>1, <1>3
  <2>2. ~Ours' => v \notin Home
    BY <1>1, <1>3 DEF Ours
  <2>3. ~Ours' => \A i \in 1 .. Len(copy') : copy'[i] \notin Home
    BY <2>1, <2>2
  <2>4. todo' = << >> /\ op' = "write" /\ pair' = 0
    BY <1>1, <1>2
  <2>5. QED BY <2>1, <2>3, <2>4 DEF Control
<1>7. Halfway'
  BY <1>1, <1>2 DEF Halfway
<1>8. unmended \/ \E r \in {0, 1} : Whole(r)
  BY <1>1 DEF IInv, Settled
<1>9. \A r \in {0, 1} : Whole(r)' = Whole(r)
  BY <1>1, PagesKept
<1>10. Settled'
  BY <1>1, <1>8, <1>9 DEF Settled
<1>11. Writing'
  <2>1. \A r \in {0, 1} : Whole(r) => Single(r)'
    BY <1>1, <1>2, <1>3, <1>9 DEF Single
  <2>2. QED BY <1>1, <1>8, <2>1 DEF Writing
<1>12. Resting' /\ Recovery' /\ Clearing' /\ Beyond'
  BY <1>1 DEF Resting, Recovery, Clearing, Beyond
<1>13. QED BY <1>4, <1>5, <1>6, <1>7, <1>10, <1>11, <1>12 DEF IInv

LEMMA WriteReturnsStep ==
  ASSUME IInv, WriteReturns
  PROVE  IInv'
<1>1. /\ op = "write" /\ op' = "idle" /\ asked' = << >> /\ status' = "FLASH_COMPLETE"
      /\ copy = << >> /\ half = << >> /\ todo = << >>
      /\ copy' = << >> /\ half' = << >> /\ todo' = << >> /\ pair' = 0
      /\ UNCHANGED <<pages, locked, unmended>>
  BY DEF WriteReturns, Return
<1>2. TypeOK'
  <2>1. pair' \in 0 .. Pairs /\ copy' \in Seq(Nat)
        /\ todo' \in Seq([page : Page, status : {"ERASED", "VALID_PAGE"}])
    BY <1>1, Sizes, NoneLeft
  <2>2. QED BY <1>1, <2>1 DEF IInv, TypeOK
<1>3. Flash'
  BY <1>1, FlashKept DEF IInv
<1>4. Control' /\ Halfway'
  BY <1>1 DEF Control, Halfway
<1>5. unmended \/ \E r \in {0, 1} : Whole(r)
  <2>1. CASE Ours
    <3>1. unmended \/ \E r \in {0, 1} : Single(r) \/ Transferring(r) \/ Ending(r)
      BY <1>1, <2>1 DEF IInv, Writing
    <3>2. \A r \in {0, 1} : ~Transferring(r) /\ ~Ending(r)
      BY <1>1, Tuples DEF Transferring, Ending
    <3>3. QED BY <3>1, <3>2 DEF Single
  <2>2. CASE ~Ours
    BY <1>1, <2>2 DEF IInv, Settled
  <2>3. QED BY <2>1, <2>2
<1>6. \A r \in {0, 1} : Whole(r)' = Whole(r)
  BY <1>1, PagesKept
<1>7. Settled'
  BY <1>1, <1>5, <1>6 DEF Settled
<1>8. Resting' /\ Writing' /\ Recovery' /\ Clearing' /\ Beyond'
  BY <1>1 DEF Resting, Writing, Recovery, Clearing, Beyond
<1>9. QED BY <1>2, <1>3, <1>4, <1>7, <1>8 DEF IInv

LEMMA ClearStep ==
  ASSUME IInv, Clear
  PROVE  IInv'
<1>1. /\ op = "idle" /\ op' = "clear"
      /\ UNCHANGED <<pages, asked, pair, copy, half, todo, status, locked, unmended>>
  BY DEF Clear
<1>2. pair = 0 /\ half = << >> /\ todo = << >> /\ copy = << >>
  BY <1>1 DEF IInv, Control
<1>3. TypeOK'
  BY <1>1 DEF IInv, TypeOK
<1>4. Flash'
  BY <1>1, FlashKept DEF IInv
<1>5. Control' /\ Halfway'
  BY <1>1, <1>2 DEF Control, Halfway
<1>6. Settled'
  <2>1. \A r \in {0, 1} : Whole(r)' = Whole(r)
    BY <1>1, PagesKept
  <2>2. unmended \/ \E r \in {0, 1} : Whole(r)
    BY <1>1 DEF IInv, Settled
  <2>3. QED BY <1>1, <2>1, <2>2 DEF Settled
<1>7. Resting' /\ Writing' /\ Recovery' /\ Clearing' /\ Beyond'
  BY <1>1, <1>2 DEF Resting, Writing, Recovery, Clearing, Beyond
<1>8. QED BY <1>3, <1>4, <1>5, <1>6, <1>7 DEF IInv

LEMMA PowerUpStep ==
  ASSUME IInv, PowerUp
  PROVE  IInv'
<1>1. /\ op = "off" /\ op' = "init"
      /\ UNCHANGED <<pages, asked, pair, copy, half, todo, status, locked, unmended>>
  BY DEF PowerUp
<1>2. pair = 0 /\ half = << >> /\ todo = << >> /\ copy = << >> /\ ~locked
  BY <1>1 DEF IInv, Control
<1>3. TypeOK'
  BY <1>1 DEF IInv, TypeOK
<1>4. Flash'
  BY <1>1, FlashKept DEF IInv
<1>5. Control' /\ Halfway'
  BY <1>1, <1>2 DEF Control, Halfway
<1>6. Resting'
  <2>1. Fresh' = Fresh /\ Cleared' = Cleared
        /\ \A r \in {0, 1} : Whole(r)' = Whole(r) /\ Torn(r)' = Torn(r) /\ Moved(r)' = Moved(r)
    BY <1>1, PagesKept DEF Fresh, Cleared, Torn
  <2>2. unmended \/ Fresh \/ Cleared \/ \E r \in {0, 1} : Whole(r) \/ Torn(r) \/ Moved(r)
    BY <1>1 DEF IInv, Resting
  <2>3. QED BY <1>1, <2>1, <2>2 DEF Resting
<1>7. Settled' /\ Writing' /\ Recovery' /\ Clearing' /\ Beyond'
  BY <1>1, <1>2 DEF Settled, Writing, Recovery, Clearing, Beyond
<1>8. QED BY <1>3, <1>4, <1>5, <1>6, <1>7 DEF IInv

LEMMA InitReturnsStep ==
  ASSUME IInv, InitReturns
  PROVE  IInv'
<1>1. /\ op \in {"init", "clear"} /\ copy = << >> /\ half = << >> /\ todo = << >>
      /\ op' = "idle" /\ asked' = << >> /\ status' \in {"FLASH_COMPLETE", "FLASH_ERROR_PG"}
      /\ copy' = << >> /\ half' = << >> /\ todo' = << >> /\ pair' = 0
      /\ UNCHANGED <<pages, locked>> /\ unmended' \in BOOLEAN
      /\ (pair < Pairs => locked /\ unmended' = unmended)
  <2>1. Walking /\ UNCHANGED <<pages, half, locked>>
    BY DEF InitReturns
  <2>2. \/ Return("FLASH_COMPLETE") /\ unmended' = (unmended /\ op # "init") /\ pair = Pairs
        \/ Return("FLASH_ERROR_PG") /\ unmended' = unmended /\ locked
    BY DEF InitReturns
  <2>3. pair \in 0 .. Pairs /\ unmended \in BOOLEAN
    BY DEF IInv, TypeOK
  <2>4. pair < Pairs => locked /\ unmended' = unmended
    BY <2>2, <2>3, Sizes
  <2>5. unmended' \in BOOLEAN
    BY <2>2, <2>3, Zenon
  <2>6. QED BY <2>1, <2>2, <2>4, <2>5 DEF Return, Walking
<1>2. TypeOK'
  <2>1. pair' \in 0 .. Pairs /\ copy' \in Seq(Nat)
        /\ todo' \in Seq([page : Page, status : {"ERASED", "VALID_PAGE"}])
    BY <1>1, Sizes, NoneLeft
  <2>2. QED BY <1>1, <2>1 DEF IInv, TypeOK
<1>3. Flash'
  BY <1>1, FlashKept DEF IInv
<1>4. Control' /\ Halfway'
  BY <1>1 DEF Control, Halfway
<1>5. unmended' \/ \E r \in {0, 1} : Whole(r)
  <2>1. pair \in 0 .. Pairs /\ Pairs \in Nat \ {0}
    BY Sizes DEF IInv, TypeOK
  <2>2. CASE pair = 0
    <3>1. op = "clear" /\ unmended' = unmended
      BY <1>1, <2>1, <2>2 DEF IInv, Control
    <3>2. QED BY <2>2, <3>1 DEF IInv, Settled
  <2>3. CASE pair = 1
    <3>1. CASE op = "init"
      BY <1>1, <2>3, <3>1, Tuples DEF IInv, Recovery, Formatting, Mending, Format
    <3>2. CASE op = "clear"
      BY <1>1, <2>3, <3>2, Tuples DEF IInv, Clearing, Format
    <3>3. QED BY <1>1, <3>1, <3>2
  <2>4. CASE 1 < pair
    BY <1>1, <2>4 DEF IInv, Beyond
  <2>5. QED BY <2>1, <2>2, <2>3, <2>4
<1>6. \A r \in {0, 1} : Whole(r)' = Whole(r)
  BY <1>1, PagesKept
<1>7. Settled'
  BY <1>1, <1>5, <1>6 DEF Settled
<1>8. Resting' /\ Writing' /\ Recovery' /\ Clearing' /\ Beyond'
  BY <1>1 DEF Resting, Writing, Recovery, Clearing, Beyond
<1>9. QED BY <1>2, <1>3, <1>4, <1>7, <1>8 DEF IInv

\* Room for more is room for fewer.
LEMMA Fewer ==
  ASSUME NEW r, NEW m \in Int, NEW n \in Int, n <= m, Ready(r, m)
  PROVE  Ready(r, n)
<1>1. \A k \in 1 .. Slots : Slots - n < k => Slots - m < k
  BY Sizes
<1>2. QED BY <1>1 DEF Ready

\* What a transfer leaves has room for its recovery.
LEMMA TransferTears ==
  ASSUME IInv, op = "write", Ours, NEW r \in {0, 1}, Transferring(r)
  PROVE  Torn(r)
<1>1. Len(copy) \in Nat /\ Spent \in {0, 1} /\ (Spent = 1 => 1 <= Len(copy))
  <2>1. copy \in Seq(Places) /\ (half # << >> => copy # << >>)
    BY DEF IInv, Control, Halfway
  <2>2. copy # << >> => Len(copy) \in Nat \ {0}
    BY <2>1, HeadAndTail
  <2>3. QED BY <2>1, <2>2 DEF Spent
<1>2. Moving(r) /\ Copied(r) /\ Ready(r, Slots - NumOfVar + Len(copy) - Spent)
  BY DEF Transferring
<1>3. CASE asked[1] \in Pending
  <2>1. FirstAddress(r) = Blank /\ Len(copy) = NumOfVar
    BY <1>3 DEF Transferring
  <2>2. NumOfVar <= Slots - NumOfVar + Len(copy) - Spent
    BY <1>1, <2>1, Sizes
  <2>3. Ready(r, NumOfVar - 0)
    BY <1>1, <1>2, <2>2, Fewer, Sizes
  <2>4. QED BY <1>2, <2>1, <2>3 DEF Torn
<1>4. CASE asked[1] \notin Pending
  <2>1. NumOfVar - 1 <= Slots - NumOfVar + Len(copy) - Spent
    BY <1>1, Sizes
  <2>2. Ready(r, NumOfVar - 1)
    BY <1>1, <1>2, <2>1, Fewer, Sizes
  <2>3. NumOfVar - 0 \in Int /\ NumOfVar - 1 \in Int
    BY Sizes
  <2>4. FirstAddress(r) # Blank
    <3>1. FirstAddress(r) = asked[1] /\ asked[1] \in Home
      BY <1>4 DEF Transferring, Ours
    <3>2. QED BY <3>1, AddressInPlaces
  <2>5. QED BY <1>2, <2>2, <2>4 DEF Torn
<1>5. QED BY <1>3, <1>4

\* What the power leaves, a recovery can mend.
LEMMA PowerLossStep ==
  ASSUME IInv, PowerLoss
  PROVE  IInv'
<1>1. /\ op # "off" /\ op' = "off" /\ status' = "" /\ locked' = FALSE
      /\ asked' = << >> /\ pair' = 0 /\ copy' = << >> /\ half' = << >> /\ todo' = << >>
      /\ pages' = pages
  BY DEF PowerLoss
<1>2. unmended' \in BOOLEAN /\ (unmended => unmended') /\ (op = "init" => unmended')
  <2>1. unmended \in BOOLEAN /\ unmended' = (unmended \/ op = "init")
    BY DEF PowerLoss, IInv, TypeOK
  <2>2. QED BY <2>1, Zenon
<1>3. TypeOK'
  <2>1. 0 \in 0 .. Pairs
    BY Sizes
  <2>2. copy' \in Seq(Nat) /\ todo' \in Seq([page : Page, status : {"ERASED", "VALID_PAGE"}])
    BY <1>1, NoneLeft, Zenon
  <2>3. QED BY <1>1, <1>2, <2>1, <2>2 DEF IInv, TypeOK
<1>4. Flash'
  BY <1>1, FlashKept DEF IInv
<1>5. Control' /\ Halfway'
  <2>1. copy' \in Seq(Places) /\ Len(copy') = 0 /\ Len(todo') = 0
    BY <1>1, NoneLeft
  <2>2. (\A i \in 1 .. Len(copy') : copy'[i] \notin Home)
        /\ \A i \in 1 .. Len(todo') : todo'[i].page \notin {0, 1}
    BY <2>1
  <2>3. QED BY <1>1, <2>1, <2>2 DEF Control, Halfway
<1>6. unmended' \/ Fresh \/ Cleared \/ \E r \in {0, 1} : Whole(r) \/ Torn(r) \/ Moved(r)
  <2> SUFFICES ASSUME ~unmended, op # "init"
               PROVE  Fresh \/ Cleared \/ \E r \in {0, 1} : Whole(r) \/ Torn(r) \/ Moved(r)
    BY <1>2
  <2>1. op \in {"idle", "write", "clear"} /\ pair \in 0 .. Pairs
    BY <1>1 DEF IInv, TypeOK
  <2>2. CASE op = "idle" \/ (op = "clear" /\ pair = 0) \/ (op = "write" /\ ~Ours)
    BY <2>2 DEF IInv, Settled
  <2>3. CASE op = "write" /\ Ours
    <3>1. PICK r \in {0, 1} : Single(r) \/ Transferring(r) \/ Ending(r)
      BY <2>3 DEF IInv, Writing
    <3>2. QED BY <2>3, <3>1, TransferTears DEF Single, Ending
  <2>4. CASE op = "clear" /\ pair = 1
    <3>1. \A p : Status(p) \in {"ERASED", "RECEIVE_DATA", "VALID_PAGE"}
      BY StatusTypes DEF IInv
    <3>2. \/ \E r \in {0, 1} : Whole(r)
          \/ Status(0) = "ERASED" /\ Status(1) # "RECEIVE_DATA"
          \/ Status(0) = "VALID_PAGE" /\ Unused(0) /\ Status(1) # "RECEIVE_DATA"
      BY <2>4 DEF IInv, Clearing
    <3>3. QED BY <3>1, <3>2 DEF Whole, Fresh, Cleared
  <2>5. CASE op = "clear" /\ 1 < pair
    BY <2>5 DEF IInv, Beyond
  <2>6. pair = 0 \/ pair = 1 \/ 1 < pair
    BY <2>1
  <2>7. QED BY <2>1, <2>2, <2>3, <2>4, <2>5, <2>6
<1>7. Resting'
  <2>1. Fresh' = Fresh /\ Cleared' = Cleared
        /\ \A r \in {0, 1} : Whole(r)' = Whole(r) /\ Torn(r)' = Torn(r) /\ Moved(r)' = Moved(r)
    <3>1. pages' = pages
      BY <1>1
    <3>2. QED BY <3>1, PagesKept DEF Fresh, Cleared, Torn
  <2>2. QED BY <1>6, <2>1 DEF Resting
<1>8. Settled' /\ Writing' /\ Recovery' /\ Clearing' /\ Beyond'
  BY <1>1 DEF Settled, Writing, Recovery, Clearing, Beyond
<1>9. QED BY <1>3, <1>4, <1>5, <1>7, <1>8 DEF IInv

-----------------------------------------------------------------------------
(* The copying loop                                                        *)

\* The first of the addresses to be stored is done with.
LEMMA OneLess ==
  ASSUME copy \in Seq(Places), copy # << >>, copy' = Tail(copy)
  PROVE  /\ copy' \in Seq(Places) /\ Len(copy) \in Nat \ {0} /\ Len(copy') = Len(copy) - 1
         /\ Head(copy) \in Places /\ Head(copy) \in Pending /\ Head(copy) = copy[1]
         /\ Pending = Pending' \cup {Head(copy)}
         /\ Distinct => Distinct' /\ Head(copy) \notin Pending'
<1>1. /\ Len(copy) \in Nat \ {0} /\ 1 \in 1 .. Len(copy) /\ Head(copy) = copy[1] /\ Head(copy) \in Places
      /\ copy' \in Seq(Places) /\ Len(copy') = Len(copy) - 1
      /\ \A i \in 1 .. Len(copy) - 1 : copy'[i] = copy[i + 1]
  BY HeadAndTail
<1>2. PICK l \in Nat \ {0} : l = Len(copy) /\ Len(copy') = l - 1
  BY <1>1
<1>3. \A i \in 1 .. l - 1 : i + 1 \in 1 .. l /\ i + 1 # 1 /\ copy'[i] = copy[i + 1]
  BY <1>1, <1>2
<1>4. Pending' \subseteq Pending
  BY <1>2, <1>3 DEF Pending
<1>5. Head(copy) \in Pending
  BY <1>1 DEF Pending
<1>6. ASSUME NEW x \in Pending, x # Head(copy) PROVE x \in Pending'
  <2>1. PICK i \in 1 .. l : x = copy[i]
    BY <1>2 DEF Pending
  <2>2. i - 1 \in 1 .. l - 1 /\ (i - 1) + 1 = i
    BY <1>1, <1>6, <2>1
  <2>3. x = copy'[i - 1]
    BY <1>3, <2>1, <2>2
  <2>4. QED BY <1>2, <2>2, <2>3 DEF Pending
<1>7. ASSUME Distinct PROVE Distinct'
  <2>1. \A i, j \in 1 .. l : copy[i] = copy[j] => i = j
    BY <1>2, <1>7 DEF Distinct
  <2>2. ASSUME NEW i \in 1 .. l - 1, NEW j \in 1 .. l - 1, copy'[i] = copy'[j] PROVE i = j
    <3>1. i + 1 \in 1 .. l /\ j + 1 \in 1 .. l /\ copy[i + 1] = copy[j + 1]
      BY <1>3, <2>2
    <3>2. i + 1 = j + 1
      BY <2>1, <3>1
    <3>3. QED BY <3>2
  <2>3. QED BY <1>2, <2>2 DEF Distinct
<1>8. ASSUME Distinct PROVE Head(copy) \notin Pending'
  <2>1. \A i, j \in 1 .. l : copy[i] = copy[j] => i = j
    BY <1>2, <1>8 DEF Distinct
  <2>2. ASSUME NEW i \in 1 .. l - 1, copy'[i] = Head(copy) PROVE FALSE
    <3>1. i + 1 \in 1 .. l /\ i + 1 # 1 /\ 1 \in 1 .. l /\ copy[i + 1] = copy[1]
      BY <1>1, <1>2, <1>3, <2>2
    <3>2. QED BY <2>1, <3>1
  <2>3. QED BY <1>2, <2>2 DEF Pending
<1>9. QED BY <1>1, <1>4, <1>5, <1>6, <1>7, <1>8

\* A page that receives has a slot for the next variable.
LEMMA RoomToStore ==
  ASSUME IInv, NEW r \in {0, 1}, NEW v \in Home, NEW n \in Nat \ {0},
         Moving(r), Ready(r, n), ~locked
  PROVE  StoreError(v) = "" /\ WritePage(v) = r /\ ReadPage(v) = 1 - r
<1>1. WritePage(v) = r /\ ReadPage(v) = 1 - r /\ r # NoPage
  BY HomePages DEF IInv
<1>2. Slots \in Free(r)
  <2>1. Slots \in 1 .. Slots /\ Slots - n < Slots
    BY Sizes
  <2>2. QED BY <2>1 DEF Ready
<1>3. QED BY <1>1, <1>2 DEF StoreError

\* In a transfer every store finds its page, and room in it.
LEMMA TransferStores ==
  ASSUME IInv, op = "write", Ours, NEW r \in {0, 1}, Transferring(r), Storing
  PROVE  /\ Head(copy) \in Home /\ StoreError(Head(copy)) = ""
         /\ WritePage(Head(copy)) = r /\ ReadPage(Head(copy)) = 1 - r
<1>1. copy # << >> /\ half = << >> /\ copy \in Seq(Places)
  BY DEF Storing, IInv, Control
<1>2. Len(copy) \in Nat \ {0} /\ 1 \in 1 .. Len(copy) /\ Head(copy) = copy[1]
  BY <1>1, HeadAndTail
<1>3. Head(copy) \in Home
  BY <1>2 DEF Transferring, Pending
<1>4. todo # << >> /\ ~locked
  BY Tuples DEF Transferring, IInv, Control
<1>5. PICK n \in Nat \ {0} : n = Slots - NumOfVar + Len(copy) - Spent
  <2>1. Spent = 0
    BY <1>1 DEF Spent
  <2>2. PICK l \in Nat \ {0} : l = Len(copy)
    BY <1>2
  <2>3. Slots - NumOfVar + l - 0 \in Nat \ {0}
    BY Sizes
  <2>4. QED BY <2>1, <2>2, <2>3
<1>6. Moving(r) /\ Ready(r, n)
  BY <1>5, Zenon DEF Transferring
<1>7. QED BY <1>3, <1>4, <1>6, RoomToStore

\* The address in the first slot is passed over.
LEMMA OverFirst ==
  ASSUME op = "init", NEW r, todo = <<Mark(r), Erase(1 - r)>>, NEW v
  PROVE  PassedOver(v) <=> FirstAddress(r) = v \/ ReadVariable(v) = None
<1>1. Head(todo) = Mark(r) /\ Mark(r).page = r
  BY Tuples DEF Mark
<1>2. QED BY <1>1 DEF PassedOver, FirstAddress, ValueOf

\* In a recovery every store that is not passed over finds its page, and room in it.
LEMMA RecoveryStores ==
  ASSUME IInv, op = "init", pair = 1, NEW r \in {0, 1}, todo = <<Mark(r), Erase(1 - r)>>,
         Moving(r), Recovering(r), Storing
  PROVE  /\ Head(copy) \in Home /\ WritePage(Head(copy)) = r /\ ReadPage(Head(copy)) = 1 - r
         /\ ~PassedOver(Head(copy)) =>
              StoreError(Head(copy)) = "" /\ Head(copy) # FirstAddress(r)
<1>1. copy # << >> /\ half = << >> /\ copy \in Seq(Places)
  BY DEF Storing, IInv, Control
<1>2. Len(copy) \in Nat \ {0} /\ 1 \in 1 .. Len(copy) /\ Head(copy) = copy[1]
  BY <1>1, HeadAndTail
<1>3. Head(copy) \in Home
  BY <1>2 DEF Recovering, Pending
<1>4. WritePage(Head(copy)) = r /\ ReadPage(Head(copy)) = 1 - r
  BY <1>3, HomePages DEF IInv
<1>5. ASSUME ~PassedOver(Head(copy))
      PROVE  StoreError(Head(copy)) = "" /\ Head(copy) # FirstAddress(r)
  <2>1. FirstAddress(r) # Head(copy)
    BY <1>5, OverFirst
  <2>2. FirstAddress(r) \in Pending => Len(copy) # 1
    BY <1>2, <2>1 DEF Pending
  <2>3. PICK n \in Nat \ {0} :
          n = Len(copy) - (IF FirstAddress(r) \in Pending THEN 1 ELSE 0) - Spent
    <3>1. Spent = 0
      BY <1>1 DEF Spent
    <3>2. PICK l \in Nat \ {0} : l = Len(copy)
      BY <1>2
    <3>3. CASE FirstAddress(r) \in Pending
      <4>1. l - 1 - 0 \in Nat \ {0}
        BY <2>2, <3>2, <3>3
      <4>2. QED BY <3>1, <3>2, <3>3, <4>1
    <3>4. CASE FirstAddress(r) \notin Pending
      <4>1. l - 0 - 0 \in Nat \ {0}
        BY <3>2
      <4>2. QED BY <3>1, <3>2, <3>4, <4>1
    <3>5. QED BY <3>3, <3>4
  <2>4. Ready(r, n)
    BY <2>3, Zenon DEF Recovering
  <2>5. ~locked
    BY DEF IInv, Control
  <2>6. QED BY <1>3, <2>1, <2>4, <2>5, RoomToStore
<1>6. QED BY <1>3, <1>4, <1>5

\* When nothing is passed on for it, a variable counts as moved.
LEMMA PassingOn ==
  ASSUME copy \in Seq(Places), copy # << >>, copy' = Tail(copy), pages' = pages,
         NEW r, Passed(r), Distinct,
         \/ Head(copy) \notin Home \/ Holding(1 - r, Head(copy)) = {} \/ Holding(r, Head(copy)) # {}
  PROVE  Passed(r)'
<1>1. Pending = Pending' \cup {Head(copy)}
  BY OneLess
<1>2. \A x \in Home : Holding(r, x)' = Holding(r, x) /\ Holding(1 - r, x)' = Holding(1 - r, x)
  BY PagesKept
<1>3. ASSUME NEW x \in Home, x \notin Pending', Holding(1 - r, x) # {}
      PROVE  Holding(r, x) # {}
  <2>1. CASE x = Head(copy)
    BY <1>3, <2>1
  <2>2. CASE x # Head(copy)
    BY <1>1, <1>3, <2>2 DEF Passed
  <2>3. QED BY <2>1, <2>2
<1>4. QED BY <1>2, <1>3 DEF Passed

\* What is common to the steps that end the work on an address.
LEMMA Shifted ==
  ASSUME IInv, copy # << >>, copy' = Tail(copy), UNCHANGED <<op, asked, pair, todo, locked>>
  PROVE  /\ op \in {"write", "init"} /\ (op = "init" => pair # 0) /\ (op = "write" => pair = 0)
         /\ copy' \in Seq(Nat) /\ Control' /\ Ours' = Ours /\ copy \in Seq(Places)
<1>1. copy \in Seq(Places) /\ op \in {"off", "idle", "write", "init", "clear"}
  BY DEF IInv, TypeOK, Control
<1>2. op \in {"write", "init"} /\ (op = "init" => pair # 0) /\ (op = "write" => pair = 0)
  BY <1>1 DEF IInv, Control
<1>3. copy' \in Seq(Places)
  BY <1>1, OneLess
<1>4. copy' \in Seq(Nat)
  <2>1. copy \in Seq(Nat)
    BY DEF IInv, TypeOK
  <2>2. QED BY <2>1, HeadAndTail
<1>5. Ours' = Ours
  BY DEF Ours
<1>6. ASSUME ~Ours
      PROVE  /\ \A i \in 1 .. Len(copy') : copy'[i] \notin Home
             /\ \A i \in 1 .. Len(todo) : todo[i].page \notin {0, 1}
  <2>1. /\ \A i \in 1 .. Len(copy) : copy[i] \notin Home
        /\ \A i \in 1 .. Len(todo) : todo[i].page \notin {0, 1}
    BY <1>6 DEF IInv, Control
  <2>2. /\ Len(copy) \in Nat \ {0} /\ Len(copy') = Len(copy) - 1
        /\ \A i \in 1 .. Len(copy) - 1 : copy'[i] = copy[i + 1]
    BY <1>1, HeadAndTail
  <2>3. PICK l \in Nat \ {0} : l = Len(copy)
    BY <2>2
  <2>4. \A i \in 1 .. l - 1 : i + 1 \in 1 .. l
    OBVIOUS
  <2>5. QED BY <2>1, <2>2, <2>3, <2>4
<1>7. /\ op = "init" => todo # << >>
      /\ todo # << >> \/ op = "init" => ~locked
  BY DEF IInv, Control
<1>8. Control'
  BY <1>2, <1>3, <1>5, <1>6, <1>7 DEF Control
<1>9. QED BY <1>1, <1>2, <1>4, <1>5, <1>8

\* A variable passed over was never written, or is in the new page already.
LEMMA PassStep ==
  ASSUME IInv, Pass
  PROVE  IInv'
<1>1. /\ Storing /\ PassedOver(Head(copy)) /\ copy # << >> /\ half = << >> /\ copy' = Tail(copy)
      /\ UNCHANGED <<pages, op, asked, pair, half, todo, status, locked, unmended>>
  BY DEF Pass, Storing
<1>2. /\ op \in {"write", "init"} /\ (op = "init" => pair # 0) /\ (op = "write" => pair = 0)
      /\ copy' \in Seq(Nat) /\ Control' /\ Ours' = Ours /\ copy \in Seq(Places)
  BY <1>1, Shifted
<1>3. TypeOK'
  BY <1>1, <1>2 DEF IInv, TypeOK
<1>4. Flash' /\ Halfway'
  BY <1>1, FlashKept DEF IInv, Halfway
<1>5. \A r : /\ Whole(r)' = Whole(r) /\ Moving(r)' = Moving(r) /\ Copied(r)' = Copied(r)
             /\ FirstAddress(r)' = FirstAddress(r)
  BY <1>1, PagesKept
<1>6. /\ \A r, n : Ready(r, n)' = Ready(r, n)
      /\ \A r, x : Holding(r, x)' = Holding(r, x) /\ Latest(r, x)' = Latest(r, x)
  BY <1>1, PagesKept
<1>7. Settled' /\ Beyond' /\ Resting' /\ Clearing'
  BY <1>1, <1>2, <1>5 DEF IInv, Settled, Beyond, Resting, Clearing
<1> DEFINE v == Head(copy)
<1>8. PICK l \in Nat \ {0} : l = Len(copy) /\ Len(copy') = l - 1
  BY <1>1, <1>2, OneLess
<1>9. /\ v \in Pending /\ v = copy[1] /\ Pending = Pending' \cup {v}
      /\ Distinct => Distinct' /\ v \notin Pending'
  BY <1>1, <1>2, OneLess
<1>10. Spent = 0 /\ Spent' = 0
  BY <1>1 DEF Spent
<1>11. ASSUME NEW r \in {0, 1}, ReadPage(v) = 1 - r, v \in Home, ReadVariable(v) = None
       PROVE  Holding(1 - r, v) = {}
  <2>1. 1 - r \in Page /\ 1 - r # NoPage /\ v # Blank
    BY <1>11, HomePages, AddressInPlaces DEF IInv
  <2>2. Latest(1 - r, v) = None
    BY <1>11, <2>1 DEF ReadVariable
  <2>3. QED BY <2>1, <2>2, Found DEF IInv
<1>12. Writing'
  <2> SUFFICES ASSUME op = "write", Ours, ~unmended
               PROVE  \E r \in {0, 1} : Transferring(r)'
    BY <1>1, <1>2 DEF Writing
  <2>1. PICK r \in {0, 1} : Single(r) \/ Transferring(r)
    BY <1>1 DEF IInv, Writing, Ending
  <2>2. v # asked[1] /\ ReadVariable(v) = None
    <3>1. asked[2] \in Data
      BY DEF IInv, TypeOK
    <3>2. None \notin Data
      BY ValueAssumption
    <3>3. ValueOf(v) = None
      BY <1>1 DEF PassedOver
    <3>4. QED BY <3>1, <3>2, <3>3 DEF ValueOf
  <2>3. Transferring(r)
    <3>1. copy = <<asked[1]>> => v = asked[1]
      BY Tuples
    <3>2. QED BY <1>1, <2>1, <2>2, <3>1 DEF Single
  <2>4. v \in Home /\ ReadPage(v) = 1 - r
    BY <1>1, <2>3, TransferStores
  <2>5. Holding(1 - r, v) = {}
    BY <1>11, <2>2, <2>4
  <2>6. Passed(r)'
    BY <1>1, <1>2, <2>3, <2>5, PassingOn DEF Transferring
  <2>7. asked[1] \notin Pending /\ FirstAddress(r) = asked[1] /\ Latest(r, asked[1]) = asked[2]
    BY <1>9, <2>2, <2>3 DEF Transferring
  <2>8. Ready(r, Slots - NumOfVar + Len(copy') - Spent')
    <3>1. Ready(r, Slots - NumOfVar + l - 0)
      BY <1>8, <1>10, <2>3, Zenon DEF Transferring
    <3>2. Slots - NumOfVar + (l - 1) - 0 <= Slots - NumOfVar + l - 0
          /\ Slots - NumOfVar + (l - 1) - 0 \in Int /\ Slots - NumOfVar + l - 0 \in Int
      BY Sizes
    <3>3. Ready(r, Slots - NumOfVar + (l - 1) - 0)
      BY <3>1, <3>2, Fewer
    <3>4. QED BY <1>8, <1>10, <3>3, Zenon
  <2>9. Len(copy') <= NumOfVar
    BY <1>8, <2>3, Sizes DEF Transferring
  <2>10. Pending' \subseteq Home /\ Distinct' /\ asked[1] \notin Pending'
         /\ \A x \in Pending' : Holding(r, x) = {}
    BY <1>9, <2>3, <2>7 DEF Transferring
  <2>11. todo = <<Erase(1 - r), Mark(r)>> /\ Moving(r) /\ Copied(r)
    BY <2>3 DEF Transferring
  <2>12. Transferring(r)'
    BY <1>1, <1>5, <1>6, <2>6, <2>7, <2>8, <2>9, <2>10, <2>11, Zenon DEF Transferring, Erase, Mark
  <2>13. QED BY <2>12
<1>13. Recovery'
  <2> SUFFICES ASSUME op = "init", pair = 1 PROVE \E r \in {0, 1} : Mending(r)'
    BY <1>1, <1>2 DEF Recovery
  <2>1. PICK r \in {0, 1} : /\ todo = <<Mark(r), Erase(1 - r)>> /\ Moving(r)
                            /\ unmended \/ Recovering(r)
    BY <1>1 DEF IInv, Recovery, Formatting, Mending
  <2>2. CASE unmended
    BY <1>1, <1>5, <2>1, <2>2 DEF Mending, Mark, Erase
  <2>3. CASE Recovering(r)
    <3>1. v \in Home /\ ReadPage(v) = 1 - r
      BY <1>1, <2>1, <2>3, RecoveryStores
    <3>2. FirstAddress(r) = v \/ ReadVariable(v) = None
      BY <1>1, <2>1, OverFirst
    <3>3. Holding(1 - r, v) = {} \/ Holding(r, v) # {}
      <4>1. CASE FirstAddress(r) = v
        <5>1. 1 \in 1 .. Slots
          BY Sizes
        <5>2. QED BY <4>1, <5>1 DEF FirstAddress, Holding
      <4>2. CASE ReadVariable(v) = None
        BY <1>11, <3>1, <4>2
      <4>3. QED BY <3>2, <4>1, <4>2
    <3>4. Passed(r)'
      BY <1>1, <1>2, <2>3, <3>3, PassingOn DEF Recovering
    <3>5. Ready(r, Len(copy') - (IF FirstAddress(r) \in Pending' THEN 1 ELSE 0) - Spent')
      <4>1. PICK c \in {0, 1} : c = IF FirstAddress(r) \in Pending THEN 1 ELSE 0
        OBVIOUS
      <4>2. PICK d \in {0, 1} : d = IF FirstAddress(r) \in Pending' THEN 1 ELSE 0
        OBVIOUS
      <4>3. Ready(r, l - c - 0)
        BY <1>8, <1>10, <2>3, <4>1, Zenon DEF Recovering
      <4>4. (l - 1) - d <= l - c
        <5>1. c = 1 => d = 0 \/ d = 1
          OBVIOUS
        <5>2. c = 0 => d = 0
          BY <1>9, <4>1, <4>2
        <5>3. QED BY <5>1, <5>2
      <4>5. Ready(r, (l - 1) - d - 0)
        BY <4>3, <4>4, Fewer
      <4>6. QED BY <1>8, <1>10, <4>2, <4>5, Zenon
    <3>6. Len(copy') <= NumOfVar
      BY <1>8, <2>3, Sizes DEF Recovering
    <3>7. Pending' \subseteq Home /\ Distinct'
      BY <1>9, <2>3 DEF Recovering
    <3>8. Recovering(r)'
      BY <1>1, <1>5, <1>6, <2>3, <3>4, <3>5, <3>6, <3>7, Zenon DEF Recovering
    <3>9. QED BY <1>1, <1>5, <2>1, <3>8, Zenon DEF Mending, Mark, Erase
  <2>4. QED BY <2>1, <2>2, <2>3
<1>14. QED BY <1>3, <1>4, <1>2, <1>7, <1>12, <1>13 DEF IInv

\* A store that fails leaves the first pair whole.
LEMMA StoreFailsStep ==
  ASSUME IInv, StoreFails
  PROVE  IInv'
<1> DEFINE v == Head(copy)
<1>1. /\ Storing /\ StoreError(v) # "" /\ ~PassedOver(v) /\ copy # << >> /\ half = << >>
      /\ UNCHANGED <<pages, half, locked, unmended>>
  BY Zenon DEF StoreFails, Storing
<1>2. \/ op = "init" /\ copy' = Tail(copy) /\ UNCHANGED <<op, asked, pair, todo, status>>
      \/ Return(StoreError(v))
  BY <1>1, Zenon DEF StoreFails, Unheeded
<1>3. Flash' /\ Halfway'
  BY <1>1, FlashKept DEF IInv, Halfway
<1>4. \A r : Whole(r)' = Whole(r) /\ Moving(r)' = Moving(r)
  BY <1>1, PagesKept
<1>5. ASSUME op = "init", pair = 1 PROVE unmended
  BY <1>1, <1>5, RecoveryStores DEF IInv, Recovery, Formatting, Mending
<1>6. CASE op = "init" /\ copy' = Tail(copy) /\ UNCHANGED <<op, asked, pair, todo, status>>
  <2>1. /\ op = "init" /\ pair # 0 /\ copy' \in Seq(Nat) /\ Control' /\ Ours' = Ours
    BY <1>1, <1>6, Shifted
  <2>2. TypeOK'
    BY <1>1, <1>6, <2>1 DEF IInv, TypeOK
  <2>3. Settled' /\ Beyond' /\ Resting' /\ Clearing' /\ Writing'
    BY <1>1, <1>4, <1>6, <2>1 DEF IInv, Settled, Beyond, Resting, Clearing, Writing
  <2>4. Recovery'
    <3> SUFFICES ASSUME pair = 1 PROVE \E r \in {0, 1} : Mending(r)'
      BY <1>6 DEF Recovery
    <3>1. PICK r \in {0, 1} : todo = <<Mark(r), Erase(1 - r)>> /\ Moving(r)
      BY <1>1, <2>1 DEF IInv, Recovery, Formatting, Mending
    <3>2. QED BY <1>1, <1>4, <1>5, <1>6, <3>1 DEF Mending, Mark, Erase
  <2>5. QED BY <1>3, <2>1, <2>2, <2>3, <2>4 DEF IInv
<1>7. CASE Return(StoreError(v))
  <2>1. /\ op' = "idle" /\ status' = StoreError(v) /\ asked' = << >> /\ half' = << >>
        /\ copy' = << >> /\ todo' = << >> /\ pair' = 0
    BY <1>1, <1>7 DEF Return
  <2>2. StoreError(v) \in {"", "FLASH_COMPLETE", "PAGE_FULL", NoPage, "FLASH_ERROR_PG"}
    BY Zenon DEF StoreError
  <2>3. TypeOK'
    <3>1. pair' \in 0 .. Pairs /\ copy' \in Seq(Nat)
          /\ todo' \in Seq([page : Page, status : {"ERASED", "VALID_PAGE"}])
      BY <2>1, Sizes, NoneLeft
    <3>2. QED BY <1>1, <2>1, <2>2, <3>1 DEF IInv, TypeOK
  <2>4. Control'
    BY <2>1, NoneLeft DEF Control
  <2>5. unmended \/ \E r \in {0, 1} : Whole(r)
    <3>1. op \in {"write", "init"} /\ (op = "init" => pair \in 0 .. Pairs /\ pair # 0)
      BY <1>1 DEF IInv, TypeOK, Control
    <3>2. CASE op = "write" /\ ~Ours
      BY <3>2 DEF IInv, Settled
    <3>3. CASE op = "write" /\ Ours
      <4>1. unmended \/ \E r \in {0, 1} : Single(r) \/ Transferring(r)
        BY <1>1, <3>3 DEF IInv, Writing, Ending
      <4>2. \A r \in {0, 1} : ~Transferring(r)
        BY <1>1, <3>3, TransferStores
      <4>3. QED BY <4>1, <4>2 DEF Single
    <3>4. CASE op = "init" /\ 1 < pair
      BY <3>4 DEF IInv, Beyond
    <3>5. QED BY <1>5, <3>1, <3>2, <3>3, <3>4
  <2>6. Settled' /\ Beyond' /\ Resting' /\ Clearing' /\ Writing' /\ Recovery'
    BY <1>1, <1>4, <2>1, <2>5 DEF Settled, Beyond, Resting, Clearing, Writing, Recovery
  <2>7. QED BY <1>3, <2>3, <2>4, <2>6 DEF IInv
<1>8. QED BY <1>2, <1>6, <1>7

-----------------------------------------------------------------------------
(* Marks and erasures                                                      *)

LEMMA Operated ==
  ASSUME IInv, ProgramPage, NEW p \in Page
  PROVE  /\ Head(todo) = Erase(p) => pages' = [pages EXCEPT ![p] = EmptyPage]
         /\ Head(todo) = Mark(p) => pages' = [pages EXCEPT ![p].status = "VALID_PAGE"]
         /\ Head(todo) = Erase(p) => Status(p)' = "ERASED" /\ Unused(p)'
         /\ Head(todo) = Mark(p) => /\ Status(p)' = "VALID_PAGE" /\ Unused(p)' = Unused(p)
                                    /\ \A x : Latest(p, x)' = Latest(p, x)
         /\ Head(todo) \in {Erase(p), Mark(p)} =>
              \A q \in Page : q # p => /\ Status(q)' = Status(q) /\ Unused(q)' = Unused(q)
                                       /\ \A x : Latest(q, x)' = Latest(q, x)
<1>1. /\ Head(todo) = Erase(p) => pages' = [pages EXCEPT ![p] = EmptyPage]
      /\ Head(todo) = Mark(p) => pages' = [pages EXCEPT ![p].status = "VALID_PAGE"]
  <2>1. Erase(p).page = p /\ Mark(p).page = p /\ Erase(p) # Mark(p)
    BY DEF Erase, Mark
  <2>2. pages' = IF Head(todo) = Erase(Head(todo).page)
                 THEN [pages EXCEPT ![Head(todo).page] = EmptyPage]
                 ELSE [pages EXCEPT ![Head(todo).page].status = "VALID_PAGE"]
    BY DEF ProgramPage
  <2>3. QED BY <2>1, <2>2, Zenon
<1>2. CASE Head(todo) = Erase(p)
  <2>1. Erase(p) # Mark(p)
    BY DEF Erase, Mark
  <2>2. QED BY <1>1, <1>2, <2>1, Erased DEF IInv, Unused
<1>3. CASE Head(todo) = Mark(p)
  <2>1. Erase(p) # Mark(p)
    BY DEF Erase, Mark
  <2>2. QED BY <1>1, <1>3, <2>1, StatusProgrammed DEF IInv, Unused
<1>4. QED BY <1>1, <1>2, <1>3

\* Each erasure or mark takes the pair from one line of its plan to the next.
LEMMA ProgramPageStep ==
  ASSUME IInv, ProgramPage
  PROVE  IInv'
<1>1. /\ copy = << >> /\ half = << >> /\ todo # << >> /\ ~locked /\ todo' = Tail(todo)
      /\ UNCHANGED <<op, asked, pair, copy, half, status, locked, unmended>>
  BY DEF ProgramPage
<1>2. /\ op \in {"write", "init", "clear"} /\ (op = "write" => pair = 0)
      /\ (op # "write" => pair # 0) /\ pair \in 0 .. Pairs
  BY <1>1 DEF IInv, Control, TypeOK
<1>3. /\ todo \in Seq([page : Page, status : {"ERASED", "VALID_PAGE"}])
      /\ Len(todo) \in Nat \ {0} /\ 1 \in 1 .. Len(todo) /\ Head(todo) = todo[1]
      /\ Head(todo) \in [page : Page, status : {"ERASED", "VALID_PAGE"}]
      /\ todo' \in Seq([page : Page, status : {"ERASED", "VALID_PAGE"}])
      /\ Len(todo') = Len(todo) - 1 /\ \A i \in 1 .. Len(todo) - 1 : todo'[i] = todo[i + 1]
  <2>1. todo \in Seq([page : Page, status : {"ERASED", "VALID_PAGE"}])
    BY DEF IInv, TypeOK
  <2>2. QED BY <1>1, <2>1, HeadAndTail
<1>4. PICK p \in Page : Head(todo) \in {Erase(p), Mark(p)} /\ Head(todo).page = p
  <2>1. Head(todo) \in [page : Page, status : {"ERASED", "VALID_PAGE"}]
    BY <1>3
  <2>2. QED BY <2>1 DEF Erase, Mark
<1>5. ASSUME NEW q \in Page
      PROVE  /\ pages'[q] \in [status : {"ERASED", "RECEIVE_DATA", "VALID_PAGE"},
                               slot : [1 .. Slots -> [data : Data \cup {Blank},
                                                      address : Addresses \cup {Blank}]]]
             /\ \A k \in 1 .. Slots : \/ pages'[q].slot[k].address = pages[q].slot[k].address
                                      \/ pages'[q].slot[k].address = Blank
             /\ Packed(q)' /\ (Status(q)' = "ERASED" => Unused(q)')
  <2>1. /\ pages \in [Page -> [status : {"ERASED", "RECEIVE_DATA", "VALID_PAGE"},
                               slot : [1 .. Slots -> [data : Data \cup {Blank},
                                                      address : Addresses \cup {Blank}]]]]
        /\ Packed(q) /\ (Status(q) = "ERASED" => Unused(q))
    BY DEF IInv, TypeOK, Flash
  <2>2. CASE Head(todo) = Erase(p)
    <3>1. pages' = [pages EXCEPT ![p] = EmptyPage]
      BY <1>1, <2>2, Operated
    <3>2. EmptyPage \in [status : {"ERASED", "RECEIVE_DATA", "VALID_PAGE"},
                         slot : [1 .. Slots -> [data : Data \cup {Blank},
                                                address : Addresses \cup {Blank}]]]
          /\ \A k \in 1 .. Slots : EmptyPage.slot[k].address = Blank
      BY DEF EmptyPage
    <3>3. CASE q = p
      <4>1. Unused(q)'
        BY <2>2, <3>3, Operated
      <4>2. Packed(q)'
        BY <4>1 DEF Unused, Packed
      <4>3. pages'[q] = EmptyPage
        BY <2>1, <3>1, <3>3
      <4>4. QED BY <3>2, <4>1, <4>2, <4>3
    <3>4. CASE q # p
      <4>1. pages'[q] = pages[q]
        BY <2>1, <3>1, <3>4
      <4>2. Status(q)' = Status(q) /\ Free(q)' = Free(q)
        BY <4>1 DEF Status, Free
      <4>3. QED BY <2>1, <4>1, <4>2 DEF Packed, Unused
    <3>5. QED BY <3>3, <3>4
  <2>3. CASE Head(todo) = Mark(p)
    <3>1. pages' = [pages EXCEPT ![p].status = "VALID_PAGE"]
      BY <1>1, <2>3, Operated
    <3>2. /\ Status(q)' = IF q = p THEN "VALID_PAGE" ELSE Status(q)
          /\ Free(q)' = Free(q) /\ pages'[q].slot = pages[q].slot
      BY <3>1, StatusProgrammed DEF IInv
    <3>3. Packed(q)' /\ (Status(q)' = "ERASED" => Unused(q)')
      BY <2>1, <3>2 DEF Packed, Unused
    <3>4. pages'[q] \in [status : {"ERASED", "RECEIVE_DATA", "VALID_PAGE"},
                         slot : [1 .. Slots -> [data : Data \cup {Blank},
                                                address : Addresses \cup {Blank}]]]
      BY <2>1, <3>1
    <3>5. QED BY <3>2, <3>3, <3>4
  <2>4. QED BY <1>4, <2>2, <2>3
<1>6. pages' \in [Page -> [status : {"ERASED", "RECEIVE_DATA", "VALID_PAGE"},
                           slot : [1 .. Slots -> [data : Data \cup {Blank},
                                                  address : Addresses \cup {Blank}]]]]
  <2>1. DOMAIN pages' = Page /\ pages' = [q \in DOMAIN pages' |-> pages'[q]]
    <3>1. \/ pages' = [pages EXCEPT ![p] = EmptyPage]
          \/ pages' = [pages EXCEPT ![p].status = "VALID_PAGE"]
      BY <1>1, <1>4, Operated
    <3>2. DOMAIN pages = Page
      BY DEF IInv, TypeOK
    <3>3. QED BY <3>1, <3>2
  <2>2. QED BY <1>5, <2>1
<1>7. TypeOK'
  BY <1>1, <1>3, <1>6 DEF IInv, TypeOK
<1>8. Flash'
  <2>1. ASSUME NEW q \in {0, 1}, NEW k \in 1 .. Slots
        PROVE  pages'[q].slot[k].address \in Home \cup {Blank}
    <3>1. pages[q].slot[k].address \in Home \cup {Blank} /\ q \in Page
      BY FirstPages DEF IInv, Flash
    <3>2. QED BY <1>5, <3>1
  <2>2. QED BY <1>5, <2>1 DEF Flash
<1>9. Control'
  <2>1. Ours' = Ours
    BY <1>1 DEF Ours
  <2>2. ASSUME ~Ours
        PROVE  \A i \in 1 .. Len(todo') : todo'[i].page \notin {0, 1}
    <3>1. \A i \in 1 .. Len(todo) : todo[i].page \notin {0, 1}
      BY <2>2 DEF IInv, Control
    <3>2. PICK l \in Nat \ {0} : l = Len(todo)
      BY <1>3
    <3>3. \A i \in 1 .. l - 1 : i + 1 \in 1 .. l
      OBVIOUS
    <3>4. QED BY <1>3, <3>1, <3>2, <3>3
  <2>3. Len(copy) = 0 /\ \A i \in 1 .. Len(copy) : copy[i] \notin Home
    BY <1>1
  <2>4. copy \in Seq(Places)
    BY DEF IInv, Control
  <2>5. QED BY <1>1, <1>2, <2>1, <2>2, <2>3, <2>4 DEF Control
<1>10. Halfway' /\ Resting'
  BY <1>1, <1>2 DEF Halfway, Resting
<1>11. ASSUME ~Ours PROVE Settled' /\ Writing' /\ Recovery' /\ Clearing' /\ Beyond'
  <2>1. p \notin {0, 1}
    BY <1>3, <1>4, <1>11 DEF IInv, Control
  <2>2. \A r \in {0, 1} : Whole(r)' = Whole(r) /\ Unused(r)' = Unused(r)
    BY <1>4, <2>1, Operated, FirstPages DEF Whole
  <2>3. Ours' = Ours
    BY <1>1 DEF Ours
  <2>4. QED BY <1>1, <1>2, <1>11, <2>2, <2>3
        DEF IInv, Settled, Writing, Recovery, Clearing, Beyond, Ours
<1>12. ASSUME Ours PROVE Settled' /\ Beyond'
  BY <1>1, <1>2, <1>12 DEF Settled, Beyond, Ours
<1>13. ASSUME NEW r \in {0, 1}
       PROVE  /\ Head(todo) = Erase(r) =>
                   /\ Status(r)' = "ERASED" /\ Unused(r)'
                   /\ Status(1 - r)' = Status(1 - r) /\ Unused(1 - r)' = Unused(1 - r)
                   /\ \A x : Latest(1 - r, x)' = Latest(1 - r, x)
              /\ Head(todo) = Mark(r) =>
                   /\ Status(r)' = "VALID_PAGE" /\ Unused(r)' = Unused(r)
                   /\ Status(1 - r)' = Status(1 - r) /\ Unused(1 - r)' = Unused(1 - r)
                   /\ \A x : Latest(r, x)' = Latest(r, x)
              /\ 1 - r \in {0, 1} /\ 1 - (1 - r) = r
  <2>1. r \in Page /\ 1 - r \in Page /\ r # 1 - r /\ 1 - r \in {0, 1} /\ 1 - (1 - r) = r
    BY FirstPages
  <2>2. QED BY <1>1, <2>1, Operated, Zenon
<1>14. Writing'
  <2> SUFFICES ASSUME op = "write", Ours, ~unmended
               PROVE  \E r \in {0, 1} : Single(r)' \/ Ending(r)'
    BY <1>1 DEF Writing, Ours
  <2>1. PICK r \in {0, 1} : Transferring(r) \/ Ending(r)
    BY <1>1 DEF IInv, Writing, Single
  <2>2. CASE Transferring(r)
    <3>1. Head(todo) = Erase(1 - r) /\ todo' = <<Mark(r)>>
      BY <1>1, <2>2, Tuples DEF Transferring
    <3>2. asked[1] \notin Pending
      BY <1>1 DEF Pending
    <3>3. Moving(r) /\ Latest(r, asked[1]) = asked[2]
      BY <2>2, <3>2 DEF Transferring
    <3>4. Moved(r)'
      BY <1>13, <3>1, <3>3 DEF Moving, Moved
    <3>5. \A x : Latest(r, x)' = Latest(r, x)
      <4>1. 1 - r \in {0, 1} /\ 1 - (1 - r) = r
        BY FirstPages
      <4>2. QED BY <1>13, <3>1, <4>1, Zenon
    <3>6. asked' = asked /\ Latest(r, asked[1])' = asked[2]
      BY <1>1, <3>3, <3>5, Zenon
    <3>7. QED BY <1>1, <3>1, <3>4, <3>6 DEF Ending, Mark
  <2>3. CASE Ending(r)
    <3>1. Head(todo) = Mark(r) /\ todo' = << >>
      BY <1>1, <2>3, Tuples DEF Ending
    <3>2. Whole(r)'
      BY <1>13, <2>3, <3>1 DEF Ending, Moved, Whole
    <3>3. \A x : Latest(r, x)' = Latest(r, x)
      BY <1>13, <3>1, Zenon
    <3>4. asked' = asked /\ Latest(r, asked[1])' = asked[2]
      BY <1>1, <2>3, <3>3, Zenon DEF Ending
    <3>5. QED BY <1>1, <3>1, <3>2, <3>4 DEF Single
  <2>4. QED BY <2>1, <2>2, <2>3
<1>15. Recovery'
  <2> SUFFICES ASSUME op = "init", pair = 1
               PROVE  Formatting' \/ \E r \in {0, 1} : Mending(r)'
    BY <1>1 DEF Recovery
  <2>1. CASE todo = Format(0) /\ (unmended \/ Fresh \/ Cleared)
    <3>1. Head(todo) = Erase(0) /\ todo' = <<Mark(0), Erase(1)>>
      BY <1>1, <2>1, Tuples DEF Format
    <3>2. Status(0)' = "ERASED" /\ Status(1)' = Status(1)
      BY <1>13, <3>1
    <3>3. QED BY <1>1, <2>1, <3>1, <3>2 DEF Formatting, Fresh, Cleared, Mark, Erase
  <2>2. CASE todo = <<Mark(0), Erase(1)>> /\ Status(0) = "ERASED"
             /\ (unmended \/ Status(1) # "RECEIVE_DATA")
    <3>1. Head(todo) = Mark(0) /\ todo' = <<Erase(1)>>
      BY <1>1, <2>2, Tuples
    <3>2. Status(0)' = "VALID_PAGE" /\ Status(1)' = Status(1)
      BY <1>13, <3>1
    <3>3. Mending(0)'
      BY <1>1, <2>2, <3>1, <3>2 DEF Mending, Erase
    <3>4. QED BY <3>3
  <2>3. ASSUME NEW r \in {0, 1}, Mending(r) PROVE \E s \in {0, 1} : Mending(s)'
    <3>1. CASE todo = <<Mark(r), Erase(1 - r)>> /\ Moving(r)
      <4>1. Head(todo) = Mark(r) /\ todo' = <<Erase(1 - r)>>
        BY <1>1, <3>1, Tuples
      <4>2. Status(r)' = "VALID_PAGE" /\ Status(1 - r)' = "VALID_PAGE"
        BY <1>13, <3>1, <4>1 DEF Moving
      <4>3. QED BY <1>1, <4>1, <4>2 DEF Mending, Erase
    <3>2. CASE todo = <<Erase(1 - r)>> /\ Status(r) = "VALID_PAGE"
      <4>1. Head(todo) = Erase(1 - r) /\ todo' = << >>
        BY <1>1, <3>2, Tuples
      <4>2. Status(r)' = "VALID_PAGE" /\ Status(1 - r)' = "ERASED"
        BY <1>13, <3>2, <4>1
      <4>3. QED BY <1>1, <4>1, <4>2 DEF Mending, Whole
    <3>3. CASE todo = <<Mark(r)>> /\ Status(1 - r) = "ERASED"
      <4>1. Head(todo) = Mark(r) /\ todo' = << >>
        BY <1>1, <3>3, Tuples
      <4>2. Status(r)' = "VALID_PAGE" /\ Status(1 - r)' = "ERASED"
        BY <1>13, <3>3, <4>1
      <4>3. QED BY <1>1, <4>1, <4>2 DEF Mending, Whole
    <3>4. CASE todo = <<Erase(1 - r), Mark(r)>> /\ (unmended \/ Moved(r))
      <4>1. Head(todo) = Erase(1 - r) /\ todo' = <<Mark(r)>>
        BY <1>1, <3>4, Tuples
      <4>2. Status(r)' = Status(r) /\ Status(1 - r)' = "ERASED"
        BY <1>13, <4>1
      <4>3. unmended \/ Moved(r)'
        BY <3>4, <4>2 DEF Moved
      <4>4. QED BY <1>1, <4>1, <4>2, <4>3 DEF Mending, Mark
    <3>5. QED BY <1>1, <2>3, <3>1, <3>2, <3>3, <3>4 DEF Mending
  <2>4. QED BY <2>1, <2>2, <2>3 DEF IInv, Recovery, Formatting
<1>16. Clearing'
  <2> SUFFICES ASSUME op = "clear", pair = 1 PROVE Clearing'
    BY <1>1 DEF Clearing
  <2>1. Status(0) = "ERASED" => Unused(0)
    BY FirstPages DEF IInv, Flash
  <2>2. CASE todo = <<Erase(0)>> \o Format(0) /\ (unmended \/ \E r \in {0, 1} : Whole(r))
    <3>1. Erase(0) \in {Erase(0), Mark(0), Erase(1)}
          /\ Format(0) \in Seq({Erase(0), Mark(0), Erase(1)})
      BY DEF Format
    <3>2. Head(todo) = Erase(0) /\ todo' = Format(0)
      BY <1>1, <2>2, <3>1, Longer
    <3>3. Status(0)' = "ERASED" /\ Status(1)' = Status(1)
      BY <1>13, <3>2
    <3>4. unmended \/ Status(1)' # "RECEIVE_DATA"
      BY <2>2, <3>3, FirstPages DEF Whole
    <3>5. QED BY <1>1, <3>2, <3>3, <3>4 DEF Clearing, Format, Mark, Erase
  <2>3. CASE todo = Format(0) /\ (unmended \/ Status(1) # "RECEIVE_DATA")
    <3>1. Head(todo) = Erase(0) /\ todo' = <<Mark(0), Erase(1)>>
      BY <1>1, <2>3, Tuples DEF Format
    <3>2. Status(0)' = "ERASED" /\ Status(1)' = Status(1)
      BY <1>13, <3>1
    <3>3. QED BY <1>1, <2>3, <3>1, <3>2 DEF Clearing, Mark, Erase
  <2>4. CASE todo = <<Mark(0), Erase(1)>> /\ Status(0) = "ERASED"
             /\ (unmended \/ Status(1) # "RECEIVE_DATA")
    <3>1. Head(todo) = Mark(0) /\ todo' = <<Erase(1)>>
      BY <1>1, <2>4, Tuples
    <3>2. Status(0)' = "VALID_PAGE" /\ Status(1)' = Status(1) /\ Unused(0)'
      BY <1>13, <2>1, <2>4, <3>1
    <3>3. QED BY <1>1, <2>4, <3>1, <3>2 DEF Clearing, Mark, Erase
  <2>5. CASE todo = <<Erase(1)>> /\ Status(0) = "VALID_PAGE" /\ Unused(0)
    <3>1. Head(todo) = Erase(1) /\ todo' = << >>
      BY <1>1, <2>5, Tuples
    <3>2. Status(0)' = "VALID_PAGE" /\ Status(1)' = "ERASED" /\ Unused(0)'
      BY <1>13, <2>5, <3>1, FirstPages
    <3>3. QED BY <1>1, <3>1, <3>2, FirstPages DEF Clearing, Whole
  <2>6. QED BY <1>1, <2>2, <2>3, <2>4, <2>5 DEF IInv, Clearing
<1>17. QED BY <1>7, <1>8, <1>9, <1>10, <1>11, <1>12, <1>14, <1>15, <1>16 DEF IInv

-----------------------------------------------------------------------------
(* The walk over the pairs                                                 *)

LEMMA Plans ==
  ASSUME NEW p
  PROVE  LET s0 == Status(p)
             s1 == Status(p + 1)
             plan == RecoveryPlan(p)
         IN \/ s0 = "ERASED" /\ s1 = "VALID_PAGE" /\ plan.copy = << >> /\ plan.todo = <<Erase(p)>>
            \/ s0 = "ERASED" /\ s1 = "RECEIVE_DATA" /\ plan.copy = << >>
               /\ plan.todo = <<Erase(p), Mark(p + 1)>>
            \/ s0 = "RECEIVE_DATA" /\ s1 = "VALID_PAGE" /\ plan.copy = RecoveredVariables(p)
               /\ plan.todo = <<Mark(p), Erase(p + 1)>>
            \/ s0 = "RECEIVE_DATA" /\ s1 = "ERASED" /\ plan.copy = << >>
               /\ plan.todo = <<Erase(p + 1), Mark(p)>>
            \/ s0 = "VALID_PAGE" /\ s1 = "ERASED" /\ plan.copy = << >> /\ plan.todo = <<Erase(p + 1)>>
            \/ s0 = "VALID_PAGE" /\ s1 = "RECEIVE_DATA" /\ plan.copy = RecoveredVariables(p)
               /\ plan.todo = <<Mark(p + 1), Erase(p)>>
            \/ /\ ~(s0 = "ERASED" /\ s1 \in {"VALID_PAGE", "RECEIVE_DATA"})
               /\ ~(s0 = "RECEIVE_DATA" /\ s1 \in {"VALID_PAGE", "ERASED"})
               /\ ~(s0 = "VALID_PAGE" /\ s1 \in {"ERASED", "RECEIVE_DATA"})
               /\ plan.copy = << >> /\ plan.todo = Format(p)
<1> DEFINE s0 == Status(p)
           s1 == Status(p + 1)
<1>1. RecoveryPlan(p) =
        CASE s0 = "ERASED" /\ s1 = "VALID_PAGE" -> Just(<<Erase(p)>>)
          [] s0 = "ERASED" /\ s1 = "RECEIVE_DATA" -> Just(<<Erase(p), Mark(p + 1)>>)
          [] s0 = "RECEIVE_DATA" /\ s1 = "VALID_PAGE" -> CopyThen(p, <<Mark(p), Erase(p + 1)>>)
          [] s0 = "RECEIVE_DATA" /\ s1 = "ERASED" -> Just(<<Erase(p + 1), Mark(p)>>)
          [] s0 = "VALID_PAGE" /\ s1 = "ERASED" -> Just(<<Erase(p + 1)>>)
          [] s0 = "VALID_PAGE" /\ s1 = "RECEIVE_DATA" -> CopyThen(p, <<Mark(p + 1), Erase(p)>>)
          [] OTHER -> Just(Format(p))
  BY DEF RecoveryPlan
<1> HIDE DEF s0, s1
<1>2. \A plan : Just(plan).copy = << >> /\ Just(plan).todo = plan
  BY DEF Just
<1>3. \A plan : CopyThen(p, plan).copy = RecoveredVariables(p) /\ CopyThen(p, plan).todo = plan
  BY DEF CopyThen
<1>4. CASE s0 = "ERASED" /\ s1 = "VALID_PAGE"
  BY <1>1, <1>2, <1>4 DEF s0, s1
<1>5. CASE s0 = "ERASED" /\ s1 = "RECEIVE_DATA"
  BY <1>1, <1>2, <1>5 DEF s0, s1
<1>6. CASE s0 = "RECEIVE_DATA" /\ s1 = "VALID_PAGE"
  BY <1>1, <1>3, <1>6 DEF s0, s1
<1>7. CASE s0 = "RECEIVE_DATA" /\ s1 = "ERASED"
  BY <1>1, <1>2, <1>7 DEF s0, s1
<1>8. CASE s0 = "VALID_PAGE" /\ s1 = "ERASED"
  BY <1>1, <1>2, <1>8 DEF s0, s1
<1>9. CASE s0 = "VALID_PAGE" /\ s1 = "RECEIVE_DATA"
  BY <1>1, <1>3, <1>9 DEF s0, s1
<1>10. CASE /\ ~(s0 = "ERASED" /\ s1 \in {"VALID_PAGE", "RECEIVE_DATA"})
           /\ ~(s0 = "RECEIVE_DATA" /\ s1 \in {"VALID_PAGE", "ERASED"})
           /\ ~(s0 = "VALID_PAGE" /\ s1 \in {"ERASED", "RECEIVE_DATA"})
  BY <1>1, <1>2, <1>10 DEF s0, s1
<1>11. QED BY <1>4, <1>5, <1>6, <1>7, <1>8, <1>9, <1>10

\* What the next pair gives to do is within that pair.
LEMMA Planned ==
  ASSUME IInv, NextPair
  PROVE  /\ copy' \in Seq(Nat) /\ copy' \in Seq(Places)
         /\ todo' \in Seq([page : Page, status : {"ERASED", "VALID_PAGE"}])
         /\ \A i \in 1 .. Len(todo') : todo'[i].page \in {2 * pair, 2 * pair + 1}
         /\ copy' # << >> => todo' # << >> /\ copy' = RecoveredVariables(2 * pair) /\ op = "init"
         /\ Len(RecoveredVariables(2 * pair)) = NumOfVar
         /\ \A i \in 1 .. NumOfVar : RecoveredVariables(2 * pair)[i] = 2 * pair * NumOfVar + i - 1
<1> DEFINE p == 2 * pair
           Step == [page : {p, p + 1}, status : {"ERASED", "VALID_PAGE"}]
<1>1. pair \in 0 .. Pairs - 1
  <2>1. pair \in 0 .. Pairs /\ pair < Pairs
    BY DEF IInv, TypeOK, NextPair
  <2>2. QED BY <2>1, Sizes
<1>2. p \in Page /\ p + 1 \in Page
  BY <1>1, Sizes DEF Page
<1> DEFINE s == RecoveredVariables(p)
<1>3. /\ s \in Seq(Places) /\ s \in Seq(Nat) /\ Len(s) = NumOfVar
      /\ \A i \in 1 .. NumOfVar : s[i] = p * NumOfVar + i - 1
  <2>1. s = [i \in 1 .. NumOfVar |-> p * NumOfVar + i - 1]
    BY DEF RecoveredVariables, Variables
  <2>2. \A i \in 1 .. NumOfVar : p * NumOfVar + i - 1 \in Places /\ p * NumOfVar + i - 1 \in Nat
    BY <1>1, AddressInPlaces
  <2>3. NumOfVar \in Nat
    BY Sizes
  <2> HIDE DEF p, s
  <2>4. s \in [1 .. NumOfVar -> Places] /\ s \in [1 .. NumOfVar -> Nat]
    BY <2>1, <2>2
  <2>5. s \in Seq(Places) /\ s \in Seq(Nat)
    BY <2>3, <2>4
  <2>6. Len(s) = NumOfVar
    BY <2>1, <2>3
  <2>7. QED BY <2>1, <2>5, <2>6
<1>4. Erase(p) \in Step /\ Mark(p) \in Step /\ Erase(p + 1) \in Step /\ Mark(p + 1) \in Step
  BY DEF Erase, Mark
<1>5. /\ todo' \in Seq(Step)
      /\ \/ copy' = << >>
         \/ copy' = s /\ op = "init" /\ todo' # << >>
  <2>1. CASE op = "init"
    <3>1. copy' = RecoveryPlan(p).copy /\ todo' = RecoveryPlan(p).todo
      BY <2>1 DEF NextPair
    <3>2. Format(p) \in Seq(Step)
      BY <1>4 DEF Format
    <3>3. \A a, b \in Step : /\ <<a>> \in Seq(Step) /\ <<a, b>> \in Seq(Step)
                              /\ <<a>> # << >> /\ <<a, b>> # << >>
      OBVIOUS
    <3> HIDE DEF Step, p
    <3>4. QED BY <1>4, <2>1, <3>1, <3>2, <3>3, Plans, Zenon DEF s
  <2>2. CASE op = "clear"
    <3>1. copy' = << >> /\ todo' = <<Erase(p)>> \o Format(p)
      BY <2>2 DEF NextPair, ClearPlan, Just
    <3>2. Format(p) \in Seq(Step)
      BY <1>4 DEF Format
    <3>3. QED BY <1>4, <3>1, <3>2, Longer
  <2>3. QED BY <2>1, <2>2 DEF NextPair, Walking
<1>6. todo' \in Seq([page : Page, status : {"ERASED", "VALID_PAGE"}])
  <2>1. Step \subseteq [page : Page, status : {"ERASED", "VALID_PAGE"}]
    BY <1>2
  <2>2. todo' \in Seq(Step)
    BY <1>5
  <2> HIDE DEF Step
  <2>3. QED BY <2>1, <2>2, Within, Zenon
<1>7. \A i \in 1 .. Len(todo') : todo'[i].page \in {p, p + 1}
  <2>1. \A i \in 1 .. Len(todo') : todo'[i] \in Step
    BY <1>5, Within, Zenon
  <2>2. QED BY <2>1
<1>8. copy' \in Seq(Nat) /\ copy' \in Seq(Places)
  BY <1>3, <1>5, NoneLeft
<1>9. QED BY <1>3, <1>5, <1>6, <1>7, <1>8

\* The plan of a recovery fits the state of the pair it is made for.
LEMMA NextPairStep ==
  ASSUME IInv, NextPair
  PROVE  IInv'
<1>1. /\ op \in {"init", "clear"} /\ copy = << >> /\ half = << >> /\ todo = << >> /\ ~locked
      /\ pair < Pairs /\ pair' = pair + 1
      /\ UNCHANGED <<pages, op, asked, half, status, locked, unmended>>
  BY DEF NextPair, Walking
<1>2. pair \in 0 .. Pairs - 1 /\ pair' \in 1 .. Pairs /\ (pair' = 1) = (pair = 0)
      /\ (1 < pair') = (pair # 0)
  <2>1. pair \in 0 .. Pairs
    BY DEF IInv, TypeOK
  <2>2. QED BY <1>1, <2>1, Sizes
<1>3. TypeOK'
  <2>1. pair' \in 0 .. Pairs
    BY <1>2, Sizes
  <2>2. QED BY <1>1, <2>1, Planned DEF IInv, TypeOK
<1>4. Flash' /\ Halfway'
  BY <1>1, FlashKept DEF IInv, Halfway
<1>5. Control'
  <2>1. ASSUME ~Ours'
        PROVE  /\ \A i \in 1 .. Len(copy') : copy'[i] \notin Home
               /\ \A i \in 1 .. Len(todo') : todo'[i].page \notin {0, 1}
    <3>1. pair \in Nat /\ 1 <= pair
      BY <1>1, <1>2, <2>1 DEF Ours
    <3>2. 2 * pair \notin {0, 1} /\ 2 * pair + 1 \notin {0, 1}
      BY <3>1
    <3>3. \A i \in 1 .. NumOfVar : 2 * pair * NumOfVar + i - 1 \notin Home
      <4>1. PICK b \in Nat : b = (pair - 1) * NumOfVar
        BY <3>1, Sizes
      <4>2. 2 * pair * NumOfVar = 2 * b + 2 * NumOfVar
        BY <3>1, <4>1, Sizes
      <4>3. PICK c \in Nat : c = 2 * pair * NumOfVar /\ NumOfVar <= c
        BY <4>2, Sizes
      <4>4. \A i \in 1 .. NumOfVar : c + i - 1 \notin 0 .. NumOfVar - 1
        BY <4>3, Sizes
      <4>5. QED BY <4>3, <4>4 DEF Home
    <3>4. \A i \in 1 .. Len(copy') : copy'[i] \notin Home
      <4>1. CASE copy' = << >>
        BY <4>1
      <4>2. CASE copy' = RecoveredVariables(2 * pair)
        BY <3>3, <4>2, Planned, Zenon
      <4>3. QED BY <4>1, <4>2, Planned
    <3>5. QED BY <3>2, <3>4, Planned
  <2>2. pair' # 0
    BY <1>2
  <2>3. QED BY <1>1, <2>1, <2>2, Planned DEF Control
<1>6. \A r : /\ Whole(r)' = Whole(r) /\ Moving(r)' = Moving(r) /\ Moved(r)' = Moved(r)
             /\ Copied(r)' = Copied(r) /\ FirstAddress(r)' = FirstAddress(r)
             /\ Unused(r)' = Unused(r) /\ Status(r)' = Status(r)
             /\ \A n : Ready(r, n)' = Ready(r, n)
  BY <1>1, PagesKept
<1>7. Resting' /\ Settled' /\ Writing'
  BY <1>1, <1>2 DEF Resting, Settled, Writing
<1>8. CASE pair = 0
  <2>1. Beyond' /\ pair' = 1
    BY <1>2, <1>8 DEF Beyond
  <2>2. CASE op = "clear"
    <3>1. unmended \/ \E r \in {0, 1} : Whole(r)
      BY <1>8, <2>2 DEF IInv, Settled
    <3>2. todo' = <<Erase(0)>> \o Format(0)
      BY <1>8, <2>2 DEF NextPair, ClearPlan, Just
    <3>3. Clearing'
      BY <1>1, <1>6, <3>1, <3>2 DEF Clearing, Format, Erase, Mark
    <3>4. QED BY <1>1, <1>3, <1>4, <1>5, <1>7, <2>1, <2>2, <3>3 DEF IInv, Recovery
  <2>3. CASE op = "init"
    <3>1. unmended \/ Fresh \/ Cleared \/ \E r \in {0, 1} : Whole(r) \/ Torn(r) \/ Moved(r)
      BY <1>8, <2>3 DEF IInv, Resting
    <3>2. copy' = RecoveryPlan(0).copy /\ todo' = RecoveryPlan(0).todo /\ 0 + 1 = 1
      BY <1>8, <2>3 DEF NextPair
    <3>3. ASSUME NEW r \in {0, 1}, Moving(r), copy' = RecoveredVariables(0),
                 todo' = <<Mark(r), Erase(1 - r)>>
          PROVE  Mending(r)'
      <4>1. CASE unmended
        BY <1>1, <1>6, <3>3, <4>1 DEF Mending, Erase, Mark
      <4>2. CASE ~unmended
        <5>1. Torn(r)
          BY <3>1, <3>3, <4>2, FirstPages DEF Fresh, Cleared, Whole, Torn, Moving, Moved
        <5>2. Len(copy') = NumOfVar /\ \A i \in 1 .. NumOfVar : copy'[i] = i - 1
          <6>1. 2 * pair = 0 /\ 2 * pair * NumOfVar = 0
            BY <1>8, Sizes
          <6>2. \A i \in 1 .. NumOfVar : 0 + i - 1 = i - 1
            OBVIOUS
          <6>3. QED BY <3>3, <6>1, <6>2, Planned
        <5>3. Pending' = Home
          <6>1. \A x \in Home : x + 1 \in 1 .. NumOfVar /\ x = (x + 1) - 1
            BY Sizes DEF Home
          <6>2. \A i \in 1 .. NumOfVar : i - 1 \in Home
            BY Sizes DEF Home
          <6>3. Pending' = {copy'[i] : i \in 1 .. NumOfVar}
            BY <5>2 DEF Pending
          <6>4. \A x \in Home : x = copy'[x + 1]
            BY <5>2, <6>1
          <6>5. QED BY <5>2, <6>1, <6>2, <6>3, <6>4
        <5>4. Distinct'
          BY <5>2 DEF Distinct
        <5>5. Passed(r)'
          BY <5>3 DEF Passed
        <5>6. Ready(r, Len(copy') - (IF FirstAddress(r) \in Pending' THEN 1 ELSE 0) - Spent')
          <6>1. Spent' = 0
            BY <1>1 DEF Spent
          <6>2. FirstAddress(r) \in Home \cup {Blank}
            <7>1. 1 \in 1 .. Slots
              BY Sizes
            <7>2. QED BY <7>1 DEF IInv, Flash, FirstAddress
          <6>3. (IF FirstAddress(r) \in Pending' THEN 1 ELSE 0)
                = (IF FirstAddress(r) = Blank THEN 0 ELSE 1)
            BY <5>3, <6>2, AddressInPlaces
          <6>4. PICK c \in {0, 1} : c = IF FirstAddress(r) = Blank THEN 0 ELSE 1
            OBVIOUS
          <6>5. Ready(r, NumOfVar - c) /\ NumOfVar - c - 0 = NumOfVar - c
            BY <5>1, <6>4, Sizes DEF Torn
          <6>6. QED BY <5>2, <6>1, <6>3, <6>4, <6>5, Zenon
        <5>7. Copied(r) /\ NumOfVar <= NumOfVar
          BY <5>1, Sizes DEF Torn
        <5>8. Recovering(r)'
          BY <1>1, <1>6, <5>2, <5>3, <5>4, <5>5, <5>6, <5>7, Zenon DEF Recovering
        <5>9. QED BY <1>1, <1>6, <3>3, <5>8, Zenon DEF Mending, Erase, Mark
      <4>3. QED BY <4>1, <4>2
    <3>4. ASSUME copy' = << >>, todo' = Format(0), unmended \/ Fresh \/ Cleared
          PROVE  Formatting'
      <4>1. Fresh' = Fresh /\ Cleared' = Cleared
        BY <1>6 DEF Fresh, Cleared
      <4>2. Format(0)' = Format(0)
        BY DEF Format, Erase, Mark
      <4>3. QED BY <1>1, <3>4, <4>1, <4>2 DEF Formatting
    <3>5. \A p : Status(p) \in {"ERASED", "RECEIVE_DATA", "VALID_PAGE"}
      BY StatusTypes DEF IInv
    <3>6. \A r \in {0, 1} :
            /\ copy' = << >> /\ todo' = <<Erase(1 - r)>> /\ Whole(r) => Mending(r)'
            /\ copy' = << >> /\ todo' = <<Erase(1 - r), Mark(r)>> /\ Moved(r) => Mending(r)'
      BY <1>1, <1>6 DEF Mending, Whole, Moved, Erase, Mark
    <3>7. Formatting' \/ \E r \in {0, 1} : Mending(r)'
      <4>1. CASE Status(0) = "ERASED" /\ Status(1) = "VALID_PAGE"
        BY <3>2, <3>6, <4>1, Plans, FirstPages DEF Whole
      <4>2. CASE Status(0) = "ERASED" /\ Status(1) = "RECEIVE_DATA"
        BY <3>2, <3>6, <4>2, Plans, FirstPages DEF Moved
      <4>3. CASE Status(0) = "RECEIVE_DATA" /\ Status(1) = "VALID_PAGE"
        BY <3>2, <3>3, <4>3, Plans, FirstPages DEF Moving
      <4>4. CASE Status(0) = "RECEIVE_DATA" /\ Status(1) = "ERASED"
        BY <3>2, <3>6, <4>4, Plans, FirstPages DEF Moved
      <4>5. CASE Status(0) = "VALID_PAGE" /\ Status(1) = "ERASED"
        BY <3>2, <3>6, <4>5, Plans, FirstPages DEF Whole
      <4>6. CASE Status(0) = "VALID_PAGE" /\ Status(1) = "RECEIVE_DATA"
        BY <3>2, <3>3, <4>6, Plans, FirstPages DEF Moving
      <4>7. CASE Status(0) = Status(1)
        <5>1. unmended \/ Fresh \/ Cleared
          BY <3>1, <4>7, FirstPages DEF Whole, Torn, Moving, Moved
        <5>2. copy' = << >> /\ todo' = Format(0)
          BY <3>2, <4>7, Plans
        <5>3. QED BY <3>4, <5>1, <5>2
      <4>8. QED BY <3>5, <4>1, <4>2, <4>3, <4>4, <4>5, <4>6, <4>7
    <3>8. Recovery' /\ Clearing'
      BY <1>1, <2>3, <3>7 DEF Recovery, Clearing
    <3>9. QED BY <1>3, <1>4, <1>5, <1>7, <2>1, <3>8 DEF IInv
  <2>4. QED BY <1>1, <2>2, <2>3
<1>9. CASE pair # 0
  <2>1. Recovery' /\ Clearing'
    BY <1>2, <1>9 DEF Recovery, Clearing
  <2>2. \E r \in {0, 1} : Whole(r) /\ (op = "clear" => r = 0 /\ Unused(0))
    <3>1. pair = 1 \/ 1 < pair
      BY <1>2, <1>9
    <3>2. CASE 1 < pair
      BY <1>1, <3>2 DEF IInv, Beyond
    <3>3. CASE pair = 1 /\ op = "init"
      BY <1>1, <3>3, Tuples DEF IInv, Recovery, Formatting, Mending, Format
    <3>4. CASE pair = 1 /\ op = "clear"
      BY <1>1, <3>4, Tuples DEF IInv, Clearing, Format
    <3>5. QED BY <1>1, <3>1, <3>2, <3>3, <3>4
  <2>3. Beyond'
    BY <1>1, <1>6, <2>2 DEF Beyond
  <2>4. QED BY <1>3, <1>4, <1>5, <1>7, <2>1, <2>3 DEF IInv
<1>10. QED BY <1>8, <1>9

-----------------------------------------------------------------------------
(* The start of a transfer                                                 *)

LEMMA OthersOf ==
  ASSUME NEW v \in Nat, First(v) \in Page
  PROVE  /\ Others(v) \in Seq(Places) /\ Len(Others(v)) = NumOfVar - 1
         /\ v \notin Home => \A i \in 1 .. NumOfVar - 1 : Others(v)[i] \notin Home
         /\ v \in Home => \A i \in 1 .. NumOfVar - 1 :
                            Others(v)[i] = IF i - 1 < v THEN i - 1 ELSE i
<1>1. PICK q \in Nat : q = v \div NumOfVar
  BY Sizes
<1>2. q \in 0 .. Pairs - 1
  BY <1>1, Sizes DEF First, Page
<1>3. PICK K \in Nat : K = Pairs * NumOfVar
  BY Sizes
<1>4. PICK b \in Nat : b = q * NumOfVar
  BY Sizes
<1>5. b + NumOfVar <= K
  <2>1. PICK m \in Nat : q = Pairs - 1 - m
    BY <1>2, Sizes
  <2>2. PICK c \in Nat : c = m * NumOfVar
    BY Sizes
  <2>3. q * NumOfVar = K - NumOfVar - c
    BY <1>3, <2>1, <2>2, Sizes
  <2>4. QED BY <1>4, <2>3, Sizes
<1>6. Places = 0 .. 2 * K
  BY <1>3, Sizes DEF Places
<1>7. Others(v) = [i \in 1 .. NumOfVar - 1 |-> IF b + i - 1 < v THEN b + i - 1 ELSE b + i]
  BY <1>1, <1>4, Zenon DEF Others
<1>8. \A i \in 1 .. NumOfVar - 1 : b + i - 1 \in Places /\ b + i \in Places
  BY <1>5, <1>6, Sizes
<1>9. Others(v) \in Seq(Places) /\ Len(Others(v)) = NumOfVar - 1
  <2>1. Others(v) \in [1 .. NumOfVar - 1 -> Places]
    BY <1>7, <1>8
  <2>2. PICK n \in Nat : n = NumOfVar - 1
    BY Sizes
  <2>3. QED BY <2>1, <2>2
<1>10. ASSUME v \notin Home, NEW i \in 1 .. NumOfVar - 1 PROVE Others(v)[i] \notin Home
  <2>1. 1 <= q
    BY <1>1, <1>10, Sizes DEF Home
  <2>2. NumOfVar <= b
    <3>1. PICK c \in Nat : c = (q - 1) * NumOfVar
      BY <2>1, Sizes
    <3>2. q * NumOfVar = c + NumOfVar
      BY <2>1, <3>1, Sizes
    <3>3. QED BY <1>4, <3>1, <3>2, Sizes
  <2>3. b + i - 1 \notin Home /\ b + i \notin Home
    BY <2>2, Sizes DEF Home
  <2>4. QED BY <1>7, <2>3
<1>11. ASSUME v \in Home, NEW i \in 1 .. NumOfVar - 1
       PROVE  Others(v)[i] = IF i - 1 < v THEN i - 1 ELSE i
  <2>1. q = 0
    BY <1>1, <1>11, Sizes DEF Home
  <2>2. b = 0
    BY <1>4, <2>1, Sizes
  <2>3. Others(v)[i] = IF b + i - 1 < v THEN b + i - 1 ELSE b + i
    BY <1>7
  <2>4. b + i - 1 = i - 1 /\ b + i = i
    BY <2>2
  <2>5. QED BY <2>3, <2>4
<1>12. QED BY <1>9, <1>10, <1>11

\* A transfer copies every variable of the pair, the one being written before the others.
LEMMA Everyone ==
  ASSUME NEW v \in Home, NEW s, s = Others(v), copy' = <<v>> \o s
  PROVE  /\ Len(copy') = NumOfVar /\ copy'[1] = v /\ Distinct' /\ Pending' = Home
<1>1. v \in Nat /\ v < NumOfVar /\ First(v) \in Page /\ v \in Places
  <2>1. v \in Nat /\ v < NumOfVar
    BY Sizes DEF Home
  <2>2. First(v) = 0 /\ v \in Places
    BY <2>1, PagesOf, AddressInPlaces
  <2>3. QED BY <2>1, <2>2, FirstPages
<1>2. PICK n \in Nat : n = NumOfVar - 1 /\ NumOfVar = n + 1
  BY Sizes
<1>3. /\ s \in Seq(Places) /\ Len(s) = n
      /\ \A i \in 1 .. n : s[i] = IF i - 1 < v THEN i - 1 ELSE i
  BY <1>1, <1>2, OthersOf
<1>4. /\ Len(copy') = n + 1 /\ copy'[1] = v
      /\ \A i \in 1 .. n : copy'[i + 1] = IF i - 1 < v THEN i - 1 ELSE i
  BY <1>1, <1>3, Longer
<1>5. \A i \in 2 .. n + 1 : copy'[i] = IF i - 2 < v THEN i - 2 ELSE i - 1
  <2>1. ASSUME NEW i \in 2 .. n + 1 PROVE copy'[i] = IF i - 2 < v THEN i - 2 ELSE i - 1
    <3>1. i - 1 \in 1 .. n /\ (i - 1) + 1 = i /\ (i - 1) - 1 = i - 2
      BY <1>2
    <3>2. copy'[(i - 1) + 1] = IF (i - 1) - 1 < v THEN (i - 1) - 1 ELSE i - 1
      BY <1>4, <3>1
    <3>3. QED BY <3>1, <3>2
  <2>2. QED BY <2>1
<1>6. Pending' = {copy'[i] : i \in 1 .. n + 1}
  BY <1>4 DEF Pending
<1>7. \A i \in 1 .. n + 1 : copy'[i] \in 0 .. n
  <2>1. ASSUME NEW i \in 2 .. n + 1 PROVE copy'[i] \in 0 .. n
    <3>1. i - 2 \in 0 .. n /\ i - 1 \in 0 .. n
      OBVIOUS
    <3>2. QED BY <1>5, <3>1
  <2>2. v \in 0 .. n
    BY <1>1, <1>2
  <2>3. \A i \in 1 .. n + 1 : i = 1 \/ i \in 2 .. n + 1
    OBVIOUS
  <2>4. QED BY <1>4, <2>1, <2>2, <2>3
<1>8. ASSUME NEW x \in 0 .. n PROVE \E i \in 1 .. n + 1 : copy'[i] = x
  <2>1. CASE x = v
    BY <1>4, <2>1
  <2>2. CASE x < v
    <3>1. PICK i \in 2 .. n + 1 : i - 2 = x
      <4>1. x + 2 \in 2 .. n + 1 /\ (x + 2) - 2 = x
        BY <1>1, <1>2, <2>2
      <4>2. QED BY <4>1
    <3>2. copy'[i] = IF i - 2 < v THEN i - 2 ELSE i - 1
      BY <1>5
    <3>3. copy'[i] = x /\ i \in 1 .. n + 1
      <4>1. i \in 1 .. n + 1
        OBVIOUS
      <4>2. i - 2 < v
        BY <2>2, <3>1
      <4>3. QED BY <3>1, <3>2, <4>1, <4>2, Zenon
    <3>4. QED BY <3>3
  <2>3. CASE v < x
    <3>1. PICK i \in 2 .. n + 1 : i - 1 = x /\ ~(i - 2 < v)
      <4>1. x + 1 \in 2 .. n + 1 /\ (x + 1) - 1 = x /\ ~((x + 1) - 2 < v)
        BY <1>1, <1>2, <2>3
      <4>2. QED BY <4>1
    <3>2. copy'[i] = IF i - 2 < v THEN i - 2 ELSE i - 1
      BY <1>5
    <3>3. copy'[i] = x /\ i \in 1 .. n + 1
      <4>1. i \in 1 .. n + 1
        OBVIOUS
      <4>2. QED BY <3>1, <3>2, <4>1, Zenon
    <3>4. QED BY <3>3
  <2>4. x = v \/ x < v \/ v < x
    BY <1>1
  <2>5. QED BY <2>1, <2>2, <2>3, <2>4
<1>9. Home = 0 .. n
  BY <1>2 DEF Home
<1>10. Pending' = Home
  BY <1>6, <1>7, <1>8, <1>9
<1>11. ASSUME NEW i \in 1 .. n + 1, NEW j \in 1 .. n + 1, copy'[i] = copy'[j] PROVE i = j
  <2>1. ASSUME NEW k \in 2 .. n + 1 PROVE copy'[k] # v
    <3>1. copy'[k] = IF k - 2 < v THEN k - 2 ELSE k - 1
      BY <1>5
    <3>2. k - 2 < v => k - 2 # v
      BY <1>1
    <3>3. ~(k - 2 < v) => k - 1 # v
      BY <1>1
    <3>4. QED BY <3>1, <3>2, <3>3
  <2>2. CASE i = 1
    <3>1. j = 1 \/ j \in 2 .. n + 1
      OBVIOUS
    <3>2. QED BY <1>4, <1>11, <2>1, <2>2, <3>1
  <2>3. CASE j = 1
    <3>1. i = 1 \/ i \in 2 .. n + 1
      OBVIOUS
    <3>2. QED BY <1>4, <1>11, <2>1, <2>3, <3>1
  <2>4. CASE i \in 2 .. n + 1 /\ j \in 2 .. n + 1
    <3>1. /\ copy'[i] = IF i - 2 < v THEN i - 2 ELSE i - 1
          /\ copy'[j] = IF j - 2 < v THEN j - 2 ELSE j - 1
      BY <1>5, <2>4
    <3>2. (IF i - 2 < v THEN i - 2 ELSE i - 1) = (IF j - 2 < v THEN j - 2 ELSE j - 1)
      BY <1>11, <3>1
    <3>3. CASE i - 2 < v /\ j - 2 < v
      BY <3>2, <3>3
    <3>4. CASE i - 2 < v /\ ~(j - 2 < v)
      BY <1>1, <3>2, <3>4
    <3>5. CASE ~(i - 2 < v) /\ j - 2 < v
      BY <1>1, <3>2, <3>5
    <3>6. CASE ~(i - 2 < v) /\ ~(j - 2 < v)
      BY <3>2, <3>6
    <3>7. QED BY <3>3, <3>4, <3>5, <3>6
  <2>5. QED BY <2>2, <2>3, <2>4
<1>12. Distinct'
  BY <1>4, <1>11 DEF Distinct
<1>13. QED BY <1>2, <1>4, <1>10, <1>12

\* A transfer begins with an empty page and every variable still to come.
LEMMA BeginTransferStep ==
  ASSUME IInv, BeginTransfer
  PROVE  IInv'
<1> DEFINE v == Head(copy)
<1>1. /\ Storing /\ copy # << >> /\ half = << >> /\ op = "write" /\ todo = << >> /\ pair = 0
      /\ StoreError(v) = "PAGE_FULL" /\ half' = half /\ unmended' = unmended
  BY DEF BeginTransfer, CausesTransfer, Storing, IInv, Control
<1>2. PICK old, new :
      old = ReadPage(v) /\ new = Other(old, v) /\
      \/ /\ Return("FLASH_ERROR_PG") /\ locked' = TRUE /\ pages' = pages
      \/ /\ ~locked /\ Status(new) = "ERASED"
         /\ pages' = [pages EXCEPT ![new].status = "RECEIVE_DATA"]
         /\ copy' = <<v>> \o Others(v) /\ todo' = <<Erase(old), Mark(new)>>
         /\ UNCHANGED <<op, asked, pair, status, locked>>
  BY DEF BeginTransfer, TransferPlan
<1>3. copy \in Seq(Places) /\ v \in Places /\ v \in Nat /\ 1 \in 1 .. Len(copy) /\ v = copy[1]
  <2>1. copy \in Seq(Places)
    BY DEF IInv, Control
  <2>2. QED BY <1>1, <2>1, HeadAndTail, AddressInPlaces
<1>4. /\ First(v) \in Page /\ old \in Page /\ new \in Page /\ old # new
      /\ {old, new} = {First(v), Second(v)}
  <2>1. WritePage(v) # NoPage
    <3>1. NoPage # "PAGE_FULL"
      BY ValueAssumption
    <3>2. QED BY <1>1, <3>1 DEF StoreError
  <2>2. old \in Page /\ old \in {First(v), Second(v)}
    BY <1>2, <1>3, <2>1, Chosen DEF IInv
  <2>3. QED BY <1>2, <1>3, <2>2, PagesOf DEF Other
<1>5. ~Ours => v \notin Home /\ old \notin {0, 1} /\ new \notin {0, 1}
  <2>1. ~Ours => v \notin Home
    BY <1>3 DEF IInv, Control
  <2>2. QED BY <1>3, <1>4, <2>1, PagesOf
<1>6. ASSUME Ours, ~unmended
      PROVE  \E r \in {0, 1} : Whole(r) /\ v = asked[1] /\ v \in Home
  <2>1. PICK r \in {0, 1} : Single(r)
    BY <1>1, <1>6, Tuples DEF IInv, Writing, Transferring, Ending
  <2>2. Whole(r) /\ v = asked[1]
    BY <1>1, <2>1, Tuples DEF Single
  <2>3. QED BY <1>1, <1>6, <2>2 DEF Ours
<1>7. unmended \/ \E r \in {0, 1} : Whole(r)
  BY <1>1, <1>6 DEF IInv, Settled
<1> HIDE DEF v
<1>8. CASE Return("FLASH_ERROR_PG") /\ locked' = TRUE /\ pages' = pages
  <2>1. /\ op' = "idle" /\ status' = "FLASH_ERROR_PG" /\ asked' = << >> /\ half' = << >>
        /\ copy' = << >> /\ todo' = << >> /\ pair' = 0
    BY <1>1, <1>8 DEF Return
  <2>2. TypeOK'
    <3>1. pair' \in 0 .. Pairs /\ copy' \in Seq(Nat)
          /\ todo' \in Seq([page : Page, status : {"ERASED", "VALID_PAGE"}])
      BY <2>1, Sizes, NoneLeft
    <3>2. QED BY <1>1, <1>8, <2>1, <3>1 DEF IInv, TypeOK
  <2>3. Flash' /\ Control' /\ Halfway'
    BY <1>8, <2>1, FlashKept, NoneLeft DEF IInv, Control, Halfway
  <2>4. \A r : Whole(r)' = Whole(r)
    BY <1>8, PagesKept
  <2>5. Settled' /\ Beyond' /\ Resting' /\ Clearing' /\ Writing' /\ Recovery'
    BY <1>1, <1>7, <2>1, <2>4 DEF Settled, Beyond, Resting, Clearing, Writing, Recovery
  <2>6. QED BY <2>2, <2>3, <2>5 DEF IInv
<1>9. CASE /\ ~locked /\ Status(new) = "ERASED"
           /\ pages' = [pages EXCEPT ![new].status = "RECEIVE_DATA"]
           /\ copy' = <<v>> \o Others(v) /\ todo' = <<Erase(old), Mark(new)>>
           /\ UNCHANGED <<op, asked, pair, status, locked>>
  <2>1. /\ copy' \in Seq(Places) /\ copy' # << >>
        /\ ~Ours => \A i \in 1 .. Len(copy') : copy'[i] \notin Home
    <3>1. PICK s : s = Others(v)
      OBVIOUS
    <3>2. PICK n \in Nat : n = NumOfVar - 1
      BY Sizes
    <3>3. /\ s \in Seq(Places) /\ Len(s) = n
          /\ v \notin Home => \A i \in 1 .. n : s[i] \notin Home
      BY <1>3, <1>4, <3>1, <3>2, OthersOf
    <3>4. /\ copy' \in Seq(Places) /\ Len(copy') = n + 1 /\ copy'[1] = v /\ copy' # << >>
          /\ \A i \in 1 .. n : copy'[i + 1] = s[i]
      BY <1>3, <1>9, <3>1, <3>3, Longer
    <3>5. ASSUME ~Ours, NEW i \in 1 .. n + 1 PROVE copy'[i] \notin Home
      <4>1. i = 1 \/ (i - 1 \in 1 .. n /\ (i - 1) + 1 = i)
        OBVIOUS
      <4>2. QED BY <1>5, <3>3, <3>4, <3>5, <4>1
    <3>6. QED BY <3>4, <3>5
  <2>2. copy' \in Seq(Nat)
    BY <2>1, AddressInPlaces, Within, Zenon
  <2>3. /\ Erase(old) \in [page : Page, status : {"ERASED", "VALID_PAGE"}]
        /\ Mark(new) \in [page : Page, status : {"ERASED", "VALID_PAGE"}]
    BY <1>4 DEF Erase, Mark
  <2>4. todo' \in Seq([page : Page, status : {"ERASED", "VALID_PAGE"}]) /\ todo' # << >>
    BY <1>9, <2>3
  <2>5. /\ Status(new)' = "RECEIVE_DATA" /\ \A q : q # new => Status(q)' = Status(q)
        /\ \A q \in Page : /\ Free(q)' = Free(q) /\ FirstAddress(q)' = FirstAddress(q)
                           /\ pages'[q].slot = pages[q].slot
        /\ \A q \in Page : \A x : Holding(q, x)' = Holding(q, x) /\ Latest(q, x)' = Latest(q, x)
    <3>1. "RECEIVE_DATA" \in {"RECEIVE_DATA", "VALID_PAGE"} /\ TypeOK
      BY DEF IInv
    <3>2. QED BY <1>4, <1>9, <3>1, StatusProgrammed, Zenon
  <2>6. TypeOK'
    <3>1. pages' \in [Page -> [status : {"ERASED", "RECEIVE_DATA", "VALID_PAGE"},
                               slot : [1 .. Slots -> [data : Data \cup {Blank},
                                                      address : Addresses \cup {Blank}]]]]
      BY <1>4, <1>9 DEF IInv, TypeOK
    <3>2. QED BY <1>1, <1>9, <2>2, <2>4, <3>1 DEF IInv, TypeOK
  <2>7. Flash'
    <3>1. ASSUME NEW q \in Page PROVE Packed(q)' /\ (Status(q)' = "ERASED" => Unused(q)')
      <4>1. Status(q)' = "ERASED" => Status(q) = "ERASED"
        BY <2>5, Zenon
      <4>2. Free(q)' = Free(q)
        BY <2>5
      <4>3. QED BY <4>1, <4>2 DEF IInv, Flash, Packed, Unused
    <3>2. QED BY <2>5, <3>1, FirstPages DEF IInv, Flash
  <2>8. Ours' = Ours
    BY <1>9 DEF Ours
  <2>9. Control'
    <3>1. ASSUME ~Ours PROVE \A i \in 1 .. Len(todo') : todo'[i].page \notin {0, 1}
      BY <1>5, <1>9, <3>1 DEF Erase, Mark
    <3>2. QED BY <1>1, <1>9, <2>1, <2>8, <3>1 DEF Control
  <2>10. Halfway' /\ Resting' /\ Recovery' /\ Clearing' /\ Beyond'
    BY <1>1, <1>9 DEF Halfway, Resting, Recovery, Clearing, Beyond
  <2>11. Settled'
    <3>1. ASSUME ~Ours PROVE \A r \in {0, 1} : Whole(r)' = Whole(r)
      BY <1>5, <2>5, <3>1, FirstPages DEF Whole
    <3>2. QED BY <1>1, <1>7, <1>9, <2>8, <3>1 DEF Settled
  <2>12. Writing'
    <3> SUFFICES ASSUME Ours, ~unmended PROVE \E r \in {0, 1} : Transferring(r)'
      BY <1>1, <2>8 DEF Writing
    <3>1. PICK s \in {0, 1} : Whole(1 - s) /\ v = asked[1] /\ v \in Home
      <4>1. \A r \in {0, 1} : 1 - r \in {0, 1} /\ 1 - (1 - r) = r
        BY FirstPages
      <4>2. QED BY <1>6, <4>1
    <3>2. 1 - s \in {0, 1} /\ 1 - (1 - s) = s /\ s # 1 - s /\ s \in Page
      BY FirstPages
    <3>3. old = 1 - s /\ new = s
      <4>1. old = 1 - s
        BY <1>2, <3>1, <3>2, HomePages DEF IInv
      <4>2. {old, new} = {0, 1}
        BY <1>3, <1>4, <3>1, PagesOf
      <4>3. QED BY <1>4, <3>2, <4>1, <4>2
    <3>4. Moving(s)'
      <4>1. Status(s)' = "RECEIVE_DATA" /\ Status(1 - s)' = Status(1 - s)
        BY <2>5, <3>2, <3>3, Zenon
      <4>2. QED BY <3>1, <3>2, <4>1 DEF Whole, Moving
    <3>5. Free(s) = 1 .. Slots
      BY <1>9, <3>2, <3>3 DEF IInv, Flash, Unused
    <3>6. \A k \in 1 .. Slots : k \in Free(s)' /\ pages'[s].slot[k].address = Blank
      <4>1. \A k \in 1 .. Slots : k \in Free(s)'
        BY <2>5, <3>2, <3>5
      <4>2. \A k \in 1 .. Slots : pages[s].slot[k].address = Blank
        BY <3>2, <3>5, SlotTypes DEF IInv
      <4>3. QED BY <2>5, <3>2, <4>1, <4>2
    <3>7. \A x \in Home : Holding(s, x)' = {}
      BY <3>6, AddressInPlaces DEF Holding
    <3>8. FirstAddress(s)' = Blank
      <4>1. 1 \in 1 .. Slots
        BY Sizes
      <4>2. QED BY <3>6, <4>1 DEF FirstAddress
    <3>9. Len(copy') = NumOfVar /\ copy'[1] = v /\ Distinct' /\ Pending' = Home
      BY <1>9, <3>1, Everyone
    <3>10. Copied(s)' /\ Passed(s)'
      BY <3>7, <3>9 DEF Copied, Passed
    <3>11. Ready(s, Slots - NumOfVar + Len(copy) - Spent)'
      BY <3>6 DEF Ready
    <3>12. NumOfVar <= NumOfVar /\ v \in Home
      BY <3>1, Sizes
    <3>13. asked' = asked /\ asked[1] \in Pending' /\ copy'[1] = asked[1]
      BY <1>9, <3>1, <3>9, Zenon
    <3>14. half' = << >> /\ todo' = <<Erase(1 - s), Mark(s)>>
      BY <1>1, <1>9, <3>3
    <3>15. (IF asked[1] \in Pending
            THEN copy[1] = asked[1] /\ Len(copy) = NumOfVar /\ FirstAddress(s) = Blank
            ELSE FirstAddress(s) = asked[1] /\ Latest(s, asked[1]) = asked[2])'
      BY <3>8, <3>9, <3>13, Zenon
    <3>16. Len(copy') <= NumOfVar /\ Pending' \subseteq Home /\ \A x \in Pending' : Holding(s, x)' = {}
      BY <3>7, <3>9, <3>12
    <3>17. Transferring(s)'
      BY <3>4, <3>9, <3>10, <3>11, <3>14, <3>15, <3>16, Zenon DEF Transferring, Erase, Mark
    <3>18. QED BY <3>17
  <2>13. QED BY <2>6, <2>7, <2>9, <2>10, <2>11, <2>12 DEF IInv
<1>10. QED BY <1>2, <1>8, <1>9

-----------------------------------------------------------------------------
(* A store: the data, then the address                                     *)

LEMMA FreeNumbers == \A p : Free(p) \subseteq Nat
<1>1. \A j \in 1 .. Slots : j \in Nat
  OBVIOUS
<1>2. QED BY <1>1 DEF Free

\* The first free slot taken leaves room for one less.
LEMMA SlotTaken ==
  ASSUME NEW r, NEW n \in Nat, n <= Slots, Ready(r, n), NEW k \in Nat,
         \A j \in Free(r) : k <= j,
         \A j \in 1 .. Slots : j # k => (j \in Free(r)') = (j \in Free(r))
  PROVE  Ready(r, n - 1)' /\ (1 <= n => k <= Slots - n + 1)
<1>1. ASSUME NEW m \in 1 .. Slots, Slots - (n - 1) < m PROVE m \in Free(r)' /\ k <= m - 1
  <2>1. m - 1 \in 1 .. Slots /\ Slots - n < m - 1 /\ Slots - n < m
    BY <1>1, Sizes
  <2>2. m - 1 \in Free(r) /\ m \in Free(r)
    BY <2>1 DEF Ready
  <2>3. k <= m - 1
    BY <2>2
  <2>4. k # m
    BY <2>3
  <2>5. QED BY <2>2, <2>3, <2>4
<1>2. Ready(r, n - 1)'
  BY <1>1 DEF Ready
<1>3. ASSUME 1 <= n PROVE k <= Slots - n + 1
  <2>1. Slots - n + 1 \in 1 .. Slots /\ Slots - n < Slots - n + 1
    BY <1>3, Sizes
  <2>2. Slots - n + 1 \in Free(r)
    BY <2>1 DEF Ready
  <2>3. QED BY <2>2
<1>4. QED BY <1>2, <1>3

\* What is stored, and where.
LEMMA StoreFits ==
  ASSUME IInv, NEW v \in Places, ~PassedOver(v), StoreError(v) = ""
  PROVE  /\ WritePage(v) \in Page /\ Status(WritePage(v)) # "ERASED" /\ v \in Nat /\ v # Blank
         /\ ReadPage(v) \in Page /\ ReadPage(v) # NoPage /\ ~locked
         /\ Min(Free(WritePage(v))) \in Free(WritePage(v))
         /\ \A j \in Free(WritePage(v)) : Min(Free(WritePage(v))) <= j
         /\ ValueOf(v) \in Data \cup {Blank} /\ (op = "write" \/ op = "init" => v \in Addresses)
<1>1. v \in Nat /\ v # Blank
  BY AddressInPlaces
<1>2. WritePage(v) # NoPage /\ Free(WritePage(v)) # {} /\ ~locked
  <2>1. NoPage # ""
    BY ValueAssumption
  <2>2. QED BY <2>1, Zenon DEF StoreError
<1>3. /\ WritePage(v) \in Page /\ Status(WritePage(v)) # "ERASED"
      /\ ReadPage(v) \in Page /\ ReadPage(v) # NoPage
  BY <1>1, <1>2, Chosen DEF IInv
<1>4. /\ Min(Free(WritePage(v))) \in Free(WritePage(v))
      /\ \A j \in Free(WritePage(v)) : Min(Free(WritePage(v))) <= j
  BY <1>2, FreeNumbers, MinFound, Zenon
<1>5. ValueOf(v) # None
  BY DEF PassedOver
<1>6. ValueOf(v) \in Data \cup {Blank} /\ v \in Addresses
  <2>1. CASE op = "write" /\ v = asked[1]
    <3>1. asked \in Addresses \X Data
      BY <2>1 DEF IInv, TypeOK
    <3>2. QED BY <2>1, <3>1 DEF ValueOf
  <2>2. CASE ~(op = "write" /\ v = asked[1])
    <3>1. ValueOf(v) = Latest(ReadPage(v), v)
      BY <1>3, <2>2 DEF ValueOf, ReadVariable
    <3>2. Holding(ReadPage(v), v) # {}
      BY <1>1, <1>3, <1>5, <3>1, Found DEF IInv
    <3>3. QED BY <1>1, <1>3, <3>1, <3>2, Found DEF IInv
  <2>3. QED BY <2>1, <2>2
<1>7. QED BY <1>1, <1>2, <1>3, <1>4, <1>6

\* The first half-word of a store: the slot is taken and holds no variable yet.
LEMMA ProgramDataStep ==
  ASSUME IInv, ProgramData
  PROVE  IInv'
<1>1. /\ Storing /\ copy # << >> /\ half = << >>
      /\ ~PassedOver(Head(copy)) /\ StoreError(Head(copy)) = ""
      /\ UNCHANGED <<op, asked, pair, copy, todo, status, locked, unmended>>
  BY DEF ProgramData, Storing
<1>2. copy \in Seq(Places) /\ Len(copy) \in Nat \ {0} /\ Head(copy) \in Places
  <2>1. copy \in Seq(Places)
    BY DEF IInv, Control
  <2>2. QED BY <1>1, <2>1, HeadAndTail
<1>3. PICK v \in Places : v = Head(copy)
  BY <1>2
<1>4. PICK p, k, d, rp :
        /\ p = WritePage(v) /\ k = Min(Free(p)) /\ d = ValueOf(v) /\ rp = ReadPage(v)
        /\ pages' = [pages EXCEPT ![p].slot[k].data = d]
        /\ half' = [page |-> p, slot |-> k, address |-> v]
  BY <1>3 DEF ProgramData
<1>5. /\ op \in {"write", "init"} /\ (op = "init" => pair # 0) /\ (op = "write" => pair = 0)
      /\ (op = "init" => todo # << >>)
  <2>1. op \in {"off", "idle", "write", "init", "clear"}
    BY DEF IInv, TypeOK
  <2>2. QED BY <1>1, <2>1 DEF IInv, Control
<1>6. /\ ~locked /\ p \in Page /\ Status(p) # "ERASED" /\ v \in Nat /\ v # Blank /\ v \in Addresses
      /\ rp \in Page /\ rp # NoPage /\ d \in Data \cup {Blank}
      /\ k \in Free(p) /\ \A j \in Free(p) : k <= j
  BY <1>1, <1>3, <1>4, <1>5, StoreFits
<1>7. k \in 1 .. Slots /\ k \in Nat /\ pages[p].slot[k].address = Blank
  <2>1. k \in 1 .. Slots /\ pages[p].slot[k].address = Blank
    BY <1>6, SlotTypes DEF IInv
  <2>2. QED BY <2>1
<1>8. /\ \A q : Status(q)' = Status(q)
      /\ \A q \in Page : \A x : Holding(q, x)' = Holding(q, x)
      /\ \A q \in Page : \A x : x # Blank => Latest(q, x)' = Latest(q, x)
      /\ \A q \in Page : \A j \in 1 .. Slots :
           /\ pages'[q].slot[j].address = pages[q].slot[j].address
           /\ q # p \/ j # k => (j \in Free(q)') = (j \in Free(q))
      /\ pages'[p].slot[k].data = d
  <2>1. TypeOK
    BY DEF IInv
  <2>2. /\ pages' = [pages EXCEPT ![p].slot[k].data = d] /\ pages[p].slot[k].address = Blank
        /\ p \in Page /\ k \in 1 .. Slots /\ d \in Data \cup {Blank}
    BY <1>4, <1>6, <1>7
  <2>3. \A q : Status(q)' = Status(q)
    BY <2>1, <2>2, DataProgrammed
  <2>4. \A q \in Page : \A x : Holding(q, x)' = Holding(q, x)
    BY <2>1, <2>2, DataProgrammed
  <2>5. pages'[p].slot[k].data = d
    <3>1. pages[p].slot \in [1 .. Slots -> [data : Data \cup {Blank}, address : Addresses \cup {Blank}]]
          /\ DOMAIN pages = Page
      BY <1>6 DEF IInv, TypeOK
    <3>2. pages[p].slot[k] \in [data : Data \cup {Blank}, address : Addresses \cup {Blank}]
      BY <1>7, <3>1
    <3>3. pages'[p].slot = [pages[p].slot EXCEPT ![k].data = d]
      BY <2>2, <3>1
    <3>4. QED BY <1>7, <3>1, <3>2, <3>3
  <2>6. \A q \in Page : \A x : x # Blank => Latest(q, x)' = Latest(q, x)
    BY <2>1, <2>2, DataProgrammed
  <2>7. \A q \in Page : \A j \in 1 .. Slots :
           /\ pages'[q].slot[j].address = pages[q].slot[j].address
           /\ q # p \/ j # k => (j \in Free(q)') = (j \in Free(q))
    BY <2>1, <2>2, DataProgrammed
  <2>8. QED BY <2>3, <2>6, <2>7, <2>4, <2>5
<1>9. TypeOK'
  <2>1. pages' \in [Page -> [status : {"ERASED", "RECEIVE_DATA", "VALID_PAGE"},
                             slot : [1 .. Slots -> [data : Data \cup {Blank},
                                                    address : Addresses \cup {Blank}]]]]
    <3>1. pages \in [Page -> [status : {"ERASED", "RECEIVE_DATA", "VALID_PAGE"},
                              slot : [1 .. Slots -> [data : Data \cup {Blank},
                                                     address : Addresses \cup {Blank}]]]]
      BY DEF IInv, TypeOK
    <3>2. [pages[p].slot EXCEPT ![k].data = d]
            \in [1 .. Slots -> [data : Data \cup {Blank}, address : Addresses \cup {Blank}]]
      <4>1. pages[p].slot \in [1 .. Slots -> [data : Data \cup {Blank}, address : Addresses \cup {Blank}]]
        BY <1>6, <3>1
      <4>2. pages[p].slot[k] \in [data : Data \cup {Blank}, address : Addresses \cup {Blank}]
        BY <1>7, <4>1
      <4>3. [pages[p].slot[k] EXCEPT !.data = d] \in [data : Data \cup {Blank}, address : Addresses \cup {Blank}]
        BY <1>6, <4>2
      <4>4. QED BY <1>7, <4>1, <4>3
    <3>3. pages' = [pages EXCEPT ![p] = [pages[p] EXCEPT !.slot = [pages[p].slot EXCEPT ![k].data = d]]]
      BY <1>4
    <3>4. QED BY <1>6, <3>1, <3>2, <3>3
  <2>2. half' \in [page : Page, slot : 1 .. Slots, address : Addresses]
    BY <1>4, <1>6, <1>7
  <2>3. QED BY <1>1, <2>1, <2>2 DEF IInv, TypeOK
<1>10. \A q \in Page : Packed(q)
  BY DEF IInv, Flash
<1>11. Flash'
  <2>1. ASSUME NEW q \in Page, NEW j \in 1 .. Slots, NEW m \in 1 .. Slots, m \in Free(q)', m < j
        PROVE  j \in Free(q)'
    <3>1. CASE q # p
      BY <1>8, <1>10, <2>1, <3>1 DEF Packed
    <3>2. CASE q = p
      <4>1. k < j /\ j \in Free(p)
        <5>1. CASE m = k
          BY <1>6, <1>10, <2>1, <3>2, <5>1 DEF Packed
        <5>2. CASE m # k
          <6>1. m \in Free(p)
            BY <1>8, <2>1, <3>2, <5>2
          <6>2. k <= m /\ j \in Free(p)
            BY <1>6, <1>10, <2>1, <6>1 DEF Packed
          <6>3. QED BY <1>7, <2>1, <6>2
        <5>3. QED BY <5>1, <5>2
      <4>2. j # k
        BY <1>7, <4>1
      <4>3. QED BY <1>8, <3>2, <4>1, <4>2
    <3>3. QED BY <3>1, <3>2
  <2>2. \A q \in Page : Packed(q)'
    BY <2>1, Zenon DEF Packed
  <2>3. ASSUME NEW q \in Page, Status(q)' = "ERASED" PROVE Unused(q)'
    <3>1. q # p /\ Unused(q)
      BY <1>6, <1>8, <2>3 DEF IInv, Flash
    <3>2. \A j \in 1 .. Slots : j \in Free(q)'
      BY <1>8, <3>1 DEF Unused
    <3>3. QED BY <3>2 DEF Unused, Free
  <2>4. \A q \in {0, 1} : \A j \in 1 .. Slots : pages'[q].slot[j].address \in Home \cup {Blank}
    BY <1>8, FirstPages DEF IInv, Flash
  <2>5. QED BY <2>2, <2>3, <2>4 DEF Flash
<1>12. Control'
  BY <1>1, <1>5 DEF IInv, Control, Ours
<1>13. Halfway'
  <2>1. \A x : ReadPage(x)' = ReadPage(x) /\ WritePage(x)' = WritePage(x)
    BY <1>8, Zenon DEF ReadPage, WritePage
  <2>2. ValueOf(v)' = ValueOf(v)
    <3>1. ReadPage(v)' = rp /\ Latest(rp, v)' = Latest(rp, v)
      BY <1>4, <1>6, <1>8, <2>1, Zenon
    <3>2. ReadVariable(v)' = ReadVariable(v)
      BY <1>4, <3>1, Zenon DEF ReadVariable
    <3>3. QED BY <1>1, <3>2, Zenon DEF ValueOf
  <2>3. ASSUME NEW j \in 1 .. Slots
        PROVE  (j < k => j \notin Free(p)') /\ (k < j => j \in Free(p)')
    <3>1. j < k => j \notin Free(p) /\ j # k
      BY <1>6, <1>7
    <3>2. k < j => j \in Free(p) /\ j # k
      BY <1>6, <1>7, <1>10 DEF Packed
    <3>3. QED BY <1>6, <1>8, <3>1, <3>2
  <2>4. half'.page = p /\ half'.slot = k /\ half'.address = v
    BY <1>4
  <2>5. /\ copy' # << >> /\ half'.address = Head(copy') /\ half'.page = WritePage(Head(copy))'
        /\ pages'[half'.page].slot[half'.slot].address = Blank
        /\ pages'[half'.page].slot[half'.slot].data = ValueOf(half.address)'
    <3>1. pages'[p].slot[k].address = Blank /\ pages'[p].slot[k].data = d
      BY <1>6, <1>7, <1>8
    <3>2. WritePage(Head(copy))' = p /\ ValueOf(half.address)' = d
      BY <1>1, <1>3, <1>4, <2>1, <2>2, <2>4, Zenon
    <3>3. QED BY <1>1, <1>3, <2>4, <3>1, <3>2, Zenon
  <2>6. \A j \in 1 .. Slots : /\ j < half'.slot => j \notin Free(half.page)'
                              /\ half'.slot < j => j \in Free(half.page)'
    BY <2>3, <2>4, Zenon
  <2>7. QED BY <2>5, <2>6, Zenon DEF Halfway
<1>14. \A r \in {0, 1} : Whole(r)' = Whole(r) /\ Moving(r)' = Moving(r)
  BY <1>8 DEF Whole, Moving
<1>15. Resting' /\ Settled' /\ Clearing' /\ Beyond'
  BY <1>1, <1>5, <1>14 DEF IInv, Resting, Settled, Clearing, Beyond, Ours
<1>16. ASSUME NEW r \in {0, 1}
       PROVE  /\ Copied(r) => Copied(r)'
              /\ Passed(r) => Passed(r)'
              /\ FirstAddress(r)' = FirstAddress(r) /\ r \in Page /\ 1 - r \in Page
  <2>1. r \in Page /\ 1 - r \in Page
    BY FirstPages
  <2>2. FirstAddress(r)' = FirstAddress(r)
    <3>1. 1 \in 1 .. Slots
      BY Sizes
    <3>2. QED BY <1>8, <2>1, <3>1 DEF FirstAddress
  <2>3. \A x \in Home : /\ Holding(r, x)' = Holding(r, x) /\ Holding(1 - r, x)' = Holding(1 - r, x)
                        /\ Latest(r, x)' = Latest(r, x) /\ Latest(1 - r, x)' = Latest(1 - r, x)
    <3>1. \A x \in Home : x # Blank
      BY AddressInPlaces
    <3>2. QED BY <1>8, <2>1, <3>1, Zenon
  <2>4. Pending' = Pending
    BY <1>1 DEF Pending
  <2>5. QED BY <2>1, <2>2, <2>3, <2>4, Zenon DEF Copied, Passed
<1>17. Spent = 0 /\ Spent' = 1 /\ Pending' = Pending /\ (Distinct => Distinct') /\ half'.slot = k
       /\ half' # << >>
  <2>1. half' # << >> /\ half'.slot = k
    BY <1>4
  <2>2. QED BY <1>1, <2>1 DEF Spent, Pending, Distinct
<1>18. PICK l \in Nat \ {0} : l = Len(copy)
  BY <1>2
<1>19. Writing'
  <2> SUFFICES ASSUME op = "write", Ours, ~unmended
               PROVE  \E r \in {0, 1} : Single(r)' \/ Transferring(r)'
    BY <1>1, <1>5 DEF Writing, Ours
  <2>1. PICK r \in {0, 1} : Single(r) \/ Transferring(r)
    BY <1>1 DEF IInv, Writing, Ending
  <2>2. CASE Single(r)
    BY <1>1, <1>14, <2>2 DEF Single
  <2>3. CASE Transferring(r)
    <3>1. p = r
      BY <1>1, <1>3, <1>4, <2>3, TransferStores
    <3>2. PICK n \in Nat : n = Slots - NumOfVar + l - 0 /\ n <= Slots /\ 1 <= n
      <4>1. l <= NumOfVar
        BY <1>18, <2>3 DEF Transferring
      <4>2. Slots - NumOfVar + l - 0 \in Nat /\ Slots - NumOfVar + l - 0 <= Slots
            /\ 1 <= Slots - NumOfVar + l - 0
        BY <4>1, Sizes
      <4>3. QED BY <4>2
    <3>3. Ready(r, n)
      BY <1>17, <1>18, <2>3, <3>2, Zenon DEF Transferring
    <3>4. Ready(r, n - 1)' /\ k <= Slots - n + 1
      BY <1>6, <1>7, <1>8, <3>1, <3>2, <3>3, SlotTaken
    <3>5. n - 1 = Slots - NumOfVar + l - 1 /\ Slots - n + 1 = NumOfVar - l + 1
      BY <3>2, Sizes
    <3>6. Ready(r, Slots - NumOfVar + Len(copy) - Spent)'
      BY <1>1, <1>17, <1>18, <3>4, <3>5, Zenon
    <3>7. half'.slot <= NumOfVar - Len(copy') + 1
      BY <1>1, <1>17, <1>18, <3>4, <3>5
    <3>8. \A x \in Pending' : Holding(r, x)' = {}
      BY <1>8, <1>16, <1>17, <2>3 DEF Transferring
    <3>9. (IF asked[1] \in Pending
           THEN copy[1] = asked[1] /\ Len(copy) = NumOfVar /\ FirstAddress(r) = Blank
           ELSE FirstAddress(r) = asked[1] /\ Latest(r, asked[1]) = asked[2])'
      <4>1. asked[1] # Blank
        BY AddressInPlaces DEF Ours
      <4>2. Latest(r, asked[1])' = Latest(r, asked[1])
        <5>1. PICK x : x = asked[1] /\ x = asked'[1]
          BY <1>1
        <5>2. Latest(r, x)' = Latest(r, x)
          BY <1>8, <1>16, <4>1, <5>1
        <5>3. QED BY <5>1, <5>2
      <4>3. QED BY <1>1, <1>16, <1>17, <2>3, <4>2, Zenon DEF Transferring
    <3>10. Moving(r)' /\ Copied(r)' /\ Passed(r)' /\ Len(copy') <= NumOfVar /\ Pending' \subseteq Home
           /\ Distinct' /\ todo' = <<Erase(1 - r), Mark(r)>>
      BY <1>1, <1>14, <1>16, <1>17, <2>3, Zenon DEF Transferring
    <3>11. Transferring(r)'
      BY <3>6, <3>7, <3>8, <3>9, <3>10, Zenon DEF Transferring, Erase, Mark
    <3>12. QED BY <3>11
  <2>4. QED BY <2>1, <2>2, <2>3
<1>20. Recovery'
  <2> SUFFICES ASSUME op = "init", pair = 1 PROVE \E r \in {0, 1} : Mending(r)'
    BY <1>1, <1>5 DEF Recovery
  <2>1. PICK r \in {0, 1} : /\ todo = <<Mark(r), Erase(1 - r)>> /\ Moving(r)
                            /\ unmended \/ Recovering(r)
    BY <1>1 DEF IInv, Recovery, Formatting, Mending
  <2>2. CASE unmended
    BY <1>1, <1>14, <2>1, <2>2 DEF Mending, Mark, Erase
  <2>3. CASE Recovering(r)
    <3>1. p = r /\ v # FirstAddress(r)
      BY <1>1, <1>3, <1>4, <2>1, <2>3, RecoveryStores
    <3>2. PICK c \in {0, 1} : c = IF FirstAddress(r) \in Pending THEN 1 ELSE 0
      OBVIOUS
    <3>3. c = 1 => l # 1
      <4>1. l = 1 => Pending = {v}
        <5>1. Head(copy) = copy[1]
          BY <1>1, <1>2, HeadAndTail
        <5>2. l = 1 => Pending = {copy[i] : i \in 1 .. 1}
          BY <1>18 DEF Pending
        <5>3. QED BY <1>3, <5>1, <5>2
      <4>2. QED BY <3>1, <3>2, <4>1
    <3>4. PICK n \in Nat : n = l - c - 0 /\ n <= Slots /\ 1 <= n
      <4>1. l <= NumOfVar
        BY <1>18, <2>3 DEF Recovering
      <4>2. l - c - 0 \in Nat /\ l - c - 0 <= Slots /\ 1 <= l - c - 0
        BY <3>3, <4>1, Sizes
      <4>3. QED BY <4>2
    <3>5. Ready(r, n)
      BY <1>17, <1>18, <2>3, <3>2, <3>4, Zenon DEF Recovering
    <3>6. Ready(r, n - 1)' /\ k <= Slots - n + 1
      BY <1>6, <1>7, <1>8, <3>1, <3>4, <3>5, SlotTaken
    <3>7. n - 1 = l - c - 1 /\ Slots - n + 1 = Slots - l + c + 1
      BY <3>4, Sizes
    <3>8. FirstAddress(r)' = FirstAddress(r) /\ Pending' = Pending
      BY <1>16, <1>17
    <3>9. Ready(r, Len(copy) - (IF FirstAddress(r) \in Pending THEN 1 ELSE 0) - Spent)'
      BY <1>1, <1>17, <1>18, <3>2, <3>6, <3>7, <3>8, Zenon
    <3>10. (/\ Head(copy) # FirstAddress(r)
            /\ half.slot <= Slots - Len(copy) + (IF FirstAddress(r) \in Pending THEN 1 ELSE 0) + 1)'
      BY <1>1, <1>3, <1>17, <1>18, <3>1, <3>2, <3>6, <3>7, <3>8, Zenon
    <3>11. Moving(r)' /\ Copied(r)' /\ Passed(r)' /\ Len(copy') <= NumOfVar /\ Pending' \subseteq Home
           /\ Distinct' /\ todo' = <<Mark(r), Erase(1 - r)>>
      BY <1>1, <1>14, <1>16, <1>17, <2>1, <2>3, Zenon DEF Recovering
    <3>12. Recovering(r)'
      BY <3>9, <3>10, <3>11, Zenon DEF Recovering
    <3>13. QED BY <3>11, <3>12, Zenon DEF Mending, Mark, Erase
  <2>4. QED BY <2>1, <2>2, <2>3
<1>21. QED BY <1>9, <1>11, <1>12, <1>13, <1>15, <1>19, <1>20 DEF IInv

\* The second half-word of a store: the variable is in the page that receives.
LEMMA ProgramAddressStep ==
  ASSUME IInv, ProgramAddress
  PROVE  IInv'
<1>1. /\ half # << >> /\ half' = << >> /\ copy' = Tail(copy)
      /\ pages' = [pages EXCEPT ![half.page].slot[half.slot].address = half.address]
      /\ UNCHANGED <<op, asked, pair, todo, status, locked, unmended>>
  BY DEF ProgramAddress
<1>2. /\ copy # << >> /\ half.address = Head(copy) /\ half.page = WritePage(Head(copy))
      /\ pages[half.page].slot[half.slot].address = Blank
      /\ pages[half.page].slot[half.slot].data = ValueOf(half.address)
      /\ \A j \in 1 .. Slots : /\ j < half.slot => j \notin Free(half.page)
                               /\ half.slot < j => j \in Free(half.page)
  BY <1>1, Zenon DEF IInv, Halfway
<1>3. PICK p \in Page, k \in 1 .. Slots, v \in Addresses :
        p = half.page /\ k = half.slot /\ v = half.address
  <2>1. half \in [page : Page, slot : 1 .. Slots, address : Addresses]
    BY <1>1 DEF IInv, TypeOK
  <2>2. QED BY <2>1
<1>4. /\ v = Head(copy) /\ p = WritePage(v) /\ pages[p].slot[k].address = Blank
      /\ pages[p].slot[k].data = ValueOf(v)
      /\ \A j \in 1 .. Slots : (j < k => j \notin Free(p)) /\ (k < j => j \in Free(p))
      /\ pages' = [pages EXCEPT ![p].slot[k].address = v]
  BY <1>1, <1>2, <1>3, Zenon
<1>5. /\ op \in {"write", "init"} /\ (op = "init" => pair # 0) /\ (op = "write" => pair = 0)
      /\ copy' \in Seq(Nat) /\ Control' /\ Ours' = Ours /\ copy \in Seq(Places)
  BY <1>1, <1>2, Shifted
<1>6. v \in Places /\ v \in Nat /\ v # Blank
  BY AddressInPlaces
<1>7. Status(p) # "ERASED" /\ p \in {First(v), Second(v)} /\ ReadPage(v) # NoPage
  <2>1. p # NoPage
    BY ValueAssumption
  <2>2. QED BY <1>4, <1>6, <2>1, Chosen DEF IInv
<1>8. /\ \A q : Status(q)' = Status(q)
      /\ \A q \in Page : \A x : x # Blank /\ (q # p \/ x # v) =>
           Holding(q, x)' = Holding(q, x) /\ Latest(q, x)' = Latest(q, x)
      /\ Holding(p, v)' # {} /\ Latest(p, v)' = ValueOf(v)
      /\ \A q \in Page : \A j \in 1 .. Slots :
           /\ pages'[q].slot[j].data = pages[q].slot[j].data
           /\ q # p \/ j # k => /\ pages'[q].slot[j].address = pages[q].slot[j].address
                                /\ (j \in Free(q)') = (j \in Free(q))
      /\ pages'[p].slot[k].address = v /\ k \notin Free(p)'
  <2>1. TypeOK
    BY DEF IInv
  <2>2. /\ pages[p].slot[k].address = Blank /\ \A j \in 1 .. Slots : k < j => j \in Free(p)
        /\ pages' = [pages EXCEPT ![p].slot[k].address = v]
    BY <1>4
  <2>3. \A q : Status(q)' = Status(q)
    BY <2>1, <2>2, AddressProgrammed
  <2>4. \A q \in Page : \A x : x # Blank /\ (q # p \/ x # v) =>
           Holding(q, x)' = Holding(q, x) /\ Latest(q, x)' = Latest(q, x)
    BY <2>1, <2>2, AddressProgrammed
  <2>5. Holding(p, v)' # {} /\ Latest(p, v)' = ValueOf(v)
    <3>1. Holding(p, v)' # {}
      BY <2>1, <2>2, AddressProgrammed
    <3>2. Newest(p, v)' = k
      BY <2>1, <2>2, AddressProgrammed
    <3>3. Latest(p, v)' = pages'[p].slot[k].data
      BY <3>1, <3>2, Zenon DEF Latest, Newest
    <3>4. pages'[p].slot[k].data = pages[p].slot[k].data
      BY <2>1, <2>2, AddressProgrammed
    <3>5. QED BY <1>4, <3>1, <3>3, <3>4
  <2>6. \A q \in Page : \A j \in 1 .. Slots :
           /\ pages'[q].slot[j].data = pages[q].slot[j].data
           /\ q # p \/ j # k => /\ pages'[q].slot[j].address = pages[q].slot[j].address
                                /\ (j \in Free(q)') = (j \in Free(q))
    <3>1. \A q \in Page : \A j \in 1 .. Slots : pages'[q].slot[j].data = pages[q].slot[j].data
      BY <2>1, <2>2, AddressProgrammed
    <3>2. \A q \in Page : \A j \in 1 .. Slots : q # p \/ j # k =>
            pages'[q].slot[j].address = pages[q].slot[j].address
      BY <2>1, <2>2, AddressProgrammed
    <3>3. \A q \in Page : \A j \in 1 .. Slots : q # p \/ j # k =>
            (j \in Free(q)') = (j \in Free(q))
      BY <2>1, <2>2, AddressProgrammed, Zenon
    <3>4. QED BY <3>1, <3>2, <3>3, Zenon
  <2>7. pages'[p].slot[k].address = v /\ k \notin Free(p)'
    <3>1. pages'[p].slot[k].address = v
      BY <2>1, <2>2, AddressProgrammed
    <3>2. k \notin Free(p)'
      BY <2>1, <2>2, AddressProgrammed
    <3>3. QED BY <3>1, <3>2
  <2>8. QED BY <2>3, <2>4, <2>5, <2>6, <2>7
<1>9. TypeOK'
  <2>1. pages \in [Page -> [status : {"ERASED", "RECEIVE_DATA", "VALID_PAGE"},
                            slot : [1 .. Slots -> [data : Data \cup {Blank},
                                                   address : Addresses \cup {Blank}]]]]
    BY DEF IInv, TypeOK
  <2>2. [pages[p].slot EXCEPT ![k].address = v]
          \in [1 .. Slots -> [data : Data \cup {Blank}, address : Addresses \cup {Blank}]]
    <3>1. pages[p].slot \in [1 .. Slots -> [data : Data \cup {Blank}, address : Addresses \cup {Blank}]]
      BY <2>1
    <3>2. pages[p].slot[k] \in [data : Data \cup {Blank}, address : Addresses \cup {Blank}]
      BY <3>1
    <3>3. [pages[p].slot[k] EXCEPT !.address = v]
            \in [data : Data \cup {Blank}, address : Addresses \cup {Blank}]
      BY <3>2
    <3>4. QED BY <3>1, <3>3
  <2>3. pages' = [pages EXCEPT ![p] = [pages[p] EXCEPT !.slot = [pages[p].slot EXCEPT ![k].address = v]]]
    BY <1>4
  <2>4. pages' \in [Page -> [status : {"ERASED", "RECEIVE_DATA", "VALID_PAGE"},
                             slot : [1 .. Slots -> [data : Data \cup {Blank},
                                                    address : Addresses \cup {Blank}]]]]
    BY <2>1, <2>2, <2>3
  <2>5. QED BY <1>1, <1>5, <2>4 DEF IInv, TypeOK
<1>10. Flash'
  <2>1. \A q \in Page : Packed(q)
    BY DEF IInv, Flash
  <2>2. ASSUME NEW q \in Page, NEW j \in 1 .. Slots, NEW m \in 1 .. Slots, m \in Free(q)', m < j
        PROVE  j \in Free(q)'
    <3>1. CASE q # p
      BY <1>8, <2>1, <2>2, <3>1 DEF Packed
    <3>2. CASE q = p
      <4>1. m # k /\ m \in Free(p)
        BY <1>8, <2>2, <3>2
      <4>2. k < j
        BY <1>4, <2>2, <4>1
      <4>3. j # k /\ j \in Free(p)
        BY <1>4, <4>2
      <4>4. QED BY <1>8, <3>2, <4>3
    <3>3. QED BY <3>1, <3>2
  <2>3. \A q \in Page : Packed(q)'
    BY <2>2, Zenon DEF Packed
  <2>4. ASSUME NEW q \in Page, Status(q)' = "ERASED" PROVE Unused(q)'
    <3>1. q # p /\ Unused(q)
      BY <1>7, <1>8, <2>4 DEF IInv, Flash
    <3>2. \A j \in 1 .. Slots : j \in Free(q)'
      BY <1>8, <3>1 DEF Unused
    <3>3. QED BY <3>2 DEF Unused, Free
  <2>5. ASSUME NEW q \in {0, 1}, NEW j \in 1 .. Slots
        PROVE  pages'[q].slot[j].address \in Home \cup {Blank}
    <3>1. CASE q = p /\ j = k
      <4>1. v \in Home
        BY <1>6, <1>7, <3>1, PagesOf
      <4>2. QED BY <1>8, <3>1, <4>1
    <3>2. CASE ~(q = p /\ j = k)
      BY <1>8, <3>2, FirstPages DEF IInv, Flash
    <3>3. QED BY <3>1, <3>2
  <2>6. QED BY <2>3, <2>4, <2>5 DEF Flash
<1>11. Halfway'
  BY <1>1 DEF Halfway
<1>12. \A r \in {0, 1} : Whole(r)' = Whole(r) /\ Moving(r)' = Moving(r)
  BY <1>8 DEF Whole, Moving
<1>13. Resting' /\ Settled' /\ Clearing' /\ Beyond'
  BY <1>1, <1>5, <1>12 DEF IInv, Resting, Settled, Clearing, Beyond
<1>14. Spent = 1 /\ Spent' = 0
  BY <1>1 DEF Spent
<1>15. PICK l \in Nat \ {0} : l = Len(copy) /\ Len(copy') = l - 1
  BY <1>1, <1>2, <1>5, OneLess
<1>16. /\ v \in Pending /\ v = copy[1] /\ Pending = Pending' \cup {v}
       /\ Distinct => Distinct' /\ v \notin Pending'
  BY <1>1, <1>2, <1>4, <1>5, OneLess
\* The slot of the address last in the first one, when that is not this slot, stays.
<1>17. ASSUME NEW r \in {0, 1}, p = r, FirstAddress(r) # Blank
       PROVE  k # 1 /\ FirstAddress(r)' = FirstAddress(r)
  <2>1. k # 1
    BY <1>4, <1>17 DEF FirstAddress
  <2>2. 1 \in 1 .. Slots
    BY Sizes
  <2>3. QED BY <1>8, <1>17, <2>1, <2>2 DEF FirstAddress
<1>18. ASSUME NEW r \in {0, 1}, p = r, v \in Home, Copied(r), Passed(r), Moving(r),
              FirstAddress(r)' = v \/ ValueOf(v) = ReadVariable(v)
       PROVE  Copied(r)' /\ Passed(r)'
  <2>1. r \in Page /\ 1 - r \in Page /\ 1 - r # p /\ \A x \in Home : x # Blank
    BY <1>18, FirstPages, AddressInPlaces
  <2>2. \A x \in Home : Holding(1 - r, x)' = Holding(1 - r, x) /\ Latest(1 - r, x)' = Latest(1 - r, x)
    BY <1>8, <2>1, Zenon
  <2>3. \A x \in Home : x # v => Holding(r, x)' = Holding(r, x) /\ Latest(r, x)' = Latest(r, x)
    BY <1>8, <2>1, Zenon
  <2>4. ASSUME NEW x \in Home, Holding(r, x)' # {}
        PROVE  x = FirstAddress(r)' \/ Latest(r, x)' = Latest(1 - r, x)'
    <3>1. CASE x = v
      <4>1. ReadVariable(v) = Latest(1 - r, v)
        <5>1. ReadPage(v) = 1 - r
          BY <1>18, HomePages DEF IInv
        <5>2. QED BY <1>7, <5>1 DEF ReadVariable
      <4>2. Latest(r, v)' = ValueOf(v)
        BY <1>8, <1>18
      <4>3. QED BY <1>18, <2>2, <3>1, <4>1, <4>2
    <3>2. CASE x # v
      <4>1. x = FirstAddress(r) \/ Latest(r, x) = Latest(1 - r, x)
        BY <1>18, <2>3, <2>4, <3>2, Zenon DEF Copied
      <4>2. x = FirstAddress(r) => FirstAddress(r)' = x
        BY <1>17, <1>18, <2>1
      <4>3. QED BY <2>2, <2>3, <3>2, <4>1, <4>2, Zenon
    <3>3. QED BY <3>1, <3>2
  <2>5. Copied(r)'
    BY <2>4, Zenon DEF Copied
  <2>6. ASSUME NEW x \in Home, x \notin Pending', Holding(1 - r, x)' # {} PROVE Holding(r, x)' # {}
    <3>1. CASE x = v
      BY <1>8, <1>18, <3>1
    <3>2. CASE x # v
      <4>1. x \notin Pending /\ Holding(1 - r, x) # {}
        BY <1>16, <2>2, <2>6, <3>2
      <4>2. QED BY <1>18, <2>3, <3>2, <4>1 DEF Passed
    <3>3. QED BY <3>1, <3>2
  <2>7. Passed(r)'
    BY <2>6, Zenon DEF Passed
  <2>8. QED BY <2>5, <2>7
<1>19. ASSUME NEW r \in {0, 1}, p = r, NEW n \in Int, Ready(r, n), k <= Slots - n
       PROVE  Ready(r, n)'
  <2>1. ASSUME NEW m \in 1 .. Slots, Slots - n < m PROVE m \in Free(r)'
    <3>1. m \in Free(r)
      BY <1>19, <2>1 DEF Ready
    <3>2. m # k
      BY <1>19, <2>1, Sizes
    <3>3. QED BY <1>8, <1>19, <3>1, <3>2
  <2>2. QED BY <2>1, Zenon DEF Ready
<1>20. Writing'
  <2> SUFFICES ASSUME op = "write", Ours, ~unmended
               PROVE  \E r \in {0, 1} : Single(r)' \/ Transferring(r)'
    BY <1>1, <1>5 DEF Writing
  <2>1. asked[1] \in Home /\ asked[1] # Blank
    BY AddressInPlaces DEF Ours
  <2>2. PICK r \in {0, 1} : Single(r) \/ Transferring(r)
    BY <1>2 DEF IInv, Writing, Ending
  <2>3. CASE Single(r)
    <3>1. copy = <<asked[1]>>
      BY <1>2, <2>3 DEF Single
    <3>2. v = asked[1] /\ copy' = << >>
      BY <1>1, <1>4, <3>1, Tuples
    <3>3. p = r
      BY <1>4, <2>1, <2>3, <3>2, HomePages DEF IInv, Single
    <3>4. Latest(r, v)' = asked[2]
      BY <1>8, <3>2, <3>3 DEF ValueOf
    <3>5. asked' = asked /\ Latest(r, asked[1])' = asked[2]
      BY <1>1, <3>2, <3>4, Zenon
    <3>6. todo = << >> /\ Whole(r)
      BY <2>3 DEF Single
    <3>7. Single(r)'
      BY <1>1, <1>12, <3>2, <3>5, <3>6, Zenon DEF Single
    <3>8. QED BY <3>7
  <2>4. CASE Transferring(r)
    <3>1. v \in Home
      BY <1>16, <2>4 DEF Transferring
    <3>2. p = r
      BY <1>4, <2>4, <3>1, HomePages DEF IInv, Transferring
    <3>3. l <= NumOfVar /\ k <= NumOfVar - l + 1
      BY <1>1, <1>3, <1>15, <2>4, Zenon DEF Transferring
    <3>4. /\ Copied(r) /\ Passed(r) /\ Moving(r) /\ Distinct /\ Pending \subseteq Home
          /\ todo = <<Erase(1 - r), Mark(r)>>
          /\ \A x \in Pending : Holding(r, x) = {}
      BY <2>4, Zenon DEF Transferring
    <3>5. Ready(r, Slots - NumOfVar + Len(copy) - Spent)'
      <4>1. PICK n \in Int : n = Slots - NumOfVar + l - 1
        BY Sizes
      <4>2. n = Slots - NumOfVar + (l - 1) - 0 /\ k <= Slots - n
        BY <3>3, <4>1, Sizes
      <4>3. Ready(r, n)
        BY <1>14, <1>15, <2>4, <4>1, Zenon DEF Transferring
      <4>4. Ready(r, n)'
        BY <1>19, <3>2, <4>2, <4>3
      <4>5. QED BY <1>14, <1>15, <4>2, <4>4, Zenon
    <3>6. Len(copy') <= NumOfVar
      BY <1>15, <3>3, Sizes
    <3>7. Pending' \subseteq Home /\ Distinct' /\ v \notin Pending'
      BY <1>16, <3>4
    <3>8. \A x \in Pending' : Holding(r, x)' = {}
      <4>1. \A x \in Pending' : x # Blank /\ x # v /\ x \in Pending
        BY <1>16, <3>7, AddressInPlaces
      <4>2. r \in Page
        BY FirstPages
      <4>3. \A x : x # Blank /\ x # v => Holding(r, x)' = Holding(r, x)
        BY <1>8, <4>2
      <4>4. QED BY <3>4, <4>1, <4>3
    <3>9. CASE asked[1] \in Pending
      <4>1. v = asked[1] /\ l = NumOfVar
        BY <1>15, <1>16, <2>4, <3>9, Zenon DEF Transferring
      <4>2. k = 1
        BY <3>3, <4>1, Sizes
      <4>3. FirstAddress(r)' = v
        BY <1>8, <3>2, <4>2 DEF FirstAddress
      <4>4. Latest(r, v)' = asked[2]
        BY <1>8, <3>2, <4>1 DEF ValueOf
      <4>5. Copied(r)' /\ Passed(r)'
        BY <1>18, <3>1, <3>2, <3>4, <4>3
      <4>6. asked' = asked /\ asked[1] \notin Pending' /\ FirstAddress(r)' = asked[1]
            /\ Latest(r, asked[1])' = asked[2]
        BY <1>1, <3>7, <4>1, <4>3, <4>4, Zenon
      <4>7. Transferring(r)'
        BY <1>1, <1>12, <3>4, <3>5, <3>6, <3>7, <3>8, <4>5, <4>6, Zenon DEF Transferring, Erase, Mark
      <4>8. QED BY <4>7
    <3>10. CASE asked[1] \notin Pending
      <4>1. FirstAddress(r) = asked[1] /\ Latest(r, asked[1]) = asked[2] /\ asked[1] # v
        BY <1>16, <2>4, <3>10, Zenon DEF Transferring
      <4>2. FirstAddress(r)' = asked[1]
        BY <1>17, <2>1, <3>2, <4>1
      <4>3. ValueOf(v) = ReadVariable(v)
        BY <4>1 DEF ValueOf
      <4>4. Copied(r)' /\ Passed(r)'
        BY <1>18, <3>1, <3>2, <3>4, <4>3
      <4>5. PICK x : x = asked[1] /\ x = asked'[1]
        BY <1>1
      <4>6. Latest(r, x)' = Latest(r, x)
        <5>1. r \in Page
          BY FirstPages
        <5>2. QED BY <1>8, <2>1, <4>1, <4>5, <5>1
      <4>7. asked' = asked /\ asked[1] \notin Pending' /\ Latest(r, asked[1])' = asked[2]
        BY <1>1, <1>16, <3>10, <4>1, <4>5, <4>6, Zenon
      <4>8. Transferring(r)'
        BY <1>1, <1>12, <3>4, <3>5, <3>6, <3>7, <3>8, <4>2, <4>4, <4>7, Zenon DEF Transferring, Erase, Mark
      <4>9. QED BY <4>8
    <3>11. QED BY <3>9, <3>10
  <2>5. QED BY <2>2, <2>3, <2>4
<1>21. Recovery'
  <2> SUFFICES ASSUME op = "init", pair = 1 PROVE \E r \in {0, 1} : Mending(r)'
    BY <1>1, <1>5 DEF Recovery
  <2>1. PICK r \in {0, 1} : /\ todo = <<Mark(r), Erase(1 - r)>> /\ Moving(r)
                            /\ unmended \/ Recovering(r)
    BY <1>2 DEF IInv, Recovery, Formatting, Mending
  <2>2. CASE unmended
    BY <1>1, <1>12, <2>1, <2>2 DEF Mending, Mark, Erase
  <2>3. CASE Recovering(r)
    <3>1. v \in Home
      BY <1>16, <2>3 DEF Recovering
    <3>2. p = r
      BY <1>4, <2>1, <3>1, HomePages DEF IInv
    <3>3. PICK c \in {0, 1} : c = IF FirstAddress(r) \in Pending THEN 1 ELSE 0
      OBVIOUS
    <3>4. l <= NumOfVar /\ k <= Slots - l + c + 1 /\ v # FirstAddress(r)
      BY <1>1, <1>3, <1>4, <1>15, <2>3, <3>3, Zenon DEF Recovering
    <3>5. Copied(r) /\ Passed(r) /\ Distinct /\ Pending \subseteq Home
      BY <2>3, Zenon DEF Recovering
    <3>6. Copied(r)' /\ Passed(r)'
      <4>1. ValueOf(v) = ReadVariable(v)
        BY DEF ValueOf
      <4>2. QED BY <1>18, <2>1, <3>1, <3>2, <3>5, <4>1
    <3>7. Pending' \subseteq Home /\ Distinct' /\ v \notin Pending'
      BY <1>16, <3>5
    <3>8. (FirstAddress(r)' \in Pending') = (FirstAddress(r) \in Pending)
      <4>1. CASE FirstAddress(r) # Blank
        <5>1. FirstAddress(r)' = FirstAddress(r)
          BY <1>17, <3>2, <4>1
        <5>2. QED BY <1>16, <3>4, <5>1
      <4>2. CASE FirstAddress(r) = Blank
        <5>1. Blank \notin Pending /\ Blank \notin Pending'
          BY <3>5, <3>7, AddressInPlaces
        <5>2. FirstAddress(r)' \in {Blank, v}
          <6>1. 1 \in 1 .. Slots /\ r \in Page
            BY Sizes, FirstPages
          <6>2. QED BY <1>8, <3>2, <4>2, <6>1 DEF FirstAddress
        <5>3. QED BY <3>7, <4>2, <5>1, <5>2
      <4>3. QED BY <4>1, <4>2
    <3>9. Ready(r, Len(copy) - (IF FirstAddress(r) \in Pending THEN 1 ELSE 0) - Spent)'
      <4>1. PICK n \in Int : n = l - c - 1
        OBVIOUS
      <4>2. n = (l - 1) - c - 0 /\ k <= Slots - n
        BY <3>4, <4>1, Sizes
      <4>3. Ready(r, n)
        BY <1>14, <1>15, <2>3, <3>3, <4>1, Zenon DEF Recovering
      <4>4. Ready(r, n)'
        BY <1>19, <3>2, <4>2, <4>3
      <4>5. c = IF FirstAddress(r)' \in Pending' THEN 1 ELSE 0
        BY <3>3, <3>8
      <4>6. QED BY <1>14, <1>15, <4>2, <4>4, <4>5, Zenon
    <3>10. Len(copy') <= NumOfVar
      BY <1>15, <3>4, Sizes
    <3>11. Recovering(r)'
      BY <1>1, <3>6, <3>7, <3>9, <3>10, Zenon DEF Recovering
    <3>12. QED BY <1>1, <1>12, <2>1, <3>11, Zenon DEF Mending, Mark, Erase
  <2>4. QED BY <2>1, <2>2, <2>3
<1>22. QED BY <1>5, <1>9, <1>10, <1>11, <1>13, <1>20, <1>21 DEF IInv

-----------------------------------------------------------------------------
(* The invariant                                                           *)

\* What a state says is said by the values of its variables.
LEMMA StutterStep ==
  ASSUME IInv, vars' = vars
  PROVE  IInv'
<1>1. /\ pages' = pages /\ op' = op /\ asked' = asked /\ pair' = pair /\ copy' = copy
      /\ half' = half /\ todo' = todo /\ status' = status /\ locked' = locked
      /\ unmended' = unmended
  BY DEF vars
<1>2. \A r : /\ Whole(r)' = Whole(r) /\ Moving(r)' = Moving(r) /\ Moved(r)' = Moved(r)
             /\ Unused(r)' = Unused(r) /\ Status(r)' = Status(r)
  BY <1>1, PagesKept
<1>3. TypeOK' /\ Flash' /\ Control' /\ Halfway' /\ Settled' /\ Beyond' /\ Resting'
  <2>1. TypeOK' /\ Flash' /\ Control'
    <3>1. TypeOK'
      BY <1>1 DEF IInv, TypeOK
    <3>2. Flash'
      BY <1>1, FlashKept DEF IInv
    <3>3. Control'
      BY <1>1 DEF IInv, Control, Ours
    <3>4. QED BY <3>1, <3>2, <3>3
  <2>2. Halfway'
    BY <1>1, PagesKept DEF IInv, Halfway, ValueOf, ReadVariable
  <2>3. Settled' /\ Beyond'
    BY <1>1, <1>2 DEF IInv, Settled, Beyond, Ours
  <2>4. \A r : Torn(r)' = Torn(r)
    BY <1>1, PagesKept DEF Torn
  <2>5. Resting'
    BY <1>1, <1>2, <2>4 DEF IInv, Resting, Fresh, Cleared
  <2>6. QED BY <2>1, <2>2, <2>3, <2>5
<1>4. Clearing'
  BY <1>1, <1>2, Zenon DEF IInv, Clearing, Format, Erase, Mark
<1>5. \A r : /\ Transferring(r)' = Transferring(r) /\ Recovering(r)' = Recovering(r)
             /\ Single(r)' = Single(r) /\ Ending(r)' = Ending(r)
  <2>1. Pending' = Pending /\ Distinct' = Distinct /\ Spent' = Spent
    BY <1>1 DEF Pending, Distinct, Spent
  <2>2. \A r : /\ Passed(r)' = Passed(r) /\ Copied(r)' = Copied(r)
               /\ FirstAddress(r)' = FirstAddress(r)
               /\ \A n : Ready(r, n)' = Ready(r, n)
               /\ \A x : Holding(r, x)' = Holding(r, x) /\ Latest(r, x)' = Latest(r, x)
    BY <1>1, <2>1, PagesKept DEF Passed
  <2>3. \A r : Single(r)' = Single(r) /\ Ending(r)' = Ending(r)
    BY <1>1 DEF Single, Ending, Whole, Moved, Latest, Holding, Status, Mark
  <2>4. \A r : Recovering(r)' = Recovering(r)
    BY <1>1 DEF Recovering, Passed, Copied, FirstAddress, Ready, Pending, Distinct, Spent,
                Free, Latest, Holding
  <2>5. \A r : Transferring(r)' = Transferring(r)
    BY <1>1 DEF Transferring, Passed, Copied, FirstAddress, Ready, Pending, Distinct, Spent,
                Free, Latest, Holding, Moving, Status, Erase, Mark
  <2>6. QED BY <2>3, <2>4, <2>5
<1>6. Writing'
  BY <1>1, <1>5 DEF IInv, Writing, Ours
<1>7. Recovery'
  <2>1. \A r : Mending(r)' = Mending(r)
    BY <1>1, <1>2, <1>5 DEF Mending, Erase, Mark
  <2>2. Formatting' = Formatting
    BY <1>1, <1>2 DEF Formatting, Fresh, Cleared, Format, Erase, Mark
  <2>3. QED BY <1>1, <2>1, <2>2 DEF IInv, Recovery
<1>8. QED BY <1>3, <1>4, <1>6, <1>7 DEF IInv

LEMMA StepIInv == IInv /\ [Next]_vars => IInv'
<1> SUFFICES ASSUME IInv, [Next]_vars PROVE IInv'
  OBVIOUS
<1>1. CASE vars' = vars
  BY <1>1, StutterStep
<1>2. CASE Next
  BY <1>2, WriteStep, PassStep, ProgramDataStep, ProgramAddressStep, StoreFailsStep,
     BeginTransferStep, ProgramPageStep, WriteReturnsStep, NextPairStep, InitReturnsStep,
     ClearStep, PowerLossStep, PowerUpStep DEF Next
<1>3. QED BY <1>1, <1>2

\* The first pair of pages is in one of the states IInv lists, whatever call is served and
\* wherever the power failed.
THEOREM Invariance == Spec => []IInv
  BY InitStep, StepIInv, PTL DEF Spec

\* Every page has a status and slots of known values, and what a call has still to do
\* keeps its type.
THEOREM TypeCorrect == Spec => []TypeOK
<1>1. IInv => TypeOK
  BY DEF IInv
<1>2. QED BY <1>1, Invariance, PTL

\* Between calls one page of the first pair is valid and the other erased, however often
\* the power failed, see KnownGood: for every number of variables and slots, and whatever
\* the pairs beyond hold.
THEOREM FirstPairIsGood ==
  ASSUME Watched \subseteq Home
  PROVE  Spec => []KnownGood
<1>1. ASSUME IInv PROVE KnownGood
  <2> SUFFICES ASSUME op = "idle", ~unmended, NEW v \in Watched
               PROVE  {Status(First(v)), Status(Second(v))} = {"ERASED", "VALID_PAGE"}
    BY DEF KnownGood
  <2>1. v \in Nat /\ v \in Home
    BY DEF Home
  <2>2. First(v) = 0 /\ Second(v) = 1
    BY <2>1, PagesOf
  <2>3. PICK r \in {0, 1} : Whole(r)
    BY <1>1 DEF IInv, Settled
  <2>4. QED BY <2>2, <2>3, FirstPages DEF Whole
<1>2. IInv => KnownGood
  BY <1>1
<1>3. QED BY <1>2, Invariance, PTL

-----------------------------------------------------------------------------
(* No call fails                                                           *)

\* When only variables of the first pair are written, no page beyond receives.
Alone ==
  /\ \A p \in Page \ {0, 1} : Status(p) # "RECEIVE_DATA"
  /\ op = "init" /\ 1 < pair => copy = << >>
  /\ op = "write" => Pending \subseteq Home

Sound == ~unmended => ~locked /\ status \in {"", "FLASH_COMPLETE"}

\* While only variables of the first pair are written, only its pages receive.
LEMMA BeginsInHome ==
  ASSUME Addresses \subseteq Home, IInv, Alone, BeginTransfer
  PROVE  /\ Head(copy) \in Home /\ Head(copy) \in Nat
         /\ Other(ReadPage(Head(copy)), Head(copy)) \in {0, 1}
<1>1. op = "write" /\ copy # << >> /\ copy \in Seq(Places)
  BY DEF BeginTransfer, CausesTransfer, Storing, IInv, Control
<1>2. Head(copy) \in Pending
  <2>1. PICK s : s = Tail(copy)
    OBVIOUS
  <2>2. Len(copy) \in Nat \ {0} /\ 1 \in 1 .. Len(copy) /\ Head(copy) = copy[1]
    BY <1>1, HeadAndTail
  <2>3. QED BY <2>2 DEF Pending
<1>3. Head(copy) \in Home /\ Head(copy) \in Nat
  BY <1>1, <1>2 DEF Alone, Home
<1>4. First(Head(copy)) = 0 /\ Second(Head(copy)) = 1
  BY <1>3, PagesOf
<1>5. QED BY <1>3, <1>4 DEF Other

LEMMA NoneReceives ==
  ASSUME Addresses \subseteq Home, IInv, Alone, [Next]_vars
  PROVE  \A p \in Page \ {0, 1} : Status(p)' # "RECEIVE_DATA"
<1>1. \A p \in Page \ {0, 1} : pages[p].status # "RECEIVE_DATA"
  BY DEF Alone, Status
<1>2. SUFFICES ASSUME NEW p \in Page \ {0, 1} PROVE pages'[p].status # "RECEIVE_DATA"
  BY DEF Status
<1>3. pages \in [Page -> [status : {"ERASED", "RECEIVE_DATA", "VALID_PAGE"},
                          slot : [1 .. Slots -> [data : Data \cup {Blank},
                                                 address : Addresses \cup {Blank}]]]]
  BY DEF IInv, TypeOK
<1>4. CASE pages' = pages
  BY <1>1, <1>4
<1>5. CASE ProgramData
  <2>1. PICK q, k, d : pages' = [pages EXCEPT ![q].slot[k].data = d]
    BY <1>5 DEF ProgramData
  <2>2. QED BY <1>1, <1>3, <2>1
<1>6. CASE ProgramAddress
  <2>1. PICK q, k, d : pages' = [pages EXCEPT ![q].slot[k].address = d]
    BY <1>6 DEF ProgramAddress
  <2>2. QED BY <1>1, <1>3, <2>1
<1>7. CASE ProgramPage
  <2>1. PICK q : pages' = [pages EXCEPT ![q] = EmptyPage]
                 \/ pages' = [pages EXCEPT ![q].status = "VALID_PAGE"]
    BY <1>7 DEF ProgramPage
  <2>2. EmptyPage.status # "RECEIVE_DATA"
    BY DEF EmptyPage
  <2>3. QED BY <1>1, <1>3, <2>1, <2>2
<1>8. CASE BeginTransfer
  <2>1. PICK q \in {0, 1} : pages' = pages \/ pages' = [pages EXCEPT ![q].status = "RECEIVE_DATA"]
    BY <1>8, BeginsInHome DEF BeginTransfer
  <2>2. QED BY <1>1, <1>3, <2>1
<1>9. QED BY <1>4, <1>5, <1>6, <1>7, <1>8
     DEF Next, vars, Write, Pass, StoreFails, WriteReturns, NextPair, InitReturns, Clear,
         PowerLoss, PowerUp

\* That no other page receives is kept by every step.
LEMMA AloneStep ==
  ASSUME Addresses \subseteq Home, IInv, Alone, [Next]_vars
  PROVE  Alone'
<1>1. copy \in Seq(Places)
  BY DEF IInv, Control
<1>2. ASSUME op' = op, pair' = pair, copy' = copy \/ (copy # << >> /\ copy' = Tail(copy))
      PROVE  Alone'
  <2>1. CASE copy' = copy
    <3>1. Pending' = Pending
      BY <2>1 DEF Pending
    <3>2. QED BY <1>2, <2>1, <3>1, NoneReceives DEF Alone
  <2>2. CASE copy # << >> /\ copy' = Tail(copy)
    <3>1. Pending' \subseteq Pending
      BY <1>1, <2>2, OneLess
    <3>2. QED BY <1>2, <2>2, <3>1, NoneReceives DEF Alone
  <2>3. QED BY <1>2, <2>1, <2>2
<1>3. ASSUME op' \in {"off", "idle", "clear"} \/ (op' = "init" /\ pair' = 0)
      PROVE  Alone'
  <2>1. ~(op' = "init" /\ 1 < pair') /\ op' # "write"
    BY <1>3
  <2>2. QED BY <2>1, NoneReceives DEF Alone
<1>4. CASE vars' = vars
  BY <1>2, <1>4 DEF vars
<1>5. CASE \E v \in Addresses, d \in Data : Write(v, d)
  <2>1. PICK v \in Addresses : op' = "write" /\ copy' = <<v>>
    BY <1>5 DEF Write
  <2>2. Pending' \subseteq Home
    BY <2>1 DEF Pending
  <2>3. QED BY <2>1, <2>2, NoneReceives DEF Alone
<1>6. CASE Pass \/ ProgramData \/ ProgramPage
  BY <1>2, <1>6 DEF Pass, ProgramData, ProgramPage, Storing
<1>7. CASE ProgramAddress
  <2>1. copy # << >>
    BY <1>7 DEF ProgramAddress, IInv, Halfway
  <2>2. QED BY <1>2, <1>7, <2>1 DEF ProgramAddress
<1>8. CASE StoreFails
  <2>1. copy # << >>
    BY <1>8, Zenon DEF StoreFails, Storing
  <2>2. op' = "idle" \/ (copy' = Tail(copy) /\ op' = op /\ pair' = pair)
    BY <1>8, Zenon DEF StoreFails, Return
  <2>3. QED BY <1>2, <1>3, <2>1, <2>2
<1>9. CASE BeginTransfer
  <2>1. PICK v \in Home : v = Head(copy)
    BY <1>9, BeginsInHome
  <2>2. op' = "idle" \/ (copy' = <<v>> \o Others(v) /\ op' = op /\ op = "write")
    <3>1. \E old, new :
            \/ Return("FLASH_ERROR_PG")
            \/ /\ pages' = [pages EXCEPT ![new].status = "RECEIVE_DATA"]
               /\ copy' = <<Head(copy)>> \o Others(Head(copy)) /\ todo' = <<Erase(old), Mark(new)>>
               /\ UNCHANGED <<op, asked, pair, status, locked>>
      BY <1>9 DEF BeginTransfer, TransferPlan
    <3>2. op = "write"
      BY <1>9 DEF BeginTransfer, CausesTransfer
    <3>3. CASE Return("FLASH_ERROR_PG")
      BY <3>3 DEF Return
    <3>4. CASE copy' = <<Head(copy)>> \o Others(Head(copy)) /\ op' = op
      BY <2>1, <3>2, <3>4, Zenon
    <3>5. QED BY <3>1, <3>3, <3>4
  <2>3. CASE copy' = <<v>> \o Others(v) /\ op' = op /\ op = "write"
    <3>1. Pending' = Home
      BY <2>3, Everyone
    <3>2. QED BY <2>3, <3>1, NoneReceives DEF Alone
  <2>4. QED BY <1>3, <2>2, <2>3
<1>10. CASE WriteReturns \/ InitReturns \/ Clear \/ PowerLoss
  BY <1>3, <1>10 DEF WriteReturns, InitReturns, Clear, PowerLoss, Return
<1>11. CASE PowerUp
  BY <1>3, <1>11 DEF PowerUp, IInv, Control
<1>12. CASE NextPair
  <2>1. op \in {"init", "clear"} /\ op' = op /\ pair' = pair + 1 /\ pair \in 0 .. Pairs /\ pair < Pairs
        /\ copy' = (IF op = "init" THEN RecoveryPlan(2 * pair) ELSE ClearPlan(2 * pair)).copy
    BY <1>12 DEF NextPair, Walking, IInv, TypeOK
  <2>2. CASE op = "init" /\ 1 < pair'
    <3>1. PICK p \in Page \ {0, 1} : p = 2 * pair /\ p + 1 \in Page \ {0, 1}
      <4>1. 2 * pair \in Page \ {0, 1} /\ 2 * pair + 1 \in Page \ {0, 1}
        BY <2>1, <2>2, Sizes DEF Page
      <4>2. QED BY <4>1
    <3>2. Status(p) # "RECEIVE_DATA" /\ Status(p + 1) # "RECEIVE_DATA"
      BY <3>1 DEF Alone
    <3>3. copy' = << >>
      BY <2>1, <2>2, <3>1, <3>2, Plans
    <3>4. QED BY <2>1, <2>2, <3>3, NoneReceives DEF Alone
  <2>3. CASE ~(op = "init" /\ 1 < pair')
    BY <2>1, <2>3, NoneReceives DEF Alone
  <2>4. QED BY <2>2, <2>3
<1>13. QED BY <1>4, <1>5, <1>6, <1>7, <1>8, <1>9, <1>10, <1>11, <1>12 DEF Next

\* A write has what it was asked for, and when it is the first pair's it is Ours.
LEMMA Asked ==
  ASSUME TypeOK, op = "write"
  PROVE  /\ asked[1] \in Addresses /\ asked[2] \in Data /\ asked = <<asked[1], asked[2]>>
         /\ Ours = (asked[1] \in Home)
<1>1. asked \in Addresses \X Data
  BY DEF TypeOK
<1>2. QED BY <1>1 DEF Ours

\* A store fails only in a recovery after a power failure in Fee_Init.
LEMMA StoreSucceeds ==
  ASSUME Addresses \subseteq Home, IInv, Alone, Sound, StoreFails
  PROVE  unmended
<1> SUFFICES ASSUME ~unmended PROVE FALSE
  OBVIOUS
<1>1. /\ Storing /\ StoreError(Head(copy)) # "" /\ ~PassedOver(Head(copy)) /\ copy # << >>
      /\ half = << >> /\ ~CausesTransfer(StoreError(Head(copy)))
  BY Zenon DEF StoreFails, Storing
<1>2. op \in {"write", "init"} /\ pair \in 0 .. Pairs /\ (op = "init" => pair # 0)
  BY <1>1 DEF IInv, TypeOK, Control
<1>3. CASE op = "init"
  <2>1. pair = 1
    <3>1. ~(1 < pair) /\ pair # 0
      BY <1>1, <1>2, <1>3, Zenon DEF Alone
    <3>2. pair \in 0 .. Pairs
      BY <1>2
    <3>3. QED BY <3>1, <3>2, Sizes
  <2>2. QED BY <1>1, <1>3, <2>1, RecoveryStores DEF IInv, Recovery, Formatting, Mending
<1>4. CASE op = "write"
  <2>1. Ours /\ asked[1] \in Home /\ asked[1] \in Nat
    <3>1. Ours /\ asked[1] \in Home
      BY <1>4, Asked, Zenon DEF IInv
    <3>2. QED BY <3>1 DEF Home
  <2>2. PICK r \in {0, 1} : Single(r) \/ Transferring(r)
    BY <1>1, <1>4, <2>1 DEF IInv, Writing, Ending
  <2>3. CASE Transferring(r)
    BY <1>1, <1>4, <2>1, <2>3, TransferStores
  <2>4. CASE Single(r)
    <3>1. copy = <<asked[1]>> /\ todo = << >> /\ Whole(r)
      BY <1>1, <2>4 DEF Single
    <3>2. Head(copy) = asked[1]
      BY <3>1, Tuples
    <3>3. WritePage(Head(copy)) = r /\ r # NoPage
      BY <2>1, <3>1, <3>2, HomePages DEF IInv
    <3>4. ~locked
      BY DEF Sound
    <3>5. StoreError(Head(copy)) = "PAGE_FULL"
      BY <1>1, <3>3, <3>4, Zenon DEF StoreError
    <3>6. QED BY <1>1, <1>4, <3>1, <3>5 DEF CausesTransfer
  <2>5. QED BY <2>2, <2>3, <2>4
<1>5. QED BY <1>2, <1>3, <1>4

\* The page a transfer turns to is erased.
LEMMA TransferBegins ==
  ASSUME Addresses \subseteq Home, IInv, Alone, Sound, BeginTransfer, ~unmended
  PROVE  ~locked' /\ status' = status
<1>1. /\ op = "write" /\ todo = << >> /\ copy # << >> /\ half = << >>
  BY DEF BeginTransfer, CausesTransfer, Storing
<1>2. Ours /\ asked[1] \in Home /\ asked[1] \in Nat /\ ~locked
  <2>1. Ours /\ asked[1] \in Home
    BY <1>1, Asked, Zenon DEF IInv
  <2>2. asked[1] \in Nat
    BY <2>1 DEF Home
  <2>3. QED BY <2>1, <2>2 DEF Sound
<1>3. PICK r \in {0, 1} : Single(r)
  BY <1>1, <1>2, Tuples DEF IInv, Writing, Transferring, Ending
<1>4. copy = <<asked[1]>> /\ Whole(r)
  BY <1>1, <1>3 DEF Single
<1>5. Head(copy) = asked[1]
  BY <1>4, Tuples
<1>6. First(asked[1]) = 0 /\ Second(asked[1]) = 1
  BY <1>2, PagesOf
<1>7. Other(ReadPage(Head(copy)), Head(copy)) = 1 - r
  BY <1>2, <1>4, <1>5, <1>6, HomePages DEF IInv, Other
<1>8. Status(Other(ReadPage(Head(copy)), Head(copy))) = "ERASED"
  BY <1>4, <1>7 DEF Whole
<1>9. QED BY <1>2, <1>8 DEF BeginTransfer

\* That no call fails is kept by every step.
LEMMA SoundStep ==
  ASSUME Addresses \subseteq Home, IInv, Alone, Sound, [Next]_vars
  PROVE  Sound'
<1>1. ASSUME unmended' = unmended, locked' = locked, status' \in {status, "FLASH_COMPLETE"}
      PROVE  Sound'
  BY <1>1 DEF Sound
<1>2. CASE vars' = vars
  BY <1>1, <1>2 DEF vars
<1>3. CASE \E v \in Addresses, d \in Data : Write(v, d)
  BY <1>1, <1>3 DEF Write
<1>4. CASE Pass \/ ProgramData \/ ProgramAddress \/ ProgramPage
  BY <1>1, <1>4 DEF Pass, ProgramData, ProgramAddress, ProgramPage
<1>5. CASE NextPair \/ Clear \/ PowerUp \/ WriteReturns
  BY <1>1, <1>5 DEF NextPair, Clear, PowerUp, WriteReturns, Return
<1>6. CASE StoreFails
  <2>1. unmended /\ unmended' = unmended
    BY <1>6, StoreSucceeds DEF StoreFails
  <2>2. QED BY <2>1 DEF Sound
<1>7. CASE BeginTransfer
  <2>1. unmended' = unmended
    BY <1>7 DEF BeginTransfer
  <2>2. QED BY <1>7, <2>1, TransferBegins DEF Sound
<1>8. CASE InitReturns
  <2>1. CASE pair = Pairs /\ Return("FLASH_COMPLETE") /\ unmended' = (unmended /\ op # "init")
    <3>1. status' = "FLASH_COMPLETE" /\ locked' = locked
      BY <1>8, <2>1 DEF InitReturns, Return
    <3>2. ~unmended' => ~locked
      BY <2>1, Zenon DEF Sound, IInv, Control
    <3>3. QED BY <3>1, <3>2 DEF Sound
  <2>2. CASE locked /\ UNCHANGED unmended
    BY <2>2 DEF Sound
  <2>3. QED BY <1>8, <2>1, <2>2 DEF InitReturns
<1>9. CASE PowerLoss
  BY <1>9 DEF PowerLoss, Sound
<1>10. QED BY <1>2, <1>3, <1>4, <1>5, <1>6, <1>7, <1>8, <1>9 DEF Next

-----------------------------------------------------------------------------
(* What is kept                                                            *)

LEMMA MinIs ==
  ASSUME NEW S, S \subseteq Nat, NEW m \in S, \A y \in S : m <= y
  PROVE  Min(S) = m
<1>1. Min(S) \in S /\ \A y \in S : Min(S) <= y
  BY Zenon DEF Min
<1>2. PICK x \in Nat : x = Min(S)
  BY <1>1
<1>3. m <= x /\ x <= m /\ m \in Nat
  BY <1>1, <1>2
<1>4. m = x
  BY <1>3
<1>5. QED BY <1>2, <1>4

\* The sets that Kept chooses from, for a variable of the first pair.
Ahead(v) == {p \in {0, 1} : Status(p) = "RECEIVE_DATA" /\ Holding(p, v) # {}}
Valid == {p \in {0, 1} : Status(p) = "VALID_PAGE"}
Staying == {p \in Valid : \A k \in 1 .. Len(todo) : todo[k] # Erase(p)}
Formats == op = "init" /\ \A p \in {0, 1} : Status(p) # "RECEIVE_DATA"
Best(v) == IF Ahead(v) # {} THEN Ahead(v)
           ELSE IF Staying # {} \/ Formats THEN Staying ELSE Valid

KeptOf(v) ==
  /\ Best(v) \subseteq {0, 1} /\ (Best(v) = {} => Kept(v) = None)
  /\ \A r \in {0, 1} : r \in Best(v) /\ (Best(v) = {r} \/ r = 0) => Kept(v) = Latest(r, v)

\* What is kept when a page is valid and stays, when one receives, when one has received
\* all, and when of two valid pages the other is to be erased.
KeptAt(r, v) ==
  /\ Whole(r) /\ (op # "init" \/ \A k \in 1 .. Len(todo) : todo[k] # Erase(r)) =>
       Kept(v) = Latest(r, v)
  /\ Moving(r) => Kept(v) = IF Holding(r, v) # {} THEN Latest(r, v) ELSE Latest(1 - r, v)
  /\ Moved(r) => Kept(v) = Latest(r, v)
  /\ Status(r) = "VALID_PAGE" /\ Status(1 - r) = "VALID_PAGE" /\ todo = <<Erase(1 - r)>> =>
       Kept(v) = Latest(r, v)

\* When nothing is.
NoneKept(v) ==
  /\ Fresh => Kept(v) = None
  /\ Cleared /\ (todo = << >> \/ todo = <<Erase(1)>>) => Kept(v) = None
  /\ op = "init" /\ todo \in {Format(0), <<Mark(0), Erase(1)>>}
     /\ (Status(0) = "ERASED" \/ todo = Format(0))
     /\ Status(0) # "RECEIVE_DATA" /\ Status(1) # "RECEIVE_DATA" => Kept(v) = None
  /\ \A p \in {0, 1} : Unused(p) => Holding(p, v) = {} /\ Latest(p, v) = None

\* What is kept is in the page that is ahead, or else in the one that stays.
LEMMA KeptOfBest ==
  ASSUME NEW v \in Home
  PROVE  KeptOf(v)
<1>1. {First(v), Second(v)} = {0, 1}
  <2>1. v \in Nat
    BY DEF Home
  <2>2. QED BY <2>1, PagesOf
<1>2. Kept(v) = IF Best(v) = {} THEN None ELSE Latest(Min(Best(v)), v)
  BY <1>1, Zenon DEF Kept, Best, Ahead, Valid, Staying, Formats
<1>3. Best(v) \subseteq {0, 1}
  BY DEF Best, Ahead, Valid, Staying
<1>4. ASSUME NEW r \in {0, 1}, r \in Best(v), Best(v) = {r} \/ r = 0
      PROVE  Min(Best(v)) = r
  <2>1. PICK S : S = Best(v)
    OBVIOUS
  <2>2. S \subseteq Nat /\ r \in S /\ \A y \in S : r <= y
    BY <1>3, <1>4, <2>1
  <2>3. QED BY <2>1, <2>2, MinIs
<1>5. QED BY <1>2, <1>3, <1>4, Zenon DEF KeptOf

\* What is kept in each state of the pair.
LEMMA KeptIs ==
  ASSUME TypeOK, NEW v \in Home, NEW r \in {0, 1}
  PROVE  KeptAt(r, v)
<1>1. 1 - r \in {0, 1} /\ 1 - r # r /\ {0, 1} = {r, 1 - r}
  OBVIOUS
<1>2. ASSUME Whole(r), op # "init" \/ \A k \in 1 .. Len(todo) : todo[k] # Erase(r)
      PROVE  Kept(v) = Latest(r, v)
  <2>1. Ahead(v) = {} /\ Valid = {r}
    BY <1>1, <1>2 DEF Whole, Ahead, Valid
  <2>2. Best(v) = {r}
    BY <1>2, <2>1 DEF Best, Staying, Formats
  <2>3. QED BY <2>2, KeptOfBest DEF KeptOf
<1>3. ASSUME Moving(r)
      PROVE  Kept(v) = IF Holding(r, v) # {} THEN Latest(r, v) ELSE Latest(1 - r, v)
  <2>1. Valid = {1 - r} /\ ~Formats
    BY <1>1, <1>3 DEF Moving, Valid, Formats
  <2>2. CASE Holding(r, v) # {}
    <3>1. Ahead(v) = {r}
      BY <1>1, <1>3, <2>2 DEF Moving, Ahead
    <3>2. Best(v) = {r}
      BY <3>1 DEF Best
    <3>3. QED BY <2>2, <3>2, KeptOfBest DEF KeptOf
  <2>3. CASE Holding(r, v) = {}
    <3>1. Ahead(v) = {}
      BY <1>1, <1>3, <2>3 DEF Moving, Ahead
    <3>2. Best(v) = {1 - r}
      BY <2>1, <3>1 DEF Best, Staying
    <3>3. Kept(v) = Latest(1 - r, v)
      BY <1>1, <3>2, KeptOfBest DEF KeptOf
    <3>4. QED BY <2>3, <3>3
  <2>4. QED BY <2>2, <2>3
<1>4. ASSUME Moved(r) PROVE Kept(v) = Latest(r, v)
  <2>1. Valid = {}
    BY <1>1, <1>4 DEF Moved, Valid
  <2>2. CASE Holding(r, v) # {}
    <3>1. Ahead(v) = {r}
      BY <1>1, <1>4, <2>2 DEF Moved, Ahead
    <3>2. Best(v) = {r}
      BY <3>1 DEF Best
    <3>3. QED BY <3>2, KeptOfBest DEF KeptOf
  <2>3. CASE Holding(r, v) = {}
    <3>1. Ahead(v) = {}
      BY <1>1, <1>4, <2>3 DEF Moved, Ahead
    <3>2. Best(v) = {}
      BY <2>1, <3>1 DEF Best, Staying
    <3>3. QED BY <2>3, <3>2, KeptOfBest DEF Latest, KeptOf
  <2>4. QED BY <2>2, <2>3
<1>5. ASSUME Status(r) = "VALID_PAGE", Status(1 - r) = "VALID_PAGE", todo = <<Erase(1 - r)>>
      PROVE  Kept(v) = Latest(r, v)
  <2>1. Ahead(v) = {} /\ Valid = {r, 1 - r}
    BY <1>1, <1>5 DEF Ahead, Valid
  <2>2. Staying = {r}
    <3>1. Len(todo) = 1 /\ todo[1] = Erase(1 - r) /\ Erase(r) # Erase(1 - r)
      BY <1>1, <1>5 DEF Erase
    <3>2. QED BY <2>1, <3>1 DEF Staying
  <2>3. QED BY <2>1, <2>2, KeptOfBest DEF Best, KeptOf
<1>6. QED BY <1>2, <1>3, <1>4, <1>5 DEF KeptAt

\* When nothing is kept.
LEMMA NothingKept ==
  ASSUME TypeOK, NEW v \in Home
  PROVE  NoneKept(v)
<1>1. ASSUME NEW p \in {0, 1}, Unused(p) PROVE Holding(p, v) = {} /\ Latest(p, v) = None
  <2>1. v # Blank
    BY AddressInPlaces
  <2>2. \A k \in 1 .. Slots : pages[p].slot[k].address = Blank
    <3>1. p \in Page /\ \A k \in 1 .. Slots : k \in Free(p)
      BY <1>1, FirstPages DEF Unused
    <3>2. QED BY <3>1, SlotTypes
  <2>3. Holding(p, v) = {}
    BY <2>1, <2>2 DEF Holding
  <2>4. QED BY <2>3 DEF Latest
<1>2. ASSUME Fresh PROVE Kept(v) = None
  <2>1. Ahead(v) = {} /\ Valid = {}
    BY <1>2 DEF Fresh, Ahead, Valid
  <2>2. QED BY <2>1, KeptOfBest DEF Best, Staying, KeptOf
<1>3. ASSUME Cleared, todo = << >> \/ todo = <<Erase(1)>> PROVE Kept(v) = None
  <2>1. Ahead(v) = {} /\ Valid = {0, 1}
    BY <1>3 DEF Cleared, Ahead, Valid
  <2>2. \A k \in 1 .. Len(todo) : todo[k] # Erase(0)
    BY <1>3 DEF Erase
  <2>3. 0 \in Staying
    BY <2>1, <2>2 DEF Staying
  <2>4. Kept(v) = Latest(0, v)
    BY <2>1, <2>3, KeptOfBest DEF Best, KeptOf
  <2>5. QED BY <1>1, <1>3, <2>4 DEF Cleared
<1>4. ASSUME op = "init", todo \in {Format(0), <<Mark(0), Erase(1)>>},
             Status(0) = "ERASED" \/ todo = Format(0),
             Status(0) # "RECEIVE_DATA", Status(1) # "RECEIVE_DATA"
      PROVE  Kept(v) = None
  <2>1. Ahead(v) = {} /\ Formats
    BY <1>4 DEF Ahead, Formats
  <2>2. Format(0) = <<Erase(0), Mark(0), Erase(1)>>
    BY DEF Format
  <2>3. 1 \notin Staying
    <3>1. \E k \in 1 .. Len(todo) : todo[k] = Erase(1)
      <4>1. CASE todo = Format(0)
        <5>1. Len(todo) = 3 /\ todo[3] = Erase(1)
          BY <2>2, <4>1
        <5>2. QED BY <5>1
      <4>2. CASE todo = <<Mark(0), Erase(1)>>
        <5>1. Len(todo) = 2 /\ todo[2] = Erase(1)
          BY <4>2
        <5>2. QED BY <5>1
      <4>3. QED BY <1>4, <4>1, <4>2
    <3>2. QED BY <3>1 DEF Staying
  <2>4. 0 \notin Staying
    <3>1. CASE Status(0) = "ERASED"
      BY <3>1 DEF Staying, Valid
    <3>2. CASE todo = Format(0)
      <4>1. Len(todo) = 3 /\ todo[1] = Erase(0)
        BY <2>2, <3>2
      <4>2. QED BY <4>1 DEF Staying
    <3>3. QED BY <1>4, <3>1, <3>2
  <2>5. Staying = {}
    BY <2>3, <2>4 DEF Staying, Valid
  <2>6. QED BY <2>1, <2>5, KeptOfBest DEF Best, KeptOf
<1>5. QED BY <1>1, <1>2, <1>3, <1>4 DEF NoneKept

\* The same of the next state.
KeptEverywhere ==
  TypeOK => \A v \in Home : KeptOf(v) /\ NoneKept(v) /\ \A r \in {0, 1} : KeptAt(r, v)

\* The same as one formula, so that it can be used of the next state.
LEMMA KeptNow == KeptEverywhere
  BY KeptOfBest, KeptIs, NothingKept DEF KeptEverywhere

LEMMA KeptNext ==
  ASSUME TypeOK', NEW v \in Home
  PROVE  KeptOf(v)' /\ NoneKept(v)' /\ \A r \in {0, 1} : KeptAt(r, v)'
<1>1. KeptEverywhere'
  BY KeptNow, PTL
<1>2. QED BY <1>1 DEF KeptEverywhere

\* When only variables of the first pair are written, a transfer always makes room and a
\* recovery always finds it, so that no call returns an error, and between calls a read
\* finds what is kept, see CallsSucceed.
THEOREM NoCallFails ==
  ASSUME Addresses \subseteq Home
  PROVE  Spec => []CallsSucceed
<1>1. Init => Alone /\ Sound
  <2> SUFFICES ASSUME Init PROVE Alone /\ Sound
    OBVIOUS
  <2>1. \A p \in Page : Status(p) = "ERASED"
    BY DEF Init, EmptyPage, Status
  <2>2. QED BY <2>1 DEF Init, Alone, Sound
<1>2. IInv /\ Alone /\ Sound /\ [Next]_vars => (Alone /\ Sound)'
  BY AloneStep, SoundStep
<1>3. Spec => [](Alone /\ Sound)
  BY <1>1, <1>2, Invariance, PTL DEF Spec
<1>4. ASSUME IInv, Sound PROVE CallsSucceed
  <2> SUFFICES ASSUME ~unmended, op = "idle", NEW v \in Watched PROVE ReadVariable(v) = Kept(v)
    BY <1>4 DEF Sound, CallsSucceed
  <2>1. v \in Home
    BY SizeAssumption
  <2>2. PICK r \in {0, 1} : Whole(r)
    BY <1>4 DEF IInv, Settled
  <2>3. TypeOK
    BY <1>4 DEF IInv
  <2>4. Kept(v) = Latest(r, v)
    BY <2>1, <2>2, <2>3, KeptIs DEF KeptAt
  <2>5. ReadPage(v) = r /\ r # NoPage
    BY <2>1, <2>2, <2>3, HomePages
  <2>6. QED BY <2>4, <2>5 DEF ReadVariable
<1>5. IInv /\ Sound => CallsSucceed
  BY <1>4
<1>6. QED BY <1>3, <1>5, Invariance, PTL

-----------------------------------------------------------------------------
(* The promise of KVStore                                                  *)

\* The flash keeps what it held for the first pair.
HeldAsBefore ==
  \A q \in {0, 1} : /\ Status(q)' = Status(q)
                    /\ \A x \in Home : Holding(q, x)' = Holding(q, x) /\ Latest(q, x)' = Latest(q, x)

SameKept == \A v \in Home : Kept(v)' = Kept(v)

\* What is kept does not change, cause by cause.
LEMMA FlashSame ==
  ASSUME pages' = pages
  PROVE  HeldAsBefore
BY PagesKept DEF HeldAsBefore

\* Fee_Init begins or ends in no state where the choice among the pages would differ.
LEMMA PlanSame ==
  ASSUME IInv, IInv', HeldAsBefore, (op = "init") = (op' = "init"), todo' = todo
  PROVE  SameKept
<1> SUFFICES ASSUME NEW v \in Home PROVE Kept(v)' = Kept(v)
  BY DEF SameKept
<1>1. Best(v)' = Best(v)
  <2>1. Ahead(v)' = Ahead(v)
    BY DEF HeldAsBefore, Ahead
  <2>2. Valid' = Valid
    BY DEF HeldAsBefore, Valid
  <2>3. Staying' = Staying
    BY <2>2 DEF Staying, Erase
  <2>4. Formats' = Formats
    <3>1. (\A p \in {0, 1} : Status(p)' # "RECEIVE_DATA") = \A p \in {0, 1} : Status(p) # "RECEIVE_DATA"
      BY DEF HeldAsBefore
    <3>2. QED BY <3>1, Zenon DEF Formats
  <2>5. QED BY <2>1, <2>2, <2>3, <2>4, Zenon DEF Best
<1>2. KeptOf(v) /\ KeptOf(v)'
  BY KeptOfBest, KeptNext DEF IInv
<1>3. PICK S : S = Best(v) /\ S = Best(v)' /\ S \subseteq {0, 1}
  BY <1>1, <1>2 DEF KeptOf
<1>4. CASE S = {}
  BY <1>2, <1>3, <1>4 DEF KeptOf
<1>5. CASE S # {}
  <2>1. PICK r \in {0, 1} : r \in S /\ (S = {r} \/ r = 0)
    <3>1. S = {0} \/ S = {1} \/ S = {0, 1}
      BY <1>3, <1>5
    <3>2. QED BY <3>1
  <2>2. Kept(v) = Latest(r, v)
    BY <1>2, <1>3, <2>1, Zenon DEF KeptOf
  <2>3. Kept(v)' = Latest(r, v)'
    BY <1>2, <1>3, <2>1, Zenon DEF KeptOf
  <2>4. QED BY <2>2, <2>3 DEF HeldAsBefore
<1>6. QED BY <1>4, <1>5

LEMMA WholeSame ==
  ASSUME IInv, IInv', HeldAsBefore, NEW r \in {0, 1}, Whole(r),
         op # "init" \/ \A k \in 1 .. Len(todo) : todo[k] # Erase(r),
         op' # "init" \/ \A k \in 1 .. Len(todo') : todo'[k] # Erase(r)
  PROVE  SameKept /\ Whole(r)'
<1>1. Whole(r)'
  BY DEF HeldAsBefore, Whole
<1>2. ASSUME NEW v \in Home PROVE Kept(v)' = Kept(v)
  <2>1. Kept(v) = Latest(r, v)
    BY KeptIs DEF KeptAt, IInv
  <2>2. KeptAt(r, v)'
    BY KeptNext DEF IInv
  <2>3. Erase(r)' = Erase(r)
    BY DEF Erase
  <2>4. Kept(v)' = Latest(r, v)'
    BY <1>1, <2>2, <2>3, Zenon DEF KeptAt
  <2>5. QED BY <2>1, <2>4 DEF HeldAsBefore
<1>3. QED BY <1>1, <1>2 DEF SameKept

\* A variable is kept as before by a page that goes on receiving.
LEMMA MovingStays ==
  ASSUME NEW r, NEW v, Moving(r), Moving(r)', KeptAt(r, v), KeptAt(r, v)',
         Holding(r, v)' = Holding(r, v), Latest(r, v)' = Latest(r, v),
         Latest(1 - r, v)' = Latest(1 - r, v)
  PROVE  Kept(v)' = Kept(v)
<1>1. CASE Holding(r, v) # {}
  <2>1. Kept(v) = Latest(r, v)
    BY <1>1, Zenon DEF KeptAt
  <2>2. Kept(v)' = Latest(r, v)'
    BY <1>1 DEF KeptAt
  <2>3. QED BY <2>1, <2>2, Zenon
<1>2. CASE Holding(r, v) = {}
  <2>1. Kept(v) = Latest(1 - r, v)
    BY <1>2, Zenon DEF KeptAt
  <2>2. Kept(v)' = Latest(1 - r, v)'
    BY <1>2 DEF KeptAt
  <2>3. QED BY <2>1, <2>2, Zenon
<1>3. QED BY <1>1, <1>2

LEMMA MovingSame ==
  ASSUME IInv, IInv', HeldAsBefore, NEW r \in {0, 1}, Moving(r)
  PROVE  SameKept
<1>1. Moving(r)'
  BY DEF HeldAsBefore, Moving
<1>2. ASSUME NEW v \in Home PROVE Kept(v)' = Kept(v)
  <2>1. KeptAt(r, v) /\ KeptAt(r, v)'
    BY KeptIs, KeptNext DEF IInv
  <2>2. /\ Holding(r, v)' = Holding(r, v) /\ Latest(r, v)' = Latest(r, v)
        /\ Latest(1 - r, v)' = Latest(1 - r, v)
    BY DEF HeldAsBefore
  <2>3. QED BY <1>1, <2>1, <2>2, MovingStays
<1>3. QED BY <1>2 DEF SameKept

LEMMA MovedSame ==
  ASSUME IInv, IInv', HeldAsBefore, NEW r \in {0, 1}, Moved(r)
  PROVE  SameKept
<1>1. Moved(r)'
  BY DEF HeldAsBefore, Moved
<1>2. ASSUME NEW v \in Home PROVE Kept(v)' = Kept(v)
  <2>1. KeptAt(r, v) /\ KeptAt(r, v)'
    BY KeptIs, KeptNext DEF IInv
  <2>2. Kept(v) = Latest(r, v) /\ Kept(v)' = Latest(r, v)'
    BY <1>1, <2>1, Zenon DEF KeptAt
  <2>3. QED BY <2>2 DEF HeldAsBefore
<1>3. QED BY <1>2 DEF SameKept

\* Nothing is kept before, and nothing after.
LEMMA NoneSame ==
  ASSUME \A v \in Home : Kept(v) = None, \A v \in Home : Kept(v)' = None
  PROVE  SameKept
BY DEF SameKept

LEMMA FreshKeeps ==
  ASSUME IInv, IInv', HeldAsBefore, Fresh
  PROVE  SameKept
<1>1. Fresh'
  BY DEF HeldAsBefore, Fresh
<1>2. \A v \in Home : Kept(v) = None /\ Kept(v)' = None
  BY <1>1, NothingKept, KeptNext DEF IInv, NoneKept
<1>3. QED BY <1>2, NoneSame

LEMMA ClearedKeeps ==
  ASSUME IInv, IInv', pages' = pages, Cleared, todo = << >> \/ todo = <<Erase(1)>>,
         todo' = << >> \/ (op' = "init" /\ todo' = Format(0))
  PROVE  SameKept
<1>1. Cleared'
  BY PagesKept DEF Cleared
<1>2. \A v \in Home : Kept(v) = None
  BY NothingKept DEF IInv, NoneKept
<1>3. ASSUME NEW v \in Home PROVE Kept(v)' = None
  <2>1. NoneKept(v)'
    BY KeptNext DEF IInv
  <2>2. CASE todo' = << >>
    BY <1>1, <2>1, <2>2, Zenon DEF NoneKept
  <2>3. CASE op' = "init" /\ todo' = Format(0)
    <3>1. Status(0)' # "RECEIVE_DATA" /\ Status(1)' # "RECEIVE_DATA"
      BY <1>1 DEF Cleared
    <3>2. Format(0)' = Format(0)
      BY DEF Format, Erase, Mark
    <3>3. QED BY <2>1, <2>3, <3>1, <3>2 DEF NoneKept
  <2>4. QED BY <2>2, <2>3
<1>4. QED BY <1>2, <1>3, NoneSame

\* The power fails: whatever was not kept yet is not, and whatever was still is.
LEMMA PowerLossKeeps ==
  ASSUME IInv, IInv', PowerLoss, ~unmended'
  PROVE  SameKept
<1>1. /\ ~unmended /\ op \in {"idle", "write", "clear"} /\ op' = "off" /\ todo' = << >>
      /\ pages' = pages /\ HeldAsBefore /\ pair \in 0 .. Pairs
  <2>1. op \in {"off", "idle", "write", "init", "clear"} /\ pair \in 0 .. Pairs
    BY DEF IInv, TypeOK
  <2>2. pages' = pages /\ op' = "off" /\ todo' = << >> /\ op # "off" /\ unmended' = (unmended \/ op = "init")
    BY DEF PowerLoss
  <2>3. ~unmended /\ op # "init"
    BY <2>2, Zenon
  <2>4. QED BY <2>1, <2>2, <2>3, FlashSame
<1>2. ASSUME NEW r \in {0, 1}, Whole(r) PROVE SameKept
  BY <1>1, <1>2, WholeSame
<1>3. CASE op = "idle"
  BY <1>1, <1>2, <1>3 DEF IInv, Settled
<1>4. CASE op = "write"
  <2>1. CASE ~Ours
    BY <1>1, <1>2, <1>4, <2>1 DEF IInv, Settled
  <2>2. CASE Ours
    <3>1. PICK r \in {0, 1} : Whole(r) \/ Moving(r) \/ Moved(r)
      BY <1>1, <1>4, <2>2 DEF IInv, Writing, Single, Transferring, Ending
    <3>2. QED BY <1>1, <1>2, <3>1, MovingSame, MovedSame
  <2>3. QED BY <2>1, <2>2
<1>5. CASE op = "clear"
  <2>1. pair = 0 \/ pair = 1 \/ 1 < pair
    BY <1>1
  <2>2. CASE pair = 0
    BY <1>1, <1>2, <1>5, <2>2 DEF IInv, Settled
  <2>3. CASE 1 < pair
    BY <1>1, <1>2, <1>5, <2>3 DEF IInv, Beyond
  <2>4. CASE pair = 1
    <3>1. \/ \E r \in {0, 1} : Whole(r)
          \/ Status(0) = "ERASED" /\ Status(1) # "RECEIVE_DATA"
          \/ todo = <<Erase(1)>> /\ Status(0) = "VALID_PAGE" /\ Unused(0) /\ Status(1) # "RECEIVE_DATA"
      BY <1>1, <1>5, <2>4 DEF IInv, Clearing
    <3>2. Status(1) \in {"ERASED", "RECEIVE_DATA", "VALID_PAGE"}
      BY StatusTypes DEF IInv
    <3>3. \/ \E r \in {0, 1} : Whole(r)
          \/ Fresh
          \/ Cleared /\ todo = <<Erase(1)>>
      BY <3>1, <3>2 DEF Whole, Fresh, Cleared
    <3>4. QED BY <1>1, <1>2, <3>3, FreshKeeps, ClearedKeeps
  <2>5. QED BY <2>1, <2>2, <2>3, <2>4
<1>6. QED BY <1>1, <1>3, <1>4, <1>5

\* The power comes back to what it left.
LEMMA PowerUpKeeps ==
  ASSUME IInv, IInv', PowerUp, ~unmended'
  PROVE  SameKept
<1>1. /\ ~unmended /\ op = "off" /\ pages' = pages /\ HeldAsBefore /\ todo' = todo /\ todo = << >>
      /\ op' = "init"
  <2>1. pages' = pages /\ op = "off" /\ todo' = todo /\ unmended' = unmended /\ op' = "init"
    BY DEF PowerUp
  <2>2. todo = << >>
    BY <2>1 DEF IInv, Control
  <2>3. QED BY <2>1, <2>2, FlashSame
<1>2. \A r : /\ \A k \in 1 .. Len(todo) : todo[k] # Erase(r)
             /\ \A k \in 1 .. Len(todo') : todo'[k] # Erase(r)
  BY <1>1
<1>3. Fresh \/ Cleared \/ \E r \in {0, 1} : Whole(r) \/ Moving(r) \/ Moved(r)
  BY <1>1 DEF IInv, Resting, Torn
<1>4. QED BY <1>1, <1>2, <1>3, FreshKeeps, ClearedKeeps, WholeSame, MovingSame, MovedSame

\* Fee_Init turns to a pair and has not touched it yet.
LEMMA NextPairKeeps ==
  ASSUME IInv, IInv', NextPair, ~unmended'
  PROVE  SameKept
<1>1. /\ op \in {"init", "clear"} /\ copy = << >> /\ half = << >> /\ todo = << >>
      /\ pair < Pairs /\ pair' = pair + 1 /\ ~unmended /\ pages' = pages /\ op' = op
      /\ todo' = (IF op = "init" THEN RecoveryPlan(2 * pair) ELSE ClearPlan(2 * pair)).todo
  BY DEF NextPair, Walking
<1>2. pair \in 0 .. Pairs - 1 /\ HeldAsBefore
  <2>1. pair \in 0 .. Pairs
    BY DEF IInv, TypeOK
  <2>2. QED BY <1>1, <2>1, Sizes, FlashSame
<1>3. \A r : \A k \in 1 .. Len(todo) : todo[k] # Erase(r)
  BY <1>1
<1>4. ASSUME NEW r \in {0, 1}, Whole(r), op = "clear" \/ pair # 0 PROVE SameKept
  <2>1. CASE op = "clear"
    BY <1>1, <1>2, <1>4, <2>1, WholeSame
  <2>2. CASE pair # 0
    <3>1. \A k \in 1 .. Len(todo') : todo'[k].page \in {2 * pair, 2 * pair + 1}
      BY Planned
    <3>2. Erase(r).page = r
      BY DEF Erase
    <3>3. r # 2 * pair /\ r # 2 * pair + 1
      BY <1>2, <2>2
    <3>4. \A k \in 1 .. Len(todo') : todo'[k] # Erase(r)
      BY <3>1, <3>2, <3>3
    <3>5. QED BY <1>1, <1>2, <1>3, <1>4, <3>4, WholeSame
  <2>3. QED BY <1>4, <2>1, <2>2
<1>5. CASE op = "clear" \/ pair # 0
  <2>1. CASE pair = 0
    BY <1>1, <1>4, <1>5, <2>1 DEF IInv, Settled
  <2>2. CASE 1 < pair
    BY <1>1, <1>4, <1>5, <2>2 DEF IInv, Beyond
  <2>3. CASE pair = 1
    <3>1. \E r \in {0, 1} : Whole(r)
      <4>1. CASE op = "init"
        BY <1>1, <2>3, <4>1, Tuples DEF IInv, Recovery, Formatting, Mending, Format
      <4>2. CASE op = "clear"
        BY <1>1, <2>3, <4>2, Tuples DEF IInv, Clearing, Format
      <4>3. QED BY <1>1, <4>1, <4>2
    <3>2. QED BY <1>4, <2>3, <3>1
  <2>4. pair = 0 \/ pair = 1 \/ 1 < pair
    BY <1>2
  <2>5. QED BY <2>1, <2>2, <2>3, <2>4
<1>6. CASE op = "init" /\ pair = 0
  <2>1. 2 * pair = 0 /\ 2 * pair + 1 = 1
    BY <1>6
  <2>2. todo' = RecoveryPlan(0).todo
    BY <1>1, <1>6, <2>1
  <2>3. Fresh \/ Cleared \/ \E r \in {0, 1} : Whole(r) \/ Moving(r) \/ Moved(r)
    BY <1>1, <1>6 DEF IInv, Resting, Torn
  <2>4. CASE Cleared
    <3>1. todo' = Format(0)
      BY <2>2, <2>4, Plans DEF Cleared
    <3>2. QED BY <1>1, <1>6, <2>4, <3>1, ClearedKeeps
  <2>5. ASSUME NEW r \in {0, 1}, Whole(r) PROVE SameKept
    <3>1. todo' = <<Erase(1 - r)>>
      BY <2>2, <2>5, Plans DEF Whole
    <3>2. \A k \in 1 .. Len(todo') : todo'[k] # Erase(r)
      BY <3>1 DEF Erase
    <3>3. QED BY <1>1, <1>2, <1>3, <2>5, <3>2, WholeSame
  <2>6. QED BY <1>1, <1>2, <2>3, <2>4, <2>5, FreshKeeps, MovingSame, MovedSame
<1>7. QED BY <1>1, <1>5, <1>6

\* A page that was erased holds nothing when it begins to receive.
LEMMA BeginTransferKeeps ==
  ASSUME IInv, IInv', BeginTransfer, ~unmended'
  PROVE  SameKept
<1> DEFINE v == Head(copy)
<1>1. /\ copy # << >> /\ half = << >> /\ op = "write" /\ todo = << >> /\ ~unmended
      /\ StoreError(v) = "PAGE_FULL" /\ copy \in Seq(Places)
  BY DEF BeginTransfer, CausesTransfer, Storing, IInv, Control
<1>2. PICK old, new :
      old = ReadPage(v) /\ new = Other(old, v) /\
      \/ pages' = pages /\ op' = "idle"
      \/ /\ Status(new) = "ERASED" /\ op' = op
         /\ pages' = [pages EXCEPT ![new].status = "RECEIVE_DATA"]
  BY DEF BeginTransfer, Return
<1>3. v \in Nat /\ 1 \in 1 .. Len(copy) /\ v = copy[1]
  BY <1>1, HeadAndTail, AddressInPlaces
<1>4. old \in {First(v), Second(v)} /\ new \in {First(v), Second(v)} /\ new \in Page /\ old # new
  <2>1. WritePage(v) # NoPage
    <3>1. NoPage # "PAGE_FULL"
      BY ValueAssumption
    <3>2. QED BY <1>1, <3>1 DEF StoreError
  <2>2. old \in Page /\ old \in {First(v), Second(v)}
    BY <1>2, <1>3, <2>1, Chosen DEF IInv
  <2>3. QED BY <1>2, <1>3, <2>2, PagesOf DEF Other
<1>5. PICK r \in {0, 1} : Whole(r) /\ (Ours => v \in Home)
  <2>1. CASE Ours
    <3>1. PICK r \in {0, 1} : Single(r)
      BY <1>1, <2>1, Tuples DEF IInv, Writing, Transferring, Ending
    <3>2. Whole(r) /\ v = asked[1]
      BY <1>1, <3>1, Tuples DEF Single
    <3>3. QED BY <1>1, <2>1, <3>2 DEF Ours
  <2>2. CASE ~Ours
    BY <1>1, <2>2 DEF IInv, Settled
  <2>3. QED BY <2>1, <2>2
<1>6. ~Ours => v \notin Home
  BY <1>3 DEF IInv, Control
<1> HIDE DEF v
<1>7. CASE pages' = pages /\ op' = "idle"
  BY <1>1, <1>5, <1>7, FlashSame, WholeSame
<1>8. CASE /\ Status(new) = "ERASED" /\ op' = op
           /\ pages' = [pages EXCEPT ![new].status = "RECEIVE_DATA"]
  <2>1. /\ Status(new)' = "RECEIVE_DATA" /\ \A q : q # new => Status(q)' = Status(q)
        /\ \A q \in Page : \A x : Holding(q, x)' = Holding(q, x) /\ Latest(q, x)' = Latest(q, x)
    BY <1>4, <1>8, StatusProgrammed DEF IInv
  <2>2. CASE ~Ours
    <3>1. new \notin {0, 1}
      BY <1>3, <1>4, <1>6, <2>2, PagesOf
    <3>2. HeldAsBefore
      BY <2>1, <3>1, FirstPages DEF HeldAsBefore
    <3>3. QED BY <1>1, <1>5, <1>8, <3>2, WholeSame
  <2>3. CASE Ours
    <3>1. new = 1 - r /\ 1 - r \in {0, 1} /\ 1 - (1 - r) = r /\ r \in Page
      <4>1. new \in {0, 1}
        BY <1>3, <1>4, <1>5, <2>3, PagesOf
      <4>2. new # r
        BY <1>5, <1>8 DEF Whole
      <4>3. QED BY <4>1, <4>2, FirstPages
    <3>2. Moving(1 - r)'
      BY <1>5, <2>1, <3>1 DEF Whole, Moving
    <3>3. ASSUME NEW x \in Home PROVE Kept(x)' = Kept(x)
      <4>1. Kept(x) = Latest(r, x)
        BY <1>1, <1>5, KeptIs DEF KeptAt, IInv
      <4>2. Holding(1 - r, x) = {}
        <5>1. Unused(new)
          BY <1>4, <1>8 DEF IInv, Flash
        <5>2. QED BY <3>1, <5>1, NothingKept DEF IInv, NoneKept
      <4>3. PICK s \in {0, 1} : s = 1 - r /\ 1 - s = r /\ s \in Page
        BY <1>4, <3>1
      <4>4. KeptAt(s, x)' /\ Moving(s)' /\ Holding(s, x)' = {}
        BY <2>1, <3>2, <4>2, <4>3, KeptNext DEF IInv
      <4>5. Kept(x)' = Latest(1 - s, x)'
        BY <4>4, Zenon DEF KeptAt
      <4>6. Latest(1 - s, x)' = Latest(r, x)
        BY <2>1, <3>1, <4>3
      <4>7. QED BY <4>1, <4>5, <4>6
    <3>4. QED BY <3>3 DEF SameKept
  <2>4. QED BY <2>2, <2>3
<1>9. QED BY <1>2, <1>7, <1>8

\* Data without an address is not found.
LEMMA ProgramDataKeeps ==
  ASSUME IInv, IInv', ProgramData
  PROVE  SameKept
<1>1. /\ Storing /\ copy # << >> /\ ~PassedOver(Head(copy)) /\ StoreError(Head(copy)) = ""
      /\ UNCHANGED <<op, todo>> /\ copy \in Seq(Places)
  BY DEF ProgramData, Storing, IInv, Control
<1>2. PICK v \in Places : v = Head(copy)
  BY <1>1, HeadAndTail
<1>3. PICK p, k, d : /\ p = WritePage(v) /\ k = Min(Free(p)) /\ d = ValueOf(v)
                     /\ pages' = [pages EXCEPT ![p].slot[k].data = d]
  BY <1>2 DEF ProgramData
<1>4. p \in Page /\ k \in Free(p) /\ d \in Data \cup {Blank}
  BY <1>1, <1>2, <1>3, StoreFits
<1>5. k \in 1 .. Slots /\ pages[p].slot[k].address = Blank
  BY <1>4, SlotTypes DEF IInv
<1>6. /\ \A q : Status(q)' = Status(q)
      /\ \A q \in Page : \A x : Holding(q, x)' = Holding(q, x)
      /\ \A q \in Page : \A x : x # Blank => Latest(q, x)' = Latest(q, x)
  BY <1>3, <1>4, <1>5, DataProgrammed DEF IInv
<1>7. HeldAsBefore
  <2>1. \A x \in Home : x # Blank
    BY AddressInPlaces
  <2>2. QED BY <1>6, <2>1, FirstPages DEF HeldAsBefore
<1>8. QED BY <1>1, <1>7, PlanSame

\* A store that fails changes nothing.
LEMMA StoreFailsKeeps ==
  ASSUME IInv, IInv', StoreFails, ~unmended'
  PROVE  SameKept
<1>1. /\ pages' = pages /\ HeldAsBefore /\ ~unmended /\ Storing /\ ~PassedOver(Head(copy))
      /\ StoreError(Head(copy)) # "" /\ copy # << >>
  <2>1. /\ pages' = pages /\ unmended' = unmended /\ Storing /\ ~PassedOver(Head(copy))
        /\ StoreError(Head(copy)) # "" /\ copy # << >>
    BY Zenon DEF StoreFails, Storing
  <2>2. QED BY <2>1, FlashSame
<1>2. (op' = op /\ todo' = todo) \/ op' = "idle"
  BY Zenon DEF StoreFails, Return
<1>3. op \in {"write", "init"} /\ pair \in 0 .. Pairs /\ (op = "init" => pair # 0)
  BY <1>1 DEF IInv, TypeOK, Control
<1>4. CASE op' = "idle"
  <2>1. PICK r \in {0, 1} : Whole(r) /\ (op # "init" \/ \A k \in 1 .. Len(todo) : todo[k] # Erase(r))
    <3>1. CASE op = "write" /\ ~Ours
      BY <1>1, <3>1 DEF IInv, Settled
    <3>2. CASE op = "write" /\ Ours
      <4>1. PICK r \in {0, 1} : Single(r) \/ Transferring(r)
        BY <1>1, <3>2 DEF IInv, Writing, Ending
      <4>2. ~Transferring(r)
        BY <1>1, <3>2, TransferStores
      <4>3. QED BY <3>2, <4>1, <4>2 DEF Single
    <3>3. CASE op = "init" /\ pair = 1
      BY <1>1, <3>3, RecoveryStores DEF IInv, Recovery, Formatting, Mending
    <3>4. CASE op = "init" /\ 1 < pair
      <4>1. ~Ours
        BY <1>3, <3>4 DEF Ours
      <4>2. \A k \in 1 .. Len(todo) : todo[k].page \notin {0, 1}
        BY <4>1 DEF IInv, Control
      <4>3. \A r \in {0, 1} : \A k \in 1 .. Len(todo) : todo[k] # Erase(r)
        BY <4>2 DEF Erase
      <4>4. QED BY <3>4, <4>3 DEF IInv, Beyond
    <3>5. pair = 0 \/ pair = 1 \/ 1 < pair
      BY <1>3
    <3>6. QED BY <1>3, <3>1, <3>2, <3>3, <3>4, <3>5
  <2>2. QED BY <1>1, <1>4, <2>1, WholeSame
<1>5. CASE op' = op /\ todo' = todo
  BY <1>1, <1>5, PlanSame
<1>6. QED BY <1>2, <1>4, <1>5

\* When Fee_Init returns from a clear nothing is kept.
LEMMA InitReturnsKeeps ==
  ASSUME IInv, IInv', InitReturns
  PROVE  /\ SameKept
         /\ op = "clear" /\ status' = "FLASH_COMPLETE" => \A v \in Home : Kept(v) = None
<1>1. /\ op \in {"init", "clear"} /\ copy = << >> /\ half = << >> /\ todo = << >>
      /\ op' = "idle" /\ todo' = << >> /\ pages' = pages /\ HeldAsBefore
      /\ (status' = "FLASH_COMPLETE" => pair = Pairs) /\ (op = "init" => pair = Pairs)
  <2>1. Walking /\ pages' = pages
    BY DEF InitReturns
  <2>2. \/ Return("FLASH_COMPLETE") /\ pair = Pairs
        \/ Return("FLASH_ERROR_PG") /\ locked
    BY DEF InitReturns
  <2>3. op = "init" => ~locked
    BY DEF IInv, Control
  <2>4. "FLASH_COMPLETE" # "FLASH_ERROR_PG"
    OBVIOUS
  <2>5. QED BY <2>1, <2>2, <2>3, <2>4, FlashSame DEF Return, Walking
<1>2. pair = Pairs => pair = 1 \/ 1 < pair
  BY Sizes
<1>3. \A r : \A k \in 1 .. Len(todo) : todo[k] # Erase(r)
  BY <1>1
<1>4. CASE op = "clear"
  <2>1. SameKept
    BY <1>1, <1>4, PlanSame
  <2>2. ASSUME pair = Pairs PROVE Whole(0) /\ Unused(0)
    <3>1. CASE pair = 1
      BY <1>1, <1>4, <3>1, Tuples DEF IInv, Clearing, Format
    <3>2. CASE 1 < pair
      BY <1>4, <3>2 DEF IInv, Beyond
    <3>3. QED BY <1>2, <2>2, <3>1, <3>2
  <2>3. ASSUME status' = "FLASH_COMPLETE", NEW v \in Home PROVE Kept(v) = None
    <3>1. Kept(v) = Latest(0, v)
      BY <1>1, <1>4, <2>2, <2>3, KeptIs DEF KeptAt, IInv
    <3>2. Latest(0, v) = None
      BY <1>1, <2>2, <2>3, NothingKept DEF NoneKept, IInv
    <3>3. QED BY <3>1, <3>2
  <2>4. QED BY <2>1, <2>3
<1>5. CASE op = "init"
  <2>1. \E r \in {0, 1} : Whole(r)
    <3>1. CASE pair = 1
      BY <1>1, <1>5, <3>1, Tuples DEF IInv, Recovery, Formatting, Mending, Format
    <3>2. CASE 1 < pair
      BY <1>5, <3>2 DEF IInv, Beyond
    <3>3. QED BY <1>1, <1>2, <1>5, <3>1, <3>2
  <2>2. SameKept
    BY <1>1, <1>3, <2>1, WholeSame
  <2>3. QED BY <1>5, <2>2
<1>6. QED BY <1>1, <1>4, <1>5

-----------------------------------------------------------------------------
(* What is kept while a page is marked or erased                           *)

\* A mark or an erasure of a page beyond the first pair.
LEMMA BeyondKeeps ==
  ASSUME IInv, IInv', ProgramPage, ~unmended, ~Ours
  PROVE  SameKept
<1>1. /\ todo # << >> /\ todo' = Tail(todo) /\ op' = op /\ op \in {"write", "init", "clear"}
      /\ pair \in 0 .. Pairs
      /\ todo \in Seq([page : Page, status : {"ERASED", "VALID_PAGE"}])
  BY DEF ProgramPage, IInv, TypeOK, Control
<1>2. /\ Len(todo) \in Nat \ {0} /\ 1 \in 1 .. Len(todo) /\ Head(todo) = todo[1]
      /\ Head(todo) \in [page : Page, status : {"ERASED", "VALID_PAGE"}]
      /\ Len(todo') = Len(todo) - 1 /\ \A i \in 1 .. Len(todo) - 1 : todo'[i] = todo[i + 1]
  BY <1>1, HeadAndTail
<1>3. \A i \in 1 .. Len(todo) : todo[i].page \notin {0, 1}
  BY DEF IInv, Control
<1>4. PICK p \in Page \ {0, 1} : Head(todo) = Erase(p) \/ Head(todo) = Mark(p)
  <2>1. Head(todo).page \in Page \ {0, 1}
    BY <1>2, <1>3
  <2>2. Head(todo) \in {Erase(Head(todo).page), Mark(Head(todo).page)}
    BY <1>2 DEF Erase, Mark
  <2>3. QED BY <2>1, <2>2
<1>5. HeldAsBefore
  <2>1. /\ Head(todo) = Erase(p) => pages' = [pages EXCEPT ![p] = EmptyPage]
        /\ Head(todo) = Mark(p) => pages' = [pages EXCEPT ![p].status = "VALID_PAGE"]
    BY Operated
  <2>2. \A q \in Page : q # p => pages'[q] = pages[q]
    BY <1>4, <2>1 DEF IInv, TypeOK
  <2>3. \A q \in {0, 1} : q \in Page /\ pages'[q] = pages[q]
    BY <1>4, <2>2, FirstPages
  <2>4. QED BY <2>3 DEF HeldAsBefore, Status, Holding, Latest
<1>6. \A r \in {0, 1} : /\ \A k \in 1 .. Len(todo) : todo[k] # Erase(r)
                        /\ \A k \in 1 .. Len(todo') : todo'[k] # Erase(r)
  <2>1. \A r \in {0, 1} : \A k \in 1 .. Len(todo) : todo[k] # Erase(r)
    BY <1>3 DEF Erase
  <2>2. PICK l \in Nat \ {0} : l = Len(todo)
    BY <1>2
  <2>3. \A i \in 1 .. l - 1 : i + 1 \in 1 .. l
    OBVIOUS
  <2>4. QED BY <1>2, <2>1, <2>2, <2>3
<1>7. \E r \in {0, 1} : Whole(r)
  <2>1. CASE op = "write"
    BY <2>1 DEF IInv, Settled
  <2>2. CASE op \in {"init", "clear"}
    <3>1. pair # 0
      BY <1>1, <2>2 DEF IInv, Control
    <3>2. 1 < pair
      BY <1>1, <2>2, <3>1 DEF Ours
    <3>3. QED BY <2>2, <3>2 DEF IInv, Beyond
  <2>3. QED BY <1>1, <2>1, <2>2
<1>8. QED BY <1>5, <1>6, <1>7, WholeSame

\* A page that has received all holds what is kept.
LEMMA ReceivedAll ==
  ASSUME TypeOK, NEW r \in {0, 1}, Moving(r), Passed(r), copy = << >>, NEW x \in Home
  PROVE  Kept(x) = Latest(r, x)
<1>1. Kept(x) = IF Holding(r, x) # {} THEN Latest(r, x) ELSE Latest(1 - r, x)
  BY KeptIs DEF KeptAt
<1>2. CASE Holding(r, x) # {}
  BY <1>1, <1>2
<1>3. CASE Holding(r, x) = {}
  <2>1. x \notin Pending
    BY DEF Pending
  <2>2. Holding(1 - r, x) = {}
    BY <1>3, <2>1 DEF Passed
  <2>3. QED BY <1>1, <1>3, <2>2 DEF Latest
<1>4. QED BY <1>2, <1>3

\* The states before and after a mark or an erasure of a page of the first pair.
LEMMA OperatedOnFirst ==
  ASSUME IInv, ProgramPage, NEW r \in {0, 1}
  PROVE  /\ Head(todo) = Erase(1 - r) =>
              Status(1 - r)' = "ERASED" /\ Status(r)' = Status(r) /\ \A x : Latest(r, x)' = Latest(r, x)
         /\ Head(todo) = Mark(r) =>
              /\ Status(r)' = "VALID_PAGE" /\ Status(1 - r)' = Status(1 - r)
              /\ \A x : Latest(r, x)' = Latest(r, x)
              /\ Unused(r)' = Unused(r)
<1>1. r \in Page /\ 1 - r \in Page /\ r # 1 - r
  BY FirstPages
<1>2. ASSUME Head(todo) = Erase(1 - r)
      PROVE  Status(1 - r)' = "ERASED" /\ Status(r)' = Status(r) /\ \A x : Latest(r, x)' = Latest(r, x)
  <2>1. PICK s \in Page : s = 1 - r
    BY <1>1
  <2>2. Status(s)' = "ERASED" /\ Status(r)' = Status(r) /\ \A x : Latest(r, x)' = Latest(r, x)
    BY <1>1, <1>2, <2>1, Operated
  <2>3. QED BY <2>1, <2>2
<1>3. ASSUME Head(todo) = Mark(r)
      PROVE  /\ Status(r)' = "VALID_PAGE" /\ Status(1 - r)' = Status(1 - r)
             /\ \A x : Latest(r, x)' = Latest(r, x)
             /\ Unused(r)' = Unused(r)
  <2>1. PICK s \in Page : s = 1 - r
    BY <1>1
  <2>2. /\ Status(r)' = "VALID_PAGE" /\ Status(s)' = Status(s)
        /\ \A x : Latest(r, x)' = Latest(r, x)
        /\ Unused(r)' = Unused(r)
    BY <1>1, <1>3, <2>1, Operated
  <2>3. QED BY <2>1, <2>2
<1>4. QED BY <1>2, <1>3

\* A valid page that is not used, and the other not yet erased.
LEMMA MarkedUnused ==
  ASSUME IInv, IInv', ProgramPage, todo = <<Mark(0), Erase(1)>>,
         Status(0) = "ERASED", Status(1) # "RECEIVE_DATA"
  PROVE  \A x \in Home : Kept(x)' = None
<1>1. todo' = <<Erase(1)>> /\ Head(todo) = Mark(0)
  BY Tuples DEF ProgramPage
<1>2. Unused(0)
  BY FirstPages DEF IInv, Flash
<1>3. Status(0)' = "VALID_PAGE" /\ Status(1)' = Status(1) /\ Unused(0)'
  BY <1>1, <1>2, OperatedOnFirst
<1>4. Status(1) \in {"ERASED", "VALID_PAGE"}
  BY StatusTypes DEF IInv
<1>5. ASSUME NEW x \in Home PROVE Kept(x)' = None
  <2>1. NoneKept(x)' /\ KeptAt(0, x)' /\ Erase(1)' = Erase(1) /\ Erase(0)' = Erase(0)
    BY KeptNext DEF IInv, Erase
  <2>2. CASE Status(1) = "VALID_PAGE"
    <3>1. Cleared'
      BY <1>3, <2>2 DEF Cleared
    <3>2. QED BY <1>1, <2>1, <3>1, Zenon DEF NoneKept
  <2>3. CASE Status(1) = "ERASED"
    <3>1. Whole(0)'
      BY <1>3, <2>3 DEF Whole
    <3>2. \A k \in 1 .. Len(todo') : todo'[k] # Erase(0)'
      BY <1>1, <2>1 DEF Erase
    <3>3. Kept(x)' = Latest(0, x)'
      BY <2>1, <3>1, <3>2, Zenon DEF KeptAt
    <3>4. Latest(0, x)' = None
      BY <1>3, <2>1 DEF NoneKept
    <3>5. QED BY <3>3, <3>4
  <2>4. QED BY <1>4, <2>2, <2>3
<1>6. QED BY <1>5

\* A transfer marks or erases only when the new page holds all.
LEMMA TransferKeeps ==
  ASSUME IInv, IInv', ProgramPage, ~unmended, op = "write", Ours
  PROVE  SameKept
<1>1. todo # << >> /\ copy = << >> /\ todo' = Tail(todo) /\ op' = op
  BY DEF ProgramPage
<1>2. PICK r \in {0, 1} : Transferring(r) \/ Ending(r)
  BY <1>1 DEF IInv, Writing, Single
<1>3. CASE Transferring(r)
  <2>1. Head(todo) = Erase(1 - r) /\ Moving(r) /\ Passed(r)
    BY <1>3, Tuples DEF Transferring
  <2>2. Moved(r)' /\ \A x : Latest(r, x)' = Latest(r, x)
    BY <2>1, OperatedOnFirst DEF Moving, Moved
  <2>3. ASSUME NEW x \in Home PROVE Kept(x)' = Kept(x)
    <3>1. Kept(x) = Latest(r, x)
      BY <1>1, <2>1, ReceivedAll DEF IInv
    <3>2. Kept(x)' = Latest(r, x)'
      BY <2>2, KeptNext, Zenon DEF KeptAt, IInv
    <3>3. QED BY <2>2, <3>1, <3>2
  <2>4. QED BY <2>3 DEF SameKept
<1>4. CASE Ending(r)
  <2>1. Head(todo) = Mark(r) /\ Moved(r)
    BY <1>4, Tuples DEF Ending
  <2>2. Whole(r)' /\ \A x : Latest(r, x)' = Latest(r, x)
    BY <2>1, OperatedOnFirst DEF Moved, Whole
  <2>3. ASSUME NEW x \in Home PROVE Kept(x)' = Kept(x)
    <3>1. Kept(x) = Latest(r, x)
      BY <2>1, KeptIs DEF IInv, KeptAt
    <3>2. KeptAt(r, x)' /\ op' # "init"
      BY <1>1, KeptNext DEF IInv
    <3>3. Kept(x)' = Latest(r, x)'
      BY <2>2, <3>2, Zenon DEF KeptAt
    <3>4. QED BY <2>2, <3>1, <3>3
  <2>4. QED BY <2>3 DEF SameKept
<1>5. QED BY <1>2, <1>3, <1>4

\* So does a recovery.
LEMMA RecoveryKeeps ==
  ASSUME IInv, IInv', ProgramPage, ~unmended, op = "init", pair = 1
  PROVE  SameKept
<1>1. todo # << >> /\ copy = << >> /\ todo' = Tail(todo) /\ op' = op
  BY DEF ProgramPage
<1>2. ASSUME NEW r \in {0, 1}, Mending(r) PROVE SameKept
  <2>1. r \in Page /\ 1 - r \in Page /\ r # 1 - r
    BY FirstPages
  <2>2. ASSUME \A x \in Home : Kept(x) = Latest(r, x), \A x : Latest(r, x)' = Latest(r, x),
               \A x \in Home : Kept(x)' = Latest(r, x)'
        PROVE  SameKept
    BY <2>2 DEF SameKept
  <2>3. CASE todo = <<Mark(r), Erase(1 - r)>> /\ Moving(r) /\ Recovering(r)
    <3>1. Head(todo) = Mark(r) /\ todo' = <<Erase(1 - r)>> /\ Passed(r)
      BY <1>1, <2>3, Tuples DEF Recovering
    <3>2. Status(r)' = "VALID_PAGE" /\ Status(1 - r)' = "VALID_PAGE" /\ \A x : Latest(r, x)' = Latest(r, x)
      BY <2>3, <3>1, OperatedOnFirst DEF Moving
    <3>3. \A x \in Home : Kept(x) = Latest(r, x)
      BY <1>1, <2>3, <3>1, ReceivedAll DEF IInv
    <3>4. ASSUME NEW x \in Home PROVE Kept(x)' = Latest(r, x)'
      <4>1. KeptAt(r, x)' /\ Erase(1 - r)' = Erase(1 - r)
        BY KeptNext DEF IInv, Erase
      <4>2. QED BY <3>1, <3>2, <4>1, Zenon DEF KeptAt
    <3>5. QED BY <2>2, <3>2, <3>3, <3>4
  <2>4. CASE todo = <<Erase(1 - r)>> /\ Status(r) = "VALID_PAGE" /\ Status(1 - r) # "RECEIVE_DATA"
    <3>1. Head(todo) = Erase(1 - r) /\ todo' = << >>
      BY <1>1, <2>4, Tuples
    <3>2. Whole(r)' /\ \A x : Latest(r, x)' = Latest(r, x)
      BY <2>4, <3>1, OperatedOnFirst DEF Whole
    <3>3. Status(1 - r) \in {"ERASED", "VALID_PAGE"}
      BY <2>4, StatusTypes DEF IInv
    <3>4. \A k \in 1 .. Len(todo) : todo[k] # Erase(r)
      BY <2>1, <2>4 DEF Erase
    <3>5. \A x \in Home : Kept(x) = Latest(r, x)
      BY <2>4, <3>3, <3>4, KeptIs DEF KeptAt, Whole, IInv
    <3>6. ASSUME NEW x \in Home PROVE Kept(x)' = Latest(r, x)'
      <4>1. KeptAt(r, x)' /\ \A k \in 1 .. Len(todo') : todo'[k] # Erase(r)'
        BY <3>1, KeptNext DEF IInv
      <4>2. QED BY <3>2, <4>1, Zenon DEF KeptAt
    <3>7. QED BY <2>2, <3>2, <3>5, <3>6
  <2>5. CASE todo = <<Mark(r)>> /\ Status(1 - r) = "ERASED" /\ Moved(r)
    <3>1. Head(todo) = Mark(r) /\ todo' = << >>
      BY <1>1, <2>5, Tuples
    <3>2. Whole(r)' /\ \A x : Latest(r, x)' = Latest(r, x)
      BY <2>5, <3>1, OperatedOnFirst DEF Whole
    <3>3. \A x \in Home : Kept(x) = Latest(r, x)
      BY <2>5, KeptIs DEF KeptAt, IInv
    <3>4. ASSUME NEW x \in Home PROVE Kept(x)' = Latest(r, x)'
      <4>1. KeptAt(r, x)' /\ \A k \in 1 .. Len(todo') : todo'[k] # Erase(r)'
        BY <3>1, KeptNext DEF IInv
      <4>2. QED BY <3>2, <4>1, Zenon DEF KeptAt
    <3>5. QED BY <2>2, <3>2, <3>3, <3>4
  <2>6. CASE todo = <<Erase(1 - r), Mark(r)>> /\ Moved(r)
    <3>1. Head(todo) = Erase(1 - r)
      BY <2>6, Tuples
    <3>2. Moved(r)' /\ \A x : Latest(r, x)' = Latest(r, x)
      BY <2>6, <3>1, OperatedOnFirst DEF Moved
    <3>3. \A x \in Home : Kept(x) = Latest(r, x)
      BY <2>6, KeptIs DEF KeptAt, IInv
    <3>4. \A x \in Home : Kept(x)' = Latest(r, x)'
      BY <3>2, KeptNext, Zenon DEF KeptAt, IInv
    <3>5. QED BY <2>2, <3>2, <3>3, <3>4
  <2>7. QED BY <1>1, <1>2, <2>3, <2>4, <2>5, <2>6 DEF Mending
<1>3. ASSUME Formatting PROVE SameKept
  <2>1. CASE todo = Format(0) /\ (Fresh \/ Cleared)
    <3>1. Head(todo) = Erase(0) /\ todo' = <<Mark(0), Erase(1)>>
      BY <1>1, <2>1, Tuples DEF Format
    <3>2. Status(0)' = "ERASED" /\ Status(1)' = Status(1)
      BY <3>1, OperatedOnFirst
    <3>3. Status(0) # "RECEIVE_DATA" /\ Status(1) # "RECEIVE_DATA"
      BY <2>1 DEF Fresh, Cleared
    <3>4. \A x \in Home : Kept(x) = None
      BY <1>3, <2>1, <3>3, NothingKept DEF NoneKept, IInv
    <3>5. ASSUME NEW x \in Home PROVE Kept(x)' = None
      <4>1. NoneKept(x)'
        BY KeptNext DEF IInv
      <4>2. op' = "init" /\ Mark(0)' = Mark(0) /\ Erase(1)' = Erase(1)
        BY <1>1 DEF Erase, Mark
      <4>3. Status(1)' # "RECEIVE_DATA" /\ Status(0)' # "RECEIVE_DATA"
        BY <3>2, <3>3
      <4>4. QED BY <3>1, <3>2, <4>1, <4>2, <4>3 DEF NoneKept
    <3>6. QED BY <3>4, <3>5, NoneSame
  <2>2. CASE todo = <<Mark(0), Erase(1)>> /\ Status(0) = "ERASED" /\ Status(1) # "RECEIVE_DATA"
    <3>1. \A x \in Home : Kept(x) = None
      BY <2>2, NothingKept DEF NoneKept, IInv
    <3>2. \A x \in Home : Kept(x)' = None
      BY <1>1, <2>2, MarkedUnused
    <3>3. QED BY <3>1, <3>2, NoneSame
  <2>3. QED BY <1>3, <2>1, <2>2 DEF Formatting
<1>4. QED BY <1>2, <1>3 DEF IInv, Recovery

\* A clear forgets variables, and changes none.
LEMMA ClearForgets ==
  ASSUME IInv, IInv', ProgramPage, ~unmended, op = "clear", pair = 1
  PROVE  \A x \in Home : Kept(x)' \in {None, Kept(x)}
<1>1. todo # << >> /\ todo' = Tail(todo) /\ op' = op
  BY DEF ProgramPage
<1>2. Status(0) \in {"ERASED", "RECEIVE_DATA", "VALID_PAGE"}
      /\ Status(1) \in {"ERASED", "RECEIVE_DATA", "VALID_PAGE"}
  BY StatusTypes DEF IInv
<1>3. ASSUME Fresh' \/ (Whole(0) /\ Whole(0)' /\ \A x : Latest(0, x)' = Latest(0, x))
             \/ (Whole(1) /\ Whole(1)' /\ \A x : Latest(1, x)' = Latest(1, x)),
             NEW x \in Home
      PROVE  Kept(x)' \in {None, Kept(x)}
  <2>1. NoneKept(x)' /\ KeptAt(0, x)' /\ KeptAt(1, x)' /\ KeptAt(0, x) /\ KeptAt(1, x)
    BY KeptNext, KeptIs DEF IInv
  <2>2. op # "init" /\ op' # "init"
    BY <1>1
  <2>3. CASE Fresh'
    BY <2>1, <2>3, Zenon DEF NoneKept
  <2>4. CASE Whole(0) /\ Whole(0)' /\ \A y : Latest(0, y)' = Latest(0, y)
    <3>1. Kept(x) = Latest(0, x) /\ Kept(x)' = Latest(0, x)'
      BY <2>1, <2>2, <2>4, Zenon DEF KeptAt
    <3>2. QED BY <2>4, <3>1
  <2>5. CASE Whole(1) /\ Whole(1)' /\ \A y : Latest(1, y)' = Latest(1, y)
    <3>1. Kept(x) = Latest(1, x) /\ Kept(x)' = Latest(1, x)'
      BY <2>1, <2>2, <2>5, Zenon DEF KeptAt
    <3>2. QED BY <2>5, <3>1
  <2>6. QED BY <1>3, <2>3, <2>4, <2>5
<1>4. ASSUME Head(todo) = Erase(0), Fresh \/ Whole(0) \/ Whole(1)
      PROVE  \A x \in Home : Kept(x)' \in {None, Kept(x)}
  <2>1. Status(0)' = "ERASED" /\ Status(1)' = Status(1) /\ \A x : Latest(1, x)' = Latest(1, x)
    BY <1>4, OperatedOnFirst
  <2>2. Fresh' \/ (Whole(1) /\ Whole(1)')
    BY <1>4, <2>1 DEF Fresh, Whole
  <2>3. QED BY <1>3, <2>1, <2>2
<1>5. CASE todo = <<Erase(0)>> \o Format(0) /\ \E r \in {0, 1} : Whole(r)
  <2>1. /\ Erase(0) \in {Erase(0), Mark(0), Erase(1)}
        /\ Format(0) \in Seq({Erase(0), Mark(0), Erase(1)})
    BY DEF Format
  <2>2. Head(todo) = Erase(0)
    BY <1>5, <2>1, Longer
  <2>3. QED BY <1>4, <1>5, <2>2
<1>6. CASE todo = Format(0) /\ Status(0) = "ERASED" /\ Status(1) # "RECEIVE_DATA"
  <2>1. Head(todo) = Erase(0)
    BY <1>6, Tuples DEF Format
  <2>2. Fresh \/ Whole(1)
    BY <1>2, <1>6 DEF Fresh, Whole
  <2>3. QED BY <1>4, <2>1, <2>2
<1>7. CASE todo = <<Mark(0), Erase(1)>> /\ Status(0) = "ERASED" /\ Status(1) # "RECEIVE_DATA"
  BY <1>7, MarkedUnused
<1>8. CASE todo = <<Erase(1)>> /\ Status(0) = "VALID_PAGE" /\ Unused(0) /\ Status(1) # "RECEIVE_DATA"
  <2>1. Head(todo) = Erase(1)
    BY <1>8, Tuples
  <2>2. Whole(0)' /\ \A x : Latest(0, x)' = Latest(0, x)
    BY <1>8, <2>1, OperatedOnFirst DEF Whole
  <2>3. ASSUME NEW x \in Home PROVE Kept(x)' = None
    <3>1. KeptAt(0, x)' /\ op' # "init"
      BY <1>1, KeptNext DEF IInv
    <3>2. Kept(x)' = Latest(0, x)'
      BY <2>2, <3>1, Zenon DEF KeptAt
    <3>3. Latest(0, x) = None
      BY <1>8, NothingKept DEF NoneKept, IInv
    <3>4. QED BY <2>2, <3>2, <3>3
  <2>4. QED BY <2>3
<1>9. QED BY <1>1, <1>5, <1>6, <1>7, <1>8 DEF IInv, Clearing

-----------------------------------------------------------------------------
(* What is kept when an address is stored                                  *)

LEMMA AddressStored ==
  ASSUME IInv, ProgramAddress
  PROVE  \E p, v, d :
           /\ p \in Page /\ v \in Addresses
           /\ p = WritePage(v) /\ v = Head(copy) /\ d = ValueOf(v)
           /\ copy # << >> /\ copy \in Seq(Places) /\ op' = op /\ todo' = todo /\ asked' = asked
           /\ half # << >> /\ op \in {"write", "init"} /\ pair \in 0 .. Pairs
           /\ (op = "init" => pair # 0) /\ ReadPage(v) # NoPage /\ v \in Nat /\ v # Blank
           /\ \A q : Status(q)' = Status(q)
           /\ \A q \in Page : \A x : x # Blank /\ (q # p \/ x # v) =>
                Holding(q, x)' = Holding(q, x) /\ Latest(q, x)' = Latest(q, x)
           /\ Holding(p, v)' # {} /\ Latest(p, v)' = d
<1>1. /\ half # << >> /\ copy' = Tail(copy)
      /\ pages' = [pages EXCEPT ![half.page].slot[half.slot].address = half.address]
      /\ UNCHANGED <<op, asked, pair, todo, locked>>
  BY DEF ProgramAddress
<1>2. /\ copy # << >> /\ half.address = Head(copy) /\ half.page = WritePage(Head(copy))
      /\ pages[half.page].slot[half.slot].address = Blank
      /\ pages[half.page].slot[half.slot].data = ValueOf(half.address)
      /\ \A j \in 1 .. Slots : half.slot < j => j \in Free(half.page)
  BY <1>1, Zenon DEF IInv, Halfway
<1>3. PICK p \in Page, k \in 1 .. Slots, v \in Addresses :
        p = half.page /\ k = half.slot /\ v = half.address
  <2>1. half \in [page : Page, slot : 1 .. Slots, address : Addresses]
    BY <1>1 DEF IInv, TypeOK
  <2>2. QED BY <2>1
<1>4. PICK d : /\ v = Head(copy) /\ p = WritePage(v) /\ pages[p].slot[k].address = Blank
               /\ pages[p].slot[k].data = d /\ d = ValueOf(v)
               /\ \A j \in 1 .. Slots : k < j => j \in Free(p)
               /\ pages' = [pages EXCEPT ![p].slot[k].address = v]
  BY <1>1, <1>2, <1>3, Zenon
<1>5. /\ op \in {"write", "init"} /\ (op = "init" => pair # 0) /\ copy \in Seq(Places)
      /\ pair \in 0 .. Pairs
  BY <1>1, <1>2, Shifted DEF IInv, TypeOK
<1>6. v \in Nat /\ v # Blank /\ ReadPage(v) # NoPage
  <2>1. v \in Nat /\ v # Blank
    BY AddressInPlaces
  <2>2. p # NoPage
    BY ValueAssumption
  <2>3. QED BY <1>4, <2>1, <2>2, Chosen DEF IInv
<1>7. \A q : Status(q)' = Status(q)
  BY <1>4, AddressProgrammed DEF IInv
<1>8. \A q \in Page : \A x : x # Blank /\ (q # p \/ x # v) =>
         Holding(q, x)' = Holding(q, x) /\ Latest(q, x)' = Latest(q, x)
  <2>1. TypeOK
    BY DEF IInv
  <2>2. /\ pages[p].slot[k].address = Blank /\ \A j \in 1 .. Slots : k < j => j \in Free(p)
        /\ pages' = [pages EXCEPT ![p].slot[k].address = v]
    BY <1>4
  <2>3. QED BY <2>1, <2>2, AddressProgrammed
<1>9. Holding(p, v)' # {} /\ Latest(p, v)' = d
  <2>1. TypeOK
    BY DEF IInv
  <2>2. /\ pages[p].slot[k].address = Blank /\ \A j \in 1 .. Slots : k < j => j \in Free(p)
        /\ pages' = [pages EXCEPT ![p].slot[k].address = v]
    BY <1>4
  <2>3. Holding(p, v)' # {}
    BY <2>1, <2>2, AddressProgrammed
  <2>4. Newest(p, v)' = k
    BY <2>1, <2>2, AddressProgrammed
  <2>5. Latest(p, v)' = pages'[p].slot[k].data
    BY <2>3, <2>4, Zenon DEF Latest, Newest
  <2>6. pages'[p].slot[k].data = pages[p].slot[k].data
    BY <2>1, <2>2, AddressProgrammed
  <2>7. QED BY <1>4, <2>3, <2>5, <2>6
<1>10. QED BY <1>1, <1>2, <1>4, <1>5, <1>6, <1>7, <1>8, <1>9

\* A recovery stores again what was kept.
LEMMA RecoveredKeeps ==
  ASSUME IInv, IInv', ProgramAddress, ~unmended, op = "init" \/ ~Ours
  PROVE  SameKept
<1>1. PICK p, v, d :
        /\ p \in Page /\ v \in Addresses
        /\ p = WritePage(v) /\ v = Head(copy) /\ d = ValueOf(v)
        /\ copy # << >> /\ copy \in Seq(Places) /\ op' = op /\ todo' = todo
        /\ half # << >> /\ op \in {"write", "init"} /\ pair \in 0 .. Pairs
        /\ (op = "init" => pair # 0) /\ ReadPage(v) # NoPage /\ v # Blank
        /\ \A q : Status(q)' = Status(q)
        /\ \A q \in Page : \A x : x # Blank /\ (q # p \/ x # v) =>
             Holding(q, x)' = Holding(q, x) /\ Latest(q, x)' = Latest(q, x)
        /\ Holding(p, v)' # {} /\ Latest(p, v)' = d
  BY AddressStored
<1>2. /\ Len(copy) \in Nat \ {0} /\ 1 \in 1 .. Len(copy) /\ v = copy[1]
      /\ \A x \in Home : x # Blank
  BY <1>1, HeadAndTail, AddressInPlaces
<1>3. CASE ~Ours
  <2>1. v \notin Home
    BY <1>2, <1>3 DEF IInv, Control
  <2>2. HeldAsBefore
    BY <1>1, <1>2, <2>1, FirstPages DEF HeldAsBefore
  <2>3. QED BY <1>1, <2>2, PlanSame
<1>4. CASE op = "init" /\ pair = 1
  <2>1. PICK r \in {0, 1} : Moving(r) /\ Recovering(r)
    BY <1>1, <1>4 DEF IInv, Recovery, Formatting, Mending
  <2>2. r \in Page /\ 1 - r \in Page /\ r # 1 - r
    BY FirstPages
  <2>3. v \in Home /\ v # FirstAddress(r)
    BY <1>1, <1>2, <2>1 DEF Recovering, Pending
  <2>4. p = r /\ ReadPage(v) = 1 - r
    BY <1>1, <2>1, <2>3, HomePages DEF IInv
  <2>5. Moving(r)'
    BY <1>1, <2>1 DEF Moving
  <2>6. ASSUME NEW x \in Home PROVE Kept(x)' = Kept(x)
    <3>1. KeptAt(r, x) /\ KeptAt(r, x)'
      BY KeptIs, KeptNext DEF IInv
    <3>2. Holding(1 - r, x)' = Holding(1 - r, x) /\ Latest(1 - r, x)' = Latest(1 - r, x)
      BY <1>1, <1>2, <2>2, <2>4
    <3>3. CASE x = v
      <4>1. d = Latest(1 - r, v)
        BY <1>1, <1>4, <2>4 DEF ValueOf, ReadVariable
      <4>2. Kept(x) = Latest(1 - r, v)
        <5>1. Kept(x) = IF Holding(r, v) # {} THEN Latest(r, v) ELSE Latest(1 - r, v)
          BY <2>1, <3>1, <3>3 DEF KeptAt
        <5>2. Holding(r, v) # {} => Latest(r, v) = Latest(1 - r, v)
          BY <2>1, <2>3, Zenon DEF Recovering, Copied
        <5>3. QED BY <5>1, <5>2
      <4>3. Kept(x)' = Latest(r, v)'
        <5>1. Holding(r, x)' # {}
          BY <1>1, <2>4, <3>3
        <5>2. Kept(x)' = Latest(r, x)'
          BY <2>5, <3>1, <5>1, Zenon DEF KeptAt
        <5>3. QED BY <3>3, <5>2
      <4>4. QED BY <1>1, <2>4, <4>1, <4>2, <4>3
    <3>4. CASE x # v
      <4>1. Holding(r, x)' = Holding(r, x) /\ Latest(r, x)' = Latest(r, x)
        BY <1>1, <1>2, <2>2, <3>4
      <4>2. QED BY <2>1, <2>5, <3>1, <3>2, <4>1, MovingStays
    <3>5. QED BY <3>3, <3>4
  <2>7. QED BY <2>6 DEF SameKept
<1>5. op = "init" => pair = 1 \/ ~Ours
  BY DEF Ours
<1>6. QED BY <1>3, <1>4, <1>5

\* A write takes effect for its variable, and for no other, when its address is stored.
LEMMA WriteTakesEffect ==
  ASSUME IInv, IInv', ProgramAddress, ~unmended, op = "write", Ours
  PROVE  /\ asked' = asked
         /\ \A x \in Home : Kept(x)' = IF x = asked[1] THEN asked[2] ELSE Kept(x)
<1>1. PICK p, v, d :
        /\ p \in Page /\ v \in Addresses
        /\ p = WritePage(v) /\ v = Head(copy) /\ d = ValueOf(v)
        /\ copy # << >> /\ copy \in Seq(Places) /\ op' = op /\ asked' = asked
        /\ ReadPage(v) # NoPage /\ v # Blank
        /\ \A q : Status(q)' = Status(q)
        /\ \A q \in Page : \A x : x # Blank /\ (q # p \/ x # v) =>
             Holding(q, x)' = Holding(q, x) /\ Latest(q, x)' = Latest(q, x)
        /\ Holding(p, v)' # {} /\ Latest(p, v)' = d
  BY AddressStored
<1>2. /\ Len(copy) \in Nat \ {0} /\ 1 \in 1 .. Len(copy) /\ v = copy[1] /\ v \in Pending
      /\ \A x \in Home : x # Blank
  <2>1. Len(copy) \in Nat \ {0} /\ 1 \in 1 .. Len(copy) /\ v = copy[1]
    BY <1>1, HeadAndTail
  <2>2. QED BY <2>1, AddressInPlaces DEF Pending
<1>3. PICK r \in {0, 1} : Single(r) \/ Transferring(r)
  BY <1>1 DEF IInv, Writing, Ending
<1>4. r \in Page /\ 1 - r \in Page /\ r # 1 - r /\ asked[1] \in Home
  BY FirstPages DEF Ours
<1>5. \A x \in Home : KeptAt(r, x) /\ KeptAt(r, x)'
  BY KeptIs, KeptNext DEF IInv
<1>6. CASE Single(r)
  <2>1. Whole(r) /\ copy = <<asked[1]>>
    BY <1>1, <1>6 DEF Single
  <2>2. v = asked[1] /\ d = asked[2]
    <3>1. v = asked[1]
      BY <1>1, <2>1, Tuples
    <3>2. QED BY <1>1, <3>1 DEF ValueOf
  <2>3. p = r
    BY <1>1, <1>4, <2>1, <2>2, HomePages DEF IInv
  <2>4. Whole(r)'
    BY <1>1, <2>1 DEF Whole
  <2>5. ASSUME NEW x \in Home PROVE Kept(x) = Latest(r, x) /\ Kept(x)' = Latest(r, x)'
    <3>1. op # "init" /\ op' # "init"
      BY <1>1
    <3>2. QED BY <1>5, <2>1, <2>4, <3>1, Zenon DEF KeptAt
  <2>6. ASSUME NEW x \in Home PROVE Kept(x)' = IF x = asked[1] THEN asked[2] ELSE Kept(x)
    <3>1. CASE x = v
      BY <1>1, <2>2, <2>3, <2>5, <3>1
    <3>2. CASE x # v
      <4>1. Latest(r, x)' = Latest(r, x)
        BY <1>1, <1>2, <1>4, <3>2
      <4>2. QED BY <2>2, <2>5, <3>2, <4>1
    <3>3. QED BY <3>1, <3>2
  <2>7. QED BY <1>1, <2>6
<1>7. CASE Transferring(r)
  <2>1. Moving(r) /\ v \in Home /\ Holding(r, v) = {}
    BY <1>2, <1>7 DEF Transferring
  <2>2. p = r /\ ReadPage(v) = 1 - r
    BY <1>1, <2>1, HomePages DEF IInv
  <2>3. Moving(r)'
    BY <1>1, <2>1 DEF Moving
  <2>4. Kept(v)' = d
    <3>1. Kept(v)' = Latest(r, v)'
      <4>1. Holding(r, v)' # {} /\ KeptAt(r, v)'
        BY <1>1, <1>5, <2>1, <2>2
      <4>2. QED BY <2>3, <4>1, Zenon DEF KeptAt
    <3>2. QED BY <1>1, <2>2, <3>1
  <2>5. Kept(v) = Latest(1 - r, v)
    BY <1>5, <2>1 DEF KeptAt
  <2>6. ASSUME NEW x \in Home, x # v PROVE Kept(x)' = Kept(x)
    <3>1. /\ Holding(r, x)' = Holding(r, x) /\ Latest(r, x)' = Latest(r, x)
          /\ Latest(1 - r, x)' = Latest(1 - r, x)
      BY <1>1, <1>2, <1>4, <2>6
    <3>2. QED BY <1>5, <2>1, <2>3, <2>6, <3>1, MovingStays
  <2>7. CASE v = asked[1]
    <3>1. d = asked[2]
      BY <1>1, <2>7 DEF ValueOf
    <3>2. QED BY <1>1, <2>4, <2>6, <2>7, <3>1
  <2>8. CASE v # asked[1]
    <3>1. d = Latest(1 - r, v)
      BY <1>1, <2>2, <2>8 DEF ValueOf, ReadVariable
    <3>2. Kept(v)' = Kept(v)
      BY <2>4, <2>5, <3>1
    <3>3. FirstAddress(r) = asked[1] /\ Latest(r, asked[1]) = asked[2]
      BY <1>2, <1>7, <2>8 DEF Transferring
    <3>4. Holding(r, asked[1]) # {}
      <4>1. 1 \in 1 .. Slots
        BY Sizes
      <4>2. QED BY <3>3, <4>1 DEF Holding, FirstAddress
    <3>5. Kept(asked[1]) = asked[2]
      BY <1>4, <1>5, <2>1, <3>3, <3>4 DEF KeptAt
    <3>6. QED BY <1>1, <2>6, <3>2, <3>5
  <2>9. QED BY <2>7, <2>8
<1>8. QED BY <1>3, <1>6, <1>7

\* A write that returns has taken effect.
LEMMA WriteIsKept ==
  ASSUME IInv, WriteReturns, ~unmended, Ours
  PROVE  Kept(asked[1]) = asked[2]
<1>1. op = "write" /\ copy = << >> /\ todo = << >>
  BY DEF WriteReturns
<1>2. PICK r \in {0, 1} : Single(r)
  BY <1>1, Tuples DEF IInv, Writing, Transferring, Ending
<1>3. Whole(r) /\ Latest(r, asked[1]) = asked[2]
  BY <1>1, <1>2, Tuples DEF Single
<1>4. asked[1] \in Home
  BY <1>1 DEF Ours
<1>5. QED BY <1>1, <1>3, <1>4, KeptIs DEF KeptAt, IInv

-----------------------------------------------------------------------------
(* The refinement                                                          *)

\* What the store shows to KVStore.
Mem == [v \in Watched |-> Kept(v)]
Req == CASE op = "write" /\ asked[1] \in Watched -> asked
         [] op = "clear" -> <<"clear">>
         [] OTHER -> << >>

\* The mapped variables, step by step.
LEMMA MemSame ==
  ASSUME Watched \subseteq Home, SameKept
  PROVE  Mem' = Mem
BY DEF SameKept, Mem

LEMMA ReqIs ==
  ASSUME TypeOK
  PROVE  /\ op = "write" /\ asked[1] \in Watched =>
              Req = asked /\ Req = <<asked[1], asked[2]>> /\ Req \in Watched \X Data
         /\ op = "clear" => Req = <<"clear">>
         /\ op # "clear" /\ ~(op = "write" /\ asked[1] \in Watched) => Req = << >>
<1>1. ASSUME op = "write", asked[1] \in Watched
      PROVE  Req = asked /\ Req = <<asked[1], asked[2]>> /\ Req \in Watched \X Data
  <2>1. asked[2] \in Data /\ asked = <<asked[1], asked[2]>>
    BY <1>1, Asked
  <2>2. Req = asked
    BY <1>1 DEF Req
  <2>3. QED BY <1>1, <2>1, <2>2
<1>2. op = "clear" => Req = <<"clear">>
  BY DEF Req
<1>3. op # "clear" /\ ~(op = "write" /\ asked[1] \in Watched) => Req = << >>
  BY DEF Req
<1>4. QED BY <1>1, <1>2, <1>3

LEMMA ReqSame ==
  ASSUME asked' = asked, op' = op
  PROVE  Req' = Req
BY DEF Req

LEMMA ReqNone ==
  ASSUME op' \in {"off", "idle", "init"}
  PROVE  Req' = << >>
BY DEF Req

\* The steps of KVStore, and none.
Promise == [Store!Next]_(Store!kvars)

LEMMA Stutters ==
  ASSUME Mem' = Mem, Req' = Req, status' = status
  PROVE  Promise
BY DEF Promise, Mem, Req, Store!kvars

LEMMA Finishes ==
  ASSUME Mem' = Mem, Req' = << >>,
         status' = "FLASH_COMPLETE" =>
           \/ Req = << >>
           \/ Req = <<"clear">> /\ \A v \in Watched : Kept(v) = None
           \/ Req \in Watched \X Data /\ Mem[Req[1]] = Req[2]
  PROVE  Promise
BY DEF Promise, Mem, Req, Store!Next, Store!Done, Store!Success

LEMMA Asks ==
  ASSUME Mem' = Mem, Req = << >>, Req' \in {<<"clear">>} \cup (Watched \X Data), status' = status
  PROVE  Promise
BY DEF Promise, Mem, Req, Store!Next, Store!Ask

LEMMA Stores ==
  ASSUME Req \in Watched \X Data, Mem' = [Mem EXCEPT ![Req[1]] = Req[2]],
         Req' = Req, status' = status
  PROVE  Promise
BY DEF Promise, Mem, Req, Store!Next, Store!Store

LEMMA Forgets ==
  ASSUME Req = <<"clear">>, \A v \in Watched : Kept(v)' \in {None, Kept(v)},
         Req' = Req, status' = status
  PROVE  Promise
<1>1. PICK gone : gone = {v \in Watched : Kept(v)' = None} /\ gone \in SUBSET Watched
  OBVIOUS
<1>2. Mem' = [v \in Watched |-> IF v \in gone THEN None ELSE Mem[v]]
  BY <1>1 DEF Mem
<1>3. QED BY <1>1, <1>2 DEF Promise, Mem, Req, Store!Next, Store!Forget

\* Calls begin.
LEMMA CallsAreAsked ==
  ASSUME IInv, IInv', Watched \subseteq Home, ~unmended',
         Clear \/ PowerUp \/ \E v \in Addresses, d \in Data : Write(v, d)
  PROVE  Promise
<1>1. CASE Clear
  <2>1. op = "idle" /\ op' = "clear" /\ pages' = pages /\ todo' = todo /\ status' = status
    BY <1>1 DEF Clear
  <2>2. SameKept
    BY <2>1, FlashSame, PlanSame
  <2>3. Req = << >> /\ Req' = <<"clear">>
    BY <2>1 DEF Req
  <2>4. QED BY <2>1, <2>2, <2>3, MemSame, Asks
<1>2. CASE PowerUp
  <2>1. op = "off" /\ op' = "init" /\ status' = status
    BY <1>2 DEF PowerUp
  <2>2. Req = << >> /\ Req' = << >>
    BY <2>1 DEF Req
  <2>3. QED BY <1>2, <2>1, <2>2, PowerUpKeeps, MemSame, Stutters
<1>3. ASSUME NEW v \in Addresses, NEW d \in Data, Write(v, d) PROVE Promise
  <2>1. /\ op = "idle" /\ op' = "write" /\ asked' = <<v, d>>
        /\ pages' = pages /\ todo' = todo /\ status' = status
    BY <1>3 DEF Write
  <2>2. SameKept
    BY <2>1, FlashSame, PlanSame
  <2>3. Req = << >>
    BY <2>1 DEF Req
  <2>4. asked'[1] = v
    BY <2>1
  <2>5. CASE v \in Watched
    <3>1. Req' = <<v, d>>
      BY <2>1, <2>4, <2>5 DEF Req
    <3>2. QED BY <2>1, <2>2, <2>3, <2>5, <3>1, MemSame, Asks
  <2>6. CASE v \notin Watched
    <3>1. Req' = << >>
      BY <2>1, <2>4, <2>6 DEF Req
    <3>2. QED BY <2>1, <2>2, <2>3, <3>1, MemSame, Stutters
  <2>7. QED BY <2>5, <2>6
<1>4. QED BY <1>1, <1>2, <1>3

\* Calls return.
LEMMA CallsAreAnswered ==
  ASSUME IInv, IInv', Watched \subseteq Home, ~unmended',
         InitReturns \/ WriteReturns \/ PowerLoss
  PROVE  Promise
<1>1. TypeOK
  BY DEF IInv
<1>2. CASE InitReturns
  <2>1. op' = "idle" /\ op \in {"init", "clear"}
    BY <1>2 DEF InitReturns, Walking, Return
  <2>2. /\ SameKept
        /\ op = "clear" /\ status' = "FLASH_COMPLETE" => \A v \in Home : Kept(v) = None
    BY <1>2, InitReturnsKeeps
  <2>3. Req' = << >> /\ (op = "clear" => Req = <<"clear">>) /\ (op = "init" => Req = << >>)
    BY <2>1 DEF Req
  <2>4. QED BY <2>1, <2>2, <2>3, MemSame, Finishes
<1>3. CASE WriteReturns
  <2>1. /\ op = "write" /\ op' = "idle" /\ pages' = pages /\ todo' = todo
        /\ UNCHANGED unmended
    BY <1>3 DEF WriteReturns, Return
  <2>2. SameKept
    BY <2>1, FlashSame, PlanSame
  <2>3. Req' = << >>
    BY <2>1 DEF Req
  <2>4. CASE asked[1] \in Watched
    <3>1. Req \in Watched \X Data /\ Req[1] = asked[1] /\ Req[2] = asked[2]
      BY <1>1, <2>1, <2>4, ReqIs
    <3>2. Ours
      BY <2>1, <2>4 DEF Ours
    <3>3. Kept(asked[1]) = asked[2]
      BY <1>3, <2>1, <3>2, WriteIsKept
    <3>4. Mem[Req[1]] = Req[2]
      BY <2>4, <3>1, <3>3 DEF Mem
    <3>5. QED BY <2>2, <2>3, <3>1, <3>4, MemSame, Finishes
  <2>5. CASE asked[1] \notin Watched
    <3>1. Req = << >>
      BY <1>1, <2>1, <2>5, ReqIs
    <3>2. QED BY <2>2, <2>3, <3>1, MemSame, Finishes
  <2>6. QED BY <2>4, <2>5
<1>4. CASE PowerLoss
  <2>1. op' = "off" /\ status' = ""
    BY <1>4 DEF PowerLoss
  <2>2. Req' = << >>
    BY <2>1 DEF Req
  <2>3. QED BY <1>4, <2>1, <2>2, PowerLossKeeps, MemSame, Finishes
<1>5. QED BY <1>2, <1>3, <1>4

\* A call that fails reports it, and has changed nothing.
LEMMA FailuresAreReported ==
  ASSUME IInv, IInv', Watched \subseteq Home, ~unmended', StoreFails \/ BeginTransfer
  PROVE  Promise
<1>1. CASE StoreFails
  <2>1. PICK error : /\ error \in {NoPage, "PAGE_FULL", "FLASH_ERROR_PG"}
                     /\ Return(error) \/ UNCHANGED <<op, asked, status>>
    BY <1>1 DEF StoreFails, StoreError
  <2>2. SameKept
    BY <1>1, StoreFailsKeeps
  <2>3. CASE Return(error)
    <3>1. op' = "idle" /\ status' # "FLASH_COMPLETE"
      BY <2>1, <2>3, ValueAssumption DEF Return
    <3>2. QED BY <2>2, <3>1, ReqNone, MemSame, Finishes
  <2>4. CASE UNCHANGED <<op, asked, status>>
    BY <2>2, <2>4, ReqSame, MemSame, Stutters
  <2>5. QED BY <2>1, <2>3, <2>4
<1>2. CASE BeginTransfer
  <2>1. Return("FLASH_ERROR_PG") \/ UNCHANGED <<op, asked, status>>
    BY <1>2 DEF BeginTransfer
  <2>2. SameKept
    BY <1>2, BeginTransferKeeps
  <2>3. CASE Return("FLASH_ERROR_PG")
    <3>1. op' = "idle" /\ status' # "FLASH_COMPLETE"
      BY <2>3 DEF Return
    <3>2. QED BY <2>2, <3>1, ReqNone, MemSame, Finishes
  <2>4. CASE UNCHANGED <<op, asked, status>>
    BY <2>2, <2>4, ReqSame, MemSame, Stutters
  <2>5. QED BY <2>1, <2>3, <2>4
<1>3. QED BY <1>1, <1>2

\* What is kept changes when the address of a written variable is stored and when a clear
\* erases it, and at no other operation on the flash.
LEMMA OperationsKeepPromise ==
  ASSUME IInv, IInv', Watched \subseteq Home, ~unmended',
         Pass \/ ProgramData \/ ProgramAddress \/ ProgramPage \/ NextPair
  PROVE  Promise
<1>1. UNCHANGED <<op, asked, status, unmended>> /\ TypeOK
  BY DEF Pass, ProgramData, ProgramAddress, ProgramPage, NextPair, IInv
<1>2. Req' = Req /\ ~unmended
  BY <1>1, ReqSame
<1>3. SameKept => Promise
  BY <1>1, <1>2, MemSame, Stutters
<1>4. CASE Pass
  <2>1. pages' = pages /\ todo' = todo
    BY <1>4 DEF Pass
  <2>2. SameKept
    BY <1>1, <2>1, FlashSame, PlanSame
  <2>3. QED BY <1>3, <2>2
<1>5. CASE ProgramData
  BY <1>3, <1>5, ProgramDataKeeps
<1>6. CASE NextPair
  BY <1>3, <1>6, NextPairKeeps
<1>7. CASE ProgramAddress
  <2>1. CASE op = "write" /\ Ours
    <3>1. \A x \in Home : Kept(x)' = IF x = asked[1] THEN asked[2] ELSE Kept(x)
      BY <1>2, <1>7, <2>1, WriteTakesEffect
    <3>2. CASE asked[1] \in Watched
      <4>1. Req \in Watched \X Data /\ Req[1] = asked[1] /\ Req[2] = asked[2]
        BY <1>1, <2>1, <3>2, ReqIs
      <4>2. Mem' = [v \in Watched |-> IF v = asked[1] THEN asked[2] ELSE Kept(v)]
        BY <3>1 DEF Mem
      <4>3. Mem' = [Mem EXCEPT ![Req[1]] = Req[2]]
        BY <4>1, <4>2 DEF Mem
      <4>4. QED BY <1>1, <1>2, <4>1, <4>3, Stores
    <3>3. CASE asked[1] \notin Watched
      <4>1. \A v \in Watched : Kept(v)' = Kept(v)
        BY <3>1, <3>3
      <4>2. Mem' = Mem
        BY <4>1 DEF Mem
      <4>3. QED BY <1>1, <1>2, <4>2, Stutters
    <3>4. QED BY <3>2, <3>3
  <2>2. CASE op = "init" \/ ~Ours
    BY <1>2, <1>3, <1>7, <2>2, RecoveredKeeps
  <2>3. op \in {"write", "init"}
    BY <1>7, AddressStored
  <2>4. QED BY <2>1, <2>2, <2>3
<1>8. CASE ProgramPage
  <2>1. CASE ~Ours
    BY <1>2, <1>3, <1>8, <2>1, BeyondKeeps
  <2>2. CASE op = "write" /\ Ours
    BY <1>2, <1>3, <1>8, <2>2, TransferKeeps
  <2>3. CASE op = "init" /\ pair = 1
    BY <1>2, <1>3, <1>8, <2>3, RecoveryKeeps
  <2>4. CASE op = "clear" /\ pair = 1
    <3>1. \A v \in Watched : Kept(v)' \in {None, Kept(v)}
      BY <1>2, <1>8, <2>4, ClearForgets
    <3>2. Req = <<"clear">>
      BY <2>4 DEF Req
    <3>3. QED BY <1>1, <1>2, <3>1, <3>2, Forgets
  <2>5. Ours => op = "write" \/ (op \in {"init", "clear"} /\ pair = 1)
    BY DEF Ours
  <2>6. QED BY <2>1, <2>2, <2>3, <2>4, <2>5
<1>9. QED BY <1>4, <1>5, <1>6, <1>7, <1>8

\* Every step is one of KVStore or none, until the power fails in a recovery.
LEMMA PromiseStep ==
  ASSUME Watched \subseteq Home, IInv, IInv', [Next]_vars, ~unmended'
  PROVE  Promise
<1>1. CASE vars' = vars
  <2>1. pages' = pages /\ UNCHANGED <<op, asked, todo, status>>
    BY <1>1 DEF vars
  <2>2. SameKept
    BY <2>1, FlashSame, PlanSame
  <2>3. QED BY <2>1, <2>2, ReqSame, MemSame, Stutters
<1>2. QED
  BY <1>1, CallsAreAsked, CallsAreAnswered, FailuresAreReported, OperationsKeepPromise
  DEF Next

\* The store keeps what KVStore promises, see KeepsPromise: a variable of the first pair
\* changes only by a write or a clear being served, and once, at whatever operation the
\* power fails; success is reported of a write that is kept.
THEOREM PromiseKept ==
  ASSUME Watched \subseteq Home
  PROVE  Spec => KeepsPromise
<1>1. Init => Store!Init
  <2> SUFFICES ASSUME Init PROVE Store!Init
    OBVIOUS
  <2>1. TypeOK /\ op = "off" /\ status = ""
    BY InitStep DEF IInv, Init
  <2>2. Fresh
    BY FirstPages DEF Init, EmptyPage, Status, Fresh
  <2>3. \A v \in Watched : Kept(v) = None
    BY <2>1, <2>2, NothingKept DEF NoneKept
  <2>4. QED BY <2>1, <2>3 DEF Store!Init
<1>2. IInv /\ IInv' /\ [Next]_vars => (unmended' \/ [Store!Next]_(Store!kvars))
  BY PromiseStep DEF Promise
<1>3. QED BY <1>1, <1>2, Invariance, PTL DEF Spec, KeepsPromise
=============================================================================

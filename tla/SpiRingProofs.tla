---------------------------- MODULE SpiRingProofs ----------------------------
(***************************************************************************)
(* What the frame buffer promises, for any frames, any size of the ring and *)
(* any room left in it, and wherever the interrupt falls.                  *)
(***************************************************************************)
EXTENDS SpiRing, SequenceTheorems, TLAPS

USE FrameAssumption, SizeAssumption

-----------------------------------------------------------------------------
(* Numbers modulo the size of the ring                                     *)

LEMMA DivMod ==
  ASSUME NEW n \in Nat \ {0}, NEW x \in Int
  PROVE  x = n * (x \div n) + (x % n) /\ x \div n \in Int /\ x % n \in 0 .. n - 1
  OBVIOUS

LEMMA ModUnique ==
  ASSUME NEW n \in Nat \ {0}, NEW q \in Int, NEW r \in 0 .. n - 1
  PROVE  (n * q + r) % n = r
  OBVIOUS

LEMMA Product ==
  ASSUME NEW n \in Int, NEW q \in Int PROVE n * q \in Int
  OBVIOUS

LEMMA Distribute ==
  ASSUME NEW n \in Int, NEW p \in Int, NEW q \in Int PROVE n * (p + q) = n * p + n * q
  OBVIOUS

\* Whole turns make no difference.
LEMMA ModTurn ==
  ASSUME NEW n \in Nat \ {0}, NEW x \in Int, NEW q \in Int
  PROVE  (x + n * q) % n = x % n
<1>1. PICK p, r \in Int : r = x % n /\ p = x \div n
  BY DivMod
<1>2. x = n * p + r /\ r \in 0 .. n - 1
  BY <1>1, DivMod
<1>3. PICK np, nq, m \in Int : np = n * p /\ nq = n * q /\ m = n * (p + q)
  BY Product
<1>4. m = np + nq
  BY <1>3, Distribute
<1>5. x + nq = m + r
  BY <1>2, <1>3, <1>4
<1>6. (m + r) % n = r
  BY <1>2, <1>3, ModUnique
<1>7. QED BY <1>1, <1>3, <1>5, <1>6, Zenon

LEMMA ModSum ==
  ASSUME NEW n \in Nat \ {0}, NEW x \in Int, NEW c \in Int
  PROVE  ((x % n) + c) % n = (x + c) % n
<1>1. PICK p, r \in Int : r = x % n /\ p = x \div n
  BY DivMod
<1>2. PICK np \in Int : np = n * p
  BY Product
<1>3. x = np + r
  BY <1>1, <1>2, DivMod
<1>4. ((r + c) + np) % n = (r + c) % n
  <2>1. r + c \in Int
    OBVIOUS
  <2>2. ((r + c) + n * p) % n = (r + c) % n
    BY <2>1, ModTurn
  <2>3. QED BY <1>2, <2>2
<1>5. (r + c) + np = x + c
  BY <1>3
<1>6. QED BY <1>1, <1>4, <1>5, Zenon

LEMMA ModDifference ==
  ASSUME NEW n \in Nat \ {0}, NEW a \in Int, NEW x \in Int, NEW y \in Int
  PROVE  (((a + x) % n) - ((a + y) % n)) % n = (x - y) % n
<1> DEFINE r == (a + y) % n
           s == (a + x) % n
<1>1. a + x \in Int /\ a + y \in Int /\ x - y \in Int
  OBVIOUS
<1>2. PICK p \in Int : p = (a + y) \div n
  BY <1>1, DivMod
<1>3. PICK np \in Int : np = n * p
  BY Product
<1>4. a + y = np + r /\ r \in Int /\ s \in Int
  BY <1>1, <1>2, <1>3, DivMod
<1>5. (s + (0 - r)) % n = ((a + x) + (0 - r)) % n
  <2>1. 0 - r \in Int
    BY <1>4
  <2>2. QED BY <1>1, <2>1, ModSum
<1> HIDE DEF r, s
<1>6. (a + x) + (0 - r) = (x - y) + np /\ s + (0 - r) = s - r
  BY <1>4
<1>7. ((x - y) + np) % n = (x - y) % n
  <2>1. ((x - y) + n * p) % n = (x - y) % n
    BY <1>1, ModTurn
  <2>2. QED BY <1>3, <2>1
<1>8. (s - r) % n = (x - y) % n
  BY <1>5, <1>6, <1>7, Zenon
<1>9. QED BY <1>8, Zenon DEF r, s

LEMMA ModSmall ==
  ASSUME NEW n \in Nat \ {0}, NEW x \in Int
  PROVE  /\ 0 <= x /\ x < n => x % n = x
         /\ 0 - n <= x /\ x < 0 => x % n = x + n
  OBVIOUS

\* How far a cell is behind another.
LEMMA Distance ==
  ASSUME NEW a \in Cells, NEW p \in Int, NEW c \in Int
  PROVE  /\ At(a, p) \in Cells
         /\ (At(a, p) - At(a, c)) % BufSize = (p - c) % BufSize
         /\ (At(a, p) - a - c) % BufSize = (p - c) % BufSize
         /\ At(At(a, c), p) = At(a, c + p)
<1>1. a \in Int /\ a + p \in Int /\ a + c \in Int
  BY DEF Cells
<1>2. At(a, p) \in Cells
  BY <1>1, DivMod DEF At, Cells
<1>3. (At(a, p) - At(a, c)) % BufSize = (p - c) % BufSize
  <2>1. (((a + p) % BufSize) - ((a + c) % BufSize)) % BufSize = (p - c) % BufSize
    <3>1. BufSize \in Nat \ {0}
      OBVIOUS
    <3> DEFINE Same(n, b, x, y) == (((b + x) % n) - ((b + y) % n)) % n = (x - y) % n
    <3>2. \A n \in Nat \ {0} : \A b, x, y \in Int : Same(n, b, x, y)
      BY ModDifference, Zenon
    <3> HIDE DEF Same
    <3>3. Same(BufSize, a, p, c)
      BY <1>1, <3>1, <3>2
    <3>4. QED BY <3>3 DEF Same
  <2>2. QED BY <2>1, Zenon DEF At
<1>4. (At(a, p) - a - c) % BufSize = (p - c) % BufSize
  <2>1. (((a + p) % BufSize) + (0 - a - c)) % BufSize = ((a + p) + (0 - a - c)) % BufSize
    <3>1. 0 - a - c \in Int
      BY <1>1
    <3>2. QED BY <1>1, <3>1, ModSum
  <2>2. (a + p) + (0 - a - c) = p - c
    BY <1>1
  <2>3. At(a, p) + (0 - a - c) = At(a, p) - a - c
    BY <1>1, <1>2 DEF Cells
  <2>4. (At(a, p) + (0 - a - c)) % BufSize = (p - c) % BufSize
    BY <2>1, <2>2, Zenon DEF At
  <2>5. QED BY <2>3, <2>4, Zenon
<1>5. At(At(a, c), p) = At(a, c + p)
  <2>1. (((a + c) % BufSize) + p) % BufSize = ((a + c) + p) % BufSize
    BY <1>1, ModSum
  <2>2. (a + c) + p = a + (c + p)
    BY <1>1
  <2>3. QED BY <2>1, <2>2, Zenon DEF At
<1>6. QED BY <1>2, <1>3, <1>4, <1>5

-----------------------------------------------------------------------------
(* Types                                                                   *)

LEMMA StillFits ==
  ASSUME NEW s \in Int, NEW t \in Int, NEW p \in Int, NEW a \in Int, NEW w \in Int,
         t - s <= w, s - p <= a
  PROVE  t - p <= a + w
OBVIOUS

LEMMA Joined ==
  ASSUME NEW s \in Seq(Nat), NEW t \in Seq(Nat)
  PROVE  /\ s \o t \in Seq(Nat) /\ Len(s \o t) = Len(s) + Len(t)
         /\ \A i \in 1 .. Len(s) + Len(t) :
              (s \o t)[i] = IF i <= Len(s) THEN s[i] ELSE t[i - Len(s)]
BY ConcatProperties, Zenon

LEMMA PacketCells ==
  ASSUME NEW f \in Frames
  PROVE  /\ Packet(f) \in Seq(Nat) /\ Len(f) \in Shortest .. Longest /\ Len(Packet(f)) = Len(f) + 3
         /\ Packet(f)[1] = Header /\ Packet(f)[2] = Len(f)
         /\ \A k \in 1 .. Len(f) : Packet(f)[k + 2] = f[k]
<1>1. f \in Seq(Nat) /\ Len(f) \in Nat /\ Len(f) \in Shortest .. Longest
  OBVIOUS
<1> DEFINE head == <<Header, Len(f)>>
           tail == <<Trailer>>
<1>2. head \in Seq(Nat) /\ Len(head) = 2 /\ head[1] = Header /\ head[2] = Len(f)
      /\ tail \in Seq(Nat) /\ Len(tail) = 1
  BY <1>1
<1> HIDE DEF head, tail
<1>3. /\ head \o f \in Seq(Nat) /\ Len(head \o f) = 2 + Len(f)
      /\ \A i \in 1 .. 2 + Len(f) : (head \o f)[i] = IF i <= 2 THEN head[i] ELSE f[i - 2]
  <2>1. /\ head \o f \in Seq(Nat) /\ Len(head \o f) = Len(head) + Len(f)
        /\ \A i \in 1 .. Len(head) + Len(f) :
             (head \o f)[i] = IF i <= Len(head) THEN head[i] ELSE f[i - Len(head)]
    BY <1>1, <1>2, Joined, Zenon
  <2>2. QED BY <1>2, <2>1
<1>4. /\ (head \o f) \o tail \in Seq(Nat) /\ Len((head \o f) \o tail) = 2 + Len(f) + 1
      /\ \A i \in 1 .. 2 + Len(f) : ((head \o f) \o tail)[i] = (head \o f)[i]
  <2> DEFINE hf == head \o f
  <2> HIDE DEF hf
  <2>1. hf \in Seq(Nat) /\ Len(hf) = 2 + Len(f)
    BY <1>3 DEF hf
  <2>2. /\ hf \o tail \in Seq(Nat) /\ Len(hf \o tail) = Len(hf) + Len(tail)
        /\ \A i \in 1 .. Len(hf) + Len(tail) :
             (hf \o tail)[i] = IF i <= Len(hf) THEN hf[i] ELSE tail[i - Len(hf)]
    BY <1>2, <2>1, Joined, Zenon
  <2>3. Len(hf) + Len(tail) = 2 + Len(f) + 1
    BY <1>1, <1>2, <2>1
  <2>4. ASSUME NEW i \in 1 .. 2 + Len(f) PROVE (hf \o tail)[i] = hf[i]
    <3>1. i \in 1 .. Len(hf) + Len(tail) /\ i <= Len(hf)
      BY <1>1, <2>1, <2>3
    <3>2. QED BY <2>2, <3>1, Zenon
  <2>5. QED BY <2>2, <2>3, <2>4, Zenon DEF hf
<1>5. Packet(f) = (head \o f) \o tail
  BY DEF Packet, head, tail
<1> DEFINE pk == (head \o f) \o tail
<1> HIDE DEF pk
<1>6. pk[1] = Header /\ pk[2] = Len(f)
  <2>1. 1 \in 1 .. 2 + Len(f) /\ 2 \in 1 .. 2 + Len(f) /\ 1 <= 2 /\ 2 <= 2
    BY <1>1
  <2>2. (head \o f)[1] = head[1] /\ (head \o f)[2] = head[2]
    BY <1>3, <2>1, Zenon
  <2>3. QED BY <1>2, <1>4, <2>1, <2>2, Zenon DEF pk
<1>7. ASSUME NEW k \in 1 .. Len(f) PROVE pk[k + 2] = f[k]
  <2>1. k + 2 \in 1 .. 2 + Len(f) /\ ~(k + 2 <= 2) /\ (k + 2) - 2 = k
    BY <1>1
  <2>2. QED BY <1>3, <1>4, <2>1 DEF pk
<1>8. pk \in Seq(Nat) /\ Len(pk) = Len(f) + 3
  BY <1>1, <1>4 DEF pk
<1>9. QED BY <1>1, <1>5, <1>6, <1>7, <1>8 DEF pk

LEMMA InitTypes == Init => TypeOK
<1> SUFFICES ASSUME Init PROVE TypeOK
  OBVIOUS
<1>1. 0 \in Cells /\ << >> \in Seq(Nat) /\ << >> \in Seq(Frames)
  BY EmptySeq DEF Cells
<1>2. skip \in 0 .. ScanDepth - 1 /\ raced \in 0 .. MaxRaced /\ shorts \in 0 .. MaxShort
      /\ drop \in Nat /\ size \in Int
  BY DEF Init
<1>3. buf \in [Cells -> Nat]
  BY DEF Init
<1>4. listening \in BOOLEAN /\ status = "empty" /\ pc = "test"
  BY Zenon DEF Init
<1>5. QED BY <1>1, <1>2, <1>3, <1>4 DEF Init, TypeOK

LEMMA ReceiveTypes ==
  ASSUME TypeOK, NEW f \in Frames, Receive(f)
  PROVE  TypeOK'
<1>1. Packet(f) \in Seq(Nat) /\ Len(Packet(f)) \in Nat
  BY PacketCells
<1>2. /\ buf \in [Cells -> Nat] /\ top \in Cells /\ size \in Int /\ held \in Seq(Frames)
      /\ raced \in 0 .. MaxRaced /\ shorts \in 0 .. MaxShort
      /\ status \in {"empty", "using", "full"}
  BY Zenon DEF TypeOK
<1>3. buf' \in [Cells -> Nat]
  <2>1. ASSUME NEW i \in Cells
        PROVE  LET k == ((i - top) % BufSize) + 1
               IN (IF k <= Len(Packet(f)) THEN Packet(f)[k] ELSE buf[i]) \in Nat
    <3>1. i - top \in Int
      BY <1>2, <2>1 DEF Cells
    <3>2. ((i - top) % BufSize) + 1 \in Nat \ {0}
      <4>1. (i - top) % BufSize \in 0 .. BufSize - 1
        BY <3>1, DivMod
      <4>2. QED BY <4>1
    <3>3. \A k \in 1 .. Len(Packet(f)) : Packet(f)[k] \in Nat
      BY <1>1, ElementOfSeq
    <3>4. buf[i] \in Nat
      BY <1>2
    <3>5. QED BY <1>1, <3>2, <3>3, <3>4
  <2>2. QED BY <2>1, Zenon DEF Receive
<1>4. size' \in Int /\ top' \in Cells
  <2>1. top' = At(top, Len(Packet(f))) /\ size' = size + Len(Packet(f))
    BY DEF Receive
  <2>2. QED BY <1>1, <1>2, <2>1, Distance
<1>5. held' \in Seq(Frames)
  BY <1>2 DEF Receive
<1>6. raced' \in 0 .. MaxRaced
  <2>1. raced < MaxRaced /\ raced' \in {raced + 1, 0}
    BY Zenon DEF Receive
  <2>2. QED BY <1>2, <2>1
<1>7. shorts' \in 0 .. MaxShort
  <2>1. Len(f) \in Nat
    BY PacketCells
  <2>2. shorts' = shorts + (IF Len(f) < Longest THEN 1 ELSE 0) /\ shorts' <= MaxShort
    BY DEF Receive
  <2>3. QED BY <1>2, <2>1, <2>2
<1>8. status' \in {"empty", "using", "full"}
  <2>1. status' = WriteStatus(status, size')
    BY DEF Receive
  <2>2. QED BY <1>2, <2>1, Zenon DEF WriteStatus
<1>9. UNCHANGED <<bottom, listening, pc, skip, drop, out>>
  BY DEF Receive
<1>10. bottom' \in Cells /\ listening' \in BOOLEAN /\ skip' \in 0 .. ScanDepth - 1 /\ drop' \in Nat /\ out' \in Seq(Nat)
       /\ pc' \in {"test", "scan", "data", "update", "switch", "size", "again", "empty", "using"}
  BY <1>9, Zenon DEF TypeOK
<1>11. QED BY <1>3, <1>4, <1>5, <1>6, <1>7, <1>8, <1>10 DEF TypeOK

LEMMA OtherTypes ==
  ASSUME TypeOK, Open \/ Close \/ Reader
  PROVE  TypeOK'
<1> USE DEF ring
<1>1. /\ buf \in [Cells -> Nat] /\ top \in Cells /\ bottom \in Cells /\ size \in Int
      /\ skip \in 0 .. ScanDepth - 1 /\ drop \in Nat /\ out \in Seq(Nat) /\ held \in Seq(Frames)
      /\ raced \in 0 .. MaxRaced /\ shorts \in 0 .. MaxShort
  BY Zenon DEF TypeOK
<1>2. /\ status \in {"empty", "using", "full"} /\ listening \in BOOLEAN
      /\ pc \in {"test", "scan", "data", "update", "switch", "size", "again", "empty", "using"}
  BY Zenon DEF TypeOK
<1>3. 0 \in Cells /\ << >> \in Seq(Frames)
  BY EmptySeq DEF Cells
<1>4. \A p \in Int : At(bottom, p) \in Cells
  BY <1>1, Distance
<1>5. CASE Open
  <2>1. /\ top' = 0 /\ bottom' = 0 /\ size' = 0 /\ status' = "empty" /\ listening' = TRUE
        /\ held' = << >> /\ raced' = 0 /\ shorts' = 0
        /\ UNCHANGED <<buf, pc, skip, drop, out>>
    BY <1>5 DEF Open
  <2>2. raced' \in 0 .. MaxRaced /\ shorts' \in 0 .. MaxShort
    BY <2>1
  <2>3. QED BY <1>1, <1>2, <1>3, <2>1, <2>2 DEF TypeOK
<1>6. CASE Close
  <2>1. listening' = FALSE /\ UNCHANGED <<buf, top, bottom, size, status, pc, skip, drop, out, held, shorts, raced>>
    BY <1>6 DEF Close
  <2>2. QED BY <1>1, <1>2, <2>1 DEF TypeOK
<1>7. CASE Test
  <2>1. pc' = "scan" /\ skip' = 0
        /\ UNCHANGED <<buf, top, bottom, size, status, listening, drop, out, held, shorts, raced>>
    BY <1>7 DEF Test
  <2>2. skip' \in 0 .. ScanDepth - 1
    BY <2>1
  <2>3. QED BY <1>1, <1>2, <2>1, <2>2 DEF TypeOK
<1>8. CASE Scan
  <2>1. /\ buf' = [buf EXCEPT ![At(bottom, skip)] = 0] /\ skip' = (skip + 1) % ScanDepth
        /\ pc' \in {"data", "scan"}
        /\ UNCHANGED <<top, bottom, size, status, listening, drop, out, held, shorts, raced>>
    BY <1>8, Zenon DEF Scan
  <2>2. skip' \in 0 .. ScanDepth - 1
    <3>1. skip + 1 \in Int /\ ScanDepth \in Nat \ {0}
      BY <1>1
    <3>2. QED BY <2>1, <3>1, DivMod
  <2>3. buf' \in [Cells -> Nat]
    BY <1>1, <2>1
  <2>4. QED BY <1>1, <1>2, <2>1, <2>2, <2>3 DEF TypeOK
<1>9. CASE ReadData
  <2> DEFINE len == buf[At(bottom, skip)]
  <2>1. /\ pc' = "update"
        /\ out' = [i \in 1 .. len |-> buf[At(bottom, skip + i)]]
        /\ buf' = [i \in Cells |-> IF (i - bottom - skip) % BufSize <= len THEN 0 ELSE buf[i]]
        /\ drop' = len + skip + 2
        /\ held' = IF held = << >> THEN << >> ELSE Tail(held)
        /\ UNCHANGED <<top, bottom, size, status, listening, skip, shorts, raced>>
    BY <1>9 DEF ReadData, DropBytes
  <2>2. len \in Nat /\ drop' \in Nat
    <3>1. skip \in Int /\ skip \in Nat
      BY <1>1
    <3>2. At(bottom, skip) \in Cells
      BY <1>4, <3>1
    <3>3. len \in Nat
      BY <1>1, <3>2
    <3>4. drop' = len + skip + 2
      BY <2>1
    <3>5. QED BY <3>1, <3>3, <3>4
  <2> HIDE DEF len
  <2>3. out' \in Seq(Nat)
    <3>1. \A i \in 1 .. len : buf[At(bottom, skip + i)] \in Nat
      BY <1>1, <1>4, <2>2
    <3>2. QED BY <2>1, <2>2, <3>1, IsASeq
  <2>4. buf' \in [Cells -> Nat]
    <3>1. \A i \in Cells : (IF (i - bottom - skip) % BufSize <= len THEN 0 ELSE buf[i]) \in Nat
      BY <1>1
    <3>2. QED BY <2>1, <3>1, Zenon
  <2>5. held' \in Seq(Frames)
    BY <1>1, <1>3, <2>1, HeadTailProperties
  <2>6. QED BY <1>1, <1>2, <2>1, <2>2, <2>3, <2>4, <2>5 DEF TypeOK
<1>10. CASE UpdateBottom
  <2>1. /\ pc' = "switch" /\ size' = size - drop /\ bottom' = At(bottom, drop) /\ drop' = 0
        /\ UNCHANGED <<buf, top, status, listening, skip, out, held, shorts, raced>>
    BY <1>10 DEF UpdateBottom
  <2>2. size' \in Int /\ bottom' \in Cells /\ drop' \in Nat
    BY <1>1, <1>4, <2>1
  <2>3. QED BY <1>1, <1>2, <2>1, <2>2 DEF TypeOK
<1>11. CASE SwitchStatus \/ SizePositive
  <2>1. pc' \in {"test", "size", "again", "using"}
    <3>1. CASE SwitchStatus
      BY <1>2, <3>1 DEF SwitchStatus
    <3>2. CASE SizePositive
      BY <3>2 DEF SizePositive
    <3>3. QED BY <1>11, <3>1, <3>2
  <2>2. UNCHANGED <<buf, top, bottom, size, status, listening, skip, drop, out, held, shorts, raced>>
    BY <1>11 DEF SwitchStatus, SizePositive
  <2>3. QED BY <1>1, <1>2, <2>1, <2>2 DEF TypeOK
<1>12. CASE SizeZero
  <2>1. /\ pc' \in {"empty", "test"} /\ top' \in {0, top} /\ bottom' \in {0, bottom}
        /\ status' \in {status, "empty"}
    BY <1>12 DEF SizeZero
  <2>2. UNCHANGED <<buf, size, listening, skip, drop, out, held, shorts, raced>>
    BY <1>12 DEF SizeZero
  <2>3. top' \in Cells /\ bottom' \in Cells
    BY <1>1, <1>3, <2>1
  <2>4. QED BY <1>1, <1>2, <2>1, <2>2, <2>3 DEF TypeOK
<1>13. CASE StoreStatus("empty") \/ StoreStatus("using")
  <2>1. pc' = "test" /\ status' \in {"empty", "using"}
        /\ UNCHANGED <<buf, top, bottom, size, listening, skip, drop, out, held, shorts, raced>>
    BY <1>13 DEF StoreStatus
  <2>2. QED BY <1>1, <1>2, <2>1 DEF TypeOK
<1>14. QED BY <1>5, <1>6, <1>7, <1>8, <1>9, <1>10, <1>11, <1>12, <1>13 DEF Reader

LEMMA StepTypes ==
  ASSUME TypeOK, [Next]_vars
  PROVE  TypeOK'
<1>1. CASE UNCHANGED vars
  <2>1. UNCHANGED <<buf, top, bottom, size, status, listening, pc, skip, drop, out, held, shorts, raced>>
    BY <1>1 DEF vars, ring
  <2>2. QED BY <2>1, Zenon DEF TypeOK
<1>2. QED BY <1>1, ReceiveTypes, OtherTypes DEF Next

\* Every variable stays in its type, see TypeOK: among it that top and bottom stay
\* inside the ring.
THEOREM TypeCorrect == Spec => []TypeOK
<1>1. TypeOK /\ [Next]_vars => TypeOK'
  BY StepTypes
<1>2. QED BY InitTypes, <1>1, PTL DEF Spec

-----------------------------------------------------------------------------
(* The buffer while it is whole                                            *)

\* The room n whole frames take.
Room(n) == n * (Longest + 3)

\* The room k shorter ones may leave.
Shortfall(k) == k * (Longest - Shortest)

\* Frame f lies p cells behind cell b; its header may already be cleared.
Stored(cells, b, p, f, header) ==
  /\ header => cells[At(b, p)] = Header
  /\ cells[At(b, p + 1)] = Len(f)
  /\ \A k \in 1 .. Len(f) : cells[At(b, p + 1 + k)] = f[k]

\* The frames that wait lie one behind the other, where off says; what was read
\* and is not yet taken off comes before them.
Laid(off) ==
  /\ off[1] = drop /\ off[Len(held) + 1] = size
  /\ \A i, j \in 1 .. Len(held) + 1 : i <= j => off[i] <= off[j]
  /\ \A i \in 1 .. Len(held) :
       /\ off[i + 1] = off[i] + (Len(held[i]) + 3)
       /\ size - off[i] <= Room(Len(held) + 1 - i)
       /\ Stored(buf, bottom, off[i], held[i], (i # 1) \/ (pc # "data"))

Positions == [Nat \ {0} -> Int]

Reading == pc \in {"test", "scan", "data", "update"}

\* The frames that size still counts.
Counted == Len(held) + (IF pc = "update" THEN 1 ELSE 0)

\* The room the reader still owes: it has one frame to take off before it stores
\* a status, and a full buffer has one more than the limit.
Owed == (IF Reading THEN Longest + 3 ELSE 0) + (IF status = "full" THEN Longest + 3 ELSE 0)

Budget ==
  /\ Room(Counted) - size <= Shortfall(shorts)
  /\ Room(Counted) <= (BufSize - PacketSize) + Owed + Shortfall(shorts)

\* What the status says of the frames at each step of the reader.
StatusFits ==
  /\ status = "empty" => pc = "test" /\ size = 0
  /\ Reading /\ status # "empty" => Counted >= 1
  /\ Reading /\ status = "full" => Counted >= 2
  /\ pc \in {"switch", "size"} /\ status = "full" => Counted >= 1
  /\ pc = "using" => Counted >= 1
  /\ pc \in {"again", "empty"} => Counted = 0
  /\ pc = "test" /\ status = "full" => size > BufSize - PacketSize

AtHeader == (pc = "scan" => skip = 0) /\ (pc = "data" => skip = 1)

Ready ==
  /\ top = At(bottom, size) /\ drop <= Longest + 3
  /\ \E off \in Positions : Laid(off)
  /\ Budget /\ StatusFits /\ AtHeader

IInv == TypeOK /\ (pc # "update" => drop = 0) /\ (raced = 0 => Ready)

LEMMA RoomSteps ==
  /\ Room(0) = 0 /\ Room(1) = Longest + 3
  /\ \A n \in Int : Room(n) \in Int /\ Room(n + 1) = Room(n) + (Longest + 3)
<1>1. Longest + 3 \in Int
  OBVIOUS
<1>2. ASSUME NEW n \in Int, NEW l \in Int PROVE n * l \in Int /\ (n + 1) * l = n * l + l
  OBVIOUS
<1>3. ASSUME NEW l \in Int PROVE 0 * l = 0 /\ 1 * l = l
  OBVIOUS
<1>4. QED BY <1>1, <1>2, <1>3, Zenon DEF Room

LEMMA ShortfallSteps ==
  /\ Shortfall(0) = 0 /\ Shortfall(MaxShort) = MaxShort * (Longest - Shortest)
  /\ \A k \in Int : Shortfall(k) \in Int /\ Shortfall(k + 1) = Shortfall(k) + (Longest - Shortest)
  /\ \A k, m \in Int : k <= m => Shortfall(k) <= Shortfall(m)
<1>1. Longest - Shortest \in Nat
  OBVIOUS
<1>2. ASSUME NEW k \in Int, NEW g \in Nat PROVE k * g \in Int /\ (k + 1) * g = k * g + g
  OBVIOUS
<1>3. ASSUME NEW k \in Int, NEW m \in Int, NEW g \in Nat, k <= m PROVE k * g <= m * g
  <2>1. PICK d \in Nat : m = k + d
    BY <1>3
  <2>2. d * g >= 0 /\ d * g \in Int /\ k * g \in Int
    OBVIOUS
  <2>3. (k + d) * g = k * g + d * g
    OBVIOUS
  <2>4. (k + d) * g >= k * g
    BY <2>2, <2>3
  <2>5. QED BY <2>1, <2>4
<1>4. ASSUME NEW g \in Nat PROVE 0 * g = 0
  OBVIOUS
<1>5. QED BY <1>1, <1>2, <1>3, <1>4, Zenon DEF Shortfall

LEMMA HeldFrames ==
  ASSUME TypeOK
  PROVE  /\ Len(held) \in Nat
         /\ \A i \in 1 .. Len(held) :
              /\ held[i] \in Frames /\ held[i] \in Seq(Nat)
              /\ Len(held[i]) \in Nat /\ Len(held[i]) \in Shortest .. Longest
<1>1. held \in Seq(Frames)
  BY Zenon DEF TypeOK
<1>2. \A i \in 1 .. Len(held) : held[i] \in Frames
  BY <1>1, ElementOfSeq
<1>3. QED BY <1>1, <1>2

\* Nothing lies behind what is read, and there is room for one more frame unless
\* the buffer is full.
LEMMA Fits ==
  ASSUME TypeOK, pc # "update" => drop = 0, Ready, NEW off \in Positions, Laid(off)
  PROVE  /\ 0 <= drop /\ drop <= size /\ size <= BufSize
         /\ held = << >> <=> size = drop
         /\ Counted \in Nat /\ size <= Room(Counted)
         /\ status # "full" => size + (Longest + 3) <= BufSize
<1>1. /\ Len(held) \in Nat /\ drop \in Nat /\ size \in Int /\ shorts \in 0 .. MaxShort
      /\ held \in Seq(Frames) /\ drop <= Longest + 3
  BY HeldFrames DEF TypeOK, Ready
<1>2. off[1] = drop /\ off[Len(held) + 1] = size
      /\ \A i, j \in 1 .. Len(held) + 1 : i <= j => off[i] <= off[j]
  BY DEF Laid
<1>3. drop <= size
  <2>1. 1 \in 1 .. Len(held) + 1 /\ Len(held) + 1 \in 1 .. Len(held) + 1 /\ 1 <= Len(held) + 1
    BY <1>1
  <2>2. QED BY <1>2, <2>1
<1>4. ASSUME Len(held) # 0
      PROVE  size >= drop + 3 /\ size - drop <= Room(Len(held))
  <2>1. 1 \in 1 .. Len(held) /\ 2 \in 1 .. Len(held) + 1 /\ Len(held) + 1 \in 1 .. Len(held) + 1
        /\ 2 <= Len(held) + 1
    BY <1>1, <1>4
  <2>2. off[2] = off[1] + (Len(held[1]) + 3) /\ size - off[1] <= Room(Len(held))
    <3>1. off[1 + 1] = off[1] + (Len(held[1]) + 3) /\ size - off[1] <= Room(Len(held) + 1 - 1)
      BY <2>1 DEF Laid
    <3>2. 1 + 1 = 2 /\ Len(held) + 1 - 1 = Len(held)
      BY <1>1
    <3>3. QED BY <3>1, <3>2
  <2>3. off[2] <= size
    BY <1>2, <2>1
  <2>4. Len(held[1]) \in Nat
    BY <2>1, HeldFrames
  <2>5. QED BY <1>1, <1>2, <2>2, <2>3, <2>4
<1>5. Len(held) = 0 => size = drop
  BY <1>1, <1>2
<1>6. held = << >> <=> Len(held) = 0
  BY <1>1, EmptySeq
<1>7. held = << >> <=> size = drop
  BY <1>1, <1>4, <1>5, <1>6
<1>8. Room(Len(held)) \in Int /\ Room(Len(held) + 1) = Room(Len(held)) + (Longest + 3)
  BY <1>1, RoomSteps
<1>9. size - drop <= Room(Len(held))
  BY <1>1, <1>4, <1>5, <1>8, RoomSteps
<1>10. Counted \in Nat /\ size <= Room(Counted)
  <2>1. CASE pc = "update"
    <3>1. Counted = Len(held) + 1
      BY <2>1 DEF Counted
    <3>2. QED BY <1>1, <1>8, <1>9, <3>1
  <2>2. CASE pc # "update"
    <3>1. Counted = Len(held)
      BY <1>1, <2>2 DEF Counted
    <3>2. QED BY <1>1, <1>8, <1>9, <2>2, <3>1
  <2>3. QED BY <2>1, <2>2
<1>11. PICK r, s \in Int : r = Room(Counted) /\ s = Shortfall(shorts)
  <2>1. Counted \in Int /\ shorts \in Int
    BY <1>1, <1>10
  <2>2. QED BY <2>1, RoomSteps, ShortfallSteps
<1>12. s <= MaxShort * (Longest - Shortest)
  BY <1>1, <1>11, ShortfallSteps
<1>13. r <= (BufSize - PacketSize) + Owed + s
  BY <1>11 DEF Ready, Budget
<1>14. Owed <= 2 * (Longest + 3) /\ (status # "full" => Owed <= Longest + 3) /\ Owed \in Int
  BY DEF Owed
<1>15. PICK m \in Int : m = MaxShort * (Longest - Shortest)
  BY Product
<1>16. 2 * (Longest + 3) + m <= PacketSize
  BY <1>15
<1>17. QED BY <1>1, <1>3, <1>7, <1>10, <1>11, <1>12, <1>13, <1>14, <1>15, <1>16

\* A frame stays where its cells stay as they are.
LEMMA StaysStored ==
  ASSUME NEW c, NEW d, NEW b \in Cells, NEW p \in Int, NEW f \in Seq(Nat), NEW h, NEW g,
         Stored(c, b, p, f, h),
         g => h /\ d[At(b, p)] = c[At(b, p)],
         \A q \in p + 1 .. p + 1 + Len(f) : d[At(b, q)] = c[At(b, q)]
  PROVE  Stored(d, b, p, f, g)
<1>1. p + 1 \in p + 1 .. p + 1 + Len(f)
  OBVIOUS
<1>2. \A k \in 1 .. Len(f) : p + 1 + k \in p + 1 .. p + 1 + Len(f)
  OBVIOUS
<1>3. d[At(b, p + 1)] = Len(f)
  BY <1>1 DEF Stored
<1>4. \A k \in 1 .. Len(f) : d[At(b, p + 1 + k)] = f[k]
  BY <1>2, Zenon DEF Stored
<1>5. QED BY <1>3, <1>4, Zenon DEF Stored

\* The same cells, counted from another one.
LEMMA StoredFrom ==
  ASSUME NEW c, NEW b \in Cells, NEW s \in Int, NEW p \in Int, NEW f \in Seq(Nat), NEW h,
         Stored(c, b, p, f, h)
  PROVE  Stored(c, At(b, s), p - s, f, h)
<1>1. \A q \in Int : At(At(b, s), q - s) = At(b, q)
  <2>1. ASSUME NEW q \in Int PROVE At(At(b, s), q - s) = At(b, q)
    <3>1. q - s \in Int /\ s + (q - s) = q
      OBVIOUS
    <3>2. At(At(b, s), q - s) = At(b, s + (q - s))
      BY <3>1, Distance
    <3>3. QED BY <3>1, <3>2, Zenon
  <2>2. QED BY <2>1
<1>2. p + 1 \in Int /\ (p - s) + 1 = (p + 1) - s
  OBVIOUS
<1>3. \A k \in 1 .. Len(f) : p + 1 + k \in Int /\ (p - s) + 1 + k = (p + 1 + k) - s
  OBVIOUS
<1>4. c[At(At(b, s), (p - s) + 1)] = Len(f)
  BY <1>1, <1>2, Zenon DEF Stored
<1>5. \A k \in 1 .. Len(f) : c[At(At(b, s), (p - s) + 1 + k)] = f[k]
  BY <1>1, <1>3, Zenon DEF Stored
<1>6. h => c[At(At(b, s), p - s)] = Header
  BY <1>1, Zenon DEF Stored
<1>7. QED BY <1>4, <1>5, <1>6, Zenon DEF Stored

\* A new frame goes behind what is there and leaves it alone.
LEMMA Written ==
  ASSUME TypeOK, NEW f \in Frames, Receive(f), top = At(bottom, size),
         0 <= size, size + (Longest + 3) <= BufSize
  PROVE  /\ \A q \in 0 .. size - 1 : buf'[At(bottom, q)] = buf[At(bottom, q)]
         /\ Stored(buf', bottom, size, f, TRUE)
         /\ top' = At(bottom, size') /\ size' = size + (Len(f) + 3)
<1> DEFINE pk == Packet(f)
<1>1. /\ pk \in Seq(Nat) /\ Len(f) \in Nat /\ Len(f) <= Longest /\ Len(pk) = Len(f) + 3
      /\ pk[1] = Header /\ pk[2] = Len(f) /\ \A k \in 1 .. Len(f) : pk[k + 2] = f[k]
  <2>1. Len(f) \in Nat /\ Len(f) <= Longest
    BY SizeAssumption
  <2>2. QED BY <2>1, PacketCells, Zenon
<1>2. size \in Int /\ bottom \in Cells
  BY Zenon DEF TypeOK
<1>3. /\ buf' = [i \in Cells |->
                   LET k == ((i - top) % BufSize) + 1 IN IF k <= Len(pk) THEN pk[k] ELSE buf[i]]
      /\ size' = size + Len(pk) /\ top' = At(top, Len(pk))
  BY Zenon DEF Receive
<1> HIDE DEF pk
<1>4. ASSUME NEW q \in Int, NEW k \in Int, k = ((q - size) % BufSize) + 1
      PROVE  buf'[At(bottom, q)] = IF k <= Len(pk) THEN pk[k] ELSE buf[At(bottom, q)]
  <2>1. At(bottom, q) \in Cells /\ (At(bottom, q) - top) % BufSize = (q - size) % BufSize
    BY <1>2, Distance
  <2>2. ((At(bottom, q) - top) % BufSize) + 1 = k
    BY <1>4, <2>1, Zenon
  <2>3. QED BY <1>3, <2>1, <2>2, Zenon
<1>5. ASSUME NEW q \in 0 .. size - 1
      PROVE  buf'[At(bottom, q)] = buf[At(bottom, q)]
  <2>1. q - size \in Int /\ 0 - BufSize <= q - size /\ q - size < 0
    BY <1>1, <1>2
  <2>2. (q - size) % BufSize = (q - size) + BufSize
    BY <2>1, ModSmall
  <2>3. PICK k \in Int : k = (q - size) + BufSize + 1
    BY <2>1
  <2>4. k = ((q - size) % BufSize) + 1 /\ ~(k <= Len(pk))
    <3>1. k = ((q - size) % BufSize) + 1
      BY <2>2, <2>3, Zenon
    <3>2. k > Len(pk)
      BY <1>1, <1>2, <2>3
    <3>3. QED BY <1>1, <3>1, <3>2
  <2>5. QED BY <1>4, <2>4
<1>6. ASSUME NEW k \in 1 .. Len(pk)
      PROVE  buf'[At(bottom, size + (k - 1))] = pk[k]
  <2>1. k - 1 \in Int /\ 0 <= k - 1 /\ k - 1 < BufSize /\ k \in Int /\ k <= Len(pk)
        /\ size + (k - 1) \in Int /\ (size + (k - 1)) - size = k - 1
    BY <1>1, <1>2
  <2>2. (k - 1) % BufSize = k - 1
    BY <2>1, ModSmall
  <2>3. k = (((size + (k - 1)) - size) % BufSize) + 1
    <3>1. ((size + (k - 1)) - size) % BufSize = k - 1
      BY <2>1, <2>2, Zenon
    <3>2. QED BY <2>1, <3>1
  <2>4. QED BY <1>4, <2>1, <2>3
<1>7. Stored(buf', bottom, size, f, TRUE)
  <2>1. buf'[At(bottom, size)] = Header
    <3>1. 1 \in 1 .. Len(pk) /\ size + (1 - 1) = size
      BY <1>1, <1>2
    <3>2. QED BY <1>1, <1>6, <3>1, Zenon
  <2>2. buf'[At(bottom, size + 1)] = Len(f)
    <3>1. 2 \in 1 .. Len(pk) /\ size + (2 - 1) = size + 1
      BY <1>1, <1>2
    <3>2. QED BY <1>1, <1>6, <3>1, Zenon
  <2>3. ASSUME NEW k \in 1 .. Len(f) PROVE buf'[At(bottom, size + 1 + k)] = f[k]
    <3>1. k + 2 \in 1 .. Len(pk) /\ size + ((k + 2) - 1) = size + 1 + k
      BY <1>1, <1>2
    <3>2. QED BY <1>1, <1>6, <3>1, Zenon
  <2>4. QED BY <2>1, <2>2, <2>3 DEF Stored
<1>8. top' = At(bottom, size')
  <2>1. Len(pk) \in Int
    BY <1>1
  <2>2. QED BY <1>2, <1>3, <2>1, Distance
<1>9. QED BY <1>1, <1>3, <1>5, <1>7, <1>8

LEMMA ReceiveLaid ==
  ASSUME TypeOK, pc # "update" => drop = 0, Ready, NEW off \in Positions, Laid(off),
         NEW f \in Frames, Receive(f), status # "full"
  PROVE  \E o \in Positions : Laid(o)'
<1>1. /\ size \in Int /\ held \in Seq(Frames) /\ Len(held) \in Nat /\ bottom \in Cells
      /\ top = At(bottom, size)
  BY HeldFrames, Zenon DEF TypeOK, Ready
<1>2. /\ 0 <= drop /\ drop <= size /\ size <= BufSize /\ size + (Longest + 3) <= BufSize
      /\ drop \in Int
  BY Fits DEF TypeOK
<1>3. f \in Seq(Nat) /\ Len(f) \in Nat /\ Len(f) <= Longest
  OBVIOUS
<1>4. /\ \A q \in 0 .. size - 1 : buf'[At(bottom, q)] = buf[At(bottom, q)]
      /\ Stored(buf', bottom, size, f, TRUE) /\ size' = size + (Len(f) + 3)
  <2>1. 0 <= size
    BY <1>1, <1>2
  <2>2. QED BY <1>1, <1>2, <2>1, Written, Zenon
<1>5. /\ held' = Append(held, f) /\ bottom' = bottom /\ pc' = pc /\ drop' = drop
  BY DEF Receive
<1>6. /\ Len(held') = Len(held) + 1 /\ held'[Len(held) + 1] = f
      /\ \A i \in 1 .. Len(held) : held'[i] = held[i]
  BY <1>1, <1>5, AppendProperties
<1>7. PICK n \in Nat : n = Len(held)
  BY <1>1
<1>8. /\ off[1] = drop /\ off[n + 1] = size
      /\ \A i, j \in 1 .. n + 1 : i <= j => off[i] <= off[j]
      /\ \A i \in 1 .. n :
           /\ off[i + 1] = off[i] + (Len(held[i]) + 3)
           /\ size - off[i] <= Room(n + 1 - i)
           /\ Stored(buf, bottom, off[i], held[i], (i # 1) \/ (pc # "data"))
  BY <1>7 DEF Laid
<1>9. \A i \in Nat \ {0} : off[i] \in Int
  BY DEF Positions
<1>10. size \in Int /\ size' \in Int /\ size <= size' /\ size' - size <= Longest + 3
  BY <1>1, <1>3, <1>4
<1>11. PICK o \in Positions :
         o[n + 2] = size' /\ o[(n + 1) + 1] = size' /\ \A i \in 1 .. n + 1 : o[i] = off[i]
  <2>1. [off EXCEPT ![n + 2] = size'] \in Positions
    BY <1>10 DEF Positions
  <2>2. n + 2 \in Nat \ {0} /\ (n + 1) + 1 = n + 2 /\ \A i \in 1 .. n + 1 : i # n + 2 /\ i \in Nat \ {0}
    OBVIOUS
  <2>3. DOMAIN off = Nat \ {0}
    BY DEF Positions
  <2>4. QED BY <2>1, <2>2, <2>3
<1>12. o[1] = drop' /\ o[Len(held') + 1] = size'
  BY <1>5, <1>6, <1>7, <1>8, <1>11
<1>13. ASSUME NEW i \in 1 .. n + 2, NEW j \in 1 .. n + 2, i <= j
       PROVE  o[i] <= o[j]
  <2>1. CASE j # n + 2
    <3>1. i \in 1 .. n + 1 /\ j \in 1 .. n + 1
      BY <1>13, <2>1
    <3>2. QED BY <1>8, <1>11, <1>13, <3>1
  <2>2. CASE j = n + 2 /\ i # n + 2
    <3>1. i \in 1 .. n + 1 /\ n + 1 \in 1 .. n + 1 /\ i <= n + 1
      BY <2>2
    <3>2. off[i] <= size
      BY <1>8, <3>1
    <3>3. o[i] = off[i] /\ o[j] = size' /\ off[i] \in Int
      BY <1>9, <1>11, <2>2, <3>1
    <3>4. QED BY <1>1, <1>10, <3>2, <3>3
  <2>3. CASE j = n + 2 /\ i = n + 2
    BY <1>11, <1>10, <2>3
  <2>4. QED BY <2>1, <2>2, <2>3
<1>14. ASSUME NEW i \in 1 .. n
       PROVE  /\ o[i + 1] = o[i] + (Len(held'[i]) + 3)
              /\ size' - o[i] <= Room(n + 2 - i)
              /\ Stored(buf', bottom', o[i], held'[i], (i # 1) \/ (pc' # "data"))
  <2>1. /\ i + 1 \in 1 .. n + 1 /\ i \in 1 .. n + 1 /\ 1 \in 1 .. n + 1 /\ n + 1 \in 1 .. n + 1
        /\ i \in Nat \ {0} /\ 1 <= i /\ i + 1 <= n + 1 /\ i \in 1 .. Len(held)
    BY <1>7
  <2>2. /\ held[i] \in Seq(Nat) /\ Len(held[i]) \in Nat /\ held'[i] = held[i]
    BY <1>6, <2>1, HeldFrames
  <2>3. PICK p \in Int : p = off[i]
    BY <1>9, <2>1
  <2>4. o[i] = p /\ o[i + 1] = off[i + 1] /\ off[i + 1] = p + (Len(held[i]) + 3)
    BY <1>8, <1>11, <2>1, <2>3
  <2>5. 0 <= p /\ off[i + 1] <= size
    <3>1. off[1] <= off[i]
      BY <1>8, <2>1
    <3>2. off[i + 1] <= off[n + 1]
      BY <1>8, <2>1
    <3>3. QED BY <1>2, <1>8, <2>3, <3>1, <3>2
  <2>6. size' - p <= Room(n + 2 - i)
    <3>1. n + 1 - i \in Int /\ (n + 1 - i) + 1 = n + 2 - i
      OBVIOUS
    <3>2. Room(n + 1 - i) \in Int /\ Room(n + 2 - i) = Room(n + 1 - i) + (Longest + 3)
      BY <3>1, RoomSteps, Zenon
    <3>3. size - p <= Room(n + 1 - i)
      BY <1>8, <2>3
    <3>4. PICK a \in Int : a = Room(n + 1 - i)
      BY <3>2
    <3>5. Room(n + 2 - i) = a + (Longest + 3) /\ size - p <= a
      BY <3>2, <3>3, <3>4, Zenon
    <3>6. size' - p <= a + (Longest + 3)
      <4>1. size \in Int /\ size' \in Int /\ Longest + 3 \in Int
        BY <1>10, SizeAssumption
      <4>2. size' - size <= Longest + 3 /\ size - p <= a
        BY <1>10, <3>5, Zenon
      <4>3. QED BY <4>1, <4>2, StillFits, Zenon
    <3>7. QED BY <3>5, <3>6, Zenon
  <2>7. Stored(buf', bottom, p, held[i], (i # 1) \/ (pc # "data"))
    <3>1. Stored(buf, bottom, p, held[i], (i # 1) \/ (pc # "data"))
      BY <1>8, <2>3
    <3>2. \A q \in p .. p + 1 + Len(held[i]) : buf'[At(bottom, q)] = buf[At(bottom, q)]
      <4>1. PICK l \in Nat : l = Len(held[i])
        BY <2>2
      <4>2. p + l + 3 <= size
        BY <2>4, <2>5, <4>1
      <4>3. ASSUME NEW q \in p .. p + 1 + l PROVE q \in 0 .. size - 1
        BY <1>1, <2>5, <4>2, <4>3
      <4>4. QED BY <1>4, <4>1, <4>3
    <3>3. p \in p .. p + 1 + Len(held[i])
      BY <2>2
    <3>4. \A q \in p + 1 .. p + 1 + Len(held[i]) : q \in p .. p + 1 + Len(held[i])
      <4>1. PICK l \in Nat : l = Len(held[i])
        BY <2>2
      <4>2. \A q \in p + 1 .. p + 1 + l : q \in p .. p + 1 + l
        OBVIOUS
      <4>3. QED BY <4>1, <4>2
    <3>5. buf'[At(bottom, p)] = buf[At(bottom, p)]
      BY <3>2, <3>3
    <3>6. \A q \in p + 1 .. p + 1 + Len(held[i]) : buf'[At(bottom, q)] = buf[At(bottom, q)]
      BY <3>2, <3>4
    <3>7. QED BY <1>1, <2>2, <3>1, <3>5, <3>6, StaysStored
  <2>8. QED BY <1>5, <2>2, <2>3, <2>4, <2>6, <2>7, Zenon
<1>15. /\ o[(n + 1) + 1] = o[n + 1] + (Len(held'[n + 1]) + 3)
       /\ size' - o[n + 1] <= Room(n + 2 - (n + 1))
       /\ Stored(buf', bottom', o[n + 1], held'[n + 1], (n + 1 # 1) \/ (pc' # "data"))
  <2>1. o[n + 1] = size /\ o[(n + 1) + 1] = size' /\ held'[n + 1] = f
    <3>1. n + 1 \in 1 .. n + 1
      OBVIOUS
    <3>2. QED BY <1>6, <1>7, <1>8, <1>11, <3>1, Zenon
  <2>2. n + 2 - (n + 1) = 1
    OBVIOUS
  <2>3. size' - size <= Room(1)
    BY <1>10, RoomSteps
  <2>4. Stored(buf', bottom, size, f, (n + 1 # 1) \/ (pc' # "data"))
    BY <1>4, Zenon DEF Stored
  <2>5. QED BY <1>4, <1>5, <2>1, <2>2, <2>3, <2>4, Zenon
<1>16. \A i \in 1 .. n + 1 :
         /\ o[i + 1] = o[i] + (Len(held'[i]) + 3)
         /\ size' - o[i] <= Room(n + 2 - i)
         /\ Stored(buf', bottom', o[i], held'[i], (i # 1) \/ (pc' # "data"))
  <2>1. \A i \in 1 .. n + 1 : i \in 1 .. n \/ i = n + 1
    OBVIOUS
  <2>2. QED BY <1>14, <1>15, <2>1, Zenon
<1>17. Len(held') = n + 1 /\ Len(held') + 1 = n + 2
  BY <1>6, <1>7
<1>18. Laid(o)'
  <2>1. \A i, j \in 1 .. Len(held') + 1 : i <= j => o[i] <= o[j]
    BY <1>13, <1>17
  <2>2. \A i \in 1 .. Len(held') :
          /\ o[i + 1] = o[i] + (Len(held'[i]) + 3)
          /\ size' - o[i] <= Room(Len(held') + 1 - i)
          /\ Stored(buf', bottom', o[i], held'[i], (i # 1) \/ (pc' # "data"))
    BY <1>16, <1>17
  <2>3. QED BY <1>12, <2>1, <2>2, Zenon DEF Laid
<1>19. QED BY <1>11, <1>18

\* The header of the first frame is at the bottom.
LEMMA FirstFrame ==
  ASSUME TypeOK, pc # "update" => drop = 0, Ready, NEW off \in Positions, Laid(off),
         pc \in {"scan", "data"}
  PROVE  /\ 1 \in 1 .. Len(held) /\ held # << >> /\ drop = 0 /\ off[1] = 0 /\ size \in Nat
         /\ off[2] = Len(held[1]) + 3 /\ size <= BufSize
         /\ Stored(buf, bottom, 0, held[1], pc = "scan")
<1>1. Len(held) \in Nat /\ size \in Int
  BY HeldFrames DEF TypeOK
<1>2. drop = 0 /\ pc # "update" /\ pc # "test"
  OBVIOUS
<1>3. Counted >= 1
  <2>1. Reading
    BY Zenon DEF Reading
  <2>2. status # "empty"
    BY <1>2, Zenon DEF Ready, StatusFits
  <2>3. QED BY <2>1, <2>2, Zenon DEF Ready, StatusFits
<1>4. Counted = Len(held)
  BY <1>1, <1>2 DEF Counted
<1>5. 1 \in 1 .. Len(held) /\ held # << >>
  BY <1>1, <1>3, <1>4, EmptySeq
<1>6. off[1] = 0 /\ off[1 + 1] = off[1] + (Len(held[1]) + 3)
      /\ Stored(buf, bottom, off[1], held[1], (1 # 1) \/ (pc # "data"))
  BY <1>2, <1>5 DEF Laid
<1>7. Stored(buf, bottom, 0, held[1], pc = "scan")
  <2>1. (pc = "scan") => (pc # "data")
    OBVIOUS
  <2>2. QED BY <1>6, <2>1, Zenon DEF Stored
<1>8. 0 <= size /\ size <= BufSize
  BY <1>2, Fits
<1>9. Len(held[1]) \in Nat
  BY <1>5, HeldFrames
<1>10. off[2] = Len(held[1]) + 3
  BY <1>6, <1>9
<1>11. size \in Nat
  BY <1>1, <1>8
<1>12. QED BY <1>2, <1>5, <1>6, <1>7, <1>8, <1>10, <1>11

LEMMA ScanLaid ==
  ASSUME TypeOK, pc # "update" => drop = 0, Ready, NEW off \in Positions, Laid(off), Scan
  PROVE  /\ \E o \in Positions : Laid(o)'
         /\ pc' = "data" /\ skip' = 1
<1>1. /\ pc = "scan" /\ skip = 0
  BY DEF Scan, Ready, AtHeader
<1>2. /\ 1 \in 1 .. Len(held) /\ off[1] = 0 /\ off[2] = Len(held[1]) + 3 /\ size \in Nat
      /\ size <= BufSize /\ Stored(buf, bottom, 0, held[1], TRUE)
  <2>1. (pc = "scan") = TRUE
    BY <1>1
  <2>2. QED BY <1>1, <2>1, FirstFrame, Zenon
<1>3. /\ buf \in [Cells -> Nat] /\ bottom \in Cells /\ Len(held) \in Nat
  BY HeldFrames, Zenon DEF TypeOK
<1>4. buf' = [buf EXCEPT ![At(bottom, 0)] = 0]
      /\ UNCHANGED <<top, bottom, size, status, listening, drop, out, held, shorts, raced>>
  BY <1>1 DEF Scan
<1>5. pc' = "data" /\ skip' = 1
  <2>1. buf[At(bottom, 0)] = Header
    BY <1>2, Zenon DEF Stored
  <2>2. pc' = "data"
    BY <1>1, <2>1, Zenon DEF Scan
  <2>3. 0 + 1 = 1 /\ 1 % ScanDepth = 1
    BY ModSmall
  <2>4. QED BY <1>1, <2>2, <2>3 DEF Scan
<1>6. ASSUME NEW q \in 1 .. size - 1
      PROVE  buf'[At(bottom, q)] = buf[At(bottom, q)]
  <2>1. q \in Int /\ 0 <= q /\ q < BufSize /\ q # 0 /\ q - 0 = q /\ 0 - 0 = 0 /\ 0 < BufSize
    BY <1>2
  <2>2. At(bottom, q) \in Cells /\ At(bottom, 0) \in Cells
        /\ (At(bottom, q) - At(bottom, 0)) % BufSize = (q - 0) % BufSize
        /\ (At(bottom, 0) - At(bottom, 0)) % BufSize = (0 - 0) % BufSize
    BY <1>3, <2>1, Distance
  <2>3. q % BufSize = q /\ 0 % BufSize = 0
    BY <2>1, ModSmall
  <2>4. At(bottom, q) # At(bottom, 0)
    BY <2>1, <2>2, <2>3, Zenon
  <2>5. QED BY <1>3, <1>4, <2>2, <2>4, Zenon
<1>7. PICK n \in Nat : n = Len(held)
  BY <1>3
<1>8. /\ off[1] = drop /\ off[n + 1] = size
      /\ \A i, j \in 1 .. n + 1 : i <= j => off[i] <= off[j]
      /\ \A i \in 1 .. n :
           /\ off[i + 1] = off[i] + (Len(held[i]) + 3)
           /\ size - off[i] <= Room(n + 1 - i)
           /\ Stored(buf, bottom, off[i], held[i], (i # 1) \/ (pc # "data"))
  BY <1>7 DEF Laid
<1>9. ASSUME NEW i \in 1 .. n
      PROVE  Stored(buf', bottom, off[i], held[i], (i # 1) \/ (pc' # "data"))
  <2>1. held[i] \in Seq(Nat) /\ Len(held[i]) \in Nat /\ Len(held[1]) \in Nat
    BY <1>2, <1>7, HeldFrames
  <2>2. PICK p, l \in Int : p = off[i] /\ l = Len(held[i]) /\ l >= 0
    BY <2>1 DEF Positions
  <2>3. /\ i \in 1 .. n + 1 /\ i + 1 \in 1 .. n + 1 /\ 1 \in 1 .. n + 1 /\ n + 1 \in 1 .. n + 1
        /\ 1 <= i /\ i + 1 <= n + 1
    OBVIOUS
  <2>4. 0 <= p /\ p + (l + 3) <= size
    <3>1. off[1] <= off[i] /\ off[i + 1] <= off[n + 1]
      BY <1>8, <2>3
    <3>2. off[i + 1] = p + (l + 3)
      BY <1>8, <2>2
    <3>3. QED BY <1>2, <1>8, <2>2, <3>1, <3>2
  <2>5. i # 1 => 1 <= p
    <3>1. ASSUME i # 1 PROVE off[2] <= off[i]
      <4>1. 2 \in 1 .. n + 1 /\ 2 <= i
        BY <3>1
      <4>2. QED BY <1>8, <2>3, <4>1
    <3>2. QED BY <1>2, <2>1, <2>2, <3>1
  <2>6. Stored(buf, bottom, p, held[i], (i # 1) \/ (pc # "data"))
    BY <1>8, <2>2
  <2>7. i # 1 => buf'[At(bottom, p)] = buf[At(bottom, p)]
    <3>1. i # 1 => p \in 1 .. size - 1
      BY <1>2, <2>2, <2>4, <2>5
    <3>2. QED BY <1>6, <3>1
  <2>8. \A q \in p + 1 .. p + 1 + l : buf'[At(bottom, q)] = buf[At(bottom, q)]
    <3>1. ASSUME NEW q \in p + 1 .. p + 1 + l PROVE q \in 1 .. size - 1
      <4>1. q \in Int /\ 1 <= q /\ q <= p + 1 + l
        BY <2>2, <2>4
      <4>2. size \in Nat /\ p + (l + 3) <= size
        BY <1>2, <2>4, Zenon
      <4>3. QED BY <4>1, <4>2
    <3>2. QED BY <1>6, <3>1
  <2>9. ((i # 1) \/ (pc' # "data"))
          => ((i # 1) \/ (pc # "data")) /\ buf'[At(bottom, p)] = buf[At(bottom, p)]
    BY <1>1, <1>5, <2>7, Zenon
  <2>10. QED BY <1>3, <2>1, <2>2, <2>6, <2>8, <2>9, StaysStored
<1>10. Laid(off)'
  <2>1. off[1] = drop' /\ off[Len(held') + 1] = size'
    BY <1>4, <1>7, <1>8, Zenon
  <2>2. \A i, j \in 1 .. Len(held') + 1 : i <= j => off[i] <= off[j]
    BY <1>4, <1>7, <1>8
  <2>3. \A i \in 1 .. Len(held') :
          /\ off[i + 1] = off[i] + (Len(held'[i]) + 3)
          /\ size' - off[i] <= Room(Len(held') + 1 - i)
          /\ Stored(buf', bottom', off[i], held'[i], (i # 1) \/ (pc' # "data"))
    <3>1. held' = held /\ size' = size /\ bottom' = bottom /\ Len(held) = n
      BY <1>4, <1>7
    <3>2. QED BY <1>8, <1>9, <3>1, Zenon
  <2>4. QED BY <2>1, <2>2, <2>3, Zenon DEF Laid
<1>11. QED BY <1>5, <1>10

\* The first frame is handed over whole, and the others stay.
LEMMA ReadLaid ==
  ASSUME TypeOK, pc # "update" => drop = 0, Ready, NEW off \in Positions, Laid(off), ReadData
  PROVE  /\ \E o \in Positions : Laid(o)'
         /\ held # << >> /\ held' = Tail(held) /\ out' = Head(held)
         /\ drop' <= Longest + 3 /\ pc' = "update"
<1>1. /\ pc = "data" /\ skip = 1
  BY DEF ReadData, Ready, AtHeader
<1>2. /\ 1 \in 1 .. Len(held) /\ held # << >> /\ off[1] = 0 /\ off[2] = Len(held[1]) + 3
      /\ size \in Nat /\ size <= BufSize /\ Stored(buf, bottom, 0, held[1], FALSE)
  <2>1. (pc = "scan") = FALSE
    BY <1>1
  <2>2. QED BY <1>1, <2>1, FirstFrame, Zenon
<1>3. /\ buf \in [Cells -> Nat] /\ bottom \in Cells /\ Len(held) \in Nat /\ held \in Seq(Frames)
  BY HeldFrames, Zenon DEF TypeOK
<1>4. PICK len \in Nat : len = Len(held[1]) /\ len <= Longest
  BY <1>2, HeldFrames
<1>5. held[1] \in Seq(Nat)
  BY <1>2, HeldFrames
<1>6. buf[At(bottom, 0 + 1)] = len /\ \A k \in 1 .. len : buf[At(bottom, 0 + 1 + k)] = held[1][k]
  BY <1>2, <1>4, Zenon DEF Stored
<1>7. buf[At(bottom, 1)] = len /\ \A k \in 1 .. len : buf[At(bottom, 1 + k)] = held[1][k]
  BY <1>6
<1>8. /\ pc' = "update"
      /\ out' = [i \in 1 .. len |-> buf[At(bottom, 1 + i)]]
      /\ buf' = [i \in Cells |-> IF (i - bottom - 1) % BufSize <= len THEN 0 ELSE buf[i]]
      /\ drop' = len + 1 + 2 /\ held' = Tail(held)
      /\ UNCHANGED <<top, bottom, size, status, listening, skip, shorts, raced>>
  BY <1>1, <1>2, <1>7 DEF ReadData, DropBytes
<1>9. out' = Head(held)
  <2>1. held[1] = [i \in 1 .. len |-> held[1][i]]
    <3>1. ASSUME NEW g \in Seq(Nat), Len(g) = len PROVE g = [i \in 1 .. len |-> g[i]]
      <4>1. DOMAIN g = 1 .. len /\ g = [i \in DOMAIN g |-> g[i]]
        BY <3>1
      <4>2. QED BY <4>1
    <3>2. QED BY <1>4, <1>5, <3>1
  <2>2. out' = [i \in 1 .. len |-> held[1][i]]
    BY <1>7, <1>8
  <2>3. Head(held) = held[1]
    BY <1>2, <1>3, HeadTailProperties
  <2>4. QED BY <2>1, <2>2, <2>3
<1>10. drop' = len + 3 /\ drop' <= Longest + 3
  BY <1>4, <1>8
<1>11. ASSUME NEW q \in len + 3 .. size - 1
       PROVE  buf'[At(bottom, q)] = buf[At(bottom, q)]
  <2>1. q \in Int /\ q - 1 \in Int /\ 0 <= q - 1 /\ q - 1 < BufSize /\ ~(q - 1 <= len)
    BY <1>2
  <2>2. At(bottom, q) \in Cells /\ (At(bottom, q) - bottom - 1) % BufSize = (q - 1) % BufSize
    <3>1. 1 \in Int
      OBVIOUS
    <3>2. QED BY <1>3, <2>1, <3>1, Distance, Zenon
  <2>3. (q - 1) % BufSize = q - 1
    BY <2>1, ModSmall
  <2>4. ~((At(bottom, q) - bottom - 1) % BufSize <= len)
    BY <2>1, <2>2, <2>3, Zenon
  <2>5. QED BY <1>8, <2>2, <2>4, Zenon
<1>12. PICK n \in Nat : n = Len(held) /\ n # 0
  BY <1>2, <1>3
<1>13. /\ off[n + 1] = size
       /\ \A i, j \in 1 .. n + 1 : i <= j => off[i] <= off[j]
       /\ \A i \in 1 .. n :
            /\ off[i + 1] = off[i] + (Len(held[i]) + 3)
            /\ size - off[i] <= Room(n + 1 - i)
            /\ Stored(buf, bottom, off[i], held[i], (i # 1) \/ (pc # "data"))
  BY <1>12 DEF Laid
<1>14. /\ Len(held') = n - 1 /\ \A i \in 1 .. n - 1 : held'[i] = held[i + 1]
  <2>1. /\ Len(Tail(held)) = Len(held) - 1
        /\ \A i \in 1 .. Len(Tail(held)) : Tail(held)[i] = held[i + 1]
    BY <1>2, <1>3, HeadTailProperties
  <2>2. QED BY <1>8, <1>12, <2>1
<1>15. PICK o \in Positions : \A i \in Nat \ {0} : o[i] = off[i + 1]
  <2>1. [i \in Nat \ {0} |-> off[i + 1]] \in Positions
    BY DEF Positions
  <2>2. QED BY <2>1
<1>16. ASSUME NEW i \in 1 .. n - 1
       PROVE  Stored(buf', bottom, o[i], held[i + 1], TRUE)
  <2>1. i + 1 \in 1 .. n /\ i \in Nat \ {0} /\ i + 1 \in 1 .. Len(held) /\ i + 1 # 1
    BY <1>12
  <2>2. held[i + 1] \in Seq(Nat) /\ Len(held[i + 1]) \in Nat
    BY <2>1, HeldFrames
  <2>3. PICK p, l \in Int : p = off[i + 1] /\ l = Len(held[i + 1]) /\ l >= 0
    BY <2>1, <2>2 DEF Positions
  <2>4. o[i] = p
    BY <1>15, <2>1, <2>3
  <2>5. /\ 2 \in 1 .. n + 1 /\ i + 1 \in 1 .. n + 1 /\ (i + 1) + 1 \in 1 .. n + 1 /\ n + 1 \in 1 .. n + 1
        /\ 2 <= i + 1 /\ (i + 1) + 1 <= n + 1
    OBVIOUS
  <2>6. len + 3 <= p /\ p + (l + 3) <= size
    <3>1. off[2] <= off[i + 1] /\ off[(i + 1) + 1] <= off[n + 1]
      BY <1>13, <2>5
    <3>2. off[(i + 1) + 1] = p + (l + 3)
      BY <1>13, <2>1, <2>3
    <3>3. QED BY <1>2, <1>4, <1>13, <2>3, <3>1, <3>2
  <2>7. Stored(buf, bottom, p, held[i + 1], TRUE)
    <3>1. Stored(buf, bottom, off[i + 1], held[i + 1], (i + 1 # 1) \/ (pc # "data"))
      BY <1>13, <2>1, Zenon
    <3>2. QED BY <2>1, <2>3, <3>1, Zenon DEF Stored
  <2>8. \A q \in p .. p + 1 + l : buf'[At(bottom, q)] = buf[At(bottom, q)]
    <3>1. ASSUME NEW q \in p .. p + 1 + l PROVE q \in len + 3 .. size - 1
      <4>1. q \in Int /\ len + 3 <= q /\ q <= p + 1 + l
        BY <1>2, <2>3, <2>6
      <4>2. len \in Int /\ size \in Int /\ p + (l + 3) <= size
        BY <1>2, <2>6
      <4>3. QED BY <4>1, <4>2
    <3>2. QED BY <1>11, <3>1
  <2>9. p \in p .. p + 1 + l /\ \A q \in p + 1 .. p + 1 + l : q \in p .. p + 1 + l
    BY <2>3
  <2>10. buf'[At(bottom, p)] = buf[At(bottom, p)]
         /\ \A q \in p + 1 .. p + 1 + l : buf'[At(bottom, q)] = buf[At(bottom, q)]
    BY <2>8, <2>9
  <2>11. TRUE => TRUE /\ buf'[At(bottom, p)] = buf[At(bottom, p)]
    BY <2>10
  <2>12. Stored(buf', bottom, p, held[i + 1], TRUE)
    <3>1. \A q \in p + 1 .. p + 1 + Len(held[i + 1]) : buf'[At(bottom, q)] = buf[At(bottom, q)]
      BY <2>3, <2>10
    <3>2. p \in Int
      BY <2>3
    <3>3. QED BY <1>3, <2>2, <2>7, <2>11, <3>1, <3>2, StaysStored, Zenon
  <2>13. QED BY <2>4, <2>12
<1>17. Laid(o)'
  <2>1. Len(held') + 1 = n
    BY <1>12, <1>14
  <2>2. o[1] = drop' /\ o[Len(held') + 1] = size'
    <3>1. o[1] = off[2] /\ o[n] = off[n + 1]
      <4>1. o[1] = off[1 + 1] /\ o[n] = off[n + 1]
        BY <1>12, <1>15
      <4>2. QED BY <4>1
    <3>2. QED BY <1>2, <1>4, <1>8, <1>10, <1>13, <2>1, <3>1
  <2>3. ASSUME NEW i \in 1 .. n, NEW j \in 1 .. n, i <= j PROVE o[i] <= o[j]
    <3>1. i + 1 \in 1 .. n + 1 /\ j + 1 \in 1 .. n + 1 /\ i + 1 <= j + 1
      BY <2>3
    <3>2. i \in Nat \ {0} /\ j \in Nat \ {0}
      OBVIOUS
    <3>3. off[i + 1] <= off[j + 1]
      BY <1>13, <3>1
    <3>4. QED BY <1>15, <3>2, <3>3
  <2>4. ASSUME NEW i \in 1 .. n - 1
        PROVE  /\ o[i + 1] = o[i] + (Len(held'[i]) + 3)
               /\ size' - o[i] <= Room(n - i)
               /\ Stored(buf', bottom', o[i], held'[i], (i # 1) \/ (pc' # "data"))
    <3>1. i + 1 \in 1 .. n /\ i \in Nat \ {0} /\ i + 1 \in Nat \ {0} /\ n + 1 - (i + 1) = n - i
      OBVIOUS
    <3>2. o[i] = off[i + 1] /\ o[i + 1] = off[(i + 1) + 1] /\ held'[i] = held[i + 1]
      BY <1>14, <1>15, <3>1
    <3>3. off[(i + 1) + 1] = off[i + 1] + (Len(held[i + 1]) + 3)
          /\ size - off[i + 1] <= Room(n + 1 - (i + 1))
      BY <1>13, <3>1
    <3>4. Stored(buf', bottom, o[i], held[i + 1], (i # 1) \/ (pc' # "data"))
      BY <1>16, Zenon DEF Stored
    <3>5. o[i + 1] = o[i] + (Len(held'[i]) + 3) /\ size' - o[i] <= Room(n - i)
      BY <1>8, <3>1, <3>2, <3>3, Zenon
    <3>6. QED BY <1>8, <3>2, <3>4, <3>5, Zenon
  <2>5. \A i, j \in 1 .. Len(held') + 1 : i <= j => o[i] <= o[j]
    BY <2>1, <2>3
  <2>6. \A i \in 1 .. Len(held') :
          /\ o[i + 1] = o[i] + (Len(held'[i]) + 3)
          /\ size' - o[i] <= Room(Len(held') + 1 - i)
          /\ Stored(buf', bottom', o[i], held'[i], (i # 1) \/ (pc' # "data"))
    <3>1. \A i \in 1 .. n - 1 :
            /\ o[i + 1] = o[i] + (Len(held'[i]) + 3)
            /\ size' - o[i] <= Room(n - i)
            /\ Stored(buf', bottom', o[i], held'[i], (i # 1) \/ (pc' # "data"))
      BY <2>4
    <3>2. Len(held') = n - 1
      BY <1>14
    <3>3. QED BY <2>1, <3>1, <3>2
  <2>7. QED BY <2>2, <2>5, <2>6, Zenon DEF Laid
<1>18. QED BY <1>2, <1>8, <1>9, <1>10, <1>15, <1>17

\* What was read is taken off; the others lie where they lay.
LEMMA UpdateLaid ==
  ASSUME TypeOK, Ready, NEW off \in Positions, Laid(off), UpdateBottom
  PROVE  /\ \E o \in Positions : Laid(o)'
         /\ top' = At(bottom', size')
<1>1. /\ pc = "update" /\ pc' = "switch"
      /\ size' = size - drop /\ bottom' = At(bottom, drop) /\ drop' = 0
      /\ UNCHANGED <<buf, top, status, listening, skip, out, held, shorts, raced>>
  BY DEF UpdateBottom
<1>2. /\ bottom \in Cells /\ size \in Int /\ drop \in Int /\ Len(held) \in Nat
      /\ top = At(bottom, size)
  BY HeldFrames DEF TypeOK, Ready
<1>3. top' = At(bottom', size')
  <2>1. size - drop \in Int /\ drop + (size - drop) = size
    BY <1>2
  <2>2. At(At(bottom, drop), size - drop) = At(bottom, drop + (size - drop))
    BY <1>2, <2>1, Distance
  <2>3. QED BY <1>1, <1>2, <2>1, <2>2, Zenon
<1>4. PICK n \in Nat : n = Len(held)
  BY <1>2
<1>5. /\ off[1] = drop /\ off[n + 1] = size
      /\ \A i, j \in 1 .. n + 1 : i <= j => off[i] <= off[j]
      /\ \A i \in 1 .. n :
           /\ off[i + 1] = off[i] + (Len(held[i]) + 3)
           /\ size - off[i] <= Room(n + 1 - i)
           /\ Stored(buf, bottom, off[i], held[i], (i # 1) \/ (pc # "data"))
  BY <1>4 DEF Laid
<1>6. PICK o \in Positions : \A i \in Nat \ {0} : o[i] = off[i] - drop
  <2>1. [i \in Nat \ {0} |-> off[i] - drop] \in Positions
    BY <1>2 DEF Positions
  <2>2. QED BY <2>1
<1>7. ASSUME NEW i \in 1 .. n
      PROVE  /\ o[i + 1] = o[i] + (Len(held[i]) + 3)
             /\ size' - o[i] <= Room(n + 1 - i)
             /\ Stored(buf, bottom', o[i], held[i], (i # 1) \/ (pc' # "data"))
  <2>1. i \in Nat \ {0} /\ i + 1 \in Nat \ {0} /\ i \in 1 .. Len(held)
    BY <1>4
  <2>2. held[i] \in Seq(Nat) /\ Len(held[i]) \in Nat
    BY <2>1, HeldFrames
  <2>3. PICK p, p2, l \in Int : p = off[i] /\ p2 = off[i + 1] /\ l = Len(held[i])
    BY <2>1, <2>2 DEF Positions
  <2>4. o[i] = p - drop /\ o[i + 1] = p2 - drop /\ p2 = p + (l + 3)
    BY <1>5, <1>6, <2>1, <2>3
  <2>5. size' - (p - drop) = size - p
    BY <1>1, <1>2, <2>3
  <2>6. size' - o[i] <= Room(n + 1 - i)
    BY <1>5, <2>3, <2>4, <2>5
  <2>7. (p2 - drop) = (p - drop) + (l + 3)
    <3>1. drop \in Int /\ p2 = p + (l + 3)
      BY <1>2, <2>4, Zenon
    <3>2. QED BY <3>1
  <2>8. Stored(buf, bottom, p, held[i], TRUE)
    <3>1. Stored(buf, bottom, p, held[i], (i # 1) \/ (pc # "data"))
      BY <1>5, <2>3
    <3>2. QED BY <1>1, <3>1 DEF Stored
  <2>9. Stored(buf, At(bottom, drop), p - drop, held[i], TRUE)
    BY <1>2, <2>2, <2>3, <2>8, StoredFrom
  <2>10. Stored(buf, bottom', o[i], held[i], (i # 1) \/ (pc' # "data"))
    BY <1>1, <2>4, <2>9, Zenon DEF Stored
  <2>11. QED BY <2>3, <2>4, <2>6, <2>7, <2>10
<1>8. Laid(o)'
  <2>1. o[1] = drop' /\ o[n + 1] = size'
    <3>1. o[1] = off[1] - drop /\ o[n + 1] = off[n + 1] - drop
      BY <1>6
    <3>2. QED BY <1>1, <1>2, <1>5, <3>1
  <2>2. ASSUME NEW i \in 1 .. n + 1, NEW j \in 1 .. n + 1, i <= j PROVE o[i] <= o[j]
    <3>1. i \in Nat \ {0} /\ j \in Nat \ {0} /\ off[i] <= off[j]
      BY <1>5, <2>2
    <3>2. off[i] \in Int /\ off[j] \in Int /\ o[i] = off[i] - drop /\ o[j] = off[j] - drop
      BY <1>6, <3>1 DEF Positions
    <3>3. QED BY <1>2, <3>1, <3>2
  <2>3. o[1] = drop' /\ o[Len(held') + 1] = size'
    BY <1>1, <1>4, <2>1, Zenon
  <2>4. \A i, j \in 1 .. Len(held') + 1 : i <= j => o[i] <= o[j]
    BY <1>1, <1>4, <2>2
  <2>5. \A i \in 1 .. Len(held') :
          /\ o[i + 1] = o[i] + (Len(held'[i]) + 3)
          /\ size' - o[i] <= Room(Len(held') + 1 - i)
          /\ Stored(buf', bottom', o[i], held'[i], (i # 1) \/ (pc' # "data"))
    BY <1>1, <1>4, <1>7
  <2>6. QED BY <2>3, <2>4, <2>5, Zenon DEF Laid
<1>9. QED BY <1>3, <1>6, <1>8

LEMMA ReceiveReady ==
  ASSUME TypeOK, pc # "update" => drop = 0, Ready, NEW f \in Frames, Receive(f),
         pc \notin {"again", "empty"}
  PROVE  Ready'
<1>1. PICK off \in Positions : Laid(off)
  BY Zenon DEF Ready
<1>2. /\ 0 <= drop /\ drop <= size /\ (held = << >> <=> size = drop)
      /\ Counted \in Nat /\ size <= Room(Counted)
      /\ (status # "full" => size + (Longest + 3) <= BufSize)
  BY <1>1, Fits
<1>3. /\ size \in Int /\ drop \in Int /\ shorts \in 0 .. MaxShort /\ Len(held) \in Nat
      /\ held \in Seq(Frames) /\ status \in {"empty", "using", "full"}
  BY HeldFrames DEF TypeOK
<1>4. /\ status # "full" /\ held' = Append(held, f)
      /\ status' = WriteStatus(status, size')
      /\ shorts' = shorts + (IF Len(f) < Longest THEN 1 ELSE 0)
      /\ UNCHANGED <<bottom, listening, pc, skip, drop, out>>
  BY Zenon DEF Receive
<1>5. Len(f) \in Nat /\ Len(f) \in Shortest .. Longest
  OBVIOUS
<1>6. size' = size + (Len(f) + 3) /\ top' = At(bottom, size')
  <2>1. 0 <= size /\ size + (Longest + 3) <= BufSize /\ top = At(bottom, size)
    BY <1>2, <1>3, <1>4 DEF Ready
  <2>2. QED BY <2>1, Written, Zenon
<1>7. \E o \in Positions : Laid(o)'
  BY <1>1, <1>4, ReceiveLaid
<1>8. Counted' = Counted + 1
  <2>1. Len(held') = Len(held) + 1
    BY <1>3, <1>4, AppendProperties
  <2>2. pc' = pc
    BY <1>4
  <2>3. QED BY <1>3, <2>1, <2>2 DEF Counted
<1>9. PICK g \in Nat : g = (IF Len(f) < Longest THEN Longest - Shortest ELSE 0)
  <2>1. Longest - Shortest \in Nat /\ 0 \in Nat
    OBVIOUS
  <2>2. QED BY <2>1, Zenon
<1>10. Longest - Len(f) <= g
  BY <1>5, <1>9
<1>11. PICK r, r1, s, s1 \in Int :
        /\ r = Room(Counted) /\ r1 = Room(Counted + 1) /\ r1 = r + (Longest + 3)
        /\ s = Shortfall(shorts) /\ s1 = Shortfall(shorts') /\ s1 = s + g
  <2>1. Room(Counted) \in Int /\ Room(Counted + 1) = Room(Counted) + (Longest + 3)
    BY <1>2, RoomSteps
  <2>2. Shortfall(shorts) \in Int /\ Shortfall(shorts + 1) = Shortfall(shorts) + (Longest - Shortest)
    <3>1. shorts \in Int
      BY <1>3
    <3>2. QED BY <3>1, ShortfallSteps
  <2>3. Shortfall(shorts') = Shortfall(shorts) + g
    <3>1. CASE Len(f) < Longest
      <4>1. shorts' = shorts + 1
        BY <1>4, <3>1
      <4>2. QED BY <1>9, <2>2, <3>1, <4>1
    <3>2. CASE ~(Len(f) < Longest)
      <4>1. shorts' = shorts
        BY <1>3, <1>4, <3>2
      <4>2. QED BY <1>9, <2>2, <3>2, <4>1
    <3>3. QED BY <3>1, <3>2
  <2>4. g \in Int
    OBVIOUS
  <2>5. Room(Counted + 1) \in Int /\ Shortfall(shorts') \in Int
    BY <2>1, <2>2, <2>3, <2>4
  <2>6. QED BY <2>1, <2>2, <2>3, <2>5
<1>12. r1 - size' <= s1
  <2>1. r - size <= s
    BY <1>11 DEF Ready, Budget
  <2>2. PICK l \in Int : l = Len(f) /\ Longest - l <= g
    BY <1>5, <1>10
  <2>3. size' = size + (l + 3) /\ r1 = r + (Longest + 3) /\ s1 = s + g
    BY <1>6, <1>11, <2>2
  <2>4. QED BY <1>3, <2>1, <2>2, <2>3
<1>13. 0 <= s1
  <2>1. 0 <= s
    BY <1>3, <1>11, ShortfallSteps
  <2>2. QED BY <1>11, <2>1
<1>14. \/ status = "empty" /\ status' = "using"
       \/ status = "using" /\ status' = "using" /\ size' <= BufSize - PacketSize
       \/ status = "using" /\ status' = "full" /\ size' > BufSize - PacketSize
  <2>1. size' \in Int
    BY <1>3, <1>5, <1>6
  <2>2. QED BY <1>3, <1>4, <2>1 DEF WriteStatus
<1>15. status = "empty" => pc = "test" /\ Counted = 0
  <2>1. status = "empty" => pc = "test" /\ size = 0
    BY Zenon DEF Ready, StatusFits
  <2>2. ASSUME status = "empty" PROVE Counted = 0
    <3>1. pc = "test" /\ size = 0 /\ drop = 0
      BY <2>1, <2>2
    <3>2. held = << >>
      BY <1>2, <3>1
    <3>3. Len(held) = 0
      BY <1>3, <3>2
    <3>4. QED BY <3>1, <3>3 DEF Counted
  <2>3. QED BY <2>1, <2>2
<1>16. PICK w \in {0, Longest + 3} :
         /\ w = (IF Reading THEN Longest + 3 ELSE 0)
         /\ w = (IF Reading' THEN Longest + 3 ELSE 0)
         /\ Reading <=> w = Longest + 3
  <2>1. Reading' <=> Reading
    BY <1>4 DEF Reading
  <2>2. Longest + 3 # 0
    OBVIOUS
  <2>3. QED BY <2>1, <2>2
<1>17. r1 <= (BufSize - PacketSize) + Owed' + s1
  <2>1. CASE status = "empty" /\ status' = "using"
    <3>1. r1 = Longest + 3
      <4>1. Counted + 1 = 1
        BY <1>15, <2>1
      <4>2. QED BY <1>11, <4>1, RoomSteps
    <3>2. Reading'
      BY <1>4, <1>15, <2>1 DEF Reading
    <3>3. Owed' = Longest + 3
      BY <2>1, <3>2 DEF Owed
    <3>4. QED BY <1>13, <3>1, <3>3
  <2>2. CASE status = "using" /\ status' = "using" /\ size' <= BufSize - PacketSize
    <3>1. Owed' = w
      BY <1>16, <2>2 DEF Owed
    <3>2. size' \in Int
      BY <1>3, <1>5, <1>6
    <3>3. r1 <= size' + s1 /\ r1 \in Int /\ s1 \in Int
      <4>1. PICK z, y, t \in Int : z = size' /\ y = r1 /\ t = s1
        BY <1>11, <3>2
      <4>2. y - z <= t => y <= z + t
        OBVIOUS
      <4>3. QED BY <1>11, <1>12, <4>1, <4>2
    <3>4. 0 <= w /\ w \in Int /\ BufSize - PacketSize \in Int
      BY <1>16
    <3>5. PICK z, room \in Int : z = size' /\ room = BufSize - PacketSize
      BY <3>2, <3>4
    <3>6. z <= room /\ r1 <= z + s1
      BY <2>2, <3>3, <3>5
    <3>7. r1 <= room + w + s1
      BY <3>3, <3>4, <3>6
    <3>8. QED BY <3>1, <3>5, <3>7
  <2>3. CASE status = "using" /\ status' = "full" /\ size' > BufSize - PacketSize
    <3>1. Owed' = w + (Longest + 3) /\ Owed = w
      BY <1>16, <2>3 DEF Owed
    <3>2. r <= (BufSize - PacketSize) + Owed + s
      BY <1>11 DEF Ready, Budget
    <3>3. s <= s1
      BY <1>11
    <3>4. r1 = r + (Longest + 3) /\ w \in Int
      BY <1>11, <1>16
    <3>5. QED BY <3>1, <3>2, <3>3, <3>4
  <2>4. QED BY <1>14, <2>1, <2>2, <2>3
<1>18. Budget'
  BY <1>8, <1>11, <1>12, <1>17 DEF Budget
<1>19. StatusFits'
  <2>1. status' # "empty" /\ pc' = pc /\ Counted' = Counted + 1
    BY <1>4, <1>8, <1>14
  <2>2. Counted' >= 1 /\ pc' \notin {"again", "empty"}
    BY <1>2, <2>1
  <2>3. ASSUME status' = "full", Reading' PROVE Counted' >= 2
    <3>1. status = "using" /\ Reading
      BY <1>14, <1>16, <2>3
    <3>2. Counted >= 1
      BY <3>1, Zenon DEF Ready, StatusFits
    <3>3. QED BY <1>2, <2>1, <3>2
  <2>4. status' = "full" => size' > BufSize - PacketSize
    BY <1>14
  <2>5. QED BY <2>1, <2>2, <2>3, <2>4, Zenon DEF StatusFits
<1>20. AtHeader'
  BY <1>4 DEF AtHeader, Ready
<1>21. drop' <= Longest + 3 /\ top' = At(bottom', size')
  BY <1>4, <1>6 DEF Ready
<1>22. QED BY <1>7, <1>18, <1>19, <1>20, <1>21 DEF Ready

LEMMA OpenReady ==
  ASSUME TypeOK, pc # "update" => drop = 0, Open
  PROVE  Ready'
<1>1. /\ pc = "test" /\ drop = 0 /\ pc' = pc /\ drop' = drop /\ skip' = skip
      /\ bottom' = 0 /\ top' = 0 /\ size' = 0 /\ status' = "empty" /\ held' = << >> /\ shorts' = 0
  BY DEF Open
<1>2. Len(held') = 0
  BY <1>1, EmptySeq
<1>3. Counted' = 0 /\ Owed' = Longest + 3
  <2>1. pc' = "test" /\ Reading'
    BY <1>1 DEF Reading
  <2>2. QED BY <1>1, <1>2, <2>1 DEF Counted, Owed
<1>4. Budget'
  <2>1. Room(0) = 0 /\ Shortfall(0) = 0
    BY RoomSteps, ShortfallSteps
  <2>2. Room(Counted') = 0 /\ Shortfall(shorts') = 0 /\ size' = 0
    BY <1>1, <1>3, <2>1
  <2>3. 0 - 0 <= 0 /\ 0 <= (BufSize - PacketSize) + (Longest + 3) + 0
    OBVIOUS
  <2>4. QED BY <1>3, <2>2, <2>3, Zenon DEF Budget
<1>5. \E o \in Positions : Laid(o)'
  <2>1. PICK o \in Positions : \A i \in Nat \ {0} : o[i] = 0
    <3>1. [i \in Nat \ {0} |-> 0] \in Positions
      BY DEF Positions
    <3>2. QED BY <3>1
  <2>2. Laid(o)'
    BY <1>1, <1>2, <2>1 DEF Laid
  <2>3. QED BY <2>2
<1>6. top' = At(bottom', size')
  <2>1. 0 + 0 = 0 /\ 0 % BufSize = 0
    BY ModSmall
  <2>2. QED BY <1>1, <2>1 DEF At
<1>7. StatusFits' /\ AtHeader' /\ drop' <= Longest + 3
  BY <1>1 DEF StatusFits, AtHeader
<1>8. QED BY <1>4, <1>5, <1>6, <1>7 DEF Ready

\* Steps that move neither frames nor cells.
LEMMA QuietReady ==
  ASSUME TypeOK, Ready,
         UNCHANGED <<buf, top, bottom, size, drop, held, shorts>>,
         pc' = pc \/ (pc \notin {"data", "update"} /\ pc' \notin {"data", "update"}),
         Owed <= Owed', StatusFits', AtHeader'
  PROVE  Ready'
<1>1. PICK off \in Positions : Laid(off)
  BY Zenon DEF Ready
<1>2. (pc' # "data") <=> (pc # "data")
  OBVIOUS
<1>3. (pc' = "update") <=> (pc = "update")
  OBVIOUS
<1>4. Laid(off)'
  <2>1. \A i \in 1 .. Len(held') :
          /\ off[i + 1] = off[i] + (Len(held'[i]) + 3)
          /\ size' - off[i] <= Room(Len(held') + 1 - i)
          /\ Stored(buf', bottom', off[i], held'[i], (i # 1) \/ (pc' # "data"))
    <3>1. ASSUME NEW i \in 1 .. Len(held)
          PROVE  Stored(buf, bottom, off[i], held[i], (i # 1) \/ (pc' # "data"))
      BY <1>1, <1>2, Zenon DEF Laid, Stored
    <3>2. \A i \in 1 .. Len(held) :
            off[i + 1] = off[i] + (Len(held[i]) + 3) /\ size - off[i] <= Room(Len(held) + 1 - i)
      BY <1>1, Zenon DEF Laid
    <3>3. held' = held /\ size' = size /\ buf' = buf /\ bottom' = bottom
      OBVIOUS
    <3>4. QED BY <3>1, <3>2, <3>3, Zenon
  <2>2. off[1] = drop' /\ off[Len(held') + 1] = size'
        /\ \A i, j \in 1 .. Len(held') + 1 : i <= j => off[i] <= off[j]
    <3>1. held' = held /\ size' = size /\ drop' = drop
      OBVIOUS
    <3>2. QED BY <1>1, <3>1, Zenon DEF Laid
  <2>3. QED BY <2>1, <2>2, Zenon DEF Laid
<1>5. Counted' = Counted
  <2>1. (IF pc' = "update" THEN 1 ELSE 0) = (IF pc = "update" THEN 1 ELSE 0)
    BY <1>3
  <2>2. held' = held
    OBVIOUS
  <2>3. QED BY <2>1, <2>2, Zenon DEF Counted
<1>6. Budget'
  <2>1. PICK r, s, o, o1 \in Int : r = Room(Counted) /\ s = Shortfall(shorts) /\ o = Owed /\ o1 = Owed'
    <3>1. Counted \in Int /\ shorts \in Int
      BY HeldFrames DEF Counted, TypeOK
    <3>2. Owed \in Int /\ Owed' \in Int
      BY DEF Owed
    <3>3. QED BY <3>1, <3>2, RoomSteps, ShortfallSteps
  <2>2. r - size <= s /\ r <= (BufSize - PacketSize) + o + s
    BY <2>1, Zenon DEF Ready, Budget
  <2>3. r <= (BufSize - PacketSize) + o1 + s
    BY <2>1, <2>2
  <2>4. shorts' = shorts /\ size' = size
    OBVIOUS
  <2>5. QED BY <1>5, <2>1, <2>2, <2>3, <2>4, Zenon DEF Budget
<1>7. top' = At(bottom', size') /\ drop' <= Longest + 3
  BY Zenon DEF Ready
<1>8. QED BY <1>1, <1>4, <1>6, <1>7 DEF Ready

\* What the reader finds out while nothing lies between bottom and top.
LEMMA SizeTells ==
  ASSUME TypeOK, Ready, pc # "update", drop = 0
  PROVE  /\ Counted \in Nat /\ 0 <= size
         /\ size > 0 <=> Counted >= 1
<1>1. PICK off \in Positions : Laid(off)
  BY Zenon DEF Ready
<1>2. /\ 0 <= size /\ (held = << >> <=> size = drop) /\ Counted \in Nat
  BY <1>1, Fits
<1>3. size \in Int /\ Len(held) \in Nat /\ held \in Seq(Frames)
  BY HeldFrames DEF TypeOK
<1>4. Counted = Len(held)
  BY <1>3 DEF Counted
<1>5. held = << >> <=> Len(held) = 0
  BY <1>3, EmptySeq
<1>6. QED BY <1>2, <1>3, <1>4, <1>5

LEMMA DecisionsReady ==
  ASSUME TypeOK, pc # "update" => drop = 0, Ready,
         \/ Close \/ Test \/ SwitchStatus \/ SizePositive \/ SizeZero
         \/ StoreStatus("empty") \/ StoreStatus("using")
  PROVE  /\ Ready'
         /\ UNCHANGED <<held, out, raced, drop>>
<1> USE DEF ring
<1>1. /\ status \in {"empty", "using", "full"} /\ size \in Int
  BY Zenon DEF TypeOK
<1>2. StatusFits /\ AtHeader
  BY Zenon DEF Ready
<1>3. CASE Close
  <2>1. UNCHANGED <<buf, top, bottom, size, status, pc, skip, drop, out, held, shorts, raced>>
    BY <1>3 DEF Close
  <2>2. Counted' = Counted /\ Owed' = Owed /\ (Reading' <=> Reading)
    BY <2>1, Zenon DEF Counted, Owed, Reading
  <2>3. StatusFits' /\ AtHeader'
    BY <1>2, <2>1, <2>2, Zenon DEF StatusFits, AtHeader
  <2>4. Owed <= Owed'
    <3>1. Owed \in Int
      BY DEF Owed
    <3>2. QED BY <2>2, <3>1
  <2>5. QED BY <2>1, <2>3, <2>4, QuietReady
<1>4. CASE Test
  <2>1. /\ pc = "test" /\ pc' = "scan" /\ status # "empty" /\ skip' = 0
        /\ UNCHANGED <<buf, top, bottom, size, status, drop, out, held, shorts, raced>>
    BY <1>4 DEF Test
  <2>2. Reading /\ Reading'
    BY <2>1 DEF Reading
  <2>3. Counted' = Counted
    BY <2>1 DEF Counted
  <2>4. Owed <= Owed'
    BY <2>1, <2>2 DEF Owed
  <2>5. StatusFits' /\ AtHeader'
    BY <1>2, <2>1, <2>2, <2>3 DEF StatusFits, AtHeader
  <2>6. QED BY <2>1, <2>4, <2>5, QuietReady
<1>5. CASE SwitchStatus
  <2>1. /\ pc = "switch" /\ UNCHANGED <<buf, top, bottom, size, status, skip, drop, out, held, shorts, raced>>
    BY <1>5 DEF SwitchStatus
  <2>2. \/ status = "using" /\ pc' = "size"
        \/ status = "full" /\ pc' = "using"
    BY <1>1, <1>2, <1>5, <2>1 DEF SwitchStatus, StatusFits
  <2>3. Counted' = Counted
    BY <2>1, <2>2 DEF Counted
  <2>4. Owed <= Owed'
    BY <2>1, <2>2 DEF Owed, Reading
  <2>5. StatusFits' /\ AtHeader'
    BY <1>2, <2>1, <2>2, <2>3 DEF StatusFits, AtHeader, Reading
  <2>6. QED BY <2>1, <2>2, <2>4, <2>5, QuietReady
<1>6. CASE SizePositive
  <2>1. /\ pc = "size" /\ UNCHANGED <<buf, top, bottom, size, status, skip, drop, out, held, shorts, raced>>
    BY <1>6 DEF SizePositive
  <2>2. Counted \in Nat /\ (size > 0 <=> Counted >= 1)
    BY <2>1, SizeTells
  <2>3. \/ size > 0 /\ pc' = "using"
        \/ ~(size > 0) /\ pc' = "again"
    BY <1>6 DEF SizePositive
  <2>4. Counted' = Counted
    BY <2>1, <2>3 DEF Counted
  <2>5. Owed <= Owed'
    BY <2>1, <2>3 DEF Owed, Reading
  <2>6. (pc' = "using" => Counted' >= 1) /\ (pc' = "again" => Counted' = 0)
    BY <2>2, <2>3, <2>4
  <2>7. status # "empty"
    BY <1>2, <2>1 DEF StatusFits
  <2>8. StatusFits' /\ AtHeader'
    BY <2>1, <2>3, <2>6, <2>7 DEF StatusFits, AtHeader, Reading
  <2>9. QED BY <2>1, <2>3, <2>5, <2>8, QuietReady
<1>7. CASE SizeZero
  <2>1. pc = "again"
    BY <1>7 DEF SizeZero
  <2>2. Counted = 0 /\ status # "empty"
    BY <1>2, <2>1 DEF StatusFits
  <2>3. size = 0
    <3>1. 0 <= size /\ (size > 0 <=> Counted >= 1)
      BY <2>1, SizeTells
    <3>2. QED BY <1>1, <2>2, <3>1
  <2>4. pc' = "empty" /\ UNCHANGED <<buf, top, bottom, size, status, skip, drop, out, held, shorts, raced>>
    BY <1>7, <2>3 DEF SizeZero
  <2>5. Counted' = 0
    BY <2>1, <2>2, <2>4 DEF Counted
  <2>6. Owed <= Owed'
    BY <2>1, <2>4 DEF Owed, Reading
  <2>7. StatusFits' /\ AtHeader'
    BY <2>2, <2>4, <2>5 DEF StatusFits, AtHeader, Reading
  <2>8. QED BY <2>1, <2>4, <2>6, <2>7, QuietReady
<1>8. CASE StoreStatus("empty")
  <2>1. /\ pc = "empty" /\ pc' = "test" /\ status' = "empty"
        /\ UNCHANGED <<buf, top, bottom, size, skip, drop, out, held, shorts, raced>>
    BY <1>8 DEF StoreStatus
  <2>2. Counted = 0
    BY <1>2, <2>1 DEF StatusFits
  <2>3. size = 0
    <3>1. 0 <= size /\ (size > 0 <=> Counted >= 1)
      BY <2>1, SizeTells
    <3>2. QED BY <1>1, <2>2, <3>1
  <2>4. Owed <= Owed'
    BY <2>1 DEF Owed, Reading
  <2>5. StatusFits' /\ AtHeader'
    BY <2>1, <2>3 DEF StatusFits, AtHeader, Reading
  <2>6. QED BY <2>1, <2>4, <2>5, QuietReady
<1>9. CASE StoreStatus("using")
  <2>1. /\ pc = "using" /\ pc' = "test" /\ status' = "using"
        /\ UNCHANGED <<buf, top, bottom, size, skip, drop, out, held, shorts, raced>>
    BY <1>9 DEF StoreStatus
  <2>2. Counted >= 1
    BY <1>2, <2>1 DEF StatusFits
  <2>3. Counted' = Counted
    BY <2>1 DEF Counted
  <2>4. Owed <= Owed'
    BY <2>1 DEF Owed, Reading
  <2>5. StatusFits' /\ AtHeader'
    BY <2>1, <2>2, <2>3 DEF StatusFits, AtHeader, Reading
  <2>6. QED BY <2>1, <2>4, <2>5, QuietReady
<1>10. QED BY <1>3, <1>4, <1>5, <1>6, <1>7, <1>8, <1>9

LEMMA ScanReady ==
  ASSUME TypeOK, pc # "update" => drop = 0, Ready, Scan
  PROVE  Ready' /\ UNCHANGED <<held, out, raced, drop>>
<1>1. PICK off \in Positions : Laid(off)
  BY Zenon DEF Ready
<1>2. (\E o \in Positions : Laid(o)') /\ pc' = "data" /\ skip' = 1
  BY <1>1, ScanLaid
<1>3. pc = "scan" /\ UNCHANGED <<top, bottom, size, status, drop, out, held, shorts, raced>>
  BY DEF Scan
<1>4. Counted' = Counted /\ Owed' = Owed /\ Reading /\ Reading'
  <2>1. Reading /\ Reading'
    BY <1>2, <1>3 DEF Reading
  <2>2. QED BY <1>2, <1>3, <2>1 DEF Counted, Owed
<1>5. Budget'
  BY <1>3, <1>4, Zenon DEF Ready, Budget
<1>6. StatusFits'
  BY <1>2, <1>3, <1>4 DEF Ready, StatusFits
<1>7. AtHeader'
  BY <1>2 DEF AtHeader
<1>8. top' = At(bottom', size') /\ drop' <= Longest + 3
  BY <1>3, Zenon DEF Ready
<1>9. QED BY <1>2, <1>3, <1>5, <1>6, <1>7, <1>8 DEF Ready

LEMMA ReadReady ==
  ASSUME TypeOK, pc # "update" => drop = 0, Ready, ReadData
  PROVE  /\ Ready' /\ raced' = raced
         /\ held # << >> /\ held' = Tail(held) /\ out' = Head(held)
<1>1. PICK off \in Positions : Laid(off)
  BY Zenon DEF Ready
<1>2. /\ \E o \in Positions : Laid(o)'
      /\ held # << >> /\ held' = Tail(held) /\ out' = Head(held)
      /\ drop' <= Longest + 3 /\ pc' = "update"
  BY <1>1, ReadLaid
<1>3. pc = "data" /\ UNCHANGED <<top, bottom, size, status, skip, shorts, raced>>
  BY DEF ReadData
<1>4. Counted' = Counted /\ Owed' = Owed /\ Reading /\ Reading'
  <2>1. Reading /\ Reading'
    BY <1>2, <1>3 DEF Reading
  <2>2. held \in Seq(Frames) /\ Len(held) \in Nat
    BY HeldFrames DEF TypeOK
  <2>3. Len(held') = Len(held) - 1
    BY <1>2, <2>2, HeadTailProperties
  <2>4. Counted' = Counted
    BY <1>2, <1>3, <2>2, <2>3 DEF Counted
  <2>5. QED BY <1>3, <2>1, <2>4 DEF Owed
<1>5. Budget'
  BY <1>3, <1>4, Zenon DEF Ready, Budget
<1>6. StatusFits'
  BY <1>2, <1>3, <1>4 DEF Ready, StatusFits
<1>7. AtHeader'
  BY <1>2 DEF AtHeader
<1>8. top' = At(bottom', size')
  BY <1>3, Zenon DEF Ready
<1>9. QED BY <1>2, <1>3, <1>5, <1>6, <1>7, <1>8 DEF Ready

LEMMA UpdateReady ==
  ASSUME TypeOK, Ready, UpdateBottom
  PROVE  Ready' /\ UNCHANGED <<held, out, raced>> /\ drop' = 0
<1>1. PICK off \in Positions : Laid(off)
  BY Zenon DEF Ready
<1>2. (\E o \in Positions : Laid(o)') /\ top' = At(bottom', size')
  BY <1>1, UpdateLaid
<1>3. /\ pc = "update" /\ pc' = "switch" /\ size' = size - drop /\ drop' = 0
      /\ UNCHANGED <<status, skip, out, held, shorts, raced>>
  BY DEF UpdateBottom
<1>4. size \in Int /\ drop \in Int /\ Len(held) \in Nat /\ shorts \in Int
  BY HeldFrames DEF TypeOK
<1>5. PICK c \in Nat : Counted' = c /\ Counted = c + 1
  <2>1. Counted' = Len(held) /\ Counted = Len(held) + 1
    BY <1>3, <1>4 DEF Counted
  <2>2. QED BY <1>4, <2>1
<1>6. Owed = Owed' + (Longest + 3) /\ Owed' \in Int
  BY <1>3 DEF Owed, Reading
<1>7. Budget'
  <2>1. PICK r, r1, s, o1 \in Int :
          /\ r = Room(Counted) /\ r1 = Room(Counted') /\ r = r1 + (Longest + 3)
          /\ s = Shortfall(shorts) /\ o1 = Owed'
    <3>1. Room(c) \in Int /\ Room(c + 1) = Room(c) + (Longest + 3) /\ Room(c + 1) \in Int
      <4>1. c \in Int /\ c + 1 \in Int
        OBVIOUS
      <4>2. QED BY <4>1, RoomSteps, Zenon
    <3>2. Shortfall(shorts) \in Int
      BY <1>4, ShortfallSteps
    <3>3. QED BY <1>5, <1>6, <3>1, <3>2, Zenon
  <2>2. r - size <= s /\ r <= (BufSize - PacketSize) + (o1 + (Longest + 3)) + s
    BY <1>6, <2>1, Zenon DEF Ready, Budget
  <2>3. drop <= Longest + 3
    BY DEF Ready
  <2>4. r1 - (size - drop) <= s /\ r1 <= (BufSize - PacketSize) + o1 + s
    <3>1. PICK z, d, room, l \in Int :
            z = size /\ d = drop /\ room = BufSize - PacketSize /\ l = Longest + 3
      BY <1>4
    <3>2. r = r1 + l /\ r - z <= s /\ r <= room + (o1 + l) + s /\ d <= l
      BY <2>1, <2>2, <2>3, <3>1, Zenon
    <3>3. r1 - (z - d) <= s /\ r1 <= room + o1 + s
      <4>1. /\ r \in Int /\ r1 \in Int /\ s \in Int /\ o1 \in Int
            /\ z \in Int /\ d \in Int /\ room \in Int /\ l \in Int
        BY <1>4, <2>1, <3>1, Zenon
      <4>2. r1 - (z - d) <= s
        BY <3>2, <4>1
      <4>3. r1 <= room + o1 + s
        BY <3>2, <4>1
      <4>4. QED BY <4>2, <4>3
    <3>4. QED BY <3>1, <3>3, Zenon
  <2>5. QED BY <1>3, <2>1, <2>4, Zenon DEF Budget
<1>8. StatusFits' /\ AtHeader'
  <2>1. status # "empty" /\ (status = "full" => Counted >= 2)
    BY <1>3 DEF Ready, StatusFits, Reading
  <2>2. status = "full" => Counted' >= 1
    BY <1>5, <2>1
  <2>3. QED BY <1>3, <2>1, <2>2 DEF StatusFits, Reading, AtHeader
<1>9. QED BY <1>2, <1>3, <1>7, <1>8 DEF Ready

LEMMA InitReady == Init => IInv
<1> SUFFICES ASSUME Init PROVE IInv
  OBVIOUS
<1>1. /\ pc = "test" /\ drop = 0 /\ skip = 0 /\ bottom = 0 /\ top = 0 /\ size = 0
      /\ status = "empty" /\ held = << >> /\ shorts = 0
  BY DEF Init
<1>2. Len(held) = 0
  BY <1>1, EmptySeq
<1>3. Counted = 0 /\ Owed = Longest + 3
  <2>1. Reading
    BY <1>1 DEF Reading
  <2>2. QED BY <1>1, <1>2, <2>1 DEF Counted, Owed
<1>4. Budget
  <2>1. Room(Counted) = 0 /\ Shortfall(shorts) = 0
    BY <1>1, <1>3, RoomSteps, ShortfallSteps
  <2>2. 0 - 0 <= 0 /\ 0 <= (BufSize - PacketSize) + (Longest + 3) + 0
    OBVIOUS
  <2>3. QED BY <1>1, <1>3, <2>1, <2>2, Zenon DEF Budget
<1>5. \E o \in Positions : Laid(o)
  <2>1. PICK o \in Positions : \A i \in Nat \ {0} : o[i] = 0
    <3>1. [i \in Nat \ {0} |-> 0] \in Positions
      BY DEF Positions
    <3>2. QED BY <3>1
  <2>2. Laid(o)
    BY <1>1, <1>2, <2>1 DEF Laid
  <2>3. QED BY <2>2
<1>6. top = At(bottom, size)
  <2>1. 0 + 0 = 0 /\ 0 % BufSize = 0
    BY ModSmall
  <2>2. QED BY <1>1, <2>1 DEF At
<1>7. StatusFits /\ AtHeader /\ drop <= Longest + 3
  BY <1>1 DEF StatusFits, AtHeader
<1>8. Ready
  BY <1>4, <1>5, <1>6, <1>7 DEF Ready
<1>9. QED BY <1>1, <1>8, InitTypes DEF IInv

\* A step keeps the buffer whole, or a frame came at the one wrong moment; and while
\* it is whole the step is one of the queue's.
LEMMA StepReady ==
  ASSUME IInv, [Next]_vars
  PROVE  /\ pc' # "update" => drop' = 0
         /\ raced' = 0 => Ready'
         /\ \/ Queue!Put \/ Queue!Take \/ Queue!Clear \/ Queue!Broken
            \/ UNCHANGED <<held, out, raced>>
<1>1. TypeOK /\ (pc # "update" => drop = 0) /\ (raced = 0 => Ready) /\ raced \in Nat
  BY DEF IInv, TypeOK
<1>2. TypeOK'
  BY <1>1, StepTypes
<1>3. CASE UNCHANGED vars
  <2>1. UNCHANGED <<buf, top, bottom, size, status, pc, skip, drop, out, held, shorts, raced>>
    BY <1>3 DEF vars, ring
  <2>2. ASSUME raced = 0 PROVE Ready'
    <3>1. StatusFits' /\ AtHeader' /\ Owed <= Owed'
      <4>1. Counted' = Counted /\ Owed' = Owed /\ (Reading' <=> Reading)
        BY <2>1, Zenon DEF Counted, Owed, Reading
      <4>2. Owed \in Int
        BY DEF Owed
      <4>3. StatusFits /\ AtHeader
        BY <1>1, <2>2, Zenon DEF Ready
      <4>4. StatusFits' /\ AtHeader'
        BY <2>1, <4>1, <4>3, Zenon DEF StatusFits, AtHeader
      <4>5. QED BY <4>1, <4>2, <4>4
    <3>2. QED BY <1>1, <2>1, <2>2, <3>1, QuietReady
  <2>3. QED BY <1>1, <2>1, <2>2
<1>4. ASSUME NEW f \in Frames, Receive(f)
      PROVE  /\ pc' # "update" => drop' = 0
             /\ raced' = 0 => Ready'
             /\ Queue!Put \/ Queue!Broken
  <2>1. pc' = pc /\ drop' = drop /\ out' = out /\ held' = Append(held, f)
        /\ raced' = IF raced > 0 \/ pc \in {"again", "empty"} THEN raced + 1 ELSE 0
    BY <1>4 DEF Receive
  <2>2. raced' = 0 => raced = 0 /\ pc \notin {"again", "empty"}
    BY <1>1, <2>1
  <2>3. raced' = 0 => Ready'
    BY <1>1, <1>4, <2>2, ReceiveReady
  <2>4. held \in Seq(Frames)
    BY <1>1 DEF TypeOK
  <2>5. Len(held') = Len(held) + 1 /\ held'[Len(held')] = f /\ SubSeq(held', 1, Len(held)) = held
    BY <2>1, <2>4, AppendProperties
  <2>6. CASE raced' = 0
    <3>1. (raced = 0) /\ (raced' = 0)
      BY <2>2, <2>6
    <3>2. QED BY <2>1, <2>3, <2>5, <3>1, <1>1 DEF Queue!Put
  <2>7. CASE raced' # 0
    BY <1>1, <2>1, <2>7 DEF Queue!Broken
  <2>8. QED BY <2>6, <2>7, <1>1, <2>1, <2>3
<1>5. CASE Open
  <2>1. pc' = pc /\ drop' = drop /\ held' = << >> /\ raced' = 0 /\ out' = out
    BY <1>5 DEF Open
  <2>2. Ready'
    BY <1>1, <1>5, OpenReady
  <2>3. Queue!Clear
    BY <2>1 DEF Queue!Clear
  <2>4. QED BY <1>1, <2>1, <2>2, <2>3
<1>6. CASE Close \/ Reader
  <2>1. raced' = raced /\ (pc' # "update" => drop' = 0)
    <3>1. CASE UpdateBottom
      BY <3>1 DEF UpdateBottom
    <3>2. CASE ReadData
      BY <3>2 DEF ReadData
    <3>3. CASE Close \/ Test \/ Scan \/ SwitchStatus \/ SizePositive \/ SizeZero
               \/ StoreStatus("empty") \/ StoreStatus("using")
      <4>1. raced' = raced /\ drop' = drop
        BY <3>3, Zenon DEF Close, Test, Scan, SwitchStatus, SizePositive, SizeZero, StoreStatus
      <4>2. pc # "update"  \/ pc' = pc
        BY <3>3 DEF Close, Test, Scan, SwitchStatus, SizePositive, SizeZero, StoreStatus
      <4>3. QED BY <1>1, <4>1, <4>2
    <3>4. QED BY <1>6, <3>1, <3>2, <3>3 DEF Reader
  <2>2. CASE raced # 0
    <3>1. Queue!Broken
      BY <2>1, <2>2 DEF Queue!Broken
    <3>2. QED BY <2>1, <2>2, <3>1
  <2>3. CASE raced = 0
    <3>1. CASE ReadData
      <4>1. Ready' /\ held # << >> /\ held' = Tail(held) /\ out' = Head(held)
        BY <1>1, <2>3, <3>1, ReadReady
      <4>2. Queue!Take
        BY <2>1, <2>3, <4>1 DEF Queue!Take
      <4>3. QED BY <2>1, <4>1, <4>2
    <3>2. CASE Scan
      BY <1>1, <2>1, <2>3, <3>2, ScanReady
    <3>3. CASE UpdateBottom
      BY <1>1, <2>1, <2>3, <3>3, UpdateReady
    <3>4. CASE Close \/ Test \/ SwitchStatus \/ SizePositive \/ SizeZero
               \/ StoreStatus("empty") \/ StoreStatus("using")
      BY <1>1, <2>1, <2>3, <3>4, DecisionsReady
    <3>5. QED BY <1>6, <3>1, <3>2, <3>3, <3>4 DEF Reader
  <2>4. QED BY <2>2, <2>3
<1>7. QED BY <1>3, <1>4, <1>5, <1>6 DEF Next

LEMMA Invariant == Spec => []IInv
<1>1. IInv /\ [Next]_vars => IInv'
  BY StepReady, StepTypes DEF IInv
<1>2. QED BY InitReady, <1>1, PTL DEF Spec

\* The frame buffer is a queue, see QueueSpec: whatever steps of the interrupt fall
\* between those of the reader, frames come out whole, in order and once, unless one
\* comes between the test of Size and the store of BUF_EMPTY.
THEOREM QueueKept == Spec => QueueSpec
<1>1. Init => Queue!Init
  BY Zenon DEF Init, Queue!Init
<1>2. IInv /\ [Next]_vars => [Queue!Next]_(Queue!pvars)
  <2>1. SUFFICES ASSUME IInv, [Next]_vars PROVE [Queue!Next]_(Queue!pvars)
    OBVIOUS
  <2>2. CASE UNCHANGED <<held, out, raced>>
    BY <2>2 DEF Queue!pvars
  <2>3. CASE Queue!Put \/ Queue!Take \/ Queue!Clear \/ Queue!Broken
    BY <2>3, Zenon DEF Queue!Next
  <2>4. QED BY <2>1, <2>2, <2>3, StepReady
<1>3. QED BY Invariant, <1>1, <1>2, PTL DEF Spec, QueueSpec, Queue!Spec

\* Between two reads the status tells whether frames wait, and only a buffer without
\* room for one more is full, see StatusTracksSize.
THEOREM StatusTrue == Spec => []StatusTracksSize
<1>1. IInv => StatusTracksSize
  <2>1. SUFFICES ASSUME IInv, pc = "test", raced = 0
                 PROVE  /\ status = "empty" <=> size = 0
                        /\ status = "full" => size > BufSize - PacketSize
    BY DEF StatusTracksSize
  <2>2. TypeOK /\ Ready /\ drop = 0 /\ StatusFits
    BY <2>1 DEF IInv, Ready
  <2>3. Counted \in Nat /\ 0 <= size /\ (size > 0 <=> Counted >= 1) /\ size \in Int
    BY <2>1, <2>2, SizeTells DEF TypeOK
  <2>4. Reading
    BY <2>1 DEF Reading
  <2>5. status # "empty" => Counted >= 1
    BY <2>2, <2>4, Zenon DEF StatusFits
  <2>6. status # "empty" => size # 0
    BY <2>3, <2>5
  <2>7. QED BY <2>1, <2>2, <2>6, Zenon DEF StatusFits
<1>2. QED BY <1>1, Invariant, PTL
=============================================================================
